------------------------------ MODULE RequestLog ------------------------------
(***************************************************************************)
(* What the request log promises whoever watches it.  A request that was   *)
(* let in does not end without a row.  A request gets its row once, when   *)
(* it ends, at the front of the log; what leaves a full log is its last    *)
(* row; rows never change places.  A retry is on offer from the start of a *)
(* row or never, and once it is off it stays off: a row that was pushed    *)
(* out may come back to the front, without one.                            *)
(***************************************************************************)
EXTENDS Sequences, Naturals

CONSTANTS Req, Capacity

VARIABLES
    inside,     \* the requests that were let in and have not ended
    over,       \* those that have ended
    shown,      \* those with a row, newest first
    offered     \* those with a row that offers a retry

log == <<inside, over, shown, offered>>

Rows(s) == {s[i] : i \in DOMAIN s}
InFront(q) == SubSeq(<<q>> \o shown, 1, IF Len(shown) < Capacity THEN Len(shown) + 1
                                                                 ELSE Capacity)

Init == inside = {} /\ over = {} /\ shown = <<>> /\ offered = {}

LetIn(q) ==
    /\ q \notin inside \cup over
    /\ inside' = inside \cup {q}
    /\ UNCHANGED <<over, shown, offered>>

\* A request that was not let in may reach no one and leave no trace.
Vanish(q) ==
    /\ q \notin inside \cup over
    /\ over' = over \cup {q}
    /\ UNCHANGED <<inside, shown, offered>>

\* Request q ends; its row offers a retry or not.
Enter(q) ==
    /\ q \notin over
    /\ inside' = inside \ {q} /\ over' = over \cup {q}
    /\ shown' = InFront(q)
    /\ \E offer \in SUBSET {q} : offered' = (offered \cup offer) \cap Rows(shown')

Settle == offered' \subseteq offered /\ UNCHANGED <<inside, over, shown>>

Return(q) ==
    /\ q \in over \ Rows(shown)
    /\ shown' = InFront(q)
    /\ offered' = offered \cap Rows(shown')
    /\ UNCHANGED <<inside, over>>

Next == Settle \/ \E q \in Req : LetIn(q) \/ Vanish(q) \/ Enter(q) \/ Return(q)

Spec == Init /\ [][Next]_log
=============================================================================
