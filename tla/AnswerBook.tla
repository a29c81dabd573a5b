------------------------------ MODULE AnswerBook ------------------------------
(***************************************************************************)
(* What announcing an MCP server promises a worker.  Each announcement is  *)
(* bound to a placeholder once; every answer is the bound placeholder; the *)
(* file only ever takes over the whole book, and a restart goes back to    *)
(* the file and nowhere else.                                              *)
(***************************************************************************)
CONSTANTS Ann, Token, NoToken

VARIABLES
    told,       \* ann -> its placeholder, NoToken while there is none
    kept,       \* the same in the file
    answered    \* the answers given, <<ann, placeholder>>

book == <<told, kept, answered>>

Init ==
    /\ told = [a \in Ann |-> NoToken] /\ kept = told
    /\ answered = {}

\* One new row may serve several announcements.
Bind ==
    /\ \E A \in SUBSET Ann, t \in Token :
          /\ \A a \in A : told[a] = NoToken
          /\ told' = [a \in Ann |-> IF a \in A THEN t ELSE told[a]]
    /\ UNCHANGED <<kept, answered>>

Answer ==
    /\ \E a \in Ann : told[a] # NoToken /\ answered' = answered \cup {<<a, told[a]>>}
    /\ UNCHANGED <<told, kept>>

Keep == kept' = told /\ UNCHANGED <<told, answered>>

Restart == told' = kept /\ UNCHANGED <<kept, answered>>

Next == Bind \/ Answer \/ Keep \/ Restart

Spec == Init /\ [][Next]_book
=============================================================================
