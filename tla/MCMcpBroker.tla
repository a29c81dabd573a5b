----------------------------- MODULE MCMcpBroker -----------------------------
(***************************************************************************)
(* Instances of McpBroker: two announcements of one worker that name the   *)
(* same server, and one of another worker.                                 *)
(***************************************************************************)
EXTENDS McpBroker, TLC

CONSTANTS a1, a2, b1, s1, s2, base1, base2, r1, r2, h1, h2

MCSame   == [a \in Ann |-> IF a = b1 THEN {b1} ELSE {a1, a2} \cap Ann]
MCBase   == [a \in Ann |-> IF a = b1 THEN base2 ELSE base1]
MCSlugOf == [a \in Ann |-> IF a = b1 THEN s2 ELSE s1]

\* A bound of its own for the operator's other edits of secrets and rules: one, beside the
\* announcements, logins and deletions of secrets.
VARIABLE edits

EditOps == {"post", "put", "import", "postRule", "deleteRule", "resolve"}
EditBegins == \E h \in Slot : call[h] = IdleCall /\ call'[h].op \in EditOps

MCInit == Init /\ edits = 0
MCNext ==
    /\ Next
    /\ IF EditBegins THEN edits = 0 /\ edits' = 1 ELSE UNCHANGED edits
MCSpec == MCInit /\ [][MCNext]_<<vars, edits>>

\* Slots are interchangeable, and so are announcements of the same server.
Symmetry == Permutations({h1, h2}) \cup Permutations({a1, a2})
=============================================================================
