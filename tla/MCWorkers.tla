------------------------------ MODULE MCWorkers ------------------------------
(***************************************************************************)
(* Instances of the worker plane: the registry, and the activity feed.     *)
(* The two share no state, so one rests in its initial state while the     *)
(* other moves.  The feed has a worker and the monitor, beats, and notes   *)
(* aimed at the worker.                                                    *)
(***************************************************************************)
EXTENDS Registry, Feed

CONSTANTS w1, mon

SmallReport ==
    {[kind |-> "active", text |-> "x", target |-> NoTarget],
     [kind |-> "started", text |-> "", target |-> NoTarget],
     [kind |-> "note", text |-> "", target |-> w1]}

Init == RegistryInit /\ FeedInit

\* Bounds on the feed: the monitor posts judgements only, sessions start at time 1, and of the
\* rows posted one may be taken back, while a read is between its queries.  An answer is sent
\* before the table moves on, as nothing in it changes any more.
FeedBound ==
    /\ \A r \in log' : /\ r.worker = mon => r.kind = "note"
                       /\ r.kind = "started" => r.ts = 1
    /\ log \subseteq log' \/ (Cardinality(log) = posted /\ \E g \in Get : view[g].pc = "aimed")
    /\ \A g \in Get : view[g].pc \in {"shown", "unjudged"} => view'[g] # view[g]

Next ==
    \/ posted = 0 /\ view = [g \in Get |-> NoView] /\ RegistryNext /\ UNCHANGED feedVars
    \/ calls = 0 /\ restarts = 0 /\ FeedNext /\ FeedBound /\ UNCHANGED registryVars

Spec == Init /\ [][Next]_<<registryVars, feedVars>> /\ RegistryFairness
=============================================================================
