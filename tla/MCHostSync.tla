----------------------------- MODULE MCHostSync -----------------------------
(***************************************************************************)
(* Instances of HostSync for TLC: one worker, one slug, one port.          *)
(***************************************************************************)
EXTENDS HostSync, Sequences, TLC

MCSlug == {"a"}
MCLabel == {"a-1", "plan-a", "a.b"}
MCAutoRouteName == [s \in MCSlug |-> [p \in Port |-> "a-1"]]
MCPlanningRouteName == [s \in MCSlug |-> "plan-a"]
MCPlanPrefixed == {"plan-a"}
MCExposeName == {"plan-a", "a.b"}
MCUnresolvable == {"a.b"}

\* Once something has interfered the properties say nothing more of the run, so it ends.
MCSyncSpec ==
    /\ SyncInit /\ [][SyncNext /\ ~interfered]_syncVars
    /\ WF_syncVars(DaemonStep) /\ WF_syncVars(StreamSend)
=============================================================================
