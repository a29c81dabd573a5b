------------------------------ MODULE MCRoutes ------------------------------
(***************************************************************************)
(* Instances of Routes for TLC: two workers, two slugs, two ports.         *)
(***************************************************************************)
EXTENDS Routes, Sequences, TLC

\* The slug "plan" puts its auto routes among the planning labels: the second port
\* gives the label planning asks for under the slug "2".
MCSlug == {"plan", "2"}
MCLabel == {"plan-1", "plan-2", "2-1", "2-2", "plan-plan"}
MCAutoRouteName == [s \in MCSlug |-> [p \in Port |-> s \o "-" \o ToString(p)]]
MCPlanningRouteName == [s \in MCSlug |-> "plan-" \o s]
MCPlanPrefixed == {"plan-1", "plan-2", "plan-plan"}
MCExposeName == {"2-1", "plan-2"}
Symmetry == Permutations(Worker)
=============================================================================
