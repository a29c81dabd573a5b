------------------------------- MODULE Routes -------------------------------
(***************************************************************************)
(* The ingress routes and the planning inbox (store/ingress.go and the     *)
(* route part of store/store.go) behind the handlers that change them:     *)
(* POST, DELETE and disable of /routes, the ports watcher's report, the    *)
(* planning request with its approval, dismissal and cancellation.         *)
(*                                                                         *)
(* Every store call holds the store's lock to its end and every handler    *)
(* makes one call that touches routes or requests, so a handler is one     *)
(* action.  (A report's second call replaces the worker's hints about      *)
(* ports that are not reachable; only their reader sees them, so they are  *)
(* left out.)  A route list never holds a label twice (KeysUnique), so the *)
(* slice is a set here.                                                    *)
(*                                                                         *)
(* A call changes the state in memory first and then writes all of it to   *)
(* state.json.  When that fails the caller gets an error, what it changed  *)
(* stays in memory, and most calls have not announced it: the event is     *)
(* sent after the save, but for removals, which send it before.            *)
(***************************************************************************)
EXTENDS Integers, FiniteSets

CONSTANTS
    Worker,             \* container names
    Slug,               \* project slugs a report may name
    Port,               \* TCP ports
    Label,              \* route names
    PlanPrefixed,       \* the labels that start with "plan-"
    AutoRouteName,      \* slug -> port -> label, cut at 63 characters
    planningRouteName,  \* slug -> label, cut at 63 characters
    ExposeName,         \* labels the host asks for
    AutoRouteGrace,     \* ticks a route lives without a heartbeat
    MaxAutoRoutesPerWorker,
    ChanCap,            \* capacity of the store's event channels
    MaxSaveFailures,    \* bound: writes of state.json that fail
    MaxCalls            \* bound: handler calls

NeverSeen == -1

Route == [id : Nat \X Nat, name : Label, worker : Worker, port : Port,
          origin : {"expose", "auto", "plan"}, age : NeverSeen .. AutoRouteGrace + 1,
          off : BOOLEAN]
IngressRequest == [id : Nat, worker : Worker, name : Label, port : Port]
Target == [name : Label, worker : Worker, port : Port]

ASSUME RoutesAssumption ==
    /\ Port \subseteq Nat /\ IsFiniteSet(Port)
    /\ PlanPrefixed \subseteq Label /\ ExposeName \subseteq Label
    /\ AutoRouteName \in [Slug -> [Port -> Label]]
    /\ planningRouteName \in [Slug -> PlanPrefixed]
    /\ AutoRouteGrace \in Nat /\ MaxAutoRoutesPerWorker \in Nat
    /\ ChanCap \in Nat \ {0} /\ MaxCalls \in Nat /\ MaxSaveFailures \in Nat

VARIABLES
    routes,     \* the live routes; age is the time since the last heartbeat
    inbox,      \* the pending planning requests
    saved,      \* what state.json holds of the two
    failures,   \* writes of state.json that have failed
    onRoute,    \* undelivered route events
    onIngress,  \* undelivered planning events
    exposed,    \* history: the targets the host exposed and has not deleted
    calls       \* handler calls so far; it also makes the random ids

vars == <<routes, inbox, saved, failures, onRoute, onIngress, exposed, calls>>

Named(l) == {r \in routes : r.name = l}

OneCall == calls < MaxCalls /\ calls' = calls + 1

\* A slip: a full channel takes the event as well.
SentAlways(queued, n) == queued + n

\* The channel keeps ChanCap events and drops the rest.
Sent(queued, n) == IF queued + n > ChanCap THEN ChanCap ELSE queued + n
broadcastRoute(changed) == onRoute' = Sent(onRoute, Cardinality(changed))
broadcastIngress == onIngress' = Sent(onIngress, 1)

\* save: the file takes the whole of the state, or stays as it was.
Saved == saved' = [routes |-> routes', inbox |-> inbox'] /\ UNCHANGED failures
SaveFails == failures < MaxSaveFailures /\ failures' = failures + 1 /\ UNCHANGED saved
Save == Saved \/ SaveFails

\* A save that is skipped when there is nothing to write.
SaveIf(changed) == IF changed THEN Save ELSE UNCHANGED <<saved, failures>>

\* The event is for a change that could be saved.
SaveThenBroadcast(changed) ==
    \/ Saved /\ broadcastRoute(changed)
    \/ SaveFails /\ UNCHANGED onRoute

-----------------------------------------------------------------------------
(* The host's calls.                                                        *)

\* The exposed targets, this label's replaced when the call could be saved.
Expose(target) ==
    {e \in exposed : e.name # target.name} \cup (IF failures' = failures THEN {target} ELSE {})

\* A slip: only the worker's own route is looked for.
AddRoutePerWorker(name, w, p) ==
    /\ OneCall
    /\ UNCHANGED <<inbox, onIngress>>
    /\ LET new == [id |-> <<calls, 0>>, name |-> name, worker |-> w, port |-> p,
                   origin |-> "expose", age |-> NeverSeen, off |-> FALSE]
       IN /\ routes' = {r \in routes : r.name # name \/ r.worker # w} \cup {new}
          /\ SaveThenBroadcast({new})
    /\ exposed' = Expose([name |-> name, worker |-> w, port |-> p])

\* POST /routes: the new route takes the place of the one with its name.
AddRoute(name, w, p) ==
    /\ OneCall
    /\ UNCHANGED <<inbox, onIngress>>
    /\ LET new == [id |-> <<calls, 0>>, name |-> name, worker |-> w, port |-> p,
                   origin |-> "expose", age |-> NeverSeen, off |-> FALSE]
       IN /\ routes' = {r \in routes : r.name # name} \cup {new}
          /\ SaveThenBroadcast({new})
    /\ exposed' = Expose([name |-> name, worker |-> w, port |-> p])

\* DELETE /routes/{id}, announced before it is saved.
DeleteRoute(r) ==
    /\ OneCall
    /\ UNCHANGED <<inbox, onIngress>>
    /\ routes' = {s \in routes : s.id # r.id}
    /\ broadcastRoute({r})
    /\ Save
    /\ exposed' = {e \in exposed : e.name # r.name}

\* POST /routes/{id}/disabled
SetRouteDisabled(r, disabled) ==
    /\ OneCall
    /\ UNCHANGED <<inbox, onIngress, exposed>>
    /\ routes' = {IF s.id = r.id THEN [s EXCEPT !.off = disabled] ELSE s : s \in routes}
    /\ SaveThenBroadcast({r})

\* A slip: whoever holds the label, the plan takes its row.
ApproveAnyIngress(q) ==
    /\ OneCall
    /\ LET old == Named(q.name)
           new == [id |-> IF old = {} THEN <<calls, 0>> ELSE (CHOOSE r \in old : TRUE).id,
                   name |-> q.name, worker |-> q.worker, port |-> q.port,
                   origin |-> "plan", age |-> 0, off |-> FALSE]
       IN routes' = (routes \ old) \cup {new}
    /\ inbox' = inbox \ {q}
    /\ Save
    /\ UNCHANGED <<onRoute, onIngress, exposed>>

\* The plan's route replaces the worker's own route of that label and keeps its id;
\* a label of another worker is refused.  No event is sent.
ApproveIngress(q) ==
    /\ OneCall
    /\ \A r \in Named(q.name) : r.worker = q.worker
    /\ LET old == Named(q.name)
           new == [id |-> IF old = {} THEN <<calls, 0>> ELSE (CHOOSE r \in old : TRUE).id,
                   name |-> q.name, worker |-> q.worker, port |-> q.port,
                   origin |-> "plan", age |-> 0, off |-> FALSE]
       IN routes' = (routes \ old) \cup {new}
    /\ inbox' = inbox \ {q}
    /\ Save
    /\ UNCHANGED <<onRoute, onIngress, exposed>>

DismissIngress(q) ==
    /\ OneCall
    /\ UNCHANGED <<routes, onRoute, onIngress, exposed>>
    /\ inbox' = inbox \ {q}
    /\ Save

-----------------------------------------------------------------------------
(* The workers' calls.                                                      *)

\* The ports of a report that get a route: labels of other workers are skipped, and
\* the loop over the ascending ports ends when enough have been served.
Served(w, slug, ports) ==
    LET mine == {p \in ports : \A r \in Named(AutoRouteName[slug][p]) : r.worker = w}
    IN {p \in mine : Cardinality({q \in mine : q < p}) < MaxAutoRoutesPerWorker}

\* Two ports may share a label when a long slug is cut: the first makes the route.
Created(slug, served) ==
    {p \in served : /\ Named(AutoRouteName[slug][p]) = {}
                    /\ \A q \in served : AutoRouteName[slug][q] = AutoRouteName[slug][p]
                                             => p <= q}

SyncWorkerPorts(w, slug, ports) ==
    LET served == Served(w, slug, ports)
        labels == {AutoRouteName[slug][p] : p \in served}
        new == {[id |-> <<calls, p>>, name |-> AutoRouteName[slug][p], worker |-> w,
                 port |-> p, origin |-> "auto", age |-> 0, off |-> FALSE]
                    : p \in Created(slug, served)}
    IN /\ routes' = {IF r.name \in labels THEN [r EXCEPT !.age = 0] ELSE r : r \in routes}
                        \cup new
       /\ SaveThenBroadcast(new)

\* POST /worker/ports: the ports that listen and are reachable.
handleWorkerPostPorts(w, slug, reachable) ==
    /\ OneCall
    /\ UNCHANGED <<inbox, onIngress, exposed>>
    /\ SyncWorkerPorts(w, slug, reachable)

\* POST /worker/planning: the worker's pending row is refreshed under its old id, or a
\* new one is made and announced.
UpsertPendingIngress(w, slug, p) ==
    /\ OneCall
    /\ UNCHANGED <<routes, onRoute, exposed>>
    /\ LET own == {q \in inbox : q.worker = w}
           asked == [id |-> calls, worker |-> w, name |-> planningRouteName[slug],
                     port |-> p]
       IN IF own = {}
          THEN /\ inbox' = inbox \cup {asked}
               /\ \/ Saved /\ broadcastIngress
                  \/ SaveFails /\ UNCHANGED onIngress
          ELSE /\ LET old == CHOOSE q \in own : TRUE
                  IN inbox' = (inbox \ {old}) \cup {[asked EXCEPT !.id = old.id]}
               /\ Save
               /\ UNCHANGED onIngress

\* POST /worker/planning/cancel: the worker's requests and its plan- routes go; an error
\* of the save is ignored.
CancelPendingIngress(w) ==
    /\ OneCall
    /\ LET gone == {r \in routes : r.worker = w /\ r.name \in PlanPrefixed}
       IN routes' = routes \ gone /\ broadcastRoute(gone)
    /\ inbox' = {q \in inbox : q.worker # w}
    /\ SaveIf(routes' # routes \/ inbox' # inbox)
    /\ UNCHANGED <<onIngress, exposed>>

-----------------------------------------------------------------------------
(* Readers, time and the process.                                           *)

\* A slip: the origin is not looked at.
StaleAnyOrigin(r) == r.age > AutoRouteGrace

Stale(r) == r.origin \in {"auto", "plan"} /\ r.age > AutoRouteGrace

\* GET /routes sweeps before it answers; an error of the save is ignored.
ListRoutes ==
    /\ UNCHANGED <<inbox, onIngress, exposed, calls>>
    /\ LET gone == {r \in routes : Stale(r)}
       IN routes' = routes \ gone /\ broadcastRoute(gone)
    /\ SaveIf(routes' # routes)

\* Any other call of the store that saves writes the routes and requests as well.
OtherCallSaves ==
    /\ UNCHANGED <<routes, inbox, onRoute, onIngress, exposed, calls>>
    /\ Saved

\* Some stream reader takes an event.
TakeRouteEvent ==
    /\ onRoute > 0 /\ onRoute' = onRoute - 1
    /\ UNCHANGED <<routes, inbox, saved, failures, onIngress, exposed, calls>>

TakeIngressEvent ==
    /\ onIngress > 0 /\ onIngress' = onIngress - 1
    /\ UNCHANGED <<routes, inbox, saved, failures, onRoute, exposed, calls>>

Older(r) == [r EXCEPT !.age = IF r.age \in 0 .. AutoRouteGrace THEN r.age + 1 ELSE r.age]

\* The rows of the file carry the time of their last heartbeat as well.
Tick ==
    /\ \E r \in routes \cup saved.routes : r.age \in 0 .. AutoRouteGrace
    /\ routes' = {Older(r) : r \in routes}
    /\ saved' = [saved EXCEPT !.routes = {Older(r) : r \in @}]
    /\ UNCHANGED <<inbox, failures, onRoute, onIngress, exposed, calls>>

\* The gateway comes back with what is in state.json: a change that could not be saved is
\* undone.
Restart ==
    /\ OneCall
    /\ routes' = saved.routes /\ inbox' = saved.inbox
    /\ onRoute' = 0 /\ onIngress' = 0
    /\ UNCHANGED <<saved, failures, exposed>>

Init ==
    /\ routes = {} /\ inbox = {} /\ exposed = {}
    /\ saved = [routes |-> {}, inbox |-> {}] /\ failures = 0
    /\ onRoute = 0 /\ onIngress = 0
    /\ calls = 0

HostCall ==
    \/ \E l \in ExposeName, w \in Worker, p \in Port : AddRoute(l, w, p)
    \/ \E r \in routes : DeleteRoute(r)
    \/ \E r \in routes, d \in BOOLEAN : SetRouteDisabled(r, d)
    \/ \E q \in inbox : ApproveIngress(q)
    \/ \E q \in inbox : DismissIngress(q)

WorkerCall ==
    \/ \E w \in Worker, s \in Slug, up \in SUBSET Port : handleWorkerPostPorts(w, s, up)
    \/ \E w \in Worker, s \in Slug, p \in Port : UpsertPendingIngress(w, s, p)
    \/ \E w \in Worker : CancelPendingIngress(w)

Next == HostCall \/ WorkerCall \/ ListRoutes \/ OtherCallSaves \/ TakeRouteEvent
            \/ TakeIngressEvent \/ Tick \/ Restart

Spec == Init /\ [][Next]_vars

-----------------------------------------------------------------------------
(* Properties.                                                              *)

\* The shape of the route state.
TypeOK ==
    /\ routes \subseteq Route /\ IsFiniteSet(routes)
    /\ inbox \subseteq IngressRequest
    /\ saved \in [routes : SUBSET Route, inbox : SUBSET IngressRequest]
    /\ IsFiniteSet(saved.routes) /\ failures \in 0 .. MaxSaveFailures
    /\ onRoute \in 0 .. ChanCap /\ onIngress \in 0 .. ChanCap
    /\ exposed \subseteq Target
    /\ calls \in 0 .. MaxCalls

\* A label leads to one route, an id names one route, and a worker has one pending
\* request, whatever mix of host calls, reports and approvals made them: RouteByName,
\* the disable toggle and UpsertPendingIngress each act on the first match they find.
KeysUnique ==
    /\ \A r, s \in routes : (r.name = s.name \/ r.id = s.id) => r = s
    /\ \A p, q \in inbox : (p.worker = q.worker \/ p.id = q.id) => p = q

\* An id the dashboard shows goes on meaning the same label of the same worker, however
\* late it is used: refreshes, approvals, replacements, and a restart that undoes some of
\* them, never hand a row's id to another worker's route.
IdKeepsTarget ==
    [][\A r \in routes, s \in routes' : r.id = s.id => r.name = s.name /\ r.worker = s.worker]_vars

\* What the host exposed with success stays as it was exposed until the host deletes or
\* replaces it: no report, sweep, plan or cancellation moves or removes it, and no restart,
\* whichever saves have failed meanwhile.  Labels that start with plan- are left out: there
\* an approval or a cancellation of the worker may.
ExposedKept ==
    \A e \in exposed : e.name \notin PlanPrefixed =>
        \E r \in routes : /\ r.name = e.name /\ r.worker = e.worker /\ r.port = e.port
                          /\ r.origin = "expose"
=============================================================================
