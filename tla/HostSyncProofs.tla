--------------------------- MODULE HostSyncProofs ---------------------------
(***************************************************************************)
(* Proofs about HostSync: the hosts file never drifts in silence.  The     *)
(* signals are counted in the gateway's channel, so the argument needs the *)
(* type invariant of Routes, which the composed steps keep.                *)
(***************************************************************************)
EXTENDS HostSync, RoutesProofs

\* Every step of the host and gateway together is a step of the routes or leaves them.
LEMMA SyncStepIsRouteStep == [SyncNext]_syncVars => [Next]_vars
BY DEF SyncNext, syncVars, Next, vars, RouteCall, DaemonStep, Dial, DaemonGet, DaemonGetFails,
       DaemonWrite, DaemonEvent, DaemonEof, DaemonSyncFails, StreamSend, OtherStreamTakes,
       DashboardLists, CommandGet, CommandWrite, Disconnect, GatewayRestart

-----------------------------------------------------------------------------
\* Type correctness of every step.  The two switches are apart from the rest.
LEMMA SyncTypeStep == TypeOK' /\ SyncTypeOK /\ [SyncNext]_syncVars => SyncTypeOK'
<1> SUFFICES ASSUME TypeOK', SyncTypeOK, [SyncNext]_syncVars PROVE SyncTypeOK'
  OBVIOUS
<1> DEFINE Switches == conn \in BOOLEAN /\ interfered \in BOOLEAN /\ unheard \in BOOLEAN
           Rest == /\ hosts \subseteq Label
                   /\ daemon \in [pc : {"dial", "get", "write", "scan"}, names : SUBSET Label]
                   /\ command \in [Command -> [pc : {"get", "write", "done"},
                                               names : SUBSET Label]]
                   /\ wire \in Nat /\ faults \in Nat
<1>s. Switches'
  <2>1. Switches
    BY DEF SyncTypeOK
  <2>2. (conn' = conn \/ conn' = TRUE \/ conn' = FALSE)
            /\ (interfered' = interfered \/ interfered' = TRUE)
            /\ (unheard' = unheard \/ unheard' \in BOOLEAN)
    BY DEF SyncNext, syncVars, hostVars, RouteCall, DaemonStep, Dial, DaemonGet, DaemonGetFails,
           DaemonWrite, DaemonEvent, DaemonEof, DaemonSyncFails, StreamSend,
           OtherStreamTakes, DashboardLists, CommandGet, CommandWrite, Disconnect,
           GatewayRestart
  <2> QED BY <2>1, <2>2
<1> SUFFICES Rest'
  BY <1>s DEF SyncTypeOK
<1>r. Rest
  BY DEF SyncTypeOK
<1>a. Resolvable(routes') \subseteq Label
  BY DEF TypeOK, Resolvable, Route
<1>1. CASE UNCHANGED <<hosts, daemon, command, wire, faults>>
  BY <1>1, <1>r
<1>2. CASE Dial \/ DaemonGetFails \/ DaemonEof
  <2>1. daemon' \in [pc : {"dial", "get", "write", "scan"}, names : SUBSET Label]
    BY <1>2, <1>r DEF Dial, DaemonGetFails, DaemonEof
  <2> QED BY <1>2, <1>r, <2>1 DEF Dial, DaemonGetFails, DaemonEof
<1>3. CASE DaemonGet
  BY <1>3, <1>r, <1>a DEF DaemonGet, Fetched
<1>4. CASE DaemonSyncFails
  BY <1>4, <1>r DEF DaemonSyncFails
<1>5. CASE DaemonWrite
  BY <1>5, <1>r DEF DaemonWrite
<1>6. CASE DaemonEvent
  BY <1>6, <1>r DEF DaemonEvent
<1>7. CASE StreamSend \/ OtherStreamTakes
  BY <1>7, <1>r DEF StreamSend, OtherStreamTakes
<1>8. ASSUME NEW c \in Command, CommandGet(c) PROVE Rest'
  BY <1>8, <1>r, <1>a DEF CommandGet, Fetched
<1>9. ASSUME NEW c \in Command, CommandWrite(c) PROVE Rest'
  <2>1. command' \in [Command -> [pc : {"get", "write", "done"}, names : SUBSET Label]]
    BY <1>9, <1>r DEF CommandWrite
  <2>2. hosts' \subseteq Label
    BY <1>9, <1>r DEF CommandWrite
  <2> QED BY <1>9, <1>r, <2>1, <2>2 DEF CommandWrite
<1>10. CASE Disconnect \/ GatewayRestart
  BY <1>10, <1>r DEF Disconnect, GatewayRestart
<1> HIDE DEF Rest
<1> QED
  BY <1>1, <1>2, <1>3, <1>4, <1>5, <1>6, <1>7, <1>8, <1>9, <1>10
     DEF SyncNext, syncVars, hostVars, RouteCall, DaemonStep, DashboardLists

\* The initial states have their type.
LEMMA SyncInitTyped == SyncInit => TypeOK /\ SyncTypeOK
<1> SUFFICES ASSUME SyncInit PROVE TypeOK /\ SyncTypeOK
  OBVIOUS
<1>1. TypeOK
  BY InitSound DEF SyncInit, RoutesInv
<1>2. conn \in BOOLEAN /\ interfered \in BOOLEAN /\ unheard \in BOOLEAN
  BY DEF SyncInit
<1> QED BY <1>1, <1>2 DEF SyncInit, SyncTypeOK

\* The host's state always has its type.
THEOREM SyncTyped == SyncSpec => []SyncTypeOK
<1> DEFINE Inv == TypeOK /\ SyncTypeOK
<1>1. SyncInit => Inv
  BY SyncInitTyped
<1>2. Inv /\ [SyncNext]_syncVars => Inv'
  BY SyncStepIsRouteStep, TypeStep, SyncTypeStep
<1>3. Inv => SyncTypeOK
  OBVIOUS
<1> QED
  BY <1>1, <1>2, <1>3, PTL DEF SyncSpec

-----------------------------------------------------------------------------
\* The labels only change in ways a block that agreed still agrees with.
Harmless ==
    /\ Resolvable({r \in routes' : r.origin # "plan"})
           \subseteq Resolvable({r \in routes : r.origin # "plan"})
    /\ Resolvable(routes) \subseteq Resolvable(routes')

\* A list request that sweeps anything leaves an event in the channel.
LEMMA ListSignals ==
    ASSUME TypeOK, ListRoutes
    PROVE  (onRoute > 0 => onRoute' > 0) /\ (onRoute' > 0 \/ routes' = routes)
<1> DEFINE gone == {r \in routes : Stale(r)}
<1>1. routes' = routes \ gone /\ onRoute' = Sent(onRoute, Cardinality(gone))
  BY DEF ListRoutes, broadcastRoute
<1>2. IsFiniteSet(gone) /\ onRoute \in 0 .. ChanCap
  BY FS_Subset DEF TypeOK
<1>3. gone # {} \/ onRoute > 0 => onRoute' > 0
  <2> HIDE DEF gone
  <2> QED BY <1>1, <1>2, SentInRange
<1> QED BY <1>1, <1>3

\* A call of the host or of a worker leaves an event in the channel, is harmless, or
\* could not be saved.
LEMMA CallSignals ==
    ASSUME TypeOK, HostCall \/ WorkerCall
    PROVE  /\ onRoute > 0 => onRoute' > 0
           /\ onRoute' > 0 \/ Harmless \/ failures' # failures
<1> DEFINE Signals == /\ onRoute > 0 => onRoute' > 0
                      /\ onRoute' > 0 \/ Harmless \/ failures' # failures
<1>a. onRoute \in 0 .. ChanCap
  BY DEF TypeOK
<1>b. ASSUME NEW x, broadcastRoute({x}) PROVE onRoute' > 0
  <2>1. IsFiniteSet({x}) /\ {x} # {}
    BY FS_Singleton
  <2> QED BY <1>a, <1>b, <2>1, SentInRange DEF broadcastRoute
<1>c. ASSUME SaveFails, onRoute' = onRoute PROVE Signals
  <2>1. failures' # failures
    BY <1>c DEF SaveFails, TypeOK
  <2> QED BY <1>c, <2>1
<1>d. ASSUME NEW x, SaveThenBroadcast({x}) PROVE Signals
  <2>1. CASE broadcastRoute({x})
    BY <1>b, <2>1
  <2>2. CASE SaveFails /\ onRoute' = onRoute
    BY <1>c, <2>2
  <2> QED BY <1>d, <2>1, <2>2 DEF SaveThenBroadcast
<1>1. ASSUME NEW l \in ExposeName, NEW w \in Worker, NEW p \in Port, AddRoute(l, w, p)
      PROVE Signals
  <2> DEFINE new == [id |-> <<calls, 0>>, name |-> l, worker |-> w, port |-> p,
                     origin |-> "expose", age |-> NeverSeen, off |-> FALSE]
  <2>1. SaveThenBroadcast({new})
    BY <1>1 DEF AddRoute
  <2> HIDE DEF new, Signals
  <2> QED BY <1>d, <2>1
<1>2. ASSUME NEW r \in routes, DeleteRoute(r) PROVE Signals
  BY <1>2, <1>b DEF DeleteRoute
<1>3. ASSUME NEW r \in routes, NEW d \in BOOLEAN, SetRouteDisabled(r, d) PROVE Signals
  <2>1. SaveThenBroadcast({r})
    BY <1>3 DEF SetRouteDisabled
  <2> HIDE DEF Signals
  <2> QED BY <1>d, <2>1
<1>4. ASSUME NEW q \in inbox, ApproveIngress(q) PROVE Signals
  <2> DEFINE old == Named(q.name)
             new == [id |-> IF old = {} THEN <<calls, 0>> ELSE (CHOOSE r \in old : TRUE).id,
                     name |-> q.name, worker |-> q.worker, port |-> q.port,
                     origin |-> "plan", age |-> 0, off |-> FALSE]
  <2>1. routes' = (routes \ old) \cup {new} /\ UNCHANGED onRoute
    BY <1>4 DEF ApproveIngress
  <2>2. new.origin = "plan" /\ new.name = q.name
    OBVIOUS
  <2> HIDE DEF new
  <2> QED BY <2>1, <2>2 DEF Harmless, Resolvable, Named
<1>5. CASE UNCHANGED <<routes, onRoute>>
  BY <1>5 DEF Harmless, Resolvable
<1>6. ASSUME NEW w \in Worker, NEW g \in Slug, NEW up \in SUBSET Port,
             handleWorkerPostPorts(w, g, up)
      PROVE Signals
  <2> DEFINE labels == {AutoRouteName[g][p] : p \in Served(w, g, up)}
             made == Created(g, Served(w, g, up))
             f == [p \in made |-> [id |-> <<calls, p>>, name |-> AutoRouteName[g][p],
                                   worker |-> w, port |-> p, origin |-> "auto", age |-> 0,
                                   off |-> FALSE]]
             new == {f[p] : p \in made}
  <2>1. /\ routes' = {IF r.name \in labels THEN [r EXCEPT !.age = 0] ELSE r : r \in routes}
                         \cup new
        /\ \/ onRoute' = Sent(onRoute, Cardinality(new))
           \/ SaveFails /\ onRoute' = onRoute
    BY <1>6 DEF handleWorkerPostPorts, SyncWorkerPorts, SaveThenBroadcast, broadcastRoute
  <2>2. made \subseteq Port
    BY DEF Created, Served
  <2>3. IsFiniteSet(made)
    BY <2>2, FS_Subset, RoutesAssumption
  <2>4. IsFiniteSet(new)
    <3> HIDE DEF f, made
    <3> QED BY <2>3, FiniteImage
  <2> HIDE DEF new
  <2>5. new = {} => Harmless
    <3> SUFFICES ASSUME new = {} PROVE Harmless
      OBVIOUS
    <3>1. \A s \in routes' : \E r \in routes : s.name = r.name /\ s.origin = r.origin
      BY <2>1 DEF TypeOK, Route
    <3>2. \A r \in routes : \E s \in routes' : s.name = r.name
      <4> SUFFICES ASSUME NEW r \in routes PROVE \E s \in routes' : s.name = r.name
        OBVIOUS
      <4> DEFINE s == IF r.name \in labels THEN [r EXCEPT !.age = 0] ELSE r
      <4>1. s \in routes'
        BY <2>1
      <4>2. s.name = r.name
        BY DEF TypeOK, Route
      <4> QED BY <4>1, <4>2
    <3> QED BY <3>1, <3>2 DEF Harmless, Resolvable
  <2>6. CASE SaveFails /\ onRoute' = onRoute
    <3> HIDE DEF Signals
    <3> QED BY <2>6, <1>c
  <2>7. CASE onRoute' = Sent(onRoute, Cardinality(new))
    <3>1. onRoute > 0 \/ new # {} => onRoute' > 0
      BY <2>7, <2>4, <1>a, SentInRange
    <3> QED BY <2>5, <3>1
  <2> QED BY <2>1, <2>6, <2>7
<1>7. ASSUME NEW w \in Worker, CancelPendingIngress(w) PROVE Signals
  <2> DEFINE gone == {r \in routes : r.worker = w /\ r.name \in PlanPrefixed}
  <2>1. routes' = routes \ gone /\ onRoute' = Sent(onRoute, Cardinality(gone))
    BY <1>7 DEF CancelPendingIngress, broadcastRoute
  <2>2. IsFiniteSet(gone)
    BY FS_Subset DEF TypeOK
  <2>3. gone # {} \/ onRoute > 0 => onRoute' > 0
    <3> HIDE DEF gone
    <3> QED BY <2>1, <2>2, <1>a, SentInRange
  <2>4. gone = {} => Harmless
    BY <2>1 DEF Harmless, Resolvable
  <2> QED BY <2>3, <2>4
<1> QED
  BY <1>1, <1>2, <1>3, <1>4, <1>5, <1>6, <1>7
     DEF HostCall, WorkerCall, DismissIngress, UpsertPendingIngress

\* The clock moves no label.
LEMMA TickHarmless == TypeOK /\ Tick => Harmless
<1> SUFFICES ASSUME TypeOK, Tick PROVE Harmless
  OBVIOUS
<1>1. \A r \in routes : Older(r).name = r.name /\ Older(r).origin = r.origin
  BY DEF Older, TypeOK, Route
<1>2. routes' = {Older(r) : r \in routes}
  BY DEF Tick
<1> QED BY <1>1, <1>2 DEF Harmless, Resolvable

\* Every step that leaves the hosts file wrong leaves a signal.
LEMMA DriftStep ==
    TypeOK /\ SyncTypeOK /\ DriftIsSignalled /\ [SyncNext]_syncVars => DriftIsSignalled'
<1> DEFINE block == IF daemon.pc = "write" THEN daemon.names ELSE hosts
           Sound == Signalled' \/ Agrees(block)'
<1> SUFFICES ASSUME TypeOK, SyncTypeOK, DriftIsSignalled, [SyncNext]_syncVars,
                    ~interfered', ~unheard'
             PROVE  Sound
  BY DEF DriftIsSignalled
<1>y. /\ daemon \in [pc : {"dial", "get", "write", "scan"}, names : SUBSET Label]
      /\ wire \in Nat
  BY DEF SyncTypeOK
<1>t. TypeOK'
  BY TypeStep, SyncStepIsRouteStep
\* What changes the routes and leaves the host alone.
<1>a. ASSUME UNCHANGED <<hosts, daemon, conn, wire, interfered>>, ~unheard,
             onRoute > 0 => onRoute' > 0, onRoute' > 0 \/ Harmless
      PROVE Sound
  <2>1. Signalled \/ Agrees(block)
    BY <1>a DEF DriftIsSignalled
  <2>2. Signalled => Signalled'
    BY <1>a DEF Signalled
  <2>3. onRoute' > 0 => Signalled'
    BY DEF Signalled
  <2>4. block' = block
    BY <1>a
  <2> HIDE DEF block
  <2>5. Harmless /\ Agrees(block) => Agrees(block)'
    BY <2>4 DEF Harmless, Agrees
  <2> QED BY <1>a, <2>1, <2>2, <2>3, <2>5
<1>b. routes' = routes => Harmless
  BY DEF Harmless, Resolvable
<1>0. CASE UNCHANGED <<vars, hostVars>>
  BY <1>0, <1>a, <1>b DEF vars, hostVars
<1>1. CASE RouteCall
  <2>1. /\ UNCHANGED <<hosts, daemon, conn, wire, interfered>>
        /\ ~unheard /\ ~(failures' # failures /\ onRoute' = 0)
    BY <1>1 DEF RouteCall
  <2>2. /\ onRoute > 0 => onRoute' > 0
        /\ onRoute' > 0 \/ Harmless \/ failures' # failures
    BY <1>1, CallSignals DEF RouteCall
  <2>3. onRoute' \in Nat
    BY <1>t DEF TypeOK
  <2>4. onRoute' > 0 \/ Harmless
    BY <2>1, <2>2, <2>3
  <2> HIDE DEF Sound
  <2> QED BY <2>1, <2>2, <2>4, <1>a
<1>2. CASE Tick /\ UNCHANGED hostVars
  BY <1>2, <1>a, TickHarmless DEF Tick, hostVars
<1>3. CASE ListRoutes /\ UNCHANGED <<hosts, daemon, conn, wire, interfered, unheard>>
  BY <1>3, <1>a, <1>b, ListSignals
<1>4. CASE Dial \/ DaemonEvent \/ DaemonEof
  <2>1. daemon'.pc \in {"dial", "get"}
    BY <1>4, <1>y DEF Dial, DaemonEvent, DaemonEof
  <2> QED BY <2>1 DEF Signalled
<1>5. CASE DaemonGet
  <2>1. daemon'.pc = "write" /\ daemon'.names = Resolvable(routes')
    BY <1>5, <1>y DEF DaemonGet, Fetched
  <2>2. Agrees(block)'
    BY <2>1 DEF Agrees, Resolvable
  <2> QED BY <2>2
<1>6. CASE DaemonGetFails
  <2>1. ~conn'
    BY <1>6 DEF DaemonGetFails
  <2> QED BY <2>1 DEF Signalled
<1>7. CASE DaemonWrite
  <2>1. block' = block /\ daemon.pc = "write"
    BY <1>7, <1>y DEF DaemonWrite
  <2>2. UNCHANGED <<routes, onRoute, conn, wire, interfered, unheard>>
    BY <1>7 DEF DaemonWrite, vars
  <2>3. Signalled \/ Agrees(block)
    BY <2>2 DEF DriftIsSignalled
  <2>4. Signalled => Signalled'
    BY <2>1, <2>2 DEF Signalled
  <2> HIDE DEF block
  <2>5. Agrees(block) => Agrees(block)'
    BY <2>1, <2>2 DEF Agrees, Resolvable
  <2> QED BY <2>3, <2>4, <2>5
<1>8. CASE StreamSend
  <2>1. wire' > 0
    BY <1>8, <1>y DEF StreamSend
  <2> QED BY <2>1 DEF Signalled
<1>9. CASE Disconnect \/ GatewayRestart
  <2>1. conn' = FALSE
    BY <1>9 DEF Disconnect, GatewayRestart
  <2> QED BY <2>1 DEF Signalled
<1>10. CASE DaemonSyncFails \/ OtherStreamTakes \/ \E c \in Command : CommandWrite(c)
  BY <1>10 DEF DaemonSyncFails, OtherStreamTakes, CommandWrite
<1>11. CASE DashboardLists \/ \E c \in Command : CommandGet(c)
  BY <1>11, <1>3 DEF DashboardLists, CommandGet, hostVars
<1>12. CASE OtherCallSaves /\ UNCHANGED hostVars
  BY <1>12, <1>a, <1>b DEF OtherCallSaves, hostVars
<1> HIDE DEF Sound
<1> QED
  BY <1>0, <1>1, <1>2, <1>4, <1>5, <1>6, <1>7, <1>8, <1>9, <1>10, <1>11,
     <1>12 DEF SyncNext, syncVars, DaemonStep

\* The hosts file never drifts in silence, for any number of workers, dashboards,
\* commands, events, faults and failed saves: each update the file misses is followed by a
\* signal, unless the call that made it could not be saved.
THEOREM DriftSignalled == SyncSpec => []DriftIsSignalled
<1> DEFINE Inv == TypeOK /\ SyncTypeOK /\ DriftIsSignalled
<1>1. SyncInit => TypeOK /\ SyncTypeOK
  BY SyncInitTyped
<1>2. SyncInit => DriftIsSignalled
  BY DEF SyncInit, DriftIsSignalled, Signalled
<1>3. Inv /\ [SyncNext]_syncVars => Inv'
  BY SyncStepIsRouteStep, TypeStep, SyncTypeStep, DriftStep
<1>4. Inv => DriftIsSignalled
  OBVIOUS
<1> QED
  BY <1>1, <1>2, <1>3, <1>4, PTL DEF SyncSpec
=============================================================================
