---------------------------- MODULE RoutesProofs ----------------------------
(***************************************************************************)
(* Proofs about Routes, for any number of workers, ports, labels, calls.   *)
(*                                                                         *)
(* KeysUnique is inductive only with Fresh: the random ids in use are      *)
(* older than the next call's, and pending labels are planning labels; and *)
(* only when state.json, which a restart brings back, is as sound as the   *)
(* memory is, however many saves have failed since it was written.         *)
(***************************************************************************)
EXTENDS Routes, FiniteSetTheorems, TLAPS

Fresh ==
    /\ \A r \in routes : r.id[1] < calls
    /\ \A q \in inbox : q.id < calls /\ q.name \in PlanPrefixed

\* The same of the file, with its unique keys.
SavedSound ==
    /\ \A r \in saved.routes : r.id[1] < calls
    /\ \A q \in saved.inbox : q.id < calls /\ q.name \in PlanPrefixed
    /\ \A r, s \in saved.routes : (r.name = s.name \/ r.id = s.id) => r = s
    /\ \A p, q \in saved.inbox : (p.worker = q.worker \/ p.id = q.id) => p = q

\* An id means the same label of the same worker in the file and in memory.
OneTarget ==
    \A r \in routes, s \in saved.routes : r.id = s.id => r.name = s.name /\ r.worker = s.worker

RoutesInv == TypeOK /\ KeysUnique /\ Fresh /\ SavedSound /\ OneTarget

\* TypeOK without the file.
LiveTyped ==
    /\ routes \subseteq Route /\ IsFiniteSet(routes)
    /\ inbox \subseteq IngressRequest
    /\ onRoute \in 0 .. ChanCap /\ onIngress \in 0 .. ChanCap
    /\ exposed \subseteq Target
    /\ calls \in 0 .. MaxCalls

\* The image of a finite set under a function is finite.
LEMMA FiniteImage ==
    ASSUME NEW S, IsFiniteSet(S), NEW f
    PROVE  IsFiniteSet({f[x] : x \in S})
<1> DEFINE T == {f[x] : x \in S}
           g == [x \in S |-> f[x]]
<1>1. g \in Surjection(S, T)
  BY DEF Surjection
<1> HIDE DEF g, T
<1>2. IsFiniteSet(T)
  BY <1>1, FS_Surjection
<1> QED
  BY <1>2 DEF T

\* Sending any finite set of events leaves a legal number of them queued, and at least
\* one if there was one to send.
LEMMA SentInRange ==
    ASSUME NEW S, IsFiniteSet(S), NEW n \in 0 .. ChanCap
    PROVE  /\ Sent(n, Cardinality(S)) \in 0 .. ChanCap
           /\ (S # {} \/ n > 0) => Sent(n, Cardinality(S)) > 0
<1>1. Cardinality(S) \in Nat
  BY FS_CardinalityType
<1>2. S # {} => Cardinality(S) # 0
  BY FS_EmptySet
<1> QED
  BY <1>1, <1>2, RoutesAssumption DEF Sent

\* What a planning request does to the inbox: a new row for a worker that has none, or
\* the worker's row rewritten under its id.
LEMMA UpsertShape ==
    ASSUME NEW w \in Worker, NEW s \in Slug, NEW p \in Port, UpsertPendingIngress(w, s, p)
    PROVE  \/ /\ \A q \in inbox : q.worker # w
              /\ inbox' = inbox \cup {[id |-> calls, worker |-> w,
                                       name |-> planningRouteName[s], port |-> p]}
           \/ \E old \in inbox :
                  /\ old.worker = w
                  /\ inbox' = (inbox \ {old}) \cup {[id |-> old.id, worker |-> w,
                                       name |-> planningRouteName[s], port |-> p]}
<1> DEFINE own == {q \in inbox : q.worker = w}
           old == CHOOSE q \in own : TRUE
<1>1. CASE own = {}
  BY <1>1 DEF UpsertPendingIngress
<1>2. CASE own # {}
  <2>1. old \in own
    BY <1>2
  <2>2. inbox' = (inbox \ {old}) \cup {[id |-> old.id, worker |-> w,
                                       name |-> planningRouteName[s], port |-> p]}
    BY <1>2 DEF UpsertPendingIngress
  <2> HIDE DEF old
  <2> QED BY <2>1, <2>2
<1> QED BY <1>1, <1>2

\* What an approval does to the routes: the plan's route comes under a new id, or under
\* that of the same worker's route of its label.
LEMMA ApproveShape ==
    ASSUME NEW q \in inbox, ApproveIngress(q)
    PROVE  \E new : /\ routes' = (routes \ Named(q.name)) \cup {new}
                    /\ new.name = q.name /\ new.worker = q.worker
                    /\ \/ \E r \in Named(q.name) : new.id = r.id /\ r.worker = q.worker
                       \/ new.id = <<calls, 0>>
<1> DEFINE old == Named(q.name)
           kept == CHOOSE r \in old : TRUE
           new == [id |-> IF old = {} THEN <<calls, 0>> ELSE kept.id,
                   name |-> q.name, worker |-> q.worker, port |-> q.port,
                   origin |-> "plan", age |-> 0, off |-> FALSE]
<1>1. routes' = (routes \ old) \cup {new} /\ \A r \in old : r.worker = q.worker
  BY DEF ApproveIngress
<1>2. old = {} => new.id = <<calls, 0>>
  OBVIOUS
<1>3. old # {} => kept \in old /\ new.id = kept.id
  OBVIOUS
<1>4. new.name = q.name /\ new.worker = q.worker
  OBVIOUS
<1> HIDE DEF new, kept, old
<1>5. (\E r \in old : new.id = r.id /\ r.worker = q.worker) \/ new.id = <<calls, 0>>
  BY <1>1, <1>2, <1>3
<1> QED BY <1>1, <1>4, <1>5 DEF old

\* The initial state.
LEMMA InitSound == Init => RoutesInv
<1> SUFFICES ASSUME Init PROVE RoutesInv
  OBVIOUS
<1>1. IsFiniteSet(routes) /\ IsFiniteSet(saved.routes)
  BY FS_EmptySet DEF Init
<1> QED
  BY <1>1, RoutesAssumption
     DEF RoutesInv, Init, TypeOK, KeysUnique, Fresh, SavedSound, OneTarget

\* The file takes the whole of the state or stays as it was, but for the ages.
LEMMA SaveCases ==
    ASSUME [Next]_vars
    PROVE  \/ Tick
           \/ saved' = [routes |-> routes', inbox |-> inbox'] /\ failures' = failures
           \/ /\ saved' = saved
              /\ failures' = failures \/ (failures < MaxSaveFailures /\ failures' = failures + 1)
<1> USE DEF Saved, SaveFails, Save, SaveIf, SaveThenBroadcast
<1>1. ASSUME NEW l \in ExposeName, NEW w \in Worker, NEW p \in Port, AddRoute(l, w, p)
      PROVE Save
  BY <1>1 DEF AddRoute
<1>2. ASSUME NEW r \in routes, DeleteRoute(r) PROVE Save
  BY <1>2 DEF DeleteRoute
<1>3. ASSUME NEW r \in routes, NEW d \in BOOLEAN, SetRouteDisabled(r, d) PROVE Save
  BY <1>3 DEF SetRouteDisabled
<1>4. ASSUME NEW q \in inbox, ApproveIngress(q) \/ DismissIngress(q) PROVE Save
  BY <1>4 DEF ApproveIngress, DismissIngress
<1>5. ASSUME NEW w \in Worker, NEW g \in Slug, NEW up \in SUBSET Port,
             handleWorkerPostPorts(w, g, up)
      PROVE Save
  BY <1>5 DEF handleWorkerPostPorts, SyncWorkerPorts
<1>6. ASSUME NEW w \in Worker, NEW g \in Slug, NEW p \in Port, UpsertPendingIngress(w, g, p)
      PROVE Save
  BY <1>6 DEF UpsertPendingIngress
<1>7. ASSUME NEW w \in Worker, CancelPendingIngress(w)
      PROVE Save \/ UNCHANGED <<saved, failures>>
  BY <1>7 DEF CancelPendingIngress
<1>8. ListRoutes => Save \/ UNCHANGED <<saved, failures>>
  BY DEF ListRoutes
<1>9. OtherCallSaves => Save
  BY DEF OtherCallSaves
<1>10. TakeRouteEvent \/ TakeIngressEvent \/ Restart \/ UNCHANGED vars
          => UNCHANGED <<saved, failures>>
  BY DEF TakeRouteEvent, TakeIngressEvent, Restart, vars
<1>11. Tick \/ Save \/ UNCHANGED <<saved, failures>>
  <2> HIDE DEF Save, SaveIf, SaveThenBroadcast
  <2> QED
    BY <1>1, <1>2, <1>3, <1>4, <1>5, <1>6, <1>7, <1>8, <1>9, <1>10 DEF Next, HostCall, WorkerCall
<1> QED BY <1>11

\* Ageing a row changes nothing but its age, which stops one above the grace.
LEMMA OlderTyped ==
    ASSUME NEW r \in Route
    PROVE  /\ Older(r) \in Route
           /\ Older(r).id = r.id /\ Older(r).name = r.name /\ Older(r).worker = r.worker
           /\ Older(r).port = r.port /\ Older(r).origin = r.origin
<1>1. AutoRouteGrace \in Nat
  BY RoutesAssumption
<1>2. (IF r.age \in 0 .. AutoRouteGrace THEN r.age + 1 ELSE r.age)
          \in NeverSeen .. AutoRouteGrace + 1
  BY <1>1 DEF Route, NeverSeen
<1> QED BY <1>2 DEF Older, Route

\* Type correctness of what a step leaves in memory.
LEMMA LiveTypeStep == TypeOK /\ [Next]_vars => LiveTyped'
<1> SUFFICES ASSUME TypeOK, LiveTyped, [Next]_vars PROVE LiveTyped'
  BY DEF TypeOK, LiveTyped
<1> USE RoutesAssumption
<1> USE DEF LiveTyped, OneCall
<1>0. CASE UNCHANGED vars
  BY <1>0 DEF vars
<1>1. ASSUME NEW l \in ExposeName, NEW w \in Worker, NEW p \in Port, AddRoute(l, w, p)
      PROVE LiveTyped'
  <2> DEFINE new == [id |-> <<calls, 0>>, name |-> l, worker |-> w, port |-> p,
                     origin |-> "expose", age |-> NeverSeen, off |-> FALSE]
             kept == {r \in routes : r.name # l}
  <2>1. new \in Route
    BY DEF Route, NeverSeen
  <2>2. /\ routes' = kept \cup {new}
        /\ onRoute' \in {onRoute, Sent(onRoute, Cardinality({new}))}
    BY <1>1 DEF AddRoute, SaveThenBroadcast, broadcastRoute
  <2>3. IsFiniteSet(kept) /\ IsFiniteSet({new})
    BY FS_Subset, FS_Singleton
  <2>4. IsFiniteSet(routes')
    <3> HIDE DEF new, kept
    <3> QED BY <2>2, <2>3, FS_Union
  <2>5. onRoute' \in 0 .. ChanCap
    <3>1. Sent(onRoute, Cardinality({new})) \in 0 .. ChanCap
      <4> HIDE DEF new
      <4> QED BY <2>3, SentInRange
    <3> QED BY <1>1, <3>1 DEF AddRoute, SaveThenBroadcast, broadcastRoute
  <2>6. routes' \subseteq Route
    <3>1. kept \subseteq Route
      OBVIOUS
    <3> HIDE DEF new, kept
    <3> QED BY <2>1, <2>2, <3>1
  <2>7. exposed' \subseteq Target
    BY <1>1 DEF AddRoute, Expose, Target
  <2> QED
    BY <1>1, <2>4, <2>5, <2>6, <2>7 DEF AddRoute
<1>2. ASSUME NEW r \in routes, DeleteRoute(r) PROVE LiveTyped'
  <2>1. IsFiniteSet(routes')
    BY <1>2, FS_Subset DEF DeleteRoute
  <2>2. onRoute' \in 0 .. ChanCap
    BY <1>2, SentInRange, FS_Singleton DEF DeleteRoute, broadcastRoute
  <2> QED
    BY <1>2, <2>1, <2>2 DEF DeleteRoute
<1>3. ASSUME NEW r \in routes, NEW d \in BOOLEAN, SetRouteDisabled(r, d) PROVE LiveTyped'
  <2>1. IsFiniteSet(routes')
    <3> DEFINE f == [s \in routes |-> IF s.id = r.id THEN [s EXCEPT !.off = d] ELSE s]
    <3>1. routes' = {f[s] : s \in routes}
      BY <1>3 DEF SetRouteDisabled
    <3> HIDE DEF f
    <3> QED BY <3>1, FiniteImage
  <2>2. onRoute' \in 0 .. ChanCap
    BY <1>3, SentInRange, FS_Singleton DEF SetRouteDisabled, SaveThenBroadcast, broadcastRoute
  <2>3. routes' \subseteq Route
    BY <1>3 DEF SetRouteDisabled, Route
  <2> QED
    BY <1>3, <2>1, <2>2, <2>3 DEF SetRouteDisabled
<1>4. ASSUME NEW q \in inbox, ApproveIngress(q) PROVE LiveTyped'
  <2> DEFINE old == Named(q.name)
             new == [id |-> IF old = {} THEN <<calls, 0>> ELSE (CHOOSE r \in old : TRUE).id,
                     name |-> q.name, worker |-> q.worker, port |-> q.port,
                     origin |-> "plan", age |-> 0, off |-> FALSE]
  <2>1. new.id \in Nat \X Nat
    BY DEF Named, Route
  <2>2. new \in Route
    BY <2>1 DEF Route, IngressRequest, NeverSeen
  <2>3. routes' = (routes \ old) \cup {new}
    BY <1>4 DEF ApproveIngress
  <2>4. IsFiniteSet(routes \ old) /\ IsFiniteSet({new})
    <3> HIDE DEF new, old
    <3> QED BY FS_Subset, FS_Singleton
  <2>5. IsFiniteSet(routes')
    <3> HIDE DEF new, old
    <3> QED BY <2>3, <2>4, FS_Union
  <2>6. routes' \subseteq Route
    BY <2>2, <2>3
  <2> QED
    BY <1>4, <2>5, <2>6 DEF ApproveIngress
<1>5. ASSUME NEW q \in inbox, DismissIngress(q) PROVE LiveTyped'
  BY <1>5 DEF DismissIngress
<1>6. ASSUME NEW w \in Worker, NEW s \in Slug, NEW up \in SUBSET Port,
             handleWorkerPostPorts(w, s, up)
      PROVE LiveTyped'
  <2> DEFINE served == Served(w, s, up)
             labels == {AutoRouteName[s][p] : p \in served}
             made == Created(s, served)
             new == {[id |-> <<calls, p>>, name |-> AutoRouteName[s][p], worker |-> w,
                      port |-> p, origin |-> "auto", age |-> 0, off |-> FALSE] : p \in made}
             kept == {IF r.name \in labels THEN [r EXCEPT !.age = 0] ELSE r : r \in routes}
  <2>1. /\ routes' = kept \cup new
        /\ onRoute' \in {onRoute, Sent(onRoute, Cardinality(new))}
    BY <1>6 DEF handleWorkerPostPorts, SyncWorkerPorts, SaveThenBroadcast, broadcastRoute
  <2>2. made \subseteq Port
    BY DEF Created, Served
  <2>3. new \subseteq Route
    <3> SUFFICES ASSUME NEW p \in made
                 PROVE [id |-> <<calls, p>>, name |-> AutoRouteName[s][p], worker |-> w,
                        port |-> p, origin |-> "auto", age |-> 0, off |-> FALSE] \in Route
      OBVIOUS
    <3>1. p \in Port /\ p \in Nat /\ AutoRouteName[s][p] \in Label
      BY <2>2
    <3> QED BY <3>1 DEF Route, NeverSeen
  <2>4. kept \subseteq Route
    <3> SUFFICES ASSUME NEW r \in routes PROVE [r EXCEPT !.age = 0] \in Route
      OBVIOUS
    <3> QED BY DEF Route, NeverSeen
  <2>5. IsFiniteSet(kept)
    <3> DEFINE f == [r \in routes |-> IF r.name \in labels THEN [r EXCEPT !.age = 0] ELSE r]
    <3>1. kept = {f[r] : r \in routes}
      OBVIOUS
    <3> HIDE DEF f, kept
    <3> QED BY <3>1, FiniteImage
  <2>6. IsFiniteSet(new)
    <3>1. IsFiniteSet(made)
      BY <2>2, FS_Subset
    <3> DEFINE f == [p \in made |-> [id |-> <<calls, p>>, name |-> AutoRouteName[s][p],
                                     worker |-> w, port |-> p, origin |-> "auto", age |-> 0,
                                     off |-> FALSE]]
    <3>2. new = {f[p] : p \in made}
      OBVIOUS
    <3> HIDE DEF f, new, made
    <3> QED BY <3>1, <3>2, FiniteImage
  <2>7. IsFiniteSet(routes') /\ onRoute' \in 0 .. ChanCap
    <3> HIDE DEF new, kept
    <3>1. Sent(onRoute, Cardinality(new)) \in 0 .. ChanCap
      BY <2>6, SentInRange
    <3>2. onRoute' \in 0 .. ChanCap
      BY <2>1, <3>1
    <3> QED BY <2>1, <2>5, <2>6, <3>2, FS_Union
  <2>8. routes' \subseteq Route
    <3> HIDE DEF new, kept
    <3> QED BY <2>1, <2>3, <2>4
  <2> QED
    BY <1>6, <2>7, <2>8 DEF handleWorkerPostPorts
<1>7. ASSUME NEW w \in Worker, NEW s \in Slug, NEW p \in Port, UpsertPendingIngress(w, s, p)
      PROVE LiveTyped'
  <2>1. Sent(onIngress, 1) \in 0 .. ChanCap
    BY DEF Sent
  <2>2. inbox' \subseteq IngressRequest
    <3>1. planningRouteName[s] \in Label
      OBVIOUS
    <3>2. \A i \in Nat : [id |-> i, worker |-> w, name |-> planningRouteName[s], port |-> p]
                              \in IngressRequest
      BY <3>1 DEF IngressRequest
    <3>3. \A q \in inbox : q.id \in Nat
      BY DEF IngressRequest
    <3> QED BY <1>7, <3>2, <3>3, UpsertShape
  <2> QED
    BY <1>7, <2>1, <2>2 DEF UpsertPendingIngress, broadcastIngress
<1>8. ASSUME NEW w \in Worker, CancelPendingIngress(w) PROVE LiveTyped'
  <2> DEFINE gone == {r \in routes : r.worker = w /\ r.name \in PlanPrefixed}
  <2>1. routes' = routes \ gone /\ onRoute' = Sent(onRoute, Cardinality(gone))
    BY <1>8 DEF CancelPendingIngress, broadcastRoute
  <2>2. IsFiniteSet(gone) /\ IsFiniteSet(routes \ gone)
    BY FS_Subset
  <2>3. onRoute' \in 0 .. ChanCap
    BY <2>1, <2>2, SentInRange
  <2> QED
    BY <1>8, <2>1, <2>2, <2>3 DEF CancelPendingIngress
<1>9. CASE ListRoutes
  <2> DEFINE gone == {r \in routes : Stale(r)}
  <2>1. routes' = routes \ gone /\ onRoute' = Sent(onRoute, Cardinality(gone))
    BY <1>9 DEF ListRoutes, broadcastRoute
  <2>2. IsFiniteSet(gone) /\ IsFiniteSet(routes \ gone)
    BY FS_Subset
  <2>3. onRoute' \in 0 .. ChanCap
    BY <2>1, <2>2, SentInRange
  <2> QED
    BY <1>9, <2>1, <2>2, <2>3 DEF ListRoutes
<1>10. CASE TakeRouteEvent \/ TakeIngressEvent
  BY <1>10 DEF TakeRouteEvent, TakeIngressEvent
<1>11. CASE Tick
  <2>1. IsFiniteSet(routes')
    <3> DEFINE f == [r \in routes |-> Older(r)]
    <3>1. routes' = {f[r] : r \in routes}
      BY <1>11 DEF Tick
    <3> HIDE DEF f
    <3> QED BY <3>1, FiniteImage
  <2>3. routes' \subseteq Route
    BY <1>11, OlderTyped DEF Tick
  <2> QED
    BY <1>11, <2>1, <2>3 DEF Tick
<1>12. CASE Restart
  BY <1>12 DEF Restart, TypeOK
<1>13. CASE OtherCallSaves
  BY <1>13 DEF OtherCallSaves
<1> QED
  BY <1>0, <1>1, <1>2, <1>3, <1>4, <1>5, <1>6, <1>7, <1>8, <1>9, <1>10, <1>11, <1>12,
     <1>13 DEF Next, HostCall, WorkerCall

\* Type correctness of every step.
LEMMA TypeStep == TypeOK /\ [Next]_vars => TypeOK'
<1> SUFFICES ASSUME TypeOK, [Next]_vars PROVE TypeOK'
  OBVIOUS
<1>1. LiveTyped'
  BY LiveTypeStep
<1> SUFFICES /\ saved' \in [routes : SUBSET Route, inbox : SUBSET IngressRequest]
             /\ IsFiniteSet(saved'.routes) /\ failures' \in 0 .. MaxSaveFailures
  BY <1>1 DEF TypeOK, LiveTyped
<1>2. CASE saved' = [routes |-> routes', inbox |-> inbox'] /\ failures' = failures
  BY <1>1, <1>2 DEF TypeOK, LiveTyped
<1>3. CASE /\ saved' = saved
           /\ failures' = failures \/ (failures < MaxSaveFailures /\ failures' = failures + 1)
  BY <1>3, RoutesAssumption DEF TypeOK
<1>4. CASE Tick
  <2> DEFINE f == [r \in saved.routes |-> Older(r)]
  <2>1. saved'.routes = {f[r] : r \in saved.routes} /\ saved'.inbox = saved.inbox
    BY <1>4 DEF Tick, TypeOK
  <2>2. \A r \in saved.routes : f[r] \in Route
    BY OlderTyped DEF TypeOK
  <2>3. IsFiniteSet(saved'.routes)
    <3> HIDE DEF f
    <3> QED BY <2>1, FiniteImage DEF TypeOK
  <2>4. saved' = [routes |-> saved'.routes, inbox |-> saved'.inbox]
    BY <1>4 DEF Tick, TypeOK
  <2>5. saved'.routes \subseteq Route /\ saved'.inbox \subseteq IngressRequest
    <3> HIDE DEF f
    <3> QED BY <2>1, <2>2 DEF TypeOK
  <2>6. saved' \in [routes : SUBSET Route, inbox : SUBSET IngressRequest]
    BY <2>4, <2>5
  <2> QED BY <1>4, <2>3, <2>6 DEF Tick, TypeOK
<1> QED BY <1>2, <1>3, <1>4, SaveCases

\* Every step keeps keys unique and ids fresh.
LEMMA UniqueStep == RoutesInv /\ [Next]_vars => KeysUnique' /\ Fresh'
<1> SUFFICES ASSUME TypeOK, KeysUnique, Fresh, SavedSound, [Next]_vars
             PROVE  KeysUnique' /\ Fresh'
  BY DEF RoutesInv
<1> USE RoutesAssumption
<1> USE DEF KeysUnique, Fresh, OneCall
<1>a. calls \in Nat /\ (\A r \in routes : r.id[1] \in Nat) /\ (\A q \in inbox : q.id \in Nat)
  BY DEF TypeOK, Route, IngressRequest
<1>0. CASE UNCHANGED vars
  BY <1>0 DEF vars
<1>1. ASSUME NEW l \in ExposeName, NEW w \in Worker, NEW p \in Port, AddRoute(l, w, p)
      PROVE KeysUnique' /\ Fresh'
  <2> DEFINE new == [id |-> <<calls, 0>>, name |-> l, worker |-> w, port |-> p,
                     origin |-> "expose", age |-> NeverSeen, off |-> FALSE]
  <2>1. /\ routes' = {r \in routes : r.name # l} \cup {new}
        /\ UNCHANGED inbox /\ calls' = calls + 1
    BY <1>1 DEF AddRoute
  <2>2. new.name = l /\ new.id = <<calls, 0>>
    OBVIOUS
  <2> HIDE DEF new
  <2>3. \A r \in routes : r.id # new.id
    BY <2>2, <1>a
  <2> QED BY <1>a, <2>1, <2>2, <2>3
<1>2. ASSUME NEW r \in routes, DeleteRoute(r) PROVE KeysUnique' /\ Fresh'
  BY <1>2, <1>a DEF DeleteRoute
<1>3. ASSUME NEW r \in routes, NEW d \in BOOLEAN, SetRouteDisabled(r, d)
      PROVE KeysUnique' /\ Fresh'
  <2>1. \A s \in routes' : \E t \in routes :
            /\ s = IF t.id = r.id THEN [t EXCEPT !.off = d] ELSE t
            /\ s.id = t.id /\ s.name = t.name
    BY <1>3 DEF SetRouteDisabled, TypeOK, Route
  <2> QED BY <1>3, <1>a, <2>1 DEF SetRouteDisabled
<1>4. ASSUME NEW q \in inbox, ApproveIngress(q) PROVE KeysUnique' /\ Fresh'
  <2>1. PICK new : /\ routes' = (routes \ Named(q.name)) \cup {new}
                   /\ new.name = q.name /\ new.worker = q.worker
                   /\ \/ \E r \in Named(q.name) : new.id = r.id /\ r.worker = q.worker
                      \/ new.id = <<calls, 0>>
    BY <1>4, ApproveShape
  <2>2. (\E r \in routes : r.name = q.name /\ new.id = r.id) \/ new.id = <<calls, 0>>
    BY <2>1 DEF Named
  <2>3. \A r \in routes \ Named(q.name) : r.name # q.name /\ r.id # new.id
    BY <2>2, <1>a DEF Named
  <2>4. calls' = calls + 1 /\ inbox' \subseteq inbox
    BY <1>4 DEF ApproveIngress
  <2>5. \A x, y \in routes' : (x.name = y.name \/ x.id = y.id) => x = y
    BY <2>1, <2>3
  <2>6. \A x \in routes' : x.id[1] < calls'
    <3>1. \A r \in routes : r.id[1] < calls + 1
      BY <1>a
    <3>2. new.id[1] < calls + 1
      BY <2>2, <3>1, <1>a
    <3> QED BY <2>1, <2>4, <3>1, <3>2
  <2> QED BY <1>a, <2>4, <2>5, <2>6
<1>5. ASSUME NEW q \in inbox, DismissIngress(q) PROVE KeysUnique' /\ Fresh'
  BY <1>5, <1>a DEF DismissIngress
<1>6. ASSUME NEW w \in Worker, NEW s \in Slug, NEW up \in SUBSET Port,
             handleWorkerPostPorts(w, s, up)
      PROVE KeysUnique' /\ Fresh'
  <2> DEFINE served == Served(w, s, up)
             labels == {AutoRouteName[s][p] : p \in served}
             made == Created(s, served)
             Refreshed(r) == IF r.name \in labels THEN [r EXCEPT !.age = 0] ELSE r
             Made(p) == [id |-> <<calls, p>>, name |-> AutoRouteName[s][p], worker |-> w,
                         port |-> p, origin |-> "auto", age |-> 0, off |-> FALSE]
  <2>1. \A r \in routes : Refreshed(r).id = r.id /\ Refreshed(r).name = r.name
    BY DEF TypeOK, Route
  <2>2. \A p \in made : /\ p \in Nat /\ \A r \in routes : r.name # AutoRouteName[s][p]
                        /\ \A q \in made : AutoRouteName[s][p] = AutoRouteName[s][q] => p = q
    <3> SUFFICES ASSUME NEW p \in made
                 PROVE  /\ p \in Nat /\ \A r \in routes : r.name # AutoRouteName[s][p]
                        /\ \A q \in made : AutoRouteName[s][p] = AutoRouteName[s][q] => p = q
      OBVIOUS
    <3>1. \A q \in made : q \in served /\ Named(AutoRouteName[s][q]) = {}
      BY DEF Created
    <3>2. \A q \in made, x \in served : AutoRouteName[s][x] = AutoRouteName[s][q] => q <= x
      BY DEF Created
    <3>3. \A q \in served : q \in Nat
      BY DEF Served
    <3>4. \A r \in routes : r.name # AutoRouteName[s][p]
      BY <3>1 DEF Named
    <3> HIDE DEF served, made
    <3>5. \A q \in made : AutoRouteName[s][p] = AutoRouteName[s][q] => p = q
      BY <3>1, <3>2, <3>3
    <3> QED BY <3>1, <3>3, <3>4, <3>5
  <2>3. routes' = {Refreshed(r) : r \in routes} \cup {Made(p) : p \in made}
    BY <1>6 DEF handleWorkerPostPorts, SyncWorkerPorts
  <2>4. \A p \in made : Made(p).id = <<calls, p>> /\ Made(p).name = AutoRouteName[s][p]
    OBVIOUS
  <2> HIDE DEF Refreshed, Made, made
  <2>5. ASSUME NEW x \in routes', NEW y \in routes', x.name = y.name \/ x.id = y.id
        PROVE x = y
    <3>1. ASSUME NEW r \in routes, NEW t \in routes, x = Refreshed(r), y = Refreshed(t)
          PROVE x = y
      BY <3>1, <2>1, <2>5
    <3>2. ASSUME NEW p \in made, NEW q \in made, x = Made(p), y = Made(q) PROVE x = y
      BY <3>2, <2>2, <2>4, <2>5
    <3>3. ASSUME NEW p \in made, NEW r \in routes
          PROVE Made(p).name # Refreshed(r).name /\ Made(p).id # Refreshed(r).id
      BY <2>1, <2>2, <2>4, <1>a
    <3>4. (\E r \in routes : x = Refreshed(r)) \/ \E p \in made : x = Made(p)
      BY <2>3
    <3>5. (\E r \in routes : y = Refreshed(r)) \/ \E p \in made : y = Made(p)
      BY <2>3
    <3>6. CASE \E r \in routes : x = Refreshed(r)
      <4>1. PICK r \in routes : x = Refreshed(r)
        BY <3>6
      <4>2. CASE \E t \in routes : y = Refreshed(t)
        BY <3>1, <4>1, <4>2
      <4>3. CASE \E p \in made : y = Made(p)
        BY <2>5, <3>3, <4>1, <4>3
      <4> QED BY <3>5, <4>2, <4>3
    <3>7. CASE \E p \in made : x = Made(p)
      <4>1. PICK p \in made : x = Made(p)
        BY <3>7
      <4>2. CASE \E t \in routes : y = Refreshed(t)
        <5>1. PICK t \in routes : y = Refreshed(t)
          BY <4>2
        <5>2. FALSE
          BY <3>3, <4>1, <5>1, <2>5
        <5> QED BY <5>2
      <4>3. CASE \E q \in made : y = Made(q)
        BY <3>2, <4>1, <4>3
      <4> QED BY <3>5, <4>2, <4>3
    <3> QED BY <3>4, <3>6, <3>7
  <2>6. \A x \in routes' : x.id[1] < calls'
    BY <1>6, <1>a, <2>1, <2>3, <2>4 DEF handleWorkerPostPorts
  <2> QED BY <1>6, <1>a, <2>5, <2>6 DEF handleWorkerPostPorts
<1>7. ASSUME NEW w \in Worker, NEW s \in Slug, NEW p \in Port, UpsertPendingIngress(w, s, p)
      PROVE KeysUnique' /\ Fresh'
  <2>1. UNCHANGED routes /\ calls' = calls + 1 /\ planningRouteName[s] \in PlanPrefixed
    BY <1>7 DEF UpsertPendingIngress
  <2> DEFINE Row(i) == [id |-> i, worker |-> w, name |-> planningRouteName[s], port |-> p]
  <2>2. CASE (\A q \in inbox : q.worker # w) /\ inbox' = inbox \cup {Row(calls)}
    BY <1>a, <2>1, <2>2
  <2>3. ASSUME NEW old \in inbox, old.worker = w, inbox' = (inbox \ {old}) \cup {Row(old.id)}
        PROVE  KeysUnique' /\ Fresh'
    BY <1>a, <2>1, <2>3
  <2> QED BY <1>7, <2>2, <2>3, UpsertShape
<1>8. ASSUME NEW w \in Worker, CancelPendingIngress(w) PROVE KeysUnique' /\ Fresh'
  BY <1>8, <1>a DEF CancelPendingIngress
<1>9. CASE ListRoutes
  BY <1>9, <1>a DEF ListRoutes
<1>10. CASE TakeRouteEvent \/ TakeIngressEvent
  BY <1>10 DEF TakeRouteEvent, TakeIngressEvent
<1>11. CASE Tick
  <2>1. \A s \in routes' : \E t \in routes : s = Older(t) /\ s.id = t.id /\ s.name = t.name
    BY <1>11 DEF Tick, Older, TypeOK, Route
  <2> QED BY <1>11, <2>1 DEF Tick
<1>12. CASE Restart
  <2>1. \A r \in saved.routes : r.id[1] \in Nat
    BY DEF TypeOK, Route
  <2>2. \A q \in saved.inbox : q.id \in Nat
    BY DEF TypeOK, IngressRequest
  <2> QED BY <1>12, <1>a, <2>1, <2>2 DEF Restart, SavedSound
<1>13. CASE OtherCallSaves
  BY <1>13 DEF OtherCallSaves
<1> QED
  BY <1>0, <1>1, <1>2, <1>3, <1>4, <1>5, <1>6, <1>7, <1>8, <1>9, <1>10, <1>11, <1>12,
     <1>13 DEF Next, HostCall, WorkerCall

\* The state of the routes always has its type, whatever calls are made.
THEOREM RoutesTyped == Spec => []TypeOK
<1>1. Init => TypeOK
  BY InitSound DEF RoutesInv
<1> QED
  BY <1>1, TypeStep, PTL DEF Spec

SameRow(s, t) == s.id = t.id /\ s.name = t.name /\ s.worker = t.worker

\* Where a route of the next state comes from: it was there, with its label and worker, it
\* is new under an id no one has seen, or a restart reads it from the file.
LEMMA RowOrigin ==
    ASSUME TypeOK, [Next]_vars, NEW s \in routes'
    PROVE  \/ \E t \in routes : SameRow(s, t)
           \/ \E n : s.id = <<calls, n>>
           \/ Restart /\ s \in saved.routes
<1> USE RoutesAssumption DEF SameRow
<1> DEFINE Old == \E t \in routes : SameRow(s, t)
           New == \E n : s.id = <<calls, n>>
<1>a. s \in routes => Old
  OBVIOUS
<1> HIDE DEF SameRow
<1>1. ASSUME NEW l \in ExposeName, NEW w \in Worker, NEW p \in Port, AddRoute(l, w, p)
      PROVE Old \/ New
  <2>1. s \in routes \/ s.id = <<calls, 0>>
    BY <1>1 DEF AddRoute
  <2> QED BY <2>1, <1>a
<1>2. CASE routes' \subseteq routes
  BY <1>2, <1>a
<1>3. ASSUME NEW x \in routes, NEW d \in BOOLEAN, SetRouteDisabled(x, d) PROVE Old
  BY <1>3 DEF SetRouteDisabled, TypeOK, Route, SameRow
<1>4. ASSUME NEW q \in inbox, ApproveIngress(q) PROVE Old \/ New
  <2>1. PICK new : /\ routes' = (routes \ Named(q.name)) \cup {new}
                   /\ new.name = q.name /\ new.worker = q.worker
                   /\ \/ \E t \in Named(q.name) : new.id = t.id /\ t.worker = q.worker
                      \/ new.id = <<calls, 0>>
    BY <1>4, ApproveShape
  <2>2. CASE s \in routes
    BY <2>2, <1>a
  <2>3. CASE s = new /\ new.id = <<calls, 0>>
    BY <2>3
  <2>4. CASE s = new /\ \E t \in Named(q.name) : new.id = t.id /\ t.worker = q.worker
    BY <2>1, <2>4 DEF Named, SameRow
  <2> QED BY <2>1, <2>2, <2>3, <2>4
<1>5. ASSUME NEW w \in Worker, NEW g \in Slug, NEW up \in SUBSET Port,
             handleWorkerPostPorts(w, g, up)
      PROVE Old \/ New
  <2>1. \/ \E t \in routes : s = t \/ s = [t EXCEPT !.age = 0]
        \/ \E p \in Created(g, Served(w, g, up)) : s.id = <<calls, p>>
    BY <1>5 DEF handleWorkerPostPorts, SyncWorkerPorts
  <2>2. CASE \E t \in routes : s = t \/ s = [t EXCEPT !.age = 0]
    BY <2>2 DEF TypeOK, Route, SameRow
  <2> QED BY <2>1, <2>2
<1>6. CASE Tick
  <2>1. \A t \in routes : SameRow(Older(t), t)
    BY OlderTyped DEF TypeOK, SameRow
  <2> QED BY <1>6, <2>1 DEF Tick
<1>7. CASE Restart
  BY <1>7 DEF Restart
<1>8. \/ routes' \subseteq routes \/ Tick \/ Restart
      \/ \E l \in ExposeName, w \in Worker, p \in Port : AddRoute(l, w, p)
      \/ \E x \in routes, d \in BOOLEAN : SetRouteDisabled(x, d)
      \/ \E q \in inbox : ApproveIngress(q)
      \/ \E w \in Worker, g \in Slug, up \in SUBSET Port : handleWorkerPostPorts(w, g, up)
  BY DEF Next, HostCall, WorkerCall, vars, DeleteRoute, DismissIngress, UpsertPendingIngress,
         CancelPendingIngress, ListRoutes, TakeRouteEvent, TakeIngressEvent, OtherCallSaves
<1> QED BY <1>1, <1>2, <1>3, <1>4, <1>5, <1>6, <1>7, <1>8 DEF Old, New

\* The count of calls, from which the ids are made, never falls.
LEMMA CallsGrow == ASSUME [Next]_vars PROVE calls' = calls \/ calls' = calls + 1
BY DEF Next, HostCall, WorkerCall, vars, OneCall, AddRoute, DeleteRoute, SetRouteDisabled,
       ApproveIngress, DismissIngress, handleWorkerPostPorts, UpsertPendingIngress,
       CancelPendingIngress, ListRoutes, OtherCallSaves, TakeRouteEvent, TakeIngressEvent,
       Tick, Restart

\* Every step leaves the file sound.
LEMMA SavedStep == RoutesInv /\ [Next]_vars => SavedSound' /\ OneTarget'
<1> SUFFICES ASSUME RoutesInv, [Next]_vars PROVE SavedSound' /\ OneTarget'
  OBVIOUS
<1> USE DEF RoutesInv
<1>t. TypeOK' /\ KeysUnique' /\ Fresh'
  BY TypeStep, UniqueStep
<1>n. /\ calls \in Nat /\ calls' \in {calls, calls + 1}
      /\ \A r \in routes \cup saved.routes : r \in Route /\ r.id[1] \in Nat
      /\ \A q \in saved.inbox : q.id \in Nat
  BY CallsGrow, RoutesAssumption DEF TypeOK, Route, IngressRequest
<1>1. CASE saved' = [routes |-> routes', inbox |-> inbox'] /\ failures' = failures
  BY <1>1, <1>t DEF KeysUnique, Fresh, SavedSound, OneTarget
<1>2. CASE saved' = saved
  <2>1. SavedSound'
    BY <1>2, <1>n DEF SavedSound
  <2>2. ASSUME NEW s \in routes', NEW u \in saved.routes, s.id = u.id
        PROVE s.name = u.name /\ s.worker = u.worker
    <3>1. CASE \E t \in routes : SameRow(s, t)
      BY <2>2, <3>1 DEF SameRow, OneTarget
    <3>2. ~ \E n : s.id = <<calls, n>>
      BY <2>2, <1>n DEF SavedSound
    <3>3. CASE s \in saved.routes
      BY <2>2, <3>3 DEF SavedSound
    <3> QED BY <3>1, <3>2, <3>3, RowOrigin
  <2> QED BY <2>1, <2>2, <1>2 DEF OneTarget
<1>3. CASE Tick
  <2>1. /\ routes' = {Older(r) : r \in routes} /\ calls' = calls
        /\ saved'.routes = {Older(r) : r \in saved.routes} /\ saved'.inbox = saved.inbox
    BY <1>3 DEF Tick, TypeOK
  <2>2. \A r \in routes \cup saved.routes :
            Older(r).id = r.id /\ Older(r).name = r.name /\ Older(r).worker = r.worker
    BY <1>n, OlderTyped
  <2>3. SavedSound'
    <3>1. \A r \in saved'.routes : \E t \in saved.routes :
              r = Older(t) /\ r.id = t.id /\ r.name = t.name
      BY <2>1, <2>2
    <3>2. \A r \in saved'.routes : r.id[1] < calls'
      BY <2>1, <3>1 DEF SavedSound
    <3>3. \A r, s \in saved'.routes : (r.name = s.name \/ r.id = s.id) => r = s
      BY <3>1 DEF SavedSound
    <3> QED BY <2>1, <3>2, <3>3 DEF SavedSound
  <2>4. OneTarget'
    BY <2>1, <2>2 DEF OneTarget
  <2> QED BY <2>3, <2>4
<1> QED BY <1>1, <1>2, <1>3, SaveCases

\* The inductive invariant of the routes.
LEMMA RoutesInductive == RoutesInv /\ [Next]_vars => RoutesInv'
BY TypeStep, UniqueStep, SavedStep DEF RoutesInv

\* A label has one route, an id one route, a worker one pending request: for any number
\* of workers, ports, labels, calls and failed saves.
THEOREM RoutesKeyed == Spec => []KeysUnique
<1>1. RoutesInv => KeysUnique
  BY DEF RoutesInv
<1> QED
  BY <1>1, InitSound, RoutesInductive, PTL DEF Spec

\* A route of the next state that has the id of one of this state is that one's label
\* and worker.
LEMMA IdStep ==
    ASSUME RoutesInv, [Next]_vars
    PROVE  \A r \in routes, s \in routes' : r.id = s.id => r.name = s.name /\ r.worker = s.worker
<1> SUFFICES ASSUME NEW r \in routes, NEW s \in routes', r.id = s.id
             PROVE  r.name = s.name /\ r.worker = s.worker
  OBVIOUS
<1> USE DEF RoutesInv
<1>1. CASE \E t \in routes : SameRow(s, t)
  BY <1>1 DEF SameRow, KeysUnique
<1>2. ~ \E n : s.id = <<calls, n>>
  <2>1. calls \in Nat /\ r.id[1] < calls
    BY RoutesAssumption DEF TypeOK, Fresh
  <2> QED BY <2>1
<1>3. CASE s \in saved.routes
  BY <1>3 DEF OneTarget
<1> QED BY <1>1, <1>2, <1>3, RowOrigin DEF RoutesInv

\* A row's id is never handed to another label or worker, a restart that undoes unsaved
\* changes included.
THEOREM IdsKeepTheirTarget == Spec => IdKeepsTarget
<1>1. RoutesInv /\ [Next]_vars =>
        [\A r \in routes, s \in routes' :
            r.id = s.id => r.name = s.name /\ r.worker = s.worker]_vars
  BY IdStep
<1> QED
  BY <1>1, InitSound, RoutesInductive, PTL DEF Spec, IdKeepsTarget

\* What the host exposed is in the file as well.
ExposedSaved ==
    \A e \in exposed : e.name \notin PlanPrefixed =>
        \E r \in saved.routes : /\ r.name = e.name /\ r.worker = e.worker
                                /\ r.port = e.port /\ r.origin = "expose"

\* Every step keeps what the host exposed.
LEMMA ExposedStep ==
    RoutesInv /\ ExposedSaved /\ ExposedKept /\ [Next]_vars => ExposedKept'
<1> SUFFICES ASSUME TypeOK, KeysUnique, Fresh, ExposedSaved, ExposedKept, [Next]_vars
             PROVE  ExposedKept'
  BY DEF RoutesInv
<1> DEFINE Kept(e, r) == /\ r.name = e.name /\ r.worker = e.worker /\ r.port = e.port
                         /\ r.origin = "expose"
\* It is enough that the row survives, up to its age and switch.
<1>a. ASSUME NEW e \in exposed, e.name \notin PlanPrefixed,
             \A r \in routes : Kept(e, r) => \E s \in routes' : Kept(e, s)
      PROVE \E s \in routes' : Kept(e, s)
  BY <1>a DEF ExposedKept
<1>b. ASSUME exposed' = exposed,
             \A e \in exposed : \A r \in routes : e.name \notin PlanPrefixed /\ Kept(e, r)
                 => \E s \in routes' : Kept(e, s)
      PROVE ExposedKept'
  BY <1>a, <1>b DEF ExposedKept
<1>0. CASE UNCHANGED <<routes, exposed>>
  BY <1>0 DEF ExposedKept
<1>1. ASSUME NEW l \in ExposeName, NEW w \in Worker, NEW p \in Port, AddRoute(l, w, p)
      PROVE ExposedKept'
  <2> DEFINE new == [id |-> <<calls, 0>>, name |-> l, worker |-> w, port |-> p,
                     origin |-> "expose", age |-> NeverSeen, off |-> FALSE]
  <2>1. /\ routes' = {r \in routes : r.name # l} \cup {new}
        /\ exposed' \subseteq {e \in exposed : e.name # l}
                          \cup {[name |-> l, worker |-> w, port |-> p]}
    BY <1>1 DEF AddRoute, Expose
  <2>2. Kept([name |-> l, worker |-> w, port |-> p], new)
    OBVIOUS
  <2>3. ASSUME NEW e \in exposed, e.name # l, e.name \notin PlanPrefixed
        PROVE \E s \in routes' : Kept(e, s)
    BY <2>1, <2>3 DEF ExposedKept
  <2> HIDE DEF new
  <2>4. ASSUME NEW e \in exposed', e.name \notin PlanPrefixed
        PROVE \E s \in routes' : Kept(e, s)
    <3>1. CASE e = [name |-> l, worker |-> w, port |-> p]
      BY <3>1, <2>1, <2>2
    <3>2. CASE e \in exposed /\ e.name # l
      BY <3>2, <2>3, <2>4
    <3> QED BY <2>1, <3>1, <3>2
  <2> QED BY <2>4 DEF ExposedKept
<1>2. ASSUME NEW r \in routes, DeleteRoute(r) PROVE ExposedKept'
  <2>1. routes' = {s \in routes : s.id # r.id} /\ exposed' = {e \in exposed : e.name # r.name}
    BY <1>2 DEF DeleteRoute
  <2>2. \A s \in routes : s.name # r.name => s.id # r.id
    BY DEF KeysUnique
  <2> QED BY <2>1, <2>2 DEF ExposedKept
<1>3. ASSUME NEW x \in routes, NEW d \in BOOLEAN, SetRouteDisabled(x, d) PROVE ExposedKept'
  <2>1. \A e \in exposed : \A r \in routes : Kept(e, r) => \E s \in routes' : Kept(e, s)
    <3> SUFFICES ASSUME NEW e \in exposed, NEW r \in routes, Kept(e, r)
                 PROVE \E s \in routes' : Kept(e, s)
      OBVIOUS
    <3> DEFINE s == IF r.id = x.id THEN [r EXCEPT !.off = d] ELSE r
    <3>1. s \in routes'
      BY <1>3 DEF SetRouteDisabled
    <3>2. Kept(e, s)
      BY DEF TypeOK, Route
    <3> QED BY <3>1, <3>2
  <2> QED BY <1>3, <2>1, <1>b DEF SetRouteDisabled
<1>4. ASSUME NEW q \in inbox, ApproveIngress(q) PROVE ExposedKept'
  <2>1. exposed' = exposed /\ q.name \in PlanPrefixed
    BY <1>4 DEF ApproveIngress, Fresh
  <2>2. \A r \in routes : r.name # q.name => r \in routes'
    BY <1>4, ApproveShape DEF Named
  <2> QED BY <2>1, <2>2, <1>b
<1>5. ASSUME NEW w \in Worker, NEW g \in Slug, NEW up \in SUBSET Port,
             handleWorkerPostPorts(w, g, up)
      PROVE ExposedKept'
  <2> DEFINE labels == {AutoRouteName[g][p] : p \in Served(w, g, up)}
  <2>1. \A e \in exposed : \A r \in routes : Kept(e, r) => \E s \in routes' : Kept(e, s)
    <3> SUFFICES ASSUME NEW e \in exposed, NEW r \in routes, Kept(e, r)
                 PROVE \E s \in routes' : Kept(e, s)
      OBVIOUS
    <3> DEFINE s == IF r.name \in labels THEN [r EXCEPT !.age = 0] ELSE r
    <3>1. s \in routes'
      BY <1>5 DEF handleWorkerPostPorts, SyncWorkerPorts
    <3>2. Kept(e, s)
      BY DEF TypeOK, Route
    <3> QED BY <3>1, <3>2
  <2> QED BY <1>5, <2>1, <1>b DEF handleWorkerPostPorts
<1>6. ASSUME NEW w \in Worker, CancelPendingIngress(w) PROVE ExposedKept'
  <2>1. exposed' = exposed /\ \A r \in routes : r.name \notin PlanPrefixed => r \in routes'
    BY <1>6 DEF CancelPendingIngress
  <2> QED BY <2>1, <1>b
<1>7. CASE ListRoutes
  <2>1. exposed' = exposed /\ \A r \in routes : r.origin = "expose" => r \in routes'
    BY <1>7 DEF ListRoutes, Stale
  <2> QED BY <2>1, <1>b
<1>8. CASE Tick
  <2>1. \A r \in routes : Older(r) \in routes'
    BY <1>8 DEF Tick
  <2>2. \A r \in routes : /\ Older(r).name = r.name /\ Older(r).worker = r.worker
                          /\ Older(r).port = r.port /\ Older(r).origin = r.origin
    BY DEF Older, TypeOK, Route
  <2> QED BY <1>8, <2>1, <2>2, <1>b DEF Tick
<1>9. \/ UNCHANGED <<routes, exposed>> \/ ListRoutes \/ Tick
      \/ \E l \in ExposeName, w \in Worker, p \in Port : AddRoute(l, w, p)
      \/ \E r \in routes : DeleteRoute(r)
      \/ \E x \in routes, d \in BOOLEAN : SetRouteDisabled(x, d)
      \/ \E q \in inbox : ApproveIngress(q)
      \/ \E w \in Worker, g \in Slug, up \in SUBSET Port :
             handleWorkerPostPorts(w, g, up)
      \/ \E w \in Worker : CancelPendingIngress(w)
      \/ Restart
  BY DEF Next, HostCall, WorkerCall, vars, DismissIngress, UpsertPendingIngress,
         TakeRouteEvent, TakeIngressEvent, OtherCallSaves
<1>10. CASE Restart
  BY <1>10 DEF Restart, ExposedSaved, ExposedKept
<1> QED BY <1>0, <1>1, <1>2, <1>3, <1>4, <1>5, <1>6, <1>7, <1>8, <1>9, <1>10

\* A step that leaves the file as it was exposes nothing new.
LEMMA ExposedNeedsSave ==
    ASSUME TypeOK, [Next]_vars
    PROVE  exposed' \subseteq exposed \/ saved' = [routes |-> routes', inbox |-> inbox']
<1>1. ASSUME NEW l \in ExposeName, NEW w \in Worker, NEW p \in Port, AddRoute(l, w, p)
      PROVE exposed' \subseteq exposed \/ saved' = [routes |-> routes', inbox |-> inbox']
  <2>1. CASE Saved
    BY <2>1 DEF Saved
  <2>2. CASE SaveFails
    <3>1. failures' # failures
      BY <2>2 DEF SaveFails, TypeOK
    <3> QED BY <1>1, <3>1 DEF AddRoute, Expose
  <2> QED BY <1>1, <2>1, <2>2 DEF AddRoute, SaveThenBroadcast
<1>2. ASSUME NEW r \in routes, DeleteRoute(r) PROVE exposed' \subseteq exposed
  BY <1>2 DEF DeleteRoute
<1>3. \/ exposed' = exposed
      \/ \E l \in ExposeName, w \in Worker, p \in Port : AddRoute(l, w, p)
      \/ \E r \in routes : DeleteRoute(r)
  BY DEF Next, HostCall, WorkerCall, vars, SetRouteDisabled, ApproveIngress, DismissIngress,
         handleWorkerPostPorts, UpsertPendingIngress, CancelPendingIngress, ListRoutes,
         OtherCallSaves, TakeRouteEvent, TakeIngressEvent, Tick, Restart
<1> QED BY <1>1, <1>2, <1>3

\* Every step keeps it in the file.
LEMMA ExposedSavedStep ==
    RoutesInv /\ ExposedSaved /\ ExposedKept /\ [Next]_vars => ExposedSaved'
<1> SUFFICES ASSUME RoutesInv, ExposedSaved, ExposedKept, [Next]_vars PROVE ExposedSaved'
  OBVIOUS
<1>1. CASE saved' = [routes |-> routes', inbox |-> inbox']
  BY <1>1, ExposedStep DEF ExposedKept, ExposedSaved
<1>2. CASE saved' = saved /\ exposed' \subseteq exposed
  BY <1>2 DEF ExposedSaved
<1>3. CASE Tick
  <2>1. saved'.routes = {Older(r) : r \in saved.routes} /\ exposed' = exposed
    BY <1>3 DEF Tick, RoutesInv, TypeOK
  <2>2. \A r \in saved.routes : /\ Older(r).name = r.name /\ Older(r).worker = r.worker
                                /\ Older(r).port = r.port /\ Older(r).origin = r.origin
    BY OlderTyped DEF RoutesInv, TypeOK
  <2> QED BY <2>1, <2>2 DEF ExposedSaved
<1> QED BY <1>1, <1>2, <1>3, SaveCases, ExposedNeedsSave DEF RoutesInv

\* Exposed routes outside the planning labels stay as the host made them, whichever saves
\* fail and whenever the gateway restarts.
THEOREM ExposedRoutesStay == Spec => []ExposedKept
<1> DEFINE Inv == RoutesInv /\ ExposedSaved /\ ExposedKept
<1>1. Init => Inv
  BY InitSound DEF Init, ExposedKept, ExposedSaved
<1>2. Inv /\ [Next]_vars => Inv'
  BY RoutesInductive, ExposedStep, ExposedSavedStep
<1>3. Inv => ExposedKept
  OBVIOUS
<1> QED
  BY <1>1, <1>2, <1>3, PTL DEF Spec
=============================================================================
