--------------------------- MODULE RegistryProofs ---------------------------
(***************************************************************************)
(* Proofs about Registry, for any number of workers, addresses, commands   *)
(* and restarts.  The inductive invariant says that every address in a     *)
(* record, and in the copy a check-in carries, is one the worker really    *)
(* had, and that a registration or a check-in under way is about a         *)
(* container that runs.                                                    *)
(***************************************************************************)
EXTENDS Registry, FiniteSetTheorems, WellFoundedInduction, TLAPS

AddressesTrue ==
    /\ \A w \in Worker : workers[w].ips \subseteq held[w]
    /\ \A w \in Worker : boot[w].rec.ips \subseteq held[w]
    /\ \A w \in Worker : at[w] # NoAddr => at[w] \in held[w]
    /\ \A w \in Worker : w \in up \/ boot[w].pc # "none" => at[w] # NoAddr

RegistryInv == RegistryTypeOK /\ AddressesTrue

-----------------------------------------------------------------------------
(* Lookups and ranks.                                                       *)

\* A set of workers that is not empty has one of least rank.
LEMMA LeastRank ==
    ASSUME NEW S \in SUBSET Worker, S # {}, NEW r \in [Worker -> Nat]
    PROVE  \E w \in S : \A v \in S : r[w] <= r[v]
<1> DEFINE T == {r[w] : w \in S}
<1>1. T \subseteq Nat /\ T # {}
  OBVIOUS
<1>2. \E x \in T : \A y \in T : ~ (<<y, x>> \in OpToRel(<, Nat))
  <2> HIDE DEF T
  <2> QED BY <1>1, NatLessThanWellFounded, WFMin
<1>3. PICK x \in T : \A y \in T : ~ (<<y, x>> \in OpToRel(<, Nat))
  BY <1>2
<1>4. \A y \in T : x <= y
  <2> SUFFICES ASSUME NEW y \in T PROVE x <= y
    OBVIOUS
  <2>1. x \in Nat /\ y \in Nat
    BY <1>1
  <2>2. ASSUME y < x PROVE <<y, x>> \in OpToRel(<, Nat)
    BY <2>1, <2>2 DEF OpToRel
  <2>3. ~(y < x)
    BY <1>3, <2>2
  <2> HIDE DEF T
  <2> QED BY <2>1, <2>3
<1> QED BY <1>4

\* An address in some record is looked up to a record that has it.
LEMMA LookupHolds ==
    RegistryTypeOK => \A a : Holders(a) # {} => WorkerByIP(a) \in Holders(a)
<1> SUFFICES ASSUME RegistryTypeOK, NEW a, Holders(a) # {}
             PROVE  WorkerByIP(a) \in Holders(a)
  OBVIOUS
<1> DEFINE r == [w \in Worker |-> workers[w].rank]
<1>1. r \in [Worker -> Nat]
  BY DEF RegistryTypeOK, WorkerRec, NoRecord
<1>2. Holders(a) \in SUBSET Worker
  BY DEF Holders, Registered
<1>3. \E w \in Holders(a) : \A v \in Holders(a) : r[w] <= r[v]
  <2> HIDE DEF r
  <2> QED BY <1>1, <1>2, LeastRank
<1>4. \E w \in Holders(a) : \A v \in Holders(a) : workers[w].rank <= workers[v].rank
  BY <1>2, <1>3
<1> QED BY <1>4 DEF WorkerByIP

\* The end of the list is a rank a record can have.
LEMMA NextRank == Cardinality(Registered) + 1 \in Nat \ {0}
<1>1. IsFiniteSet(Registered)
  BY RegistryAssumption, FS_Subset DEF Registered
<1>2. Cardinality(Registered) \in Nat
  BY <1>1, FS_CardinalityType
<1> QED BY <1>2

\* The parts of a record, in the list or not.
LEMMA RecordTyped ==
    ASSUME NEW r \in WorkerRec
    PROVE  r \in [rank : Nat, ips : SUBSET Addr, dir : BOOLEAN, off : BOOLEAN]
<1>1. CASE r = NoRecord
  BY <1>1 DEF NoRecord
<1>2. CASE r \in [rank : Nat \ {0}, ips : SUBSET Addr, dir : BOOLEAN, off : BOOLEAN]
  BY <1>2
<1> QED BY <1>1, <1>2 DEF WorkerRec

\* What is stored for a worker is what it is given, with a rank.
LEMMA UpsertStores ==
    ASSUME RegistryTypeOK, NEW w \in Worker, NEW rec \in [rank : Nat, ips : SUBSET Addr,
                                                          dir : BOOLEAN, off : BOOLEAN],
           UpsertWorker(w, rec)
    PROVE  /\ workers' \in [Worker -> WorkerRec]
           /\ workers'[w].ips = rec.ips /\ workers'[w].rank > 0
           /\ \A v \in Worker \ {w} : workers'[v] = workers[v]
<1> DEFINE n == IF workers[w].rank > 0 THEN workers[w].rank ELSE Cardinality(Registered) + 1
           new == [rec EXCEPT !.rank = n]
<1>1. n \in Nat \ {0}
  BY NextRank DEF RegistryTypeOK, WorkerRec, NoRecord
<1>2. new \in [rank : Nat \ {0}, ips : SUBSET Addr, dir : BOOLEAN, off : BOOLEAN]
  <2> HIDE DEF n
  <2> QED BY <1>1
<1>3. new.ips = rec.ips /\ new.rank = n
  OBVIOUS
<1>4. workers' = [workers EXCEPT ![w] = new]
  BY DEF UpsertWorker
<1> HIDE DEF new
<1>5. new.rank > 0
  BY <1>1, <1>3
<1> QED BY <1>2, <1>3, <1>4, <1>5 DEF RegistryTypeOK, WorkerRec

-----------------------------------------------------------------------------
(* The invariant.                                                           *)

\* Nothing is registered and nothing runs.
LEMMA RegistryInitInv == RegistryInit => RegistryInv
BY DEF RegistryInit, RegistryInv, RegistryTypeOK, AddressesTrue, WorkerRec, NoRecord, Boot, NoBoot

\* Booted, NoBoot and a retry are check-ins with an empty copy.
LEMMA BootTyped ==
    /\ NoBoot \in Boot /\ Booted \in Boot
    /\ NoBoot.rec.ips = {} /\ Booted.rec.ips = {} /\ NoBoot.pc = "none"
    /\ \A b \in Boot : Retried(b) \in Boot /\ Retried(b).rec.ips = {}
<1>1. NoRecord \in WorkerRec /\ NoRecord.ips = {}
  BY DEF WorkerRec, NoRecord
<1>2. NoBoot \in Boot /\ Booted \in Boot /\ NoBoot.rec.ips = {} /\ Booted.rec.ips = {}
         /\ NoBoot.pc = "none"
  BY <1>1 DEF Boot, NoBoot, Booted
<1>3. ASSUME NEW b \in Boot PROVE Retried(b) \in Boot /\ Retried(b).rec.ips = {}
  BY <1>1 DEF Retried, Boot, NoBoot, Booted
<1> QED BY <1>2, <1>3

\* A new container: its address is remembered and its check-in is to come.
LEMMA PlaceKeeps ==
    ASSUME RegistryInv, NEW w \in Worker, NEW a \in Addr, Place(w, a), UNCHANGED workers
    PROVE  /\ at' \in [Worker -> Addr \cup {NoAddr}]
           /\ boot' \in [Worker -> Boot]
           /\ held' \in [Worker -> SUBSET Addr]
           /\ \A v \in Worker : workers'[v].ips \subseteq held'[v]
           /\ \A v \in Worker : boot'[v].rec.ips \subseteq held'[v]
           /\ \A v \in Worker : at'[v] # NoAddr => at'[v] \in held'[v]
           /\ at'[w] # NoAddr
           /\ \A v \in Worker \ {w} : at'[v] = at[v] /\ boot'[v] = boot[v]
<1> USE DEF RegistryInv, RegistryTypeOK
<1>1. at' \in [Worker -> Addr \cup {NoAddr}] /\ held' \in [Worker -> SUBSET Addr]
  BY DEF Place
<1>2. boot' \in [Worker -> Boot]
  BY BootTyped DEF Place
<1>3. \A v \in Worker : held[v] \subseteq held'[v]
  BY DEF Place
<1>4. \A v \in Worker : workers'[v].ips \subseteq held'[v]
  BY <1>3 DEF AddressesTrue
<1>5. \A v \in Worker : boot'[v].rec.ips \subseteq held'[v]
  BY <1>3, BootTyped DEF AddressesTrue, Place
<1>6. \A v \in Worker : at'[v] # NoAddr => at'[v] \in held'[v]
  BY <1>3 DEF AddressesTrue, Place
<1>7. at'[w] # NoAddr /\ \A v \in Worker \ {w} : at'[v] = at[v] /\ boot'[v] = boot[v]
  BY RegistryAssumption DEF Place
<1> QED BY <1>1, <1>2, <1>4, <1>5, <1>6, <1>7

\* A step of a check-in that stores nothing.
LEMMA CheckinKeeps ==
    ASSUME RegistryInv, NEW w \in Worker, NEW b \in Boot, Checkin(w, b), UNCHANGED workers,
           b.rec.ips \subseteq held[w], b.pc # "none" => at[w] # NoAddr
    PROVE  RegistryInv'
<1>1. boot' \in [Worker -> Boot]
  BY DEF Checkin, RegistryInv, RegistryTypeOK
<1>2. \A v \in Worker : boot'[v] = IF v = w THEN b ELSE boot[v]
  BY DEF Checkin, RegistryInv, RegistryTypeOK
<1>3. RegistryTypeOK'
  BY <1>1 DEF Checkin, RegistryInv, RegistryTypeOK
<1>4. AddressesTrue'
  BY <1>2 DEF Checkin, RegistryInv, AddressesTrue
<1> QED BY <1>3, <1>4 DEF RegistryInv

\* A record stored with addresses the worker had.
LEMMA UpsertKeeps ==
    ASSUME RegistryInv, NEW w \in Worker,
           NEW rec \in [rank : Nat, ips : SUBSET Addr, dir : BOOLEAN, off : BOOLEAN],
           UpsertWorker(w, rec), rec.ips \subseteq held[w], UNCHANGED <<at, held, wanted, restarts, calls>>,
           boot' = boot \/ boot' = [boot EXCEPT ![w] = NoBoot], up' \subseteq up
    PROVE  RegistryInv'
<1>1. /\ workers' \in [Worker -> WorkerRec] /\ workers'[w].ips = rec.ips
      /\ \A v \in Worker \ {w} : workers'[v] = workers[v]
  BY UpsertStores DEF RegistryInv
<1>2. boot' \in [Worker -> Boot] /\ \A v \in Worker : boot'[v] \in {boot[v], NoBoot}
  BY BootTyped DEF RegistryInv, RegistryTypeOK
<1>3. RegistryTypeOK'
  BY <1>1, <1>2 DEF RegistryInv, RegistryTypeOK
<1>4. AddressesTrue'
  BY <1>1, <1>2, BootTyped DEF RegistryInv, AddressesTrue
<1> QED BY <1>3, <1>4 DEF RegistryInv

\* Every step keeps the invariant.
LEMMA RegistryStep == RegistryInv /\ [RegistryNext]_registryVars => RegistryInv'
<1> SUFFICES ASSUME RegistryInv, [RegistryNext]_registryVars PROVE RegistryInv'
  OBVIOUS
<1>t. RegistryTypeOK /\ AddressesTrue
  BY DEF RegistryInv
<1>1. CASE UNCHANGED registryVars
  BY <1>1, <1>t DEF registryVars, RegistryInv, RegistryTypeOK, AddressesTrue
<1>2. ASSUME NEW w \in Worker, cmdUp(w) PROVE RegistryInv'
  <2>1. up' = up \cup {w} /\ calls' \in Nat /\ UNCHANGED <<workers, wanted, restarts>>
    BY <1>2, <1>t DEF cmdUp, OneCall, RegistryTypeOK
  <2>2. CASE at[w] # NoAddr /\ UNCHANGED <<at, held, boot>>
    BY <2>1, <2>2, <1>t DEF RegistryInv, RegistryTypeOK, AddressesTrue
  <2>3. CASE \E a \in Free(w) : Place(w, a)
    <3>1. PICK a \in Addr : Place(w, a)
      BY <2>3 DEF Free
    <3>2. RegistryTypeOK'
      BY <2>1, <3>1, <1>t, PlaceKeeps DEF RegistryTypeOK
    <3>3. AddressesTrue'
      BY <2>1, <3>1, <1>t, PlaceKeeps DEF AddressesTrue
    <3> QED BY <3>2, <3>3 DEF RegistryInv
  <2> QED BY <1>2, <2>2, <2>3 DEF cmdUp
<1>3. ASSUME NEW w \in Worker, handlePostWorkers(w) PROVE RegistryInv'
  <2> DEFINE rec == [rank |-> 0, ips |-> {at[w]}, dir |-> TRUE, off |-> FALSE]
  <2>1. at[w] \in Addr /\ at[w] \in held[w]
    BY <1>3, <1>t DEF handlePostWorkers, RegistryTypeOK, AddressesTrue
  <2>2. rec \in [rank : Nat, ips : SUBSET Addr, dir : BOOLEAN, off : BOOLEAN]
    BY <2>1
  <2>3. rec.ips \subseteq held[w]
    BY <2>1
  <2>4. UpsertWorker(w, rec) /\ up' \subseteq up
           /\ UNCHANGED <<at, boot, held, wanted, restarts, calls>>
    BY <1>3 DEF handlePostWorkers
  <2> HIDE DEF rec
  <2> QED BY <2>2, <2>3, <2>4, UpsertKeeps
<1>4. ASSUME NEW w \in Worker, RegistrationLost(w) PROVE RegistryInv'
  BY <1>4, <1>t DEF RegistrationLost, RegistryInv, RegistryTypeOK, AddressesTrue
<1>5. ASSUME NEW w \in Worker, recreateWorker(w) PROVE RegistryInv'
  <2>1. calls' \in Nat /\ UNCHANGED <<workers, up, wanted, restarts>>
    BY <1>5, <1>t DEF recreateWorker, OneCall, RegistryTypeOK
  <2>2. PICK a \in Addr : Place(w, a)
    BY <1>5 DEF recreateWorker, Free
  <2>3. RegistryTypeOK'
    BY <2>1, <2>2, <1>t, PlaceKeeps DEF RegistryTypeOK
  <2>4. AddressesTrue'
    BY <2>1, <2>2, <1>t, PlaceKeeps DEF AddressesTrue
  <2> QED BY <2>3, <2>4 DEF RegistryInv
<1>6. ASSUME NEW w \in Worker, Down(w) PROVE RegistryInv'
  <2>1. calls' \in Nat /\ UNCHANGED <<workers, up, held, wanted, restarts>> /\ w \notin up
    BY <1>6, <1>t DEF Down, OneCall, RegistryTypeOK, Settled
  <2>2. boot' \in [Worker -> Boot]
           /\ \A v \in Worker : boot'[v] = IF v = w THEN NoBoot ELSE boot[v]
    BY <1>6, <1>t, BootTyped DEF Down, RegistryTypeOK
  <2>3. at' \in [Worker -> Addr \cup {NoAddr}]
           /\ \A v \in Worker : at'[v] = IF v = w THEN NoAddr ELSE at[v]
    BY <1>6, <1>t DEF Down, RegistryTypeOK
  <2>4. RegistryTypeOK'
    BY <2>1, <2>2, <2>3, <1>t DEF RegistryTypeOK
  <2>5. AddressesTrue'
    BY <2>1, <2>2, <2>3, <1>t, BootTyped DEF AddressesTrue
  <2> QED BY <2>4, <2>5 DEF RegistryInv
<1>7. ASSUME NEW w \in Worker, NEW d \in BOOLEAN, SetWorkerInternet(w, d) PROVE RegistryInv'
  <2>1. /\ calls' \in Nat /\ UNCHANGED <<at, boot, up, held, restarts>>
        /\ wanted' \in [Worker -> BOOLEAN]
    BY <1>7, <1>t DEF SetWorkerInternet, OneCall, RegistryTypeOK
  <2> DEFINE new == [workers[w] EXCEPT !.off = d]
  <2>2. new \in WorkerRec /\ new.ips = workers[w].ips
    BY <1>7, <1>t DEF SetWorkerInternet, Registered, RegistryTypeOK, WorkerRec, NoRecord
  <2>3. workers' = [workers EXCEPT ![w] = new]
    BY <1>7 DEF SetWorkerInternet
  <2> HIDE DEF new
  <2>4. workers' \in [Worker -> WorkerRec] /\ \A v \in Worker : workers'[v].ips = workers[v].ips
    BY <2>2, <2>3, <1>t DEF RegistryTypeOK
  <2>5. RegistryTypeOK'
    BY <2>1, <2>4, <1>t DEF RegistryTypeOK
  <2>6. AddressesTrue'
    BY <2>1, <2>4, <1>t DEF AddressesTrue
  <2> QED BY <2>5, <2>6 DEF RegistryInv
<1>8. ASSUME NEW w \in Worker, CheckinFind(w) PROVE RegistryInv'
  <2>1. boot[w] \in Boot /\ boot[w].pc = "find" /\ at[w] # NoAddr /\ boot[w].rec.ips \subseteq held[w]
    BY <1>8, <1>t DEF CheckinFind, RegistryTypeOK, AddressesTrue
  <2>2. PICK b : Checkin(w, b) /\ b \in {NoBoot, [boot[w] EXCEPT !.pc = "load"], Retried(boot[w])}
    BY <1>8 DEF CheckinFind
  <2>3. b \in Boot /\ b.rec.ips \subseteq held[w]
    BY <2>1, <2>2, BootTyped DEF Boot
  <2> QED BY <2>1, <2>2, <2>3, <1>8, CheckinKeeps DEF CheckinFind
<1>9. ASSUME NEW w \in Worker, CheckinLoad(w) PROVE RegistryInv'
  <2> DEFINE b == [boot[w] EXCEPT !.pc = "upsert", !.rec = workers[w]]
  <2>1. boot[w] \in Boot /\ at[w] # NoAddr /\ workers[w] \in WorkerRec
           /\ workers[w].ips \subseteq held[w]
    BY <1>9, <1>t DEF CheckinLoad, RegistryTypeOK, AddressesTrue
  <2>2. b \in Boot /\ b.rec.ips \subseteq held[w]
    BY <2>1 DEF Boot
  <2>3. Checkin(w, b) /\ UNCHANGED workers
    BY <1>9 DEF CheckinLoad
  <2> HIDE DEF b
  <2> QED BY <2>1, <2>2, <2>3, CheckinKeeps
<1>10. ASSUME NEW w \in Worker, CheckinUpsert(w) PROVE RegistryInv'
  <2> DEFINE rec == [boot[w].rec EXCEPT !.ips = @ \cup {at[w]}]
  <2>1. boot[w].rec \in WorkerRec /\ boot[w].rec.ips \subseteq held[w]
           /\ at[w] \in Addr /\ at[w] \in held[w]
    BY <1>10, <1>t DEF CheckinUpsert, RegistryTypeOK, AddressesTrue, Boot
  <2>4. boot[w].rec \in [rank : Nat, ips : SUBSET Addr, dir : BOOLEAN, off : BOOLEAN]
    BY <2>1, RecordTyped
  <2>2. rec \in [rank : Nat, ips : SUBSET Addr, dir : BOOLEAN, off : BOOLEAN]
           /\ rec.ips = boot[w].rec.ips \cup {at[w]}
    BY <2>1, <2>4
  <2>3. UpsertWorker(w, rec) /\ boot' = [boot EXCEPT ![w] = NoBoot]
           /\ UNCHANGED <<at, up, held, wanted, restarts, calls>>
    BY <1>10 DEF CheckinUpsert, Checkin
  <2> HIDE DEF rec
  <2> QED BY <2>1, <2>2, <2>3, UpsertKeeps
<1>11. CASE Restart
  <2>1. restarts' \in Nat /\ UNCHANGED <<at, workers, up, held, wanted, calls>>
    BY <1>11, <1>t DEF Restart, RegistryTypeOK
  <2>2. \A v \in Worker : boot'[v] \in Boot /\ boot'[v].rec.ips = {}
                           /\ (boot'[v].pc # "none" => boot[v].pc # "none")
    BY <1>11, <1>t, BootTyped DEF Restart, RegistryTypeOK
  <2>3. boot' \in [Worker -> Boot]
    BY <2>2, <1>11 DEF Restart
  <2>4. RegistryTypeOK'
    BY <2>1, <2>3, <1>t DEF RegistryTypeOK
  <2>5. AddressesTrue'
    BY <2>1, <2>2, <1>t DEF AddressesTrue
  <2> QED BY <2>4, <2>5 DEF RegistryInv
<1> QED
  BY <1>1, <1>2, <1>3, <1>4, <1>5, <1>6, <1>7, <1>8, <1>9, <1>10, <1>11
  DEF RegistryNext, CheckinStep

\* The invariant holds of every behaviour.
LEMMA RegistryInvHolds == RegistrySpec => []RegistryInv
BY RegistryInitInv, RegistryStep, PTL DEF RegistrySpec

\* Records and check-ins have their types, and a record that is not in the list holds nothing,
\* however registrations, check-ins and toggles interleave.
THEOREM RegistryTyped == RegistrySpec => []RegistryTypeOK
<1>1. RegistryInv => RegistryTypeOK
  BY DEF RegistryInv
<1> QED BY <1>1, RegistryInvHolds, PTL

-----------------------------------------------------------------------------
(* Recognition.                                                             *)

\* The address of a container that was never another's is in no other record.
OnlyOwn == \A v \in Worker : OwnAddress(v) => Holders(at[v]) \subseteq {v}

\* The invariant says so.
LEMMA OnlyOwnRecord == RegistryInv => OnlyOwn
BY DEF OnlyOwn, RegistryInv, AddressesTrue, OwnAddress, Holders, Registered

\* An address that was never another's is not taken for another's (WorkerByIP).
THEOREM NeverMistakenHolds == RegistrySpec => []NeverMistaken
<1>1. RegistryInv => NeverMistaken
  <2> SUFFICES ASSUME RegistryInv, NEW w \in Worker, OwnAddress(w)
               PROVE  WorkerByIP(at[w]) \in {w, NoWorker}
    BY DEF NeverMistaken
  <2>1. Holders(at[w]) \subseteq {w}
    BY OnlyOwnRecord DEF OnlyOwn
  <2>2. CASE Holders(at[w]) = {}
    BY <2>2 DEF WorkerByIP
  <2>3. CASE Holders(at[w]) # {}
    BY <2>1, <2>3, LookupHolds DEF RegistryInv
  <2> QED BY <2>2, <2>3
<1> QED BY <1>1, RegistryInvHolds, PTL

\* A record that has the address of its running container keeps it.
LEMMA AddressStays ==
    ASSUME RegistryInv, [RegistryNext]_registryVars, NEW w \in Worker,
           w \in Holders(at[w]), at'[w] = at[w]
    PROVE  workers'[w].rank > 0 /\ at[w] \in workers'[w].ips
<1>r. workers[w].rank > 0 /\ at[w] \in workers[w].ips /\ RegistryTypeOK
  BY DEF Holders, Registered, RegistryInv
<1>1. CASE workers'[w] = workers[w]
  BY <1>1, <1>r
<1>2. ASSUME NEW v \in Worker, handlePostWorkers(v) PROVE workers'[w] = workers[w] \/ (workers'[w].rank > 0 /\ at[w] \in workers'[w].ips)
  <2> DEFINE rec == [rank |-> 0, ips |-> {at[v]}, dir |-> TRUE, off |-> FALSE]
  <2>1. at[v] \in Addr
    BY <1>2 DEF handlePostWorkers, RegistryInv, RegistryTypeOK, AddressesTrue
  <2>2. rec \in [rank : Nat, ips : SUBSET Addr, dir : BOOLEAN, off : BOOLEAN] /\ rec.ips = {at[v]}
    BY <2>1
  <2>3. UpsertWorker(v, rec)
    BY <1>2 DEF handlePostWorkers
  <2> HIDE DEF rec
  <2> QED BY <1>r, <2>2, <2>3, UpsertStores
<1>3. ASSUME NEW v \in Worker, CheckinUpsert(v) PROVE workers'[w] = workers[w] \/ (workers'[w].rank > 0 /\ at[w] \in workers'[w].ips)
  <2> DEFINE rec == [boot[v].rec EXCEPT !.ips = @ \cup {at[v]}]
  <2>1. boot[v].rec \in WorkerRec /\ at[v] \in Addr
    BY <1>3 DEF CheckinUpsert, RegistryInv, RegistryTypeOK, AddressesTrue, Boot
  <2>4. boot[v].rec \in [rank : Nat, ips : SUBSET Addr, dir : BOOLEAN, off : BOOLEAN]
    BY <2>1, RecordTyped
  <2>2. rec \in [rank : Nat, ips : SUBSET Addr, dir : BOOLEAN, off : BOOLEAN] /\ at[v] \in rec.ips
    BY <2>1, <2>4
  <2>3. UpsertWorker(v, rec)
    BY <1>3 DEF CheckinUpsert
  <2> HIDE DEF rec
  <2> QED BY <1>r, <2>2, <2>3, UpsertStores
<1>4. ASSUME NEW v \in Worker, NEW d \in BOOLEAN, SetWorkerInternet(v, d)
      PROVE  workers'[w].rank > 0 /\ at[w] \in workers'[w].ips
  <2>1. workers'[w].rank = workers[w].rank /\ workers'[w].ips = workers[w].ips
    BY <1>4, <1>r DEF SetWorkerInternet, RegistryTypeOK, WorkerRec, NoRecord
  <2> QED BY <2>1, <1>r
<1>5. CASE workers' = workers
  BY <1>5, <1>1
<1> QED
  BY <1>1, <1>2, <1>3, <1>4, <1>5
  DEF RegistryNext, CheckinStep, registryVars, cmdUp, RegistrationLost, recreateWorker, Down,
      CheckinFind, CheckinLoad, Restart

\* Nobody gets the address of a running container.
LEMMA AddressStaysOwn ==
    ASSUME RegistryInv, [RegistryNext]_registryVars, NEW w \in Worker, OwnAddress(w),
           at'[w] = at[w]
    PROVE  OwnAddress(w)'
<1>t. RegistryTypeOK
  BY DEF RegistryInv
<1> SUFFICES ASSUME NEW v \in Worker \ {w} PROVE at[w] \notin held'[v]
  BY DEF OwnAddress
<1>1. at[w] \notin held[v]
  BY DEF OwnAddress
<1>2. ASSUME NEW u \in Worker, NEW a \in Free(u), Place(u, a) PROVE at[w] \notin held'[v]
  BY <1>1, <1>2, <1>t DEF Place, Free, RegistryTypeOK
<1>3. CASE held' = held
  BY <1>1, <1>3
<1> QED
  BY <1>2, <1>3
  DEF RegistryNext, CheckinStep, registryVars, cmdUp, handlePostWorkers, RegistrationLost,
      recreateWorker, Down, SetWorkerInternet, CheckinFind, CheckinLoad, CheckinUpsert, Checkin,
      Restart

\* A container once recognised stays so while it lives (handleWorkerCheckin).
THEOREM RecognitionStays == RegistrySpec => RecognisedStays
<1>1. ASSUME RegistryInv, RegistryInv', [RegistryNext]_registryVars, NEW w \in Worker,
             OwnAddress(w), WorkerByIP(at[w]) = w, at'[w] = at[w]
      PROVE  (WorkerByIP(at[w]) = w)'
  <2>1. w \in Holders(at[w])
    <3>1. Holders(at[w]) # {}
      BY <1>1, RegistryAssumption DEF WorkerByIP
    <3> QED BY <1>1, <3>1, LookupHolds DEF RegistryInv
  <2>2. (w \in Holders(at[w]))'
    BY <1>1, <2>1, AddressStays DEF Holders, Registered
  <2>3. OwnAddress(w)'
    BY <1>1, AddressStaysOwn
  <2>4. (Holders(at[w]) \subseteq {w})'
    <3>1. (RegistryInv => OnlyOwn)'
      BY OnlyOwnRecord, PTL
    <3> QED BY <1>1, <2>3, <3>1 DEF OnlyOwn
  <2>5. (WorkerByIP(at[w]) \in Holders(at[w]))'
    <3>1. (RegistryTypeOK => \A a : Holders(a) # {} => WorkerByIP(a) \in Holders(a))'
      BY LookupHolds, PTL
    <3>2. RegistryTypeOK'
      BY <1>1 DEF RegistryInv
    <3> QED BY <2>2, <3>1, <3>2
  <2> QED BY <2>4, <2>5
<1>2. RegistryInv /\ RegistryInv' /\ [RegistryNext]_registryVars
        => [\A w \in Worker : OwnAddress(w) /\ WorkerByIP(at[w]) = w /\ at'[w] = at[w]
                                => (WorkerByIP(at[w]) = w)']_registryVars
  BY <1>1
<1> QED BY <1>2, RegistryInvHolds, PTL DEF RegistrySpec, RecognisedStays
=============================================================================
