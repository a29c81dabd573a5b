------------------------------ MODULE Registry ------------------------------
(***************************************************************************)
(* Who a request comes from: the worker registry of the store, the         *)
(* registration of piso up, the check-in a container makes when it boots,  *)
(* and the kill-switch.  A container is recognised by the address docker   *)
(* gave it; addresses are given again when a container is gone.            *)
(*                                                                         *)
(* The check-in is three store calls, and the registration, the toggle and *)
(* the check-ins of other containers come between them.  Docker and the    *)
(* boot script are external: a container names itself truthfully, and its  *)
(* check-in and the piso up that started it are over before it is          *)
(* replaced.  Every worker has a slug of its own and stands for it here.   *)
(***************************************************************************)
EXTENDS Integers, FiniteSets

CONSTANTS
    Worker,         \* container names, and their slugs
    NoWorker,
    Addr,           \* addresses of the vpc
    NoAddr,
    MaxTries,       \* check-ins a boot makes before it gives up
    MaxRestarts,    \* bound: gateway restarts
    MaxCalls        \* bound: commands, and toggles

ASSUME RegistryAssumption ==
    /\ IsFiniteSet(Worker)
    /\ NoWorker \notin Worker /\ NoAddr \notin Addr
    /\ MaxTries \in Nat \ {0} /\ MaxRestarts \in Nat /\ MaxCalls \in Nat

VARIABLES
    at,         \* worker -> the address of its running container
    workers,    \* worker -> its record
    boot,       \* worker -> the check-in of its container
    up,         \* workers piso up has started and not registered yet
    held,       \* history: worker -> the addresses it has had
    wanted,     \* history: worker -> its kill-switch as the operator last set it
    restarts, calls

registryVars == <<at, workers, boot, up, held, wanted, restarts, calls>>

\* WorkerRec; rank is the position in the list, 0 when there is no record.
NoRecord  == [rank |-> 0, ips |-> {}, dir |-> FALSE, off |-> FALSE]
WorkerRec == [rank : Nat \ {0}, ips : SUBSET Addr, dir : BOOLEAN, off : BOOLEAN]
                \cup {NoRecord}

Boot   == [pc : {"none", "find", "load", "upsert"}, tries : Nat, rec : WorkerRec]
NoBoot == [pc |-> "none", tries |-> 0, rec |-> NoRecord]
Booted == [pc |-> "find", tries |-> 0, rec |-> NoRecord]

OneCall == calls < MaxCalls /\ calls' = calls + 1

-----------------------------------------------------------------------------
(* The store.                                                               *)

Registered == {w \in Worker : workers[w].rank > 0}

Holders(a) == {w \in Registered : a \in workers[w].ips}

\* The first record of the list that has the address.
WorkerByIP(a) ==
    IF Holders(a) = {} THEN NoWorker
    ELSE CHOOSE w \in Holders(a) : \A v \in Holders(a) : workers[w].rank <= workers[v].rank

\* A slip: a record without a name yet is merged into the last one of the list.
UpsertMergesLast(w, rec) ==
    LET n == Cardinality(Registered)
        v == CHOOSE v \in Worker : workers[v].rank = n
    IN  workers' = IF n = 0 \/ workers[w].rank > 0
                   THEN [workers EXCEPT ![w] = [rec EXCEPT !.rank = 1 + n]]
                   ELSE [workers EXCEPT ![v].ips = @ \cup rec.ips]

\* The record takes the place of the one with its name, or the end of the list.
UpsertWorker(w, rec) ==
    workers' = [workers EXCEPT ![w] =
        [rec EXCEPT !.rank = IF workers[w].rank > 0 THEN workers[w].rank
                             ELSE Cardinality(Registered) + 1]]

-----------------------------------------------------------------------------
(* The host's commands.                                                     *)

\* Addresses the container of w may get; its old one may come back.
Free(w) == {a \in Addr : \A v \in Worker \ {w} : at[v] # a}

Place(w, a) ==
    /\ at' = [at EXCEPT ![w] = a]
    /\ held' = [held EXCEPT ![w] = @ \cup {a}]
    /\ boot' = [boot EXCEPT ![w] = Booted]

\* The container of w may be replaced: nothing about it is under way.
Settled(w) == boot[w].pc \notin {"load", "upsert"} /\ w \notin up

\* piso up: compose creates the container, unless it runs as the compose file says.
cmdUp(w) ==
    /\ OneCall
    /\ w \notin up
    /\ up' = up \cup {w}
    /\ \/ at[w] # NoAddr /\ UNCHANGED <<at, held, boot>>
       \/ Settled(w) /\ \E a \in Free(w) : Place(w, a)
    /\ UNCHANGED <<workers, wanted, restarts>>

\* The end of piso up: the addresses docker reports make a new record.
handlePostWorkers(w) ==
    /\ w \in up
    /\ up' = up \ {w}
    /\ UpsertWorker(w, [rank |-> 0, ips |-> {at[w]}, dir |-> TRUE, off |-> FALSE])
    /\ UNCHANGED <<at, boot, held, wanted, restarts, calls>>

\* Best effort: a registration that fails is not reported.
RegistrationLost(w) ==
    /\ w \in up
    /\ up' = up \ {w}
    /\ UNCHANGED <<at, workers, boot, held, wanted, restarts, calls>>

\* rolloutWorkers replaces the running containers of records with a directory and
\* does not register them again.
recreateWorker(w) ==
    /\ OneCall
    /\ at[w] # NoAddr /\ Settled(w)
    /\ workers[w].dir
    /\ \E a \in Free(w) : Place(w, a)
    /\ UNCHANGED <<workers, up, wanted, restarts>>

\* piso down.
Down(w) ==
    /\ OneCall
    /\ at[w] # NoAddr /\ Settled(w)
    /\ at' = [at EXCEPT ![w] = NoAddr]
    /\ boot' = [boot EXCEPT ![w] = NoBoot]
    /\ UNCHANGED <<workers, up, held, wanted, restarts>>

\* A slip: a toggle for a name that has no record is stored.
ToggleUnknown(w, disabled) ==
    /\ OneCall
    /\ workers' = [workers EXCEPT ![w].off = disabled]
    /\ wanted' = [wanted EXCEPT ![w] = disabled]
    /\ UNCHANGED <<at, boot, up, held, restarts>>

\* POST /workers/{name}/internet.
SetWorkerInternet(w, disabled) ==
    /\ OneCall
    /\ w \in Registered
    /\ workers' = [workers EXCEPT ![w].off = disabled]
    /\ wanted' = [wanted EXCEPT ![w] = disabled]
    /\ UNCHANGED <<at, boot, up, held, restarts>>

-----------------------------------------------------------------------------
(* POST /worker/checkin, which the boot script repeats until it gets a 200. *)

Checkin(w, b) ==
    /\ boot' = [boot EXCEPT ![w] = b]
    /\ UNCHANGED <<at, up, held, wanted, restarts, calls>>

\* A slip: the boot script asks once.
TriedOnce(b) == NoBoot

Retried(b) == IF b.tries + 1 < MaxTries THEN [Booted EXCEPT !.tries = b.tries + 1] ELSE NoBoot

\* WorkerByIP: done, refused, or on to the merge.
CheckinFind(w) ==
    /\ boot[w].pc = "find"
    /\ Checkin(w, CASE WorkerByIP(at[w]) = w        -> NoBoot
                    [] WorkerByIP(at[w]) = NoWorker -> [boot[w] EXCEPT !.pc = "load"]
                    [] OTHER                        -> Retried(boot[w]))
    /\ UNCHANGED workers

\* WorkerByName: the copy to merge into.
CheckinLoad(w) ==
    /\ boot[w].pc = "load"
    /\ Checkin(w, [boot[w] EXCEPT !.pc = "upsert", !.rec = workers[w]])
    /\ UNCHANGED workers

\* A slip: a record that exists is written back as it is.
CheckinWritesCopy(w) ==
    /\ boot[w].pc = "upsert"
    /\ UpsertWorker(w, IF boot[w].rec = NoRecord THEN [NoRecord EXCEPT !.ips = {at[w]}]
                       ELSE boot[w].rec)
    /\ Checkin(w, NoBoot)

CheckinUpsert(w) ==
    /\ boot[w].pc = "upsert"
    /\ UpsertWorker(w, [boot[w].rec EXCEPT !.ips = @ \cup {at[w]}])
    /\ Checkin(w, NoBoot)

CheckinStep(w) == CheckinFind(w) \/ CheckinLoad(w) \/ CheckinUpsert(w)

\* The gateway restarts: handlers under way are gone and the boot scripts ask again.
Restart ==
    /\ restarts < MaxRestarts /\ restarts' = restarts + 1
    /\ boot' = [w \in Worker |-> IF boot[w].pc = "none" THEN NoBoot ELSE Retried(boot[w])]
    /\ UNCHANGED <<at, workers, up, held, wanted, calls>>

RegistryInit ==
    /\ at = [w \in Worker |-> NoAddr]
    /\ workers = [w \in Worker |-> NoRecord]
    /\ boot = [w \in Worker |-> NoBoot]
    /\ up = {}
    /\ held = [w \in Worker |-> {}]
    /\ wanted = [w \in Worker |-> FALSE]
    /\ restarts = 0 /\ calls = 0

RegistryNext ==
    \/ \E w \in Worker : \/ cmdUp(w) \/ handlePostWorkers(w) \/ RegistrationLost(w)
                         \/ recreateWorker(w) \/ Down(w) \/ CheckinStep(w)
                         \/ \E disabled \in BOOLEAN : SetWorkerInternet(w, disabled)
    \/ Restart

\* The boot script goes on with its check-in, and the gateway with its handler.
RegistryFairness == \A w \in Worker : WF_registryVars(CheckinStep(w))

RegistrySpec == RegistryInit /\ [][RegistryNext]_registryVars /\ RegistryFairness

-----------------------------------------------------------------------------
(* Properties.                                                              *)

\* Every variable has its type; a record that is not in the list holds nothing.
RegistryTypeOK ==
    /\ at \in [Worker -> Addr \cup {NoAddr}]
    /\ workers \in [Worker -> WorkerRec]
    /\ boot \in [Worker -> Boot]
    /\ up \subseteq Worker
    /\ held \in [Worker -> SUBSET Addr]
    /\ wanted \in [Worker -> BOOLEAN]
    /\ restarts \in Nat /\ calls \in Nat

\* No other worker ever had the address of w's container.
OwnAddress(w) == at[w] # NoAddr /\ \A v \in Worker \ {w} : at[w] \notin held[v]

\* An address that was never another's never stands for another: the proxy and the worker API
\* either do not know it or take it for its worker (WorkerByIP, store/store.go), whatever
\* registrations, check-ins and recreations interleave.
NeverMistaken == \A w \in Worker : OwnAddress(w) => WorkerByIP(at[w]) \in {w, NoWorker}

\* Once such an address is recognised, it stays so while the container lives: no registration and
\* no check-in with an old copy takes it out of the record (handleWorkerCheckin,
\* server/worker.go: "merge, never clobber the registered IP set").
RecognisedStays ==
    [][\A w \in Worker : OwnAddress(w) /\ WorkerByIP(at[w]) = w /\ at'[w] = at[w]
                            => (WorkerByIP(at[w]) = w)']_registryVars

\* The self-healing registry (worker/entrypoint.sh): a container that checks in from an address no
\* other record has, with more attempts left than the gateway makes fail, is recognised in the
\* end, unless it is replaced or another record gets the address.
SelfHeals ==
    \A w \in Worker, a \in Addr :
        (/\ at[w] = a /\ Holders(a) \subseteq {w}
         /\ boot[w].pc # "none" /\ boot[w].tries + MaxRestarts - restarts < MaxTries)
            ~> (WorkerByIP(a) = w \/ at[w] # a \/ ~(Holders(a) \subseteq {w}))

\* A worker the operator cut off stays cut off until the operator lets it back on.
SwitchStaysOff ==
    \A w \in Worker : wanted[w] /\ w \in Registered => workers[w].off
=============================================================================
