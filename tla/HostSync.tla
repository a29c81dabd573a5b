------------------------------ MODULE HostSync ------------------------------
(***************************************************************************)
(* The host's side of the routes: the sync daemon of cli/cmd/piso keeps    *)
(* the managed block of /etc/hosts equal to the gateway's labels.  It      *)
(* reads them on every connection to the event stream and on every event.  *)
(*                                                                         *)
(* All streams take their events from the store's one channel, so an event *)
(* goes to one reader: dashboards compete with the daemon.  One-shot       *)
(* commands (piso sync, up, expose) read the labels and rewrite the block  *)
(* next to the daemon.  A rewrite that fails is reported and not repeated. *)
(* The gateway is that of Routes, whose actions this module puts beside    *)
(* its own.                                                                *)
(***************************************************************************)
EXTENDS Routes

CONSTANTS
    OtherStream,    \* dashboards, piso logs --follow, streams whose client has gone
    Command,        \* one-shot reconciliations
    Unresolvable,   \* labels ingressFQDN refuses
    MaxFaults       \* bound: connections lost and rewrites failed

ASSUME HostSyncAssumption == MaxFaults \in Nat

VARIABLES
    hosts,      \* labels of the managed block
    daemon,     \* the daemon's step and the labels it last read
    command,    \* the same of each one-shot command
    conn,       \* the daemon's stream is connected
    wire,       \* event lines sent to the daemon that it has not read
    faults,     \* connections lost and rewrites failed
    interfered, \* history: another stream took an event, a command wrote the block, or
                \* a rewrite failed
    unheard     \* history: a call could not be saved and left no event, and the daemon
                \* has not read the labels since

hostVars == <<hosts, daemon, command, conn, wire, faults, interfered, unheard>>
syncVars == <<vars, hostVars>>

Resolvable(S) == {r.name : r \in S} \ Unresolvable

\* Steps of syncIngressHosts: fetch the labels, which sweeps them, then rewrite.
Fetched(proc) == [proc EXCEPT !.pc = "write", !.names = Resolvable(routes')]

-----------------------------------------------------------------------------
(* The daemon, syncWatchLoop.                                               *)

\* A slip: after a connection the loop only listens.
DialAndListen ==
    /\ daemon.pc = "dial"
    /\ daemon' = [daemon EXCEPT !.pc = "scan"]
    /\ conn' = TRUE
    /\ UNCHANGED <<vars, hosts, command, wire, faults, interfered, unheard>>

\* The loop starts with a rewrite and makes one after each connection.
Dial ==
    /\ daemon.pc = "dial"
    /\ daemon' = [daemon EXCEPT !.pc = "get"]
    /\ conn' = TRUE
    /\ UNCHANGED <<vars, hosts, command, wire, faults, interfered, unheard>>

DaemonGet ==
    /\ daemon.pc = "get"
    /\ ListRoutes
    /\ daemon' = Fetched(daemon)
    /\ unheard' = FALSE
    /\ UNCHANGED <<hosts, command, conn, wire, faults, interfered>>

\* The gateway went away: a warning, and on to the stream, which has ended.
DaemonGetFails ==
    /\ daemon.pc = "get" /\ ~conn
    /\ daemon' = [daemon EXCEPT !.pc = "scan"]
    /\ UNCHANGED <<vars, hosts, command, conn, wire, faults, interfered, unheard>>

\* The answer or the file fails while the stream stays up: a warning, no retry.
DaemonSyncFails ==
    /\ daemon.pc \in {"get", "write"} /\ faults < MaxFaults
    /\ faults' = faults + 1
    /\ daemon' = [daemon EXCEPT !.pc = "scan"]
    /\ interfered' = TRUE
    /\ UNCHANGED <<vars, hosts, command, conn, wire, unheard>>

DaemonWrite ==
    /\ daemon.pc = "write"
    /\ hosts' = daemon.names
    /\ daemon' = [daemon EXCEPT !.pc = "scan"]
    /\ UNCHANGED <<vars, command, conn, wire, faults, interfered, unheard>>

\* A slip: the scanner's end is taken for an event.
DaemonEventAlways ==
    /\ daemon.pc = "scan"
    /\ wire' = wire - 1
    /\ daemon' = [daemon EXCEPT !.pc = "get"]
    /\ UNCHANGED <<vars, hosts, command, conn, faults, interfered, unheard>>

DaemonEvent ==
    /\ daemon.pc = "scan" /\ wire > 0
    /\ wire' = wire - 1
    /\ daemon' = [daemon EXCEPT !.pc = "get"]
    /\ UNCHANGED <<vars, hosts, command, conn, faults, interfered, unheard>>

DaemonEof ==
    /\ daemon.pc = "scan" /\ wire = 0 /\ ~conn
    /\ daemon' = [daemon EXCEPT !.pc = "dial"]
    /\ UNCHANGED <<vars, hosts, command, conn, wire, faults, interfered, unheard>>

DaemonStep == Dial \/ DaemonGet \/ DaemonGetFails \/ DaemonWrite \/ DaemonEvent \/ DaemonEof

-----------------------------------------------------------------------------
(* The gateway's streams and the other actors.                              *)

\* A slip: the stream carries planning events only.
StreamSendPlanning ==
    /\ conn
    /\ TakeIngressEvent
    /\ wire' = wire + 1
    /\ UNCHANGED <<hosts, daemon, command, conn, faults, interfered, unheard>>

\* The handler of the daemon's stream sends it a route or a planning event.
StreamSend ==
    /\ conn
    /\ TakeRouteEvent \/ TakeIngressEvent
    /\ wire' = wire + 1
    /\ UNCHANGED <<hosts, daemon, command, conn, faults, interfered, unheard>>

\* Another stream takes it.
OtherStreamTakes ==
    /\ TakeRouteEvent \/ TakeIngressEvent
    /\ interfered' = TRUE
    /\ UNCHANGED <<hosts, daemon, command, conn, wire, faults, unheard>>

\* Dashboards poll the routes.
DashboardLists == ListRoutes /\ UNCHANGED hostVars

CommandGet(c) ==
    /\ command[c].pc = "get"
    /\ ListRoutes
    /\ command' = [command EXCEPT ![c] = Fetched(@)]
    /\ UNCHANGED <<hosts, daemon, conn, wire, faults, interfered, unheard>>

CommandWrite(c) ==
    /\ command[c].pc = "write"
    /\ hosts' = command[c].names
    /\ command' = [command EXCEPT ![c].pc = "done"]
    /\ interfered' = TRUE
    /\ UNCHANGED <<vars, daemon, conn, wire, faults, unheard>>

\* The connection breaks; lines on their way may be lost.
Disconnect ==
    /\ conn /\ faults < MaxFaults
    /\ faults' = faults + 1
    /\ conn' = FALSE
    /\ wire' \in 0 .. wire
    /\ UNCHANGED <<vars, hosts, daemon, command, interfered, unheard>>

\* The gateway restarts, which ends every stream.
GatewayRestart ==
    /\ Restart
    /\ conn' = FALSE
    /\ wire' \in 0 .. wire
    /\ UNCHANGED <<hosts, daemon, command, faults, interfered, unheard>>

SyncInit ==
    /\ Init
    /\ hosts = {}
    /\ daemon = [pc |-> "get", names |-> {}]
    /\ command = [c \in Command |-> [pc |-> "get", names |-> {}]]
    /\ conn = FALSE /\ wire = 0 /\ faults = 0
    /\ interfered = FALSE /\ unheard = FALSE

\* A call; when it cannot be saved it may change the labels and leave nothing queued.
RouteCall ==
    /\ HostCall \/ WorkerCall
    /\ unheard' = (unheard \/ (failures' # failures /\ onRoute' = 0))
    /\ UNCHANGED <<hosts, daemon, command, conn, wire, faults, interfered>>

SyncNext ==
    \/ RouteCall
    \/ (Tick \/ OtherCallSaves) /\ UNCHANGED hostVars
    \/ DaemonStep \/ DaemonSyncFails
    \/ StreamSend
    \/ OtherStream # {} /\ (OtherStreamTakes \/ DashboardLists)
    \/ \E c \in Command : CommandGet(c) \/ CommandWrite(c)
    \/ Disconnect
    \/ GatewayRestart

SyncSpec == SyncInit /\ [][SyncNext]_syncVars

\* The daemon is a loop without waits other than for the stream, and the goroutine of
\* its stream forwards what it takes.
FairSyncSpec == SyncSpec /\ WF_syncVars(DaemonStep) /\ WF_syncVars(StreamSend)

-----------------------------------------------------------------------------
(* Properties.                                                              *)

\* The shape of the host's state.
SyncTypeOK ==
    /\ hosts \subseteq Label
    /\ daemon \in [pc : {"dial", "get", "write", "scan"}, names : SUBSET Label]
    /\ command \in [Command -> [pc : {"get", "write", "done"}, names : SUBSET Label]]
    /\ conn \in BOOLEAN /\ interfered \in BOOLEAN /\ unheard \in BOOLEAN
    /\ wire \in Nat /\ faults \in Nat

\* The labels a block agrees with: those of the exposed and automatic routes are in it,
\* and every label in it is routed.  An approved plan sends no event, so its label may
\* be missing.
Agrees(block) ==
    /\ Resolvable({r \in routes : r.origin # "plan"}) \subseteq block
    /\ block \subseteq Resolvable(routes)

\* Something will make the daemon read the labels again.
Signalled ==
    \/ daemon.pc \in {"dial", "get"} \/ ~conn
    \/ onRoute > 0 \/ wire > 0

\* The hosts file is wrong only while a signal is on its way to the daemon, or after
\* another stream took an event, a command rewrote the file or a rewrite failed, or until
\* the next read when a call of the gateway could not be saved: events dropped by the full
\* channel, lost connections and restarts, also those that undo an unsaved change, lose no
\* update for good.
DriftIsSignalled ==
    interfered \/ unheard \/ Signalled
        \/ Agrees(IF daemon.pc = "write" THEN daemon.names ELSE hosts)

\* Once the routes stop changing, the daemon brings the hosts file to agree with them,
\* unless something interfered, or a call that could not be saved was not announced: a
\* heartbeat keeps the route of such a call alive without ever announcing it.
DaemonCatchesUp == []~interfered => []<>(unheard \/ Agrees(hosts))

\* The same with other streams open: the comment at broadcastRoute counts on "the CLI's
\* periodic reconcile" for events the daemon does not get.
HostsCatchUp == []<>Agrees(hosts)
=============================================================================
