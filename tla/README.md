# piso: a verification project

piso runs coding agents in worker containers. The agents hold *placeholders* instead
of credentials. All traffic leaves through one gateway, which scans it, decides, puts the
real values in and forwards it, while an operator edits secrets, rules, domains and
exceptions through a control plane. The gateway also publishes the workers' servers
under names of the host (*ingress*), and a daemon on the host keeps `/etc/hosts` equal to
those names. It logs in to MCP servers on the workers' behalf, recognises workers by
their address, and keeps a feed of what they do.

This directory models the gateway and the host's side of ingress in TLA+, checks
small instances with TLC, and proves the safety properties for all values of the
constants with TLAPS. `PROJECT.json` maps every definition to the lines it stands for and
lists runs, mutants, hazards, findings and theorems. Source paths below are relative to
`src/`; `gw/` stands for `gateway/internal/`.

## 1. Inventory

| Part | State | Operations that change it | What makes it correct |
|---|---|---|---|
| Policy engine, `gw/policy` | none | `Decide(Input)` | fixed order of the checks; opening up never shuts; narrow exceptions are narrow |
| Scanner, `gw/scanner` | none | `ScanRequest` | tells transcript text from credential sites |
| Egress proxy, `gw/proxy/proxy.go` | the locals of a request in flight, open tunnels | CONNECT, `process`, `Replay`, `applySubstitution`, `forward` and its second try | values go only where rules allow; placeholders and real values do not leak; the kill-switch holds; every request is answered |
| Store: secrets, rules, domains, exceptions, `gw/store/store.go` | lists in `state.json` under one lock | add, edit, delete | each call atomic, sequences of calls consistent |
| Request log, `gw/store/store.go` | a bounded ring, newest first | `AppendLog`, `ReplayUpdate`, `ApplyAllowedException` | bounded, one row per request, a row is retried at most until it succeeds |
| Control plane, `gw/server` | none of its own; a handler makes several store calls | secrets, rules, domains, exceptions, resolve, except, retry | the calls end; what an edit unblocks is replayed |
| Ingress routes and planning inbox, `gw/store/ingress.go`, `gw/server/ingress.go`, `gw/server/worker.go` | routes, pending requests, event channels (listener hints, not modelled) | expose, delete, disable, port report, plan, approve, dismiss, cancel, sweep | labels and ids are keys; the host's own routes are safe from workers |
| Host sync, `cli/cmd/piso/main.go`, `cli/internal/pisoconfig/hosts.go` | the managed block of `/etc/hosts`, the event stream | daemon loop, one-shot commands | the block follows the routes |
| Vault files, `gw/store/store.go`, `gw/store/envfile.go` | `state.json` and its temporary file, one `placeholders.env` per worker directory | every store call saves; calls that change a secret rewrite the env files | whole files, a restart into a saved state, env files level with the vault |
| MCP OAuth broker, `gw/server/mcp*.go`, `gw/store/mcp.go` | a row per announced server, its secret, the login under way | announce, authorize (discover, register, start), callback, exchange, revoke | one row and one answer per server; a token reaches only its own secret; a login works once |
| Import of host keys, `gw/server/import.go` | none of its own | find by env key, replace or add, rule | as for the vault |
| Worker registry, `gw/server/workers.go`, `gw/server/worker.go`, `gw/store/store.go` | worker records with addresses, directory and kill-switch | `piso up`'s registration, check-in, toggle; docker gives and takes addresses | an address stands for its worker or for nobody; the registry heals; the kill-switch stays |
| Activity feed, `gw/store/activity.go`, `gw/server/worker.go` | rows of a database | post, revoke, read | the newest rows of the track, each once, working runs whole |
| Pattern library, migration, CA, dashboard, CLI, worker scripts | files | | |

**How they interact.** Workers reach the proxy over HTTP or CONNECT. A request's goroutine
calls the store five times or more, each call under the store's lock but none across
calls. Control-plane handlers run concurrently with it, and those that edit secrets or
exceptions also *replay* blocked requests: they run the proxy's scan, decide, substitute,
forward in their own goroutine and write the result back to the log. Store calls announce
changes on buffered channels that every open event stream receives from. Workers report
ports and plans over their own API; the daemon reads the routes over HTTP. Broker handlers
hold copies of a row and of a secret across network round trips and write them back with
whole-record replacements, beside the secrets handlers that do the same. A container's boot
script checks in over the worker API while `piso up` on the host registers the same worker.

**What is hard.** The reads of one decision straddle operator edits; the vault is read
again after the decision; a replay writes back a row it read before a round trip; rows
are evicted and come back; labels are claimed in three ways by several parties; routes
expire lazily when somebody lists them; events are dropped when a channel is full and go
to one of several readers; connections break and the gateway restarts; a save fails or the
gateway dies between two files; a callback comes twice or after a revoke; addresses are
given again to other containers. `PROJECT.json`
lists each hazard at its line with the properties that cover it.

## 2. Modules

| Module | Models | Extends |
|---|---|---|
| `Policy` | `policy.Decide` and all its predicates as operators on sets | |
| `PolicyEdits` | one captured request judged again while rules, exceptions and transcript mentions are added | `Policy` |
| `Egress` | proxy, store, log and control plane together | `Policy` |
| `Routes` | routes, planning inbox, sweep, event channels, saves that fail | |
| `HostSync` | daemon, hosts file, streams, one-shot commands around `Routes` | `Routes` |
| `Vault` | secrets, rules and MCP rows in memory, `state.json`, the env files, failing saves and crashes | |
| `McpBroker` | the broker's handlers and all others that change secrets or rules (POST, PUT and DELETE of secrets, POST and DELETE of rules, resolve, the key import) as threads on the vault | `Vault` |
| `AnswerBook` | abstract: what announcing an MCP server promises a worker | |
| `RequestLog` | abstract: what the request log promises whoever watches it | |
| `Registry` | worker records, registration, check-in, recreation, kill-switch | |
| `Feed` | the activity table, and reads of it by several queries while rows come and go | |
| `PolicyProofs`, `EgressProofs`, `EgressLogProofs`, `RoutesProofs`, `HostSyncProofs`, `McpProofs`, `RegistryProofs`, `FeedProofs` | the proofs | |
| `MCEgress`, `MCRoutes`, `MCHostSync`, `MCMcpBroker`, `MCWorkers` | instances for TLC | |

Definitions that begin "A slip:" are mistakes one could make in the code. No specification
uses them; each shows that some property notices it (`mutants` in `PROJECT.json`).

### Policy and PolicyEdits

Hosts, tokens, patterns, values and sites are model values. A scan result is a set of
placeholders and of pattern hits, each at a *site*; `ChatSite` are the sites inside
`messages[]`. A hit records the placeholders its text wraps. `Decide` keeps the source's
order: internal host, denied host, real secret (passed only by a host-wide exception), pattern
hits, placeholders. Regular expressions and host globs are the sets they accept; `AnyHost` is
the rule host `*`.

### Egress

`flight[f]` is the local state of one trip through the proxy, for a worker's request or for a
handler's replay. Each read of the store is an action (`ScanRequest`, `ReadVault`,
`ReadRules`, `ReadDomains`, `DecideFlight`), because the code takes the lock once per read;
substitution reads the vault again (`applySubstitution`); `forward` answers, fails, or meets a
dead connection and tries once more. The second try takes its body from `GetBody`: for a
worker's request that is the substituted body, for a replay the captured one, so
`ForwardDeadConn` drops what a replay had put into its body (`BodySite`) and keeps what it had
put into headers. The Content-Length of that second try stays the one of the substituted body,
so a transport may cut it short or give up; the model lets it go out. `InternalHost` are the
hosts `Decide` takes for internal; those of them that CONNECT refuses itself, with a row, are
`RefusedHost` (loopback, private and link-local unicast literals). `0.0.0.0` and names that
resolve to internal addresses are refused without a row (`ConnectUnresolved`). `handler[h]` is
a control-plane call of several store operations: POST and PUT of secrets, resolve, except,
retry and retry-matching, with their queues of replays. Calls of one store operation are
single actions. `ring` is the log, newest first. Secrets keep their list order through their
ids, because `placeholderMap` lets the last secret with a placeholder win and
`SecretByPlaceholder` the first. `held` is a history variable: for each flight under way, the
facts about the store that have been true since it began. It is written by every step
(`TrackFacts`) and read by no action.

`RequestLog` is what the log promises whoever watches it: a request that was let in gets a row
when it ends, once and in front; only the last row of a full log leaves it; rows keep their
order; a retry that is off stays off. The refinement maps it to the flights under way, the
flights that are done, the ids of the ring and those of its retryable rows.

### Routes

`routes` is a set of rows: `KeysUnique` shows that no label occurs twice, so list order does
not matter. `age` counts ticks since the last heartbeat, `NeverSeen` is the zero `LastSeenMs`
of an exposed row, and ages stop at `AutoRouteGrace + 1`, past which they are all stale.
Random ids are numbered by the call that drew them. `AutoRouteName` and `planningRouteName`
are constants, since names are cut at 63 characters and two ports may share a label; the
instance has a slug `plan`, whose auto routes fall among the planning labels. POST `/routes`
is modelled as the CLI and the dashboard use it: without an id or an origin of the caller's
choice. `saved` is what `state.json` has of the routes. A save may fail (`SaveFails`): the
change stays in memory, the call returns its error before it announces the change, and
`Restart` undoes what was not saved. Deletions, cancellations and the sweep announce before
they save; the last two ignore the save's error. Any other call of the store that saves writes
the routes as well (`OtherCallSaves`). Reports come from any worker under any slug: the
handler checks the address only against registered workers. `exposed`, the targets of exposes
that were answered with success, is a history variable.

### HostSync

The daemon dials, reads the routes, rewrites the block, and then waits for event lines;
the end of the stream leads back to dialling. A read is `ListRoutes` of `Routes` and thus
sweeps. The rewrite is one step: `reconcileHosts` yields the wanted block whatever
was in the file. `wire` counts lines sent and not yet read. `OtherStreamTakes` is a
dashboard, `piso logs --follow` or a stream whose client has gone; `Command` are one-shot
reconciliations. A route that is refused by `ingressFQDN` is in `Unresolvable`.
`interfered` remembers that another reader took an event, a command wrote the block, or a
rewrite failed, which the daemon reports and does not repeat. `unheard` remembers, until the
daemon's next read, that a call of the gateway could not be saved and left nothing queued: the
code then has no signal for the daemon, and a later heartbeat of the route sends none.

### Vault

`mem` is the store's state, `disk` is `state.json`, `tmp` the states its temporary file may be
read as, `env` the lines of each worker directory's `placeholders.env`. A store call changes
`mem` and then saves while it holds the lock; `io` is that call, at one of its writes. Each
write is an action (`WriteTmp`, `Rename`, `WriteWorkerPlaceholdersEnv`), each may fail
(`SaveFails`), and the gateway may die between any two (`Reload`). The env files are written
in any order, where the code sorts the directories. Reads wait for the lock, so a handler
step that reads the store needs `io = NoIo`. Making a worker's directory and its env file is one
step, at the moment the command line tool writes the file: should the gateway write the same
file between the tool's `stat` and its write, the tool's empty file wins.
A list position is the id it was appended at. A value is blank, typed by the operator, or
the number of the login whose access token it is.

### McpBroker and AnswerBook

`call[h]` is one handler of either API with the copies it holds: announce (`Announce`,
`mintMCPPlaceholder`, `AddSecret`, `SyncRules`, `UpsertMcpServer`), authorize (`Authorize`,
`discoverMCPOAuth`, `registerMCPClient`, `startMCPOAuth`), callback (`Callback`,
`exchangeMCPCode`, `LoadSecret`, `ReplaceSecret`, `applyMCPTokens`) and revoke. `AfterSave` is
the order of a handler's store calls. The rest that changes secrets or rules runs beside them:
POST, PUT and DELETE of secrets, POST and DELETE of rules, a resolved entry
(`resolveFailures`: `AddSecret` or `SetEnvKey`, then `AddRuleLast`) and the import of host
keys. An element of `rules` stands for a secret's rules of one placeholder on all hosts, so a
deletion may or may not take the last of them, and the import's question for a rule of its
host may be answered either way. `deleted` records the secrets and the placeholders whose last
rule a DELETE took. `ReplaceMcpServer` and `ReplaceSecret` put the whole copy in place, as the
code does; network steps run without the lock. The authorization server and the browser are
external: a code is good once and only with the verifier and client its login began with, and
the browser may bring it twice. `Same` says which announcements `FindMcp` takes for one (same
worker and name, or worker and URL). `logins`, `opened`, `redeemed`, `spent`, `answered`,
`deleted` and `behind` are history variables. `redeemed` stands for the authorization server's
own memory.

`AnswerBook` binds each announcement to a placeholder once, answers with the binding, keeps
the whole book in a file and restarts from the file. The refinement maps the book to what
`FindMcp` returns in memory and on disk.

### Registry

`workers[w]` is the record with its place in the list, since `WorkerByIP` takes the first
record with the address. A check-in is three actions, one for each store call. The host
starts, registers, recreates and stops containers; a registration may be lost, because
`piso up` ignores its error. Docker gives a container any address no other running container
has, its old one too. Assumed of the environment: containers name themselves truthfully,
each worker has its own slug, and a container's check-in request and the `piso up` that
started it are over before it is replaced. `held` and `wanted` are history variables.
Saves do not fail in this module, so a restart keeps the records.

### Feed

`log` is the activity table, a set of rows, grown by `InsertActivity` and cut by
`DeleteOwnActivity`. `view[g]` is a read under way. It asks the table three times with no
transaction around: `Start` for the project's rows, `AskAimed` for the rows aimed at it, which
it merges with the first (`Merge`, `Cut`), and `Answer` for the caller's own judgements, with
which it filters and fuses (`limitToLastJudgment`, `dropSessionStartedNotes`,
`collapseActiveSpans`). An error of the first two queries ends a read and is left out; an
error of the third is dropped by the handler, which answers without the window:
`AnswerUnjudged`, which also stands for a read with a `since` of its own. Posts and deletes
fall anywhere between. A row is stamped before it is written, so rows come in any order of
their stamps, and the query does not order rows of one millisecond: `QueryActivities` is the
set of answers it may give. `NewestTsByTarget` keeps every time of a target where the code
keeps the newest, which judges the same rows. `stood[g]` (rows there since the read began) and
`came[g]` (rows there at some moment of its first two queries) are history variables. Each
worker has a slug of its own. The narrowing of the queries by `since` and `kind`, which is the
same for both, and a read without `active=span`, which leaves the last step out, are left out.

## 3. Runs

| Run | Shows |
|---|---|
| `egress_containment` | one tunnelled request with a placeholder and a value, three operator calls and their replays: open hosts only, substitutions ruled, values and placeholders contained (but for the captured body of a replay's second try), kill-switch |
| `egress_replay` | two concurrent replaying calls over a one-row log: the ring is sound and implements `RequestLog`, rows are not revived, no blocked row is skipped, nothing starts over; and over every mix of findings of a request: added rules, exceptions and mentions never block what passed, pattern exceptions keep decisions, mentions keep substitutions |
| `egress_liveness` | every request let in is answered, every call ends |
| `routes` | labels and ids stay keys, ids keep their meaning, exposed routes stay, through a failed save and restarts |
| `host_sync` | an update the daemon misses is followed by a signal; it catches up unless something interfered; both but for what the gateway could not save |
| `worker_scope` (violated) | `placeholderMap` drops `Workers`: a secret limited to another worker is put in |
| `long_placeholder` (violated) | the log keeps 24 bytes of a token, so a row blocked on a longer placeholder is not replayed |
| `replay_retry` (violated) | a replay that meets a dead connection sends the captured body the second time, placeholder and all |
| `dashboard_takes_event` (violated) | a dashboard takes the only event and the hosts file stays wrong: there is no periodic reconcile |
| `mcp` | two threads, announcements, logins, deletions and one other edit, one failed write or crash: rows unique and whole, tokens in their secrets, logins used once, env files level; `McpBroker` implements `AnswerBook` |
| `worker_plane` | an address of one's own is never mistaken, stays recognised and is recognised in the end; what a read of the feed merges is a newest part of the track, whatever is posted and taken back between its queries, and what it shows are whole runs of unjudged rows, or of all when the query for judgements failed |
| `kill_switch_reset` (violated) | `piso up` registers a worker again and switches its internet back on |

The five violated runs state what a comment, a document or the dashboard says; `findings`
quotes it. Two further disagreements have no run of their own: `applySubstitution`
(`gw/proxy/proxy.go:640`) never rewrites the URL, so a placeholder in the query that was
decided *substitute* leaves as it is, though `gw/policy/policy.go:126` lists the query; and
`SyncWorkerPorts` (`gw/store/ingress.go:79`) counts the ports of one report, though
`plans/plan-auto-expose.md:73` speaks of at most 20 concurrent auto routes.

The passing runs have between 30 000 and 3.9 million distinct states and take from half a
minute to two minutes each with two workers of TLC; the violated ones end in seconds.

**Bounds.** *PolicyEdits*: two tokens, two patterns, three sites, every subset of findings,
four exceptions and three rules. It shares a run with `Egress`, with which it has no state in
common: one rests while the other moves. *Egress*: `MaxCalls` 3 operator calls (2 in the
replay and liveness runs) are enough for an edit before, between and after the reads of a
decision, and for two handlers to meet on one row. `MaxLog` 1 makes every second row evict.
`MaxSecrets` 4 and `MaxCopies` 3 are not reached under those call bounds. Handlers are
interchangeable and permuted in the replay run. `egress_containment` has no internal host: the
internal half of `OpenHostsOnly` rests on its theorem, the denied half on both. *Routes*: two
workers (permuted), two slugs, two ports, a cap of one route, no tick of grace (a row is stale
one tick after its heartbeat), a channel of one event, one failed save and four calls: enough
to claim a label, lose it, claim it otherwise and cancel, with any one of these unsaved.
*HostSync*: one worker and port, three calls, one fault, one failed save, one other stream,
one command; a behaviour ends once something has interfered (`MCSyncSpec`), because the
properties say nothing of it from then on. *McpBroker*: one worker with two announcements of
one server, a base and one random placeholder, two slots, two secrets, two rows, one login,
four calls and one fault; at most one of the four is a POST, PUT, import or resolve of a
secret or a POST or DELETE of a rule (`edits`). That is enough for two announcements to race,
for a callback to meet a second callback, a revoke, an edit or a delete of its secret, and for
a fault in any of their saves; slots and the two announcements are permuted. *Registry*: two
workers, three addresses, three tries of a boot (the script makes five), one gateway restart
and three commands: a container moves to an address another one had, while check-ins and
registrations are under way. An instance with four commands (570 686 states) was checked as
well. *Feed*: the monitor, which posts judgements, and one worker, which posts beats, session
starts and notes on its own track; three rows at three times around a gap of 1, one of them
taken back between the queries of a read, one read under way at a time, limits 2 and 3: below
and at the number of rows a merge can have. Reads share nothing but the table, so one is
enough. `MCWorkers` holds the registry and the feed together: they share no state, and one
rests while the other moves. Deadlock is not checked: once the calls are used up the system
may rest.

**Fairness.** Weak fairness per request and per handler: each is a goroutine that
never waits for another one, and its only waits are for the network, which end by the
90 s header timeout, the 10 min limit of a forwarded stream or the origin's end of its
answer. A tunnel without a request is not obliged to send one. Weak fairness of the
daemon's loop and of its stream's goroutine. In `Registry`, weak fairness of each
container's check-in: the script repeats it until it is told 200, at most five times, and the
handler only takes the store's lock. `SelfHeals` asks for more attempts left than the
gateway makes fail. None for operators, workers, time, other
streams or faults, and none in `McpBroker`: its network calls use `http.DefaultClient`, which
has no timeout, so no login is promised to end.

## 4. Proofs

Assumptions are the named `ASSUME`s of the modules (`PolicyAssumption`,
`PolicyEditsAssumption`, `EgressAssumption`, `RoutesAssumption`, `HostSyncAssumption`,
`VaultAssumption`, `BrokerAssumption`, `RegistryAssumption`, `FeedAssumption`): types of the
constants, finitely many ports and workers, limits of at least one row, a channel that holds
at least one event, and a `Same` that is reflexive and symmetric.

* **PolicyProofs.** `EditsKeepPassing`: for any two inputs that differ by added rules,
  exceptions and mentions, the second passes if the first did. Lemmas show that each predicate
  of `Decide` grows or stays under an edit. The three action properties follow with the type
  invariant.
* **EgressProofs.** The properties speak of a flight that is forwarding, several steps after
  its reads, so none is inductive. `Sound` says of every flight, at every step, that what it
  has read agrees with `held` (`ReadsSound`), that a decision other than block clears the
  request (`DecisionSound`), that the values put in are those of the decision, or on the
  second try of a replay those of its headers (`SubstSound`), and that the switch was off at
  some moment (`SwitchSound`). `held` only shrinks while a flight is under way, so steps of
  others preserve all of it (`Undisturbed`); what is left is one lemma for each step of a
  flight. The five containment properties follow from `Sound`, for any number of requests and
  handlers.
* **EgressLogProofs.** The request log: `RingSound` and `RetryNeverRevived` need more than the
  log, because a replay carries a copy of a row through five or more steps and writes it back.
  `LogInv` says that every row of the log and every row under replay is about a request that
  is done. So the row of a request enters once (`GrowRing`: it was not in the log), what
  writes a row again is a replay, which clears Retryable, or `ApplyAllowedException`, which
  clears it too (`RewriteRing`), and a row that was evicted comes back as one that is not
  retryable. `EgressTyped` proves the type invariant with the frames of the control-plane
  calls typed as well (`FrameTyped`): they write to the store what they kept.
  `AutoReplayComplete` speaks of the end of a call that has gone through the log one host at a
  time while other requests, calls and evictions went on. `DueInv` says of every moment of it
  that each row the change unblocks is settled (gone or not retryable), tried, in the queue of
  the match under way, or about a host still to match. A row that is settled stays settled:
  its request is done and its row is never revived. A match moves every retryable row of its
  host into the queue, for which `IdsAt` keeps the rows by their places. The theorem supposes
  `LongToken = {}`, as it must: run `long_placeholder` shows what happens otherwise, and
  `ReplayReachesAll` says the same call by call without the hypothesis. `NothingStartsOver` is
  the part of `CallEnds` and `RequestAnswered` that is no matter of fairness: the measure of a
  request or of a call goes down with each of its own steps (`FlyAdvances`, `RequestAdvances`,
  `PartEnds`, `EntryAdvances`, `LoopGoesOn`) and nobody else's step touches it
  (`RequestAlone`, `CallAlone`). It is inductive with `Going`: a handler's own flight is under
  way exactly while it replays, and a queue has no more places than the log. With the finitely
  many hosts and entries of a body there is no infinite descent, so what is left to TLC is
  that an unfinished call always has a step to take. `LogKeepsItsPromise` is the refinement of
  `RequestLog`: a request enters with its row (`RowEnters`), a replay settles its row or
  brings it back (`ReplayShows`), and everything else leaves the log alone or settles rows.
* **RoutesProofs.** `KeysUnique` is inductive with `Fresh`: the ids in use are older than the
  next call's, and pending labels are planning labels, in memory and in the file, because a
  restart brings the file's rows back. `IdKeepsTarget` and `ExposedKept` use both.
* **HostSyncProofs.** `DriftIsSignalled` is inductive with the two type invariants: a call
  leaves an event in the channel, or changes the labels in a way that keeps agreement, or
  failed to save and is `unheard` (`CallSignals`, `Harmless`); a restart, which may undo an
  unsaved change, breaks the connection and so makes the daemon read again.
* **McpProofs.** The properties speak of memory and file; a handler's copies are written back
  later, and a crash goes back to the file, so none is inductive. `MainHolds` has three
  layers: `TypeInv` types memory, both files and every call; `MainInv` says of every reachable
  state of the vault that rows are unique and whole and that tokens and states belong to their
  logins, and of every call at every program counter that its copies agree with the row and
  secret they came from, and that the secret and the rule it has stored are there unless a
  DELETE took them (`deleted`); `RuleCallKeeps` and `DroppedOK` carry it past POST and DELETE
  of rules and DELETE of secrets. The file states satisfy the same, so that a crash is one
  step like the others. `RowsUnique`, `RowsWhole`, `TokenInItsSecret` and `SpentStateGone`
  follow. `EnvInv` adds what a save has written so far and gives `EnvShowsVault`.
  `BrokerKeepsBook` is the refinement: each step of the broker maps to a step of `AnswerBook`
  or a stutter, for any announcements, number of slots, calls, faults and directories.
* **RegistryProofs.** `NeverMistaken` is inductive with `AddressesTrue`: every address in a
  record, and in the copy a check-in holds, is one the worker has had, and a check-in or a
  registration under way is about a container that runs. Hence only the worker's own record
  can hold an address no other worker had (`OnlyOwnRecord`), and since a list has a first
  record with the address, `WorkerByIP` finds it. `RecognisedStays` uses the same invariant:
  whatever copy a check-in or a registration writes, it writes the current address.

* **FeedProofs.** The properties speak of what three loops compute from answers of different
  moments. A loop is a function of the number of its turns (no `RECURSIVE` operator): it exists
  by `LoopExists`, from a well-founded choice of the first turn that has no value, and what a
  turn preserves holds of the last one by `UpTo`. So `KeepPicks` says what a filter picks,
  `SpansRun` that the fused rows are the runs, cut where a run starts, and `MergeIs` that the
  merge is ordered, has no row twice and has every row of either side. `TrackNewest` is the
  heart: a row left out of one answer has a full answer of newer rows before it; they are all
  in the merge, so by the pigeonhole (`NoMoreThan`) none of the first rows of the merge, as
  many as the limit, is older. `FeedInv` then says of a read after its first query that its
  rows are a newest part of some set between what stood and what came (`OwnOf`): a set of the
  past, which later posts and deletes do not touch. The second query adds its own,
  the third has every judgement that stood, where it is answered.

Every safety invariant and action property that a run checks is proved, and both refinements
(`RequestLog`, `AnswerBook`). **Only model-checked** is liveness (`RequestAnswered`,
`CallEnds`, `DaemonCatchesUp`, `SelfHeals`), which rests on fairness and ENABLED.
`NothingStartsOver` is the safety half of the first two: requests and calls only move towards
their end.

**Limits of what is stated.** `PlaceholderContained` excepts the body of a replay's second
try, where the code does send the captured placeholder (run `replay_retry`), and the query.
`DriftIsSignalled` and `DaemonCatchesUp` except a call that could not be saved until the
daemon reads again: its route is served and kept alive by heartbeats, and no event is ever
sent for it. `RowsWhole` excepts what a DELETE of a secret or of a rule took.
`NothingRejudged` excepts a read whose query for judgements failed: it shows judged beats
again. `ExposedKept` leaves the planning labels out: there a worker's cancellation removes
exposed routes as well, and an approval turns an exposed route into one that expires. `Agrees`
allows an approved plan's label to be missing from the hosts file, because `ApproveIngress`
sends no event. `SubstitutionWasRuled` and its neighbours speak of *some moment of the
flight*: the code takes no snapshot, and an edit made while a request is being judged may or
may not count for it. `TokenInItsSecret` says where a token can be, not for how long: a
callback that has exchanged its code finishes after a revoke and authorizes the server again,
and a PUT that keeps the value writes back what it read. Two announcements may both mint the
base placeholder; the secret of the one that loses stays, blank, and `placeholderMap` lets the
later of the two win, so a login may not unblock the worker. `EnvShowsVault` excepts a
directory made after the last change of a secret, whose env file stays empty until the next
one. `NeverMistaken` speaks of addresses no other worker had: for a recycled one the first
record in the list wins.

## 5. Not modelled

The log's JSONL file and its failures; the reload of the pattern library; TLS interception and
certificates; the text matching of the scanner; `refreshMCP`, which nothing calls; the replays
after a login (they are those of `Egress`); posted contexts, listener hints
(`SetWorkerUnreachable`) and capability lists, which are overwritten whole; proxying of
ingress requests; the migration of the state file; installing the daemon as a service;
docker's own behaviour beyond addresses, image builds, sessions, the dashboard's screens and
the watchers in the workers.

## 6. Plan

1. Done: `Policy`, `Egress`, `Routes`, `HostSync`, `Vault`, `McpBroker`, `AnswerBook`,
   `Registry`, `Feed`, `RequestLog`, their runs and the proofs above.
2. `Patterns`: two reloads and a request reading the library.
3. `Registry` composed with `Egress` through the worker a request is attributed to.
