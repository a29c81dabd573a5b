------------------------------- MODULE Egress -------------------------------
(***************************************************************************)
(* The egress data plane (internal/proxy) running against the control      *)
(* plane (internal/server, internal/store).                                *)
(*                                                                         *)
(* A flight is one trip through scan, decide, substitute, forward: a       *)
(* worker's own request runs one, and a control-plane handler runs one for *)
(* every captured request it replays.  The store guards each of its calls  *)
(* with a lock but a flight makes five or more calls, so every read is an  *)
(* action of its own and the operator's edits fall between them.           *)
(*                                                                         *)
(* held is a history variable: the facts about the store that have been    *)
(* true ever since the flight began.  The properties use it to say that a  *)
(* flight never acts on something that was not so at any moment of it.     *)
(***************************************************************************)
EXTENDS Policy, Sequences, FiniteSets

CONSTANTS
    Req,            \* request instances workers may issue
    NoReq,          \* no request
    Request,        \* what each of them carries, see RequestData
    UnknownWorker,  \* the identity "worker" of a request with no known origin
    QuerySite,      \* the site of the query string
    BodySite,       \* the sites in the body
    RefusedHost,    \* internal literals CONNECT refuses itself, with a row
    LongToken,      \* placeholders longer than the 24 bytes the log keeps
    Handler,        \* concurrent control-plane calls
    MaxLog,         \* length of the in-memory request log
    MaxSecrets,     \* bound: secrets ever created
    MaxCopies,      \* bound: equal rules or exceptions kept side by side
    MaxCalls,       \* bound: control-plane calls made
    Loaded,         \* the secrets state.json holds at start, each with its rules
    NewSecret,      \* bodies of POST /secrets
    HostList,       \* allowedHosts lists of PUT /secrets
    NewException,   \* bodies of POST /exceptions
    EntryList       \* bodies of POST /failures/resolve

RequestData == [host : Host, shape : Shape, worker : Worker, tunnel : BOOLEAN,
                phs : SUBSET Placeholder, vals : SUBSET Value, hits : SUBSET Hit]
SecretRec   == [tok : Token, value : Value \cup {Blank}, hosts : SUBSET Host,
                workers : SUBSET Worker]
RuleRec     == [sid : Nat, tok : Token, host : Host \cup {AnyHost}, n : Nat]
Entry       == [tok : Token, value : Value \cup {Blank}, host : Host \cup {AnyHost},
                rename : BOOLEAN]

ASSUME EgressAssumption ==
    /\ NoReq \notin Req
    /\ Request \in [Req -> RequestData]
    /\ UnknownWorker \in Worker
    /\ Req \cap Handler = {}
    /\ QuerySite \in Site \ BodySite
    /\ ChatSite \subseteq BodySite /\ BodySite \subseteq Site
    /\ RefusedHost \subseteq InternalHost
    /\ LongToken \subseteq Token
    /\ MaxLog \in Nat \ {0} /\ MaxSecrets \in Nat /\ MaxCopies \in Nat /\ MaxCalls \in Nat
    /\ Loaded \in Seq(SecretRec) /\ Len(Loaded) <= MaxSecrets
    /\ NewSecret \subseteq {s \in SecretRec : s.value # Blank}
    /\ HostList \subseteq SUBSET Host
    /\ NewException \subseteq Exception
    /\ EntryList \subseteq Seq(Entry)

VARIABLES
    secrets,    \* id -> record or Absent; ids in creation order, so the list order
    nextSid,    \* the next secret id
    rules,      \* substitution rules; n tells equal ones apart
    denied,     \* hosts with a deny entry
    exceptions, \* the exceptions, with a copy number as in rules
    netOff,     \* workers whose internet kill-switch is on
    ring,       \* the request log, newest first
    flight,     \* the flight of each request and of each handler
    handler,    \* what each control-plane call is doing
    held,       \* history: facts true since a flight began
    calls       \* control-plane calls made so far

store == <<secrets, nextSid, rules, denied, exceptions, netOff>>
vars  == <<store, ring, flight, handler, held, calls>>

Flight   == Req \cup Handler
SecretId == 1 .. MaxSecrets
Absent   == [tok |-> NoToken]
Live     == {i \in SecretId : secrets[i].tok # NoToken}

-----------------------------------------------------------------------------
(***************************************************************************)
(* What the proxy reads from the store.                                    *)
(***************************************************************************)
NoEntry == [id |-> 0, value |-> Blank, workers |-> {}]
NoVault == [t \in Token |-> NoEntry]

\* The ids of the secrets with this placeholder; nothing keeps them unique.
Holders(tok) == {i \in Live : secrets[i].tok = tok}
First(S) == CHOOSE i \in S : \A j \in S : i <= j
Last(S)  == CHOOSE i \in S : \A j \in S : i >= j

\* Placeholder to secret.  A later secret of the list overwrites an earlier
\* one, and the Workers scope is not copied.
placeholderMap ==
    [t \in Token |-> IF Holders(t) = {} THEN NoEntry
                     ELSE [id |-> Last(Holders(t)), workers |-> {},
                           value |-> secrets[Last(Holders(t))].value]]

\* A slip: knownSecrets collects its values from placeholderMap.
carriesMappedSecret(q) ==
    \E t \in Token : placeholderMap[t].value \in Request[q].vals

\* The scan finds a real secret: one with a value that the request carries.
carriesKnownSecret(q) ==
    \E i \in Live : secrets[i].value \in Request[q].vals

recRules      == {[tok |-> r.tok, host |-> r.host] : r \in rules}
recExceptions == {x.exc : x \in exceptions}

NoDecision == Block({})
NoRec      == [id |-> NoReq, action |-> "block", retryable |-> FALSE,
               capture |-> FALSE, found |-> FALSE, real |-> FALSE]

\* A log row.  found: the scan findings were recorded; they are those of the
\* request, and real says whether one of them was a real secret.
Row == [id : Req \cup {NoReq}, action : {"allow", "block", "substitute"},
        retryable : BOOLEAN, capture : BOOLEAN, found : BOOLEAN, real : BOOLEAN]

IdleFlight == [pc |-> "idle", req |-> NoReq, real |-> FALSE, vault |-> NoVault,
               rules |-> {}, denied |-> {}, dec |-> NoDecision, sub |-> {},
               rec |-> NoRec]

\* h.Worker(r): a replayed request has no RemoteAddr, so no known origin.
workerID(f) == IF f \in Req THEN Request[f].worker ELSE UnknownWorker

ScanOf(f) == [phs |-> Request[flight[f].req].phs, real |-> flight[f].real,
              hits |-> Request[flight[f].req].hits]

PolicyInput(f) ==
    [host |-> Request[flight[f].req].host, shape |-> Request[flight[f].req].shape,
     scan |-> ScanOf(f), vault |-> flight[f].vault, rules |-> flight[f].rules,
     denied |-> flight[f].denied, exceptions |-> recExceptions,
     worker |-> workerID(f)]

-----------------------------------------------------------------------------
(***************************************************************************)
(* The request log.                                                        *)
(***************************************************************************)
\* A slip: the cut keeps the oldest rows.
TruncateNewest(s) == SubSeq(s, IF Len(s) > MaxLog THEN Len(s) - MaxLog + 1 ELSE 1, Len(s))

Truncate(s) == SubSeq(s, 1, IF Len(s) > MaxLog THEN MaxLog ELSE Len(s))

AppendLog(rec) == ring' = Truncate(<<rec>> \o ring)

InRing(id) == \E i \in DOMAIN ring : ring[i].id = id
RowOf(id)  == ring[CHOOSE i \in DOMAIN ring : ring[i].id = id]

\* A slip: an evicted row comes back into a full log.
ReplayUpdateUntrimmed(rec) ==
    IF InRing(rec.id)
    THEN ring' = [i \in DOMAIN ring |-> IF ring[i].id = rec.id THEN rec ELSE ring[i]]
    ELSE ring' = <<rec>> \o ring

\* Replace the row in place; a row that was evicted meanwhile comes back.
ReplayUpdate(rec) ==
    IF InRing(rec.id)
    THEN ring' = [i \in DOMAIN ring |-> IF ring[i].id = rec.id THEN rec ELSE ring[i]]
    ELSE ring' = Truncate(<<rec>> \o ring)

\* toStoreFindings cuts a token of more than 24 bytes, so that it is no longer
\* equal to any placeholder.
recordHasPlaceholder(r, tok) ==
    r.found /\ tok \notin LongToken /\ \E p \in Request[r.id].phs : p.tok = tok
recordHasPattern(r, pat) == r.found /\ \E hit \in Request[r.id].hits : hit.pat = pat

Retryable(r, host) ==
    /\ r.retryable /\ r.action = "block" /\ r.capture
    /\ host \in {AnyHost, Request[r.id].host}

\* The rows at these places of the log, by their places: the oldest has the last.
IdsAt(places) == [i \in places |-> ring[i].id]

\* A slip: the loop over the log stops one row early.
matchingRetryableButNewest(tok, host) ==
    IdsAt({i \in DOMAIN ring \ {1} : /\ Retryable(ring[i], host)
                                     /\ recordHasPlaceholder(ring[i], tok)})

matchingRetryable(tok, host) ==
    IdsAt({i \in DOMAIN ring : Retryable(ring[i], host) /\ recordHasPlaceholder(ring[i], tok)})
matchingRetryablePattern(pat, host) ==
    IdsAt({i \in DOMAIN ring : Retryable(ring[i], host) /\ recordHasPattern(ring[i], pat)})

recordOnlyPattern(r, pat) ==
    /\ r.found /\ ~r.real
    /\ Request[r.id].hits # {}
    /\ \A hit \in Request[r.id].hits : hit.pat = pat

ApplyAllowedException(pat, host) ==
    ring' = [i \in DOMAIN ring |->
                IF /\ ring[i].action = "block"
                   /\ host \in {AnyHost, Request[ring[i].id].host}
                   /\ recordOnlyPattern(ring[i], pat)
                THEN [ring[i] EXCEPT !.action = "allow", !.retryable = FALSE]
                ELSE ring[i]]

-----------------------------------------------------------------------------
(***************************************************************************)
(* A flight: handleConnect, process, decide, applySubstitution, forward.   *)
(***************************************************************************)
FlightOnly == UNCHANGED <<store, ring, handler, calls>>

Goto(f, pc) == flight' = [flight EXCEPT ![f].pc = pc]

\* A request that ends before process runs, or at its kill-switch, leaves a row
\* with no findings and no capture.
RefusalRow(q) == [NoRec EXCEPT !.id = q]

\* CONNECT passes: the target is no loopback, private or link-local unicast
\* literal, the kill-switch is off, and every address the name resolves to is
\* external.  Other internal literals, multicast ones, are left to Decide.
Connect(q) ==
    /\ flight[q].pc = "idle" /\ Request[q].tunnel
    /\ Request[q].host \notin RefusedHost
    /\ Request[q].worker \notin netOff
    /\ Goto(q, "open")
    /\ FlightOnly

ConnectRefused(q) ==
    /\ flight[q].pc = "idle" /\ Request[q].tunnel
    /\ Request[q].host \in RefusedHost \/ Request[q].worker \in netOff
    /\ AppendLog(RefusalRow(q))
    /\ Goto(q, "done")
    /\ UNCHANGED <<store, handler, calls>>

\* The name does not resolve, or to an internal or unspecified address, as
\* 0.0.0.0 does: 502 or 403, no row.
ConnectUnresolved(q) ==
    /\ flight[q].pc = "idle" /\ Request[q].tunnel
    /\ Request[q].host \notin RefusedHost
    /\ Request[q].worker \notin netOff
    /\ Goto(q, "done")
    /\ FlightOnly

ReadyToProcess(q) == flight[q].pc = IF Request[q].tunnel THEN "open" ELSE "idle"

\* A slip: process trusts handleConnect's kill-switch test.
BeginTunnelledRequest(q) ==
    /\ ReadyToProcess(q)
    /\ Request[q].tunnel \/ Request[q].worker \notin netOff
    /\ flight' = [flight EXCEPT ![q].pc = "scan", ![q].req = q]
    /\ FlightOnly

\* process, past its kill-switch test.
BeginRequest(q) ==
    /\ ReadyToProcess(q)
    /\ Request[q].worker \notin netOff
    /\ flight' = [flight EXCEPT ![q].pc = "scan", ![q].req = q]
    /\ FlightOnly

KillSwitchRefused(q) ==
    /\ ReadyToProcess(q)
    /\ Request[q].worker \in netOff
    /\ AppendLog(RefusalRow(q))
    /\ Goto(q, "done")
    /\ UNCHANGED <<store, handler, calls>>

ScanRequest(f) ==
    /\ flight[f].pc = "scan"
    /\ flight' = [flight EXCEPT ![f].pc = "vault",
                                ![f].real = carriesKnownSecret(flight[f].req)]
    /\ FlightOnly

ReadVault(f) ==
    /\ flight[f].pc = "vault"
    /\ flight' = [flight EXCEPT ![f].pc = "rules", ![f].vault = placeholderMap]
    /\ FlightOnly

ReadRules(f) ==
    /\ flight[f].pc = "rules"
    /\ flight' = [flight EXCEPT ![f].pc = "domains", ![f].rules = recRules]
    /\ FlightOnly

ReadDomains(f) ==
    /\ flight[f].pc = "domains"
    /\ flight' = [flight EXCEPT ![f].pc = "decide", ![f].denied = denied]
    /\ FlightOnly

\* Where a flight goes with its decision; a replay that is still blocked ends.
AfterDecision(f, action) ==
    CASE action = "block"      -> IF f \in Req THEN "block" ELSE "failed"
      [] action = "substitute" -> "subst"
      [] action = "allow"      -> "forward"

\* The last read, the exceptions, and the pure decision; what the flight read
\* for it is dropped.
DecideFlight(f) ==
    /\ flight[f].pc = "decide"
    /\ LET dec == Decide(PolicyInput(f)) IN
       flight' = [flight EXCEPT
           ![f] = [@ EXCEPT !.pc = IF f \in Req THEN "rescan"
                                   ELSE AfterDecision(f, dec.action),
                            !.dec = dec, !.real = FALSE, !.vault = NoVault,
                            !.rules = {}, !.denied = {}]]
    /\ FlightOnly

\* process scans once more, for the findings of the row.
Rescan(q) ==
    /\ flight[q].pc = "rescan"
    /\ LET action == flight[q].dec.action IN
       flight' = [flight EXCEPT
           ![q].pc  = AfterDecision(q, action),
           ![q].rec = [id |-> q, action |-> action, retryable |-> action = "block",
                       capture |-> action = "block", found |-> TRUE,
                       real |-> carriesKnownSecret(q)]]
    /\ FlightOnly

BlockRequest(q) ==
    /\ flight[q].pc = "block"
    /\ AppendLog(flight[q].rec)
    /\ flight' = [flight EXCEPT ![q] = [IdleFlight EXCEPT !.pc = "done"]]
    /\ UNCHANGED <<store, handler, calls>>

\* Headers and the body outside messages[] are rewritten, the query is not.
rewritable(site) == ~IsChatContent(site) /\ site # QuerySite

\* The vault is read again: a secret edited since the decision gives its new
\* value, one deleted since leaves its token as it is.
applySubstitution(f) ==
    /\ flight[f].pc = "subst"
    /\ flight' = [flight EXCEPT
           ![f].pc  = "forward",
           ![f].sub = {[tok |-> p.tok, site |-> p.site, id |-> placeholderMap[p.tok].id] :
                       p \in {o \in Request[flight[f].req].phs :
                                /\ o.tok \in flight[f].dec.subst
                                /\ placeholderMap[o.tok].id # 0
                                /\ rewritable(o.site)}}]
    /\ FlightOnly

\* The upstream round trip.  A dead connection is tried once more, any other
\* error ends the flight.
ForwardAnswered(f) ==
    /\ flight[f].pc \in {"forward", "again"}
    /\ Goto(f, "answered")
    /\ FlightOnly

ForwardFailed(f) ==
    /\ flight[f].pc \in {"forward", "again"}
    /\ Goto(f, "failed")
    /\ FlightOnly

\* A slip: a dead connection is tried again for as long as it is dead.
ForwardEndlessly(f) ==
    /\ flight[f].pc \in {"forward", "again"}
    /\ Goto(f, IF flight[f].pc = "again" THEN "forward" ELSE "again")
    /\ FlightOnly

\* The second try takes its body from GetBody.  A worker's request gets one from
\* ensureGetBody, of the substituted body; that of a replay has been set by
\* NewRequestWithContext, of the captured body, and is kept: what
\* applySubstitution put in the body is gone, what it put in headers is not.
ForwardDeadConn(f) ==
    /\ flight[f].pc = "forward"
    /\ flight' = [flight EXCEPT
           ![f].pc  = "again",
           ![f].sub = IF f \in Req THEN @ ELSE {s \in @ : s.site \notin BodySite}]
    /\ FlightOnly

\* process records the outcome; an upstream error is a block that cannot be
\* retried.
LogOutcome(q) ==
    /\ flight[q].pc \in {"answered", "failed"}
    /\ AppendLog([flight[q].rec EXCEPT
                     !.action = IF flight[q].pc = "failed" THEN "block" ELSE @])
    /\ flight' = [flight EXCEPT ![q] = [IdleFlight EXCEPT !.pc = "done"]]
    /\ UNCHANGED <<store, handler, calls>>

Fly(f) ==
    \/ ScanRequest(f) \/ ReadVault(f) \/ ReadRules(f) \/ ReadDomains(f)
    \/ DecideFlight(f) \/ applySubstitution(f)
    \/ ForwardAnswered(f) \/ ForwardFailed(f) \/ ForwardDeadConn(f)

RequestStep(q) ==
    \/ BeginRequest(q) \/ KillSwitchRefused(q)
    \/ Rescan(q) \/ BlockRequest(q) \/ LogOutcome(q)
    \/ Connect(q) \/ ConnectRefused(q) \/ ConnectUnresolved(q)

-----------------------------------------------------------------------------
(***************************************************************************)
(* Control-plane calls of several store operations.  A handler keeps what  *)
(* its Go frame keeps between two of them: rec is its copy of the secret,  *)
(* todo the hosts still to replay for, queue the rows one match returned,  *)
(* seen its seenRetry.  due is history: the rows that its rule change      *)
(* should unblock.                                                         *)
(***************************************************************************)
IdleHandler == [pc |-> "idle", op |-> "none", sid |-> 0, rec |-> Absent,
                tok |-> NoToken, pat |-> NoPattern, host |-> AnyHost, todo |-> {}, queue |-> <<>>,
                seen |-> {}, due |-> {}, entries |-> <<>>]

\* One more call, within the bound; h starts it in state st.
Call(h, st) ==
    /\ handler[h].pc = "idle" /\ calls < MaxCalls
    /\ calls' = calls + 1
    /\ handler' = [handler EXCEPT ![h] = st]

CanonicalRuleHosts(hosts) == IF hosts = {} THEN {AnyHost} ELSE hosts

AddSecret(s) ==
    /\ nextSid <= MaxSecrets
    /\ secrets' = [secrets EXCEPT ![nextSid] = s]
    /\ nextSid' = nextSid + 1

\* Append a rule or an exception beside the equal ones.
FreeCopy(S, x) == {k \in 1 .. MaxCopies : [x EXCEPT !.n = k] \notin S}
AddCopy(S, x)  == S \cup {[x EXCEPT !.n = First(FreeCopy(S, x))]}
NewRule(sid, tok, host) == [sid |-> sid, tok |-> tok, host |-> host, n |-> 0]

\* The blocked rows of this placeholder on these hosts, by what the requests
\* carry rather than by what the log kept of it.
Blocked(tok, hosts) ==
    {q \in Req : \E i \in DOMAIN ring, host \in hosts :
        /\ ring[i].id = q
        /\ Retryable(ring[i], host)
        /\ \E p \in Request[q].phs : p.tok = tok}

PostSecret(h, s) ==
    /\ AddSecret(s)
    /\ Call(h, [IdleHandler EXCEPT !.pc = "sync", !.op = "secret", !.sid = nextSid,
                                   !.rec = s, !.tok = s.tok])
    /\ UNCHANGED <<rules, denied, exceptions, netOff, ring, flight>>

\* PUT reads the secret, edits its copy (an empty value keeps the old one) and
\* writes the copy back.
PutSecret(h, sid, value, hosts) ==
    /\ sid \in Live
    /\ Call(h, [IdleHandler EXCEPT
           !.pc = "replace", !.op = "secret", !.sid = sid, !.tok = secrets[sid].tok,
           !.rec = [secrets[sid] EXCEPT !.hosts = hosts,
                                        !.value = IF value = Blank THEN secrets[sid].value
                                                                   ELSE value]])
    /\ UNCHANGED <<store, ring, flight>>

ReplaceSecret(h) ==
    /\ handler[h].pc = "replace"
    /\ \/ /\ handler[h].sid \in Live
          /\ secrets' = [secrets EXCEPT ![handler[h].sid] = handler[h].rec]
          /\ handler' = [handler EXCEPT ![h].pc = "sync"]
       \/ /\ handler[h].sid \notin Live
          /\ handler' = [handler EXCEPT ![h] = IdleHandler]
          /\ UNCHANGED secrets
    /\ UNCHANGED <<nextSid, rules, denied, exceptions, netOff, ring, flight, calls>>

SyncRulesForSecret(h) ==
    /\ handler[h].pc = "sync"
    /\ LET s == handler[h].rec
           hosts == CanonicalRuleHosts(s.hosts)
       IN  /\ rules' = {r \in rules : r.tok # s.tok} \cup
                       {[NewRule(handler[h].sid, s.tok, host) EXCEPT !.n = 1] :
                          host \in hosts}
           /\ handler' = [handler EXCEPT ![h].pc = "match", ![h].todo = hosts,
                                         ![h].due = Blocked(s.tok, hosts)]
    /\ UNCHANGED <<secrets, nextSid, denied, exceptions, netOff, ring, flight, calls>>

Resolve(h, entries) ==
    /\ Call(h, [IdleHandler EXCEPT !.pc = "entry", !.op = "resolve", !.entries = entries])
    /\ UNCHANGED <<store, ring, flight>>

\* A slip: "*" is stored as if it were a hostname.
hostsForStar(host) == {host}

hostsFor(host) == {host} \ {AnyHost}

\* Take the next entry: an empty value is skipped, a known placeholder keeps
\* its secret (value included), another one needs a new secret.
TakeEntry(h) ==
    /\ handler[h].pc = "entry"
    /\ handler[h].entries # <<>>
    /\ LET e == Head(handler[h].entries)
           taken == [handler[h] EXCEPT
                        !.entries = Tail(@), !.tok = e.tok, !.todo = {e.host}, !.due = {},
                        !.rec = [tok |-> e.tok, value |-> e.value, workers |-> {},
                                 hosts |-> hostsFor(e.host)]]
       IN  handler' = [handler EXCEPT ![h] =
              IF e.value = Blank THEN [@ EXCEPT !.entries = Tail(handler[h].entries)]
              ELSE IF Holders(e.tok) = {} THEN [taken EXCEPT !.pc = "addsecret"]
              ELSE [taken EXCEPT !.sid = First(Holders(e.tok)),
                                 !.pc = IF e.rename THEN "setenv" ELSE "addrule"]]
    /\ UNCHANGED <<store, ring, flight, calls>>

ResolveAddSecret(h) ==
    /\ handler[h].pc = "addsecret"
    /\ AddSecret(handler[h].rec)
    /\ handler' = [handler EXCEPT ![h].pc = "addrule", ![h].sid = nextSid]
    /\ UNCHANGED <<rules, denied, exceptions, netOff, ring, flight, calls>>

\* SetEnvKey fails, and the call with it, when the secret has been deleted.
SetEnvKey(h) ==
    /\ handler[h].pc = "setenv"
    /\ handler' = [handler EXCEPT ![h] = IF handler[h].sid \in Live
                                         THEN [@ EXCEPT !.pc = "addrule"]
                                         ELSE IdleHandler]
    /\ UNCHANGED <<store, ring, flight, calls>>

ResolveAddRule(h) ==
    /\ handler[h].pc = "addrule"
    /\ \E host \in handler[h].todo :
          LET r == NewRule(handler[h].sid, handler[h].tok, host) IN
          /\ FreeCopy(rules, r) # {}
          /\ rules' = AddCopy(rules, r)
          /\ handler' = [handler EXCEPT ![h].pc = "match",
                                        ![h].due = Blocked(handler[h].tok, {host})]
    /\ UNCHANGED <<secrets, nextSid, denied, exceptions, netOff, ring, flight, calls>>

\* allow one pattern on one host: find the exception, or go and add it.
HostPatternException(host, pat) ==
    [hosts |-> {host}, shapes |-> Shape, tok |-> NoToken, pat |-> pat, enabled |-> TRUE]

Except(h, host, pat) ==
    /\ Call(h, [IdleHandler EXCEPT
           !.pc = IF HostPatternException(host, pat) \in recExceptions
                  THEN "match" ELSE "addexc",
           !.op = "except", !.pat = pat, !.host = host, !.todo = {host}])
    /\ UNCHANGED <<store, ring, flight>>

AddCopyOfException(e) ==
    LET x == [exc |-> e, n |-> 0] IN
    /\ FreeCopy(exceptions, x) # {}
    /\ exceptions' = AddCopy(exceptions, x)

ExceptAdd(h) ==
    /\ handler[h].pc = "addexc"
    /\ \E host \in handler[h].todo :
          AddCopyOfException(HostPatternException(host, handler[h].pat))
    /\ handler' = [handler EXCEPT ![h].pc = "match"]
    /\ UNCHANGED <<secrets, nextSid, rules, denied, netOff, ring, flight, calls>>

\* POST /requests/retry-matching.
RetryMatching(h, tok, host) ==
    /\ Call(h, [IdleHandler EXCEPT !.pc = "match", !.op = "retry", !.tok = tok,
                                   !.todo = {host}])
    /\ UNCHANGED <<store, ring, flight>>

\* Replay starts over with the captured request: nothing of the blocked
\* flight's decision is kept.  Unlike a worker's request it has a GetBody from
\* the start, see ForwardDeadConn.
StartReplay(h, rec) ==
    flight' = [flight EXCEPT ![h] = [IdleFlight EXCEPT !.pc = "scan", !.req = rec.id,
                                                       !.rec = rec]]

\* POST /requests/{id}/retry: any row with a capture, retryable or not.
Retry(h, q) ==
    /\ InRing(q) /\ RowOf(q).capture
    /\ Call(h, [IdleHandler EXCEPT !.pc = "replay", !.op = "retry"])
    /\ StartReplay(h, RowOf(q))
    /\ UNCHANGED <<store, ring>>

\* One replayMatches or replayPatternMatches call: the rows to replay now.
Match(h) ==
    /\ handler[h].pc = "match"
    /\ \E host \in handler[h].todo :
          handler' = [handler EXCEPT
              ![h].pc = "pop", ![h].todo = @ \ {host},
              ![h].queue = IF handler[h].op = "except"
                           THEN matchingRetryablePattern(handler[h].pat, host)
                           ELSE matchingRetryable(handler[h].tok, host)]
    /\ UNCHANGED <<store, ring, flight, calls>>

\* The row to try next, the oldest, and the frame of h without it.
NextRow(h) == handler[h].queue[Last(DOMAIN handler[h].queue)]
Popped(h) ==
    [handler[h] EXCEPT
        !.seen  = @ \cup {NextRow(h)},
        !.queue = [i \in DOMAIN @ \ {Last(DOMAIN @)} |-> handler[h].queue[i]]]

\* A slip: a row that is gone stays in the queue.
PopButGone(h) ==
    /\ handler[h].pc = "pop" /\ DOMAIN handler[h].queue # {}
    /\ InRing(NextRow(h))
    /\ handler' = [handler EXCEPT ![h] = [Popped(h) EXCEPT !.pc = "replay"]]
    /\ StartReplay(h, RowOf(NextRow(h)))
    /\ UNCHANGED <<store, ring, calls>>

\* The next row: skipped when this call has replayed it or when it is gone from
\* the log, else replayed from the row as it is now.
Pop(h) ==
    /\ handler[h].pc = "pop" /\ DOMAIN handler[h].queue # {}
    /\ IF NextRow(h) \notin handler[h].seen /\ InRing(NextRow(h))
       THEN /\ handler' = [handler EXCEPT ![h] = [Popped(h) EXCEPT !.pc = "replay"]]
            /\ StartReplay(h, RowOf(NextRow(h)))
       ELSE /\ handler' = [handler EXCEPT ![h] = Popped(h)]
            /\ UNCHANGED flight
    /\ UNCHANGED <<store, ring, calls>>

\* A slip: a replay that could not reach the upstream is tried again.
ReplayErrorAgain(h) ==
    /\ flight[h].pc = "failed"
    /\ Goto(h, "scan")
    /\ UNCHANGED <<store, ring, handler, calls>>

\* replayOne: an error leaves the row alone, an answer overwrites it.
ReplayError(h) ==
    /\ flight[h].pc = "failed"
    /\ flight' = [flight EXCEPT ![h] = IdleFlight]
    /\ handler' = [handler EXCEPT ![h].pc = "pop"]
    /\ UNCHANGED <<store, ring, calls>>

\* A slip: replayOne does not clear Retryable.
ReplayDoneStillRetryable(h) ==
    /\ flight[h].pc = "answered"
    /\ ReplayUpdate([flight[h].rec EXCEPT !.action = flight[h].dec.action])
    /\ flight' = [flight EXCEPT ![h] = IdleFlight]
    /\ handler' = [handler EXCEPT ![h].pc = "pop"]
    /\ UNCHANGED <<store, calls>>

ReplayDone(h) ==
    /\ flight[h].pc = "answered"
    /\ ReplayUpdate([flight[h].rec EXCEPT !.action = flight[h].dec.action,
                                          !.retryable = FALSE])
    /\ flight' = [flight EXCEPT ![h] = IdleFlight]
    /\ handler' = [handler EXCEPT ![h].pc = "pop"]
    /\ UNCHANGED <<store, calls>>

QueueDone(h) == handler[h].pc = "pop" /\ DOMAIN handler[h].queue = {}

NextHost(h) ==
    /\ QueueDone(h) /\ handler[h].todo # {}
    /\ handler' = [handler EXCEPT ![h].pc = "match"]
    /\ UNCHANGED <<store, ring, flight, calls>>

NextEntry(h) ==
    /\ QueueDone(h) /\ handler[h].todo = {} /\ handler[h].op = "resolve"
    /\ handler' = [handler EXCEPT ![h].pc = "entry"]
    /\ UNCHANGED <<store, ring, flight, calls>>

\* exceptFailures ends by marking the rows the exception covers as allowed.
MarkAllowed(h) ==
    /\ QueueDone(h) /\ handler[h].op = "except"
    /\ ApplyAllowedException(handler[h].pat, handler[h].host)
    /\ handler' = [handler EXCEPT ![h] = IdleHandler]
    /\ UNCHANGED <<store, flight, calls>>

Finished(h) ==
    \/ QueueDone(h) /\ handler[h].todo = {} /\ handler[h].op \in {"secret", "retry"}
    \/ handler[h].pc = "entry" /\ handler[h].entries = <<>>

Return(h) ==
    /\ Finished(h)
    /\ handler' = [handler EXCEPT ![h] = IdleHandler]
    /\ UNCHANGED <<store, ring, flight, calls>>

HandlerStep(h) ==
    \/ ReplaceSecret(h) \/ SyncRulesForSecret(h)
    \/ TakeEntry(h) \/ ResolveAddSecret(h) \/ SetEnvKey(h) \/ ResolveAddRule(h)
    \/ ExceptAdd(h) \/ MarkAllowed(h)
    \/ Match(h) \/ Pop(h) \/ ReplayError(h) \/ ReplayDone(h)
    \/ NextHost(h) \/ NextEntry(h) \/ Return(h)

HandlerCall(h) ==
    \/ \E s \in NewSecret : PostSecret(h, s)
    \/ \E sid \in SecretId, v \in Value \cup {Blank}, hosts \in HostList :
          PutSecret(h, sid, v, hosts)
    \/ \E entries \in EntryList : Resolve(h, entries)
    \/ \E host \in Host, pat \in Pattern : Except(h, host, pat)
    \/ \E tok \in Token, host \in Host \cup {AnyHost} : RetryMatching(h, tok, host)
    \/ \E q \in Req : Retry(h, q)

-----------------------------------------------------------------------------
(***************************************************************************)
(* Control-plane calls that are one store operation.                       *)
(***************************************************************************)
OneCall ==
    /\ calls < MaxCalls
    /\ calls' = calls + 1
    /\ UNCHANGED <<ring, flight, handler>>

DeleteSecret(sid) ==
    /\ sid \in Live
    /\ secrets' = [secrets EXCEPT ![sid] = Absent]
    /\ rules' = {r \in rules : r.sid # sid}
    /\ UNCHANGED <<nextSid, denied, exceptions, netOff>>
    /\ OneCall

\* The body names any placeholder and any secret, or none; neither is looked up.
AddRule(sid, tok, host) ==
    /\ LET r == NewRule(sid, tok, host) IN
       /\ FreeCopy(rules, r) # {}
       /\ rules' = AddCopy(rules, r)
    /\ UNCHANGED <<secrets, nextSid, denied, exceptions, netOff>>
    /\ OneCall

DeleteRule(r) ==
    /\ rules' = rules \ {r}
    /\ UNCHANGED <<secrets, nextSid, denied, exceptions, netOff>>
    /\ OneCall

UpsertDomain(host, deny) ==
    /\ denied' = IF deny THEN denied \cup {host} ELSE denied \ {host}
    /\ denied' # denied
    /\ UNCHANGED <<secrets, nextSid, rules, exceptions, netOff>>
    /\ OneCall

AddException(e) ==
    /\ AddCopyOfException(e)
    /\ UNCHANGED <<secrets, nextSid, rules, denied, netOff>>
    /\ OneCall

DeleteException(x) ==
    /\ exceptions' = exceptions \ {x}
    /\ UNCHANGED <<secrets, nextSid, rules, denied, netOff>>
    /\ OneCall

SetWorkerInternet(w, off) ==
    /\ netOff' = IF off THEN netOff \cup {w} ELSE netOff \ {w}
    /\ netOff' # netOff
    /\ UNCHANGED <<secrets, nextSid, rules, denied, exceptions>>
    /\ OneCall

OperatorCall ==
    \/ \E sid \in SecretId : DeleteSecret(sid)
    \/ \E sid \in Live \cup {0}, tok \in Token, host \in Host \cup {AnyHost} :
          AddRule(sid, tok, host)
    \/ \E r \in rules : DeleteRule(r)
    \/ \E host \in Host, deny \in BOOLEAN : UpsertDomain(host, deny)
    \/ \E e \in NewException : AddException(e)
    \/ \E x \in exceptions : DeleteException(x)
    \/ \E w \in Worker \ {UnknownWorker}, off \in BOOLEAN : SetWorkerInternet(w, off)

-----------------------------------------------------------------------------
(***************************************************************************)
(* The specification.                                                      *)
(***************************************************************************)
\* A host-wide exception lets request q out whatever it carries.
Waived(q) ==
    hostWideExceptionApplies(
        [host |-> Request[q].host, shape |-> Request[q].shape,
         scan |-> [phs |-> Request[q].phs], exceptions |-> recExceptions])

Facts ==
    [denied   |-> denied,
     off      |-> netOff,
     unruled  |-> {x \in Token \X Host :
                    ~\E r \in rules : r.tok = x[1] /\ r.host \in {AnyHost, x[2]}},
     known    |-> {v \in Value : \E i \in Live : secrets[i].value = v},
     vaulted  |-> {t \in Token : Holders(t) # {}},
     unwaived |-> {q \in Req : ~Waived(q)}]

Begun(f) == flight[f].pc \notin {"idle", "open", "done"}

Meet(a, b) == [denied   |-> a.denied \cap b.denied,
               off      |-> a.off \cap b.off,
               unruled  |-> a.unruled \cap b.unruled,
               known    |-> a.known \cap b.known,
               vaulted  |-> a.vaulted \cap b.vaulted,
               unwaived |-> a.unwaived \cap b.unwaived]

TrackFacts ==
    held' = [f \in Flight |-> IF Begun(f) THEN Meet(held[f], Facts') ELSE Facts']

\* The gateway has just loaded its state: an empty log, nobody calling.
Init ==
    /\ secrets = [i \in SecretId |-> IF i <= Len(Loaded) THEN Loaded[i] ELSE Absent]
    /\ nextSid = Len(Loaded) + 1
    /\ rules = UNION {{[NewRule(i, Loaded[i].tok, host) EXCEPT !.n = 1] :
                         host \in CanonicalRuleHosts(Loaded[i].hosts)} : i \in DOMAIN Loaded}
    /\ denied = {} /\ exceptions = {} /\ netOff = {}
    /\ ring = <<>>
    /\ flight = [f \in Flight |-> IdleFlight]
    /\ handler = [h \in Handler |-> IdleHandler]
    /\ held = [f \in Flight |-> Facts]
    /\ calls = 0

Next ==
    /\ \/ \E f \in Flight : Fly(f)
       \/ \E q \in Req : RequestStep(q)
       \/ \E h \in Handler : HandlerStep(h) \/ HandlerCall(h)
       \/ OperatorCall
    /\ TrackFacts

Spec == Init /\ [][Next]_vars

\* Every thread that has work and is not waiting for the network goes on, and
\* the transport's timeouts end every round trip.
Fairness ==
    /\ \A q \in Req : WF_vars(Begun(q) /\ (RequestStep(q) \/ Fly(q)) /\ TrackFacts)
    /\ \A h \in Handler : WF_vars((HandlerStep(h) \/ Fly(h)) /\ TrackFacts)

FairSpec == Spec /\ Fairness

-----------------------------------------------------------------------------
(***************************************************************************)
(* Properties.                                                             *)
(***************************************************************************)
FlightPc == {"idle", "open", "scan", "vault", "rules", "domains", "decide", "rescan",
             "block", "subst", "forward", "again", "answered", "failed", "done"}
FlightState ==
    [pc : FlightPc, req : Req \cup {NoReq}, real : BOOLEAN, vault : [Token -> VaultEntry],
     rules : SUBSET Rule, denied : SUBSET Host, dec : Decision,
     sub : SUBSET [tok : Token, site : Site, id : Nat], rec : Row]
FactSet == [denied : SUBSET Host, off : SUBSET Worker, unruled : SUBSET (Token \X Host),
            known : SUBSET Value, vaulted : SUBSET Token, unwaived : SUBSET Req]

\* Types of the store, the log and the flights.
TypeOK ==
    /\ secrets \in [SecretId -> SecretRec \cup {Absent}]
    /\ nextSid \in Nat
    /\ rules \subseteq RuleRec
    /\ denied \subseteq Host /\ netOff \subseteq Worker
    /\ exceptions \subseteq [exc : Exception, n : Nat]
    /\ ring \in Seq(Row)
    /\ flight \in [Flight -> FlightState]
    /\ held \in [Flight -> FactSet]

\* A request is on its way to the origin.
Forwarding(f) == flight[f].pc \in {"forward", "again"}
HostOf(f) == Request[flight[f].req].host

\* What leaves goes to an open host: forward is never reached for an internal
\* target, nor for a host that was denied during the whole flight, however the
\* operator's edits fall between decide's reads.
OpenHostsOnly ==
    \A f \in Flight : Forwarding(f) =>
        HostOf(f) \notin InternalHost \cup held[f].denied

\* A real value is put in only where a rule allowed it: for each placeholder
\* applySubstitution rewrites, some rule covered the destination host at some
\* moment of the flight.
SubstitutionWasRuled ==
    \A f \in Flight : Forwarding(f) =>
        \A s \in flight[f].sub : <<s.tok, HostOf(f)>> \notin held[f].unruled

\* A request that carries a real value the vault held during the whole flight
\* leaves only if a host-wide exception matched it at some moment.
RealSecretContained ==
    \A f \in Flight :
        /\ Forwarding(f)
        /\ Request[flight[f].req].vals \cap held[f].known # {}
        => flight[f].req \notin held[f].unwaived

\* Placeholder p leaves as it is: it was a vault placeholder during the whole of
\* flight f, no host-wide exception ever covered the request, and no value has
\* been put in for it.
LeavesRaw(f, p) ==
    /\ p.tok \in held[f].vaulted
    /\ flight[f].req \in held[f].unwaived
    /\ ~\E s \in flight[f].sub : s.tok = p.tok /\ s.site = p.site

\* The second try of a replay carries the captured body.
CapturedBody(f) == f \in Handler /\ flight[f].pc = "again"

\* A vault placeholder in a header or in the body outside the transcript never
\* leaves as it is, however the vault changes between decide and
\* applySubstitution; except in the body of a replay that is sent a second time.
PlaceholderContained ==
    \A f \in Flight : Forwarding(f) =>
        \A p \in Request[flight[f].req].phs :
            rewritable(p.site) /\ ~(CapturedBody(f) /\ p.site \in BodySite) =>
                ~LeavesRaw(f, p)

\* Trying a dead connection again sends the substituted request again: what a
\* flight puts in for its decision it keeps until it is answered.
RetrySendsTheSame ==
    [][\A f \in Flight :
          flight[f].pc = "forward" /\ flight'[f].pc = "again" =>
              flight'[f].sub = flight[f].sub]_vars

\* The kill-switch: a worker whose internet was off during the whole of its
\* request does not reach an origin.
KillSwitchHolds ==
    \A q \in Req : Forwarding(q) => Request[q].worker \notin held[q].off

\* The log ring never exceeds its capacity, never holds a request twice, and a
\* row that offers a retry is a block with a capture to replay.
RingSound ==
    /\ Len(ring) <= MaxLog
    /\ \A i, j \in DOMAIN ring : ring[i].id = ring[j].id => i = j
    /\ \A i \in DOMAIN ring :
          ring[i].retryable => ring[i].action = "block" /\ ring[i].capture

\* A row that was replayed or allowed never becomes retryable again, whatever
\* stale copy of it a slower replay writes back.
RetryNeverRevived ==
    [][\A i \in DOMAIN ring, j \in DOMAIN ring' :
          ring[i].id = ring'[j].id /\ ~ring[i].retryable => ~ring'[j].retryable]_vars

\* When a call that changed the rules of a placeholder has run through its rows,
\* every row that was blocked on it at the time of the change has been tried, is
\* no longer retryable, or has left the log.
AutoReplayComplete ==
    \A h \in Handler : QueueDone(h) /\ handler[h].todo = {} =>
        \A q \in handler[h].due :
            q \in handler[h].seen \/ ~InRing(q) \/ ~RowOf(q).retryable

\* The log, as its watchers see it, is a RequestLog.
Inside  == {q \in Req : Begun(q)}
Over    == {q \in Req : flight[q].pc = "done"}
Shown   == [i \in DOMAIN ring |-> ring[i].id]
Offered == {ring[i].id : i \in {j \in DOMAIN ring : ring[j].retryable}}

Log == INSTANCE RequestLog WITH Capacity <- MaxLog, inside <- Inside, over <- Over,
                                shown <- Shown, offered <- Offered

\* Requests, replays and exceptions rewrite the log from many threads, with
\* copies of its rows that may be old: no request that was let in ends without a
\* row, none is put in twice, only the last row is pushed out, rows keep their
\* order, and a retry that is off does not come back.
ImplementsRequestLog == Log!Spec

\* The stages of a trip and the parts of a call, by how much of either is left.
\* The loop over the hosts is one part: its place is told by todo and queue.
StepsLeft == [scan |-> 10, vault |-> 9, rules |-> 8, domains |-> 7, decide |-> 6,
              rescan |-> 5, subst |-> 4, forward |-> 3, again |-> 2,
              block |-> 1, answered |-> 1, failed |-> 1, idle |-> 0, done |-> 0]
PartsLeft == [replace |-> 3, addsecret |-> 3, setenv |-> 3, sync |-> 2, addrule |-> 2,
              addexc |-> 2, match |-> 1, pop |-> 1, replay |-> 1, entry |-> 0]

TripAdvances(f) == StepsLeft[flight'[f].pc] < StepsLeft[flight[f].pc]

\* One host's queue: a row fewer, or the replay of the last one taken goes on.
QueueAdvances(h) ==
    \/ /\ DOMAIN handler'[h].queue \subseteq DOMAIN handler[h].queue
       /\ DOMAIN handler'[h].queue # DOMAIN handler[h].queue
    \/ handler'[h].queue = handler[h].queue /\ TripAdvances(h)

\* The loop: a host fewer to match, the way back to the next host, or its queue.
LoopAdvances(h) ==
    \/ handler'[h].todo \subseteq handler[h].todo /\ handler'[h].todo # handler[h].todo
    \/ /\ handler'[h].todo = handler[h].todo
       /\ handler[h].pc # "match"
       /\ handler'[h].pc = "match" \/ QueueAdvances(h)

CallAdvances(h) ==
    \/ handler'[h].pc = "idle"
    \/ Len(handler'[h].entries) < Len(handler[h].entries)
    \/ /\ handler'[h].entries = handler[h].entries
       /\ \/ PartsLeft[handler'[h].pc] < PartsLeft[handler[h].pc]
          \/ PartsLeft[handler'[h].pc] = PartsLeft[handler[h].pc] /\ LoopAdvances(h)

\* No request and no control-plane call runs in circles: each step that moves it
\* brings it nearer to its end, in an order with no infinite descent (entries,
\* parts, hosts to match, rows to replay, stages of a replay), whatever rows come
\* into the log and whatever the operator does meanwhile.  A row that is replayed
\* by one call while another queues it, or that comes back into the log, starts
\* nothing over.
NothingStartsOver ==
    [][/\ \A q \in Req : Begun(q) => UNCHANGED flight[q] \/ TripAdvances(q)
       /\ \A h \in Handler : handler[h].pc # "idle" =>
             UNCHANGED <<handler[h], flight[h]>> \/ CallAdvances(h)]_vars

\* A secret limited to some workers is put into the requests of those only.
WorkerScopeHolds ==
    \A q \in Req : Forwarding(q) =>
        \A s \in flight[q].sub :
            s.id \in Live /\ secrets[s.id].workers # {} =>
                Request[q].worker \in secrets[s.id].workers

\* Every request that was let in is answered and every control-plane call ends.
RequestAnswered == \A q \in Req : Begun(q) ~> flight[q].pc = "done"
CallEnds == \A h \in Handler : handler[h].pc # "idle" ~> handler[h].pc = "idle"
=============================================================================
