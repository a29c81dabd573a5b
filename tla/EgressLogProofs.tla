-------------------------- MODULE EgressLogProofs --------------------------
(***************************************************************************)
(* The request log of Egress, for any number of requests, handlers and     *)
(* calls: it stays well formed, and a row that was replayed or allowed is  *)
(* never retryable again.  The types of Egress, which rest on it: a replay *)
(* takes its request from the log.  Then, on both of them: a change of     *)
(* rules leaves no row it unblocks untried, no step sets a request or a    *)
(* call back, and the log implements RequestLog.                           *)
(*                                                                         *)
(* A row enters the log when its request is done, and a replay carries a   *)
(* copy of a row of the log, so every row and every copy is about a        *)
(* request that is done (LogInv).  Requests that are done stay done:       *)
(* AppendLog never meets a row of its own request, and only ReplayUpdate,  *)
(* which clears Retryable, brings an evicted row back.                     *)
(***************************************************************************)
EXTENDS EgressProofs, SequenceTheorems

Action == {"allow", "block", "substitute"}

RowSound(r) == r \in Row /\ (r.retryable => r.action = "block" /\ r.capture /\ r.found)

\* What a flight carries for the log.
FlightRow(f) ==
    /\ RowSound(flight[f].rec)
    /\ flight[f].pc \in {"rescan", "subst", "forward", "again", "answered"} =>
          flight[f].dec.action \in Action
    /\ f \in Req /\ flight[f].pc \in {"block", "subst", "forward", "again", "answered", "failed"}
          => flight[f].rec.id = f
    /\ f \in Handler /\ flight[f].pc # "idle" =>
          flight[f].rec.id \in Req /\ flight[flight[f].rec.id].pc = "done"

RingInv ==
    /\ ring \in Seq(Row)
    /\ Len(ring) <= MaxLog
    /\ \A i, j \in DOMAIN ring : ring[i].id = ring[j].id => i = j
    /\ \A i \in DOMAIN ring : /\ RowSound(ring[i])
                              /\ ring[i].id \in Req /\ flight[ring[i].id].pc = "done"

LogInv == RingInv /\ \A f \in Flight : FlightRow(f)

\* A row that is retryable after the step was so before it, or its request has
\* just come in.
Unrevived ==
    \A j \in DOMAIN ring' : ring'[j].retryable /\ flight[ring'[j].id].pc = "done" =>
        \E i \in DOMAIN ring : ring[i].id = ring'[j].id /\ ring[i].retryable

-----------------------------------------------------------------------------
(***************************************************************************)
(* The log's operations.                                                   *)
(***************************************************************************)
\* The log after a row has come in at its front.
LEMMA TruncateShape ==
    ASSUME NEW s \in Seq(Row), NEW rec \in Row
    PROVE  LET t == Truncate(<<rec>> \o s) IN
           /\ t \in Seq(Row) /\ Len(t) <= MaxLog
           /\ \A i \in DOMAIN t : \/ i = 1 /\ t[i] = rec
                                  \/ i # 1 /\ i - 1 \in DOMAIN s /\ t[i] = s[i - 1]
<1> USE EgressAssumption
<1> DEFINE u == <<rec>> \o s
           n == IF Len(u) > MaxLog THEN MaxLog ELSE Len(u)
           t == SubSeq(u, 1, n)
<1>1. u \in Seq(Row) /\ Len(u) = 1 + Len(s) /\ Len(s) \in Nat
  OBVIOUS
<1>2. \A i \in 1 .. Len(u) : u[i] = IF i = 1 THEN rec ELSE s[i - 1]
  OBVIOUS
<1>3. n \in 0 .. Len(u) /\ n <= MaxLog
  BY <1>1
<1> HIDE DEF u, n
<1>4. t \in Seq(Row) /\ Len(t) = n /\ \A i \in 1 .. n : t[i] = u[i]
  BY <1>1, <1>3, SubSeqProperties
<1>5. DOMAIN t = 1 .. n /\ DOMAIN s = 1 .. Len(s)
  BY <1>4
<1>6. ASSUME NEW i \in DOMAIN t
      PROVE  \/ i = 1 /\ t[i] = rec
             \/ i # 1 /\ i - 1 \in DOMAIN s /\ t[i] = s[i - 1]
  <2>1. i \in 1 .. n /\ i \in 1 .. Len(u) /\ t[i] = u[i]
    BY <1>1, <1>3, <1>4, <1>5
  <2>2. CASE i = 1
    BY <1>2, <2>1, <2>2
  <2>3. CASE i # 1
    <3>1. i - 1 \in 1 .. Len(s)
      BY <1>1, <2>1, <2>3
    <3>2. u[i] = s[i - 1]
      BY <1>2, <2>1, <2>3
    <3> QED BY <1>5, <2>1, <2>3, <3>1, <3>2
  <2> QED BY <2>2, <2>3
<1>7. t = Truncate(<<rec>> \o s)
  BY DEF Truncate, u, n
<1> HIDE DEF t
<1> QED BY <1>3, <1>4, <1>6, <1>7

\* Only flight g moves, and no request that is done.
Only(g) ==
    /\ \A f \in Flight \ {g} : flight'[f] = flight[f]
    /\ g \in Req => flight[g].pc # "done"

\* Requests that are done stay done.
LEMMA DoneStays ==
    ASSUME NEW g \in Flight, Only(g), NEW q \in Req, flight[q].pc = "done"
    PROVE  flight'[q].pc = "done"
  BY EgressAssumption DEF Only, Flight

\* What the other flights carry stays right.
LEMMA OthersCarry ==
    ASSUME LogInv, NEW g \in Flight, Only(g), FlightRow(g)'
    PROVE  \A f \in Flight : FlightRow(f)'
<1> SUFFICES ASSUME NEW f \in Flight, f # g PROVE FlightRow(f)'
  OBVIOUS
<1>1. FlightRow(f) /\ flight'[f] = flight[f]
  BY DEF LogInv, Only
<1> QED BY <1>1, DoneStays DEF FlightRow

\* A flight moves and the log does not.
LEMMA KeepRing ==
    ASSUME LogInv, UNCHANGED ring, NEW g \in Flight, Only(g), FlightRow(g)'
    PROVE  LogInv' /\ Unrevived
<1>1. RingInv'
  BY DoneStays DEF LogInv, RingInv
<1>2. Unrevived
  BY DEF LogInv, RingInv, Unrevived
<1> QED BY <1>1, <1>2, OthersCarry DEF LogInv

\* A row comes in at the front of the log.
LEMMA GrowRing ==
    ASSUME LogInv, NEW rec, RowSound(rec), rec.id \in Req, ~InRing(rec.id),
           ring' = Truncate(<<rec>> \o ring), NEW g \in Flight, Only(g), FlightRow(g)',
           rec.retryable => flight[rec.id].pc # "done", flight'[rec.id].pc = "done"
    PROVE  LogInv' /\ Unrevived
<1>1. /\ ring' \in Seq(Row) /\ Len(ring') <= MaxLog
      /\ \A i \in DOMAIN ring' :
            \/ i = 1 /\ ring'[i] = rec
            \/ i # 1 /\ i - 1 \in DOMAIN ring /\ ring'[i] = ring[i - 1]
  BY TruncateShape DEF LogInv, RingInv, RowSound
<1>2. DOMAIN ring' \subseteq Nat
  BY <1>1
<1>3. \A i \in DOMAIN ring : ring[i].id # rec.id
  BY DEF InRing
<1>4. ASSUME NEW i \in DOMAIN ring', NEW j \in DOMAIN ring', ring'[i].id = ring'[j].id
      PROVE  i = j
  <2>1. CASE i = 1 /\ j = 1
    BY <2>1
  <2>2. CASE i # 1 /\ j # 1
    <3>1. /\ i - 1 \in DOMAIN ring /\ ring'[i] = ring[i - 1]
          /\ j - 1 \in DOMAIN ring /\ ring'[j] = ring[j - 1]
      BY <1>1, <2>2
    <3>2. i - 1 = j - 1
      BY <1>4, <3>1 DEF LogInv, RingInv
    <3>3. i \in Nat /\ j \in Nat
      BY <1>2
    <3> QED BY <3>2, <3>3
  <2>3. CASE i = 1 /\ j # 1
    <3>1. ring'[i] = rec /\ j - 1 \in DOMAIN ring /\ ring'[j] = ring[j - 1]
      BY <1>1, <2>3
    <3> QED BY <1>3, <1>4, <3>1
  <2>4. CASE i # 1 /\ j = 1
    <3>1. ring'[j] = rec /\ i - 1 \in DOMAIN ring /\ ring'[i] = ring[i - 1]
      BY <1>1, <2>4
    <3> QED BY <1>3, <1>4, <3>1
  <2> QED BY <2>1, <2>2, <2>3, <2>4
<1>5. ASSUME NEW i \in DOMAIN ring'
      PROVE  RowSound(ring'[i]) /\ ring'[i].id \in Req /\ flight'[ring'[i].id].pc = "done"
  <2>1. CASE ring'[i] = rec
    BY <2>1
  <2>2. CASE i - 1 \in DOMAIN ring /\ ring'[i] = ring[i - 1]
    BY <2>2, DoneStays DEF LogInv, RingInv
  <2> QED BY <1>1, <2>1, <2>2
<1>6. Unrevived
  <2> SUFFICES ASSUME NEW j \in DOMAIN ring', ring'[j].retryable,
                      flight[ring'[j].id].pc = "done"
               PROVE  \E i \in DOMAIN ring : ring[i].id = ring'[j].id /\ ring[i].retryable
    BY DEF Unrevived
  <2>1. j - 1 \in DOMAIN ring /\ ring'[j] = ring[j - 1]
    BY <1>1
  <2> QED BY <2>1
<1> QED BY <1>1, <1>4, <1>5, <1>6, OthersCarry DEF LogInv, RingInv, RowSound

\* Rows are rewritten where they are: each stays about its request, and none
\* becomes retryable.
LEMMA RewriteRing ==
    ASSUME LogInv, NEW g \in Flight, Only(g), FlightRow(g)', DOMAIN ring' = DOMAIN ring,
           ring' \in Seq(Row),
           \A i \in DOMAIN ring : /\ ring'[i].id = ring[i].id /\ RowSound(ring'[i])
                                  /\ ~ring[i].retryable => ~ring'[i].retryable
    PROVE  LogInv' /\ Unrevived
<1>1. Len(ring') = Len(ring)
  BY DEF LogInv, RingInv
<1>2. RingInv'
  BY <1>1, DoneStays DEF LogInv, RingInv
<1>3. Unrevived
  BY DEF LogInv, RingInv, Unrevived
<1> QED BY <1>2, <1>3, OthersCarry DEF LogInv

-----------------------------------------------------------------------------
(***************************************************************************)
(* The steps of a flight.                                                  *)
(***************************************************************************)
\* A row goes along unchanged while the flight has not left its stage.
LEMMA Carried ==
    ASSUME LogInv, NEW f \in Flight, Only(f),
           flight'[f].rec = flight[f].rec,
           f \in Handler => flight[f].pc # "idle",
           f \in Req =>
               LET Decided == {"block", "subst", "forward", "again", "answered", "failed"} IN
               flight'[f].pc \in Decided => flight[f].pc \in Decided,
           flight'[f].pc \in {"rescan", "subst", "forward", "again", "answered"} =>
               flight'[f].dec.action \in Action
    PROVE  FlightRow(f)'
  BY DoneStays DEF LogInv, FlightRow

\* The steps that requests and replays share leave the log alone.
LEMMA FlyKeepsLog ==
    ASSUME Shaped, LogInv, NEW f \in Flight, Fly(f)
    PROVE  LogInv' /\ Unrevived
<1> USE DEF LogInv, Shaped, IsRecord, Only
<1>1. CASE ScanRequest(f) \/ ReadVault(f) \/ ReadRules(f) \/ ReadDomains(f)
  <2>1. UNCHANGED ring /\ Only(f) /\ FlightRow(f)'
    BY <1>1, Carried DEF ScanRequest, ReadVault, ReadRules, ReadDomains, FlightOnly
  <2> QED BY <2>1, KeepRing
<1>2. CASE DecideFlight(f)
  <2> DEFINE dec == Decide(PolicyInput(f))
  <2>1. dec.action \in Action
    BY DecideFacts DEF Action
  <2>2. /\ UNCHANGED ring /\ Only(f) /\ flight[f].pc = "decide"
        /\ flight'[f].rec = flight[f].rec /\ flight'[f].dec = dec
        /\ flight'[f].pc = IF f \in Req THEN "rescan" ELSE AfterDecision(f, dec.action)
    BY <1>2 DEF DecideFlight, FlightOnly
  <2> HIDE DEF dec
  <2>3. FlightRow(f)'
    BY <2>1, <2>2, Carried
  <2> QED BY <2>2, <2>3, KeepRing
<1>3. CASE applySubstitution(f)
  <2>1. /\ UNCHANGED ring /\ Only(f) /\ flight[f].pc = "subst" /\ flight'[f].pc = "forward"
        /\ flight'[f].rec = flight[f].rec /\ flight'[f].dec = flight[f].dec
    BY <1>3 DEF applySubstitution, FlightOnly
  <2>2. FlightRow(f)'
    BY <2>1, Carried DEF FlightRow
  <2> QED BY <2>1, <2>2, KeepRing
<1>4. CASE ForwardAnswered(f) \/ ForwardFailed(f) \/ ForwardDeadConn(f)
  <2>1. /\ UNCHANGED ring /\ Only(f) /\ flight[f].pc \in {"forward", "again"}
        /\ flight'[f].pc \in {"answered", "failed", "again"}
        /\ flight'[f].rec = flight[f].rec /\ flight'[f].dec = flight[f].dec
    BY <1>4 DEF ForwardAnswered, ForwardFailed, ForwardDeadConn, Goto, FlightOnly
  <2>2. FlightRow(f)'
    BY <2>1, Carried DEF FlightRow
  <2> QED BY <2>1, <2>2, KeepRing
<1> QED BY <1>1, <1>2, <1>3, <1>4 DEF Fly

\* The row of a request comes into the log once, when the request is done.
LEMMA RequestLogs ==
    ASSUME Shaped, LogInv, NEW q \in Req, RequestStep(q)
    PROVE  LogInv' /\ Unrevived
<1>0. q \in Flight /\ q \notin Handler
  BY EgressAssumption DEF Flight
<1>1. flight[q].pc # "done" => ~InRing(q)
  BY DEF LogInv, RingInv, InRing
<1>2. FlightRow(q) /\ NoRec \in Row
  BY <1>0 DEF LogInv, NoRec, Row
<1> USE <1>0, <1>2 DEF Shaped, IsRecord, Only
<1>3. CASE BeginRequest(q) \/ Connect(q) \/ ConnectUnresolved(q)
  <2>1. /\ UNCHANGED ring /\ Only(q) /\ flight'[q].pc \in {"scan", "open", "done"}
        /\ flight'[q].rec = flight[q].rec
    BY <1>3 DEF BeginRequest, Connect, ConnectUnresolved, ReadyToProcess, Goto, FlightOnly
  <2>2. FlightRow(q)'
    BY <2>1, Carried
  <2> QED BY <2>1, <2>2, KeepRing
<1>4. CASE Rescan(q)
  <2> DEFINE row == [id |-> q, action |-> flight[q].dec.action,
                     retryable |-> flight[q].dec.action = "block",
                     capture |-> flight[q].dec.action = "block", found |-> TRUE,
                     real |-> carriesKnownSecret(q)]
  <2>1. /\ UNCHANGED ring /\ Only(q) /\ flight'[q].rec = row
        /\ flight'[q].dec = flight[q].dec /\ flight[q].dec.action \in Action
    BY <1>4 DEF Rescan, FlightOnly, FlightRow
  <2>2. carriesKnownSecret(q) \in BOOLEAN
    BY DEF carriesKnownSecret
  <2>3. RowSound(row) /\ row.id = q
    BY <2>1, <2>2 DEF RowSound, Row, Action
  <2> HIDE DEF row
  <2>4. FlightRow(q)'
    BY <2>1, <2>3 DEF FlightRow
  <2> QED BY <2>1, <2>4, KeepRing
<1>5. CASE BlockRequest(q)
  <2>1. /\ ring' = Truncate(<<flight[q].rec>> \o ring) /\ Only(q)
        /\ flight[q].pc = "block" /\ flight'[q] = [IdleFlight EXCEPT !.pc = "done"]
    BY <1>5 DEF BlockRequest, AppendLog
  <2>2. RowSound(flight[q].rec) /\ flight[q].rec.id = q
    BY <2>1 DEF FlightRow
  <2>3. FlightRow(q)' /\ flight'[q].pc = "done"
    BY <2>1 DEF FlightRow, RowSound, IdleFlight, NoRec
  <2> QED BY <1>1, <2>1, <2>2, <2>3, GrowRing
<1>6. CASE LogOutcome(q)
  <2> DEFINE row == [flight[q].rec EXCEPT
                        !.action = IF flight[q].pc = "failed" THEN "block" ELSE @]
  <2>1. /\ ring' = Truncate(<<row>> \o ring) /\ Only(q)
        /\ flight[q].pc \in {"answered", "failed"}
        /\ flight'[q] = [IdleFlight EXCEPT !.pc = "done"]
    BY <1>6 DEF LogOutcome, AppendLog
  <2>2. RowSound(row) /\ row.id = q
    BY <2>1 DEF FlightRow, RowSound, Row
  <2>3. FlightRow(q)' /\ flight'[q].pc = "done"
    BY <2>1 DEF FlightRow, RowSound, IdleFlight, NoRec
  <2> HIDE DEF row
  <2> QED BY <1>1, <2>1, <2>2, <2>3, GrowRing
<1>7. CASE KillSwitchRefused(q) \/ ConnectRefused(q)
  <2> DEFINE row == RefusalRow(q)
  <2>1. /\ ring' = Truncate(<<row>> \o ring) /\ Only(q)
        /\ flight[q].pc \in {"idle", "open"} /\ flight'[q].pc = "done"
        /\ flight'[q].rec = flight[q].rec
    BY <1>7 DEF KillSwitchRefused, ConnectRefused, ReadyToProcess, AppendLog, Goto
  <2>2. RowSound(row) /\ row.id = q
    BY DEF RefusalRow, RowSound, NoRec, Row
  <2>3. FlightRow(q)'
    BY <2>1, Carried
  <2> HIDE DEF row
  <2> QED BY <1>1, <2>1, <2>2, <2>3, GrowRing
<1> QED BY <1>3, <1>4, <1>5, <1>6, <1>7 DEF RequestStep

-----------------------------------------------------------------------------
(***************************************************************************)
(* The steps of a handler.                                                 *)
(***************************************************************************)
\* A replay takes a row of the log with it.
LEMMA ReplayTakesRow ==
    ASSUME Shaped, LogInv, NEW h \in Handler, NEW q, InRing(q), StartReplay(h, RowOf(q)),
           UNCHANGED ring
    PROVE  LogInv' /\ Unrevived
<1>1. h \in Flight /\ h \notin Req
  BY EgressAssumption DEF Flight
<1>2. PICK i \in DOMAIN ring : RowOf(q) = ring[i]
  BY DEF InRing, RowOf
<1>3. RowSound(ring[i]) /\ ring[i].id \in Req /\ flight[ring[i].id].pc = "done"
  BY DEF LogInv, RingInv
<1>4. Only(h) /\ flight'[h].pc = "scan" /\ flight'[h].rec = ring[i]
  BY <1>1, <1>2 DEF StartReplay, IdleFlight, Shaped, Only
<1>5. FlightRow(h)'
  BY <1>1, <1>3, <1>4, DoneStays DEF FlightRow
<1> QED BY <1>1, <1>4, <1>5, KeepRing

\* An answered replay overwrites its row, or brings it back, not retryable.
LEMMA ReplayDoneLogs ==
    ASSUME Shaped, LogInv, NEW h \in Handler, ReplayDone(h)
    PROVE  LogInv' /\ Unrevived
<1> DEFINE rec == [flight[h].rec EXCEPT !.action = flight[h].dec.action, !.retryable = FALSE]
<1>1. h \in Flight /\ h \notin Req
  BY EgressAssumption DEF Flight
<1>2. /\ flight[h].pc = "answered" /\ ReplayUpdate(rec) /\ Only(h)
      /\ flight'[h] = IdleFlight
  BY <1>1 DEF ReplayDone, Shaped, Only
<1>3. /\ RowSound(rec) /\ ~rec.retryable /\ rec.id \in Req
      /\ flight[rec.id].pc = "done" /\ flight'[rec.id].pc = "done"
  <2>1. FlightRow(h)
    BY <1>1 DEF LogInv
  <2>2. RowSound(rec) /\ ~rec.retryable /\ rec.id = flight[h].rec.id
    BY <1>2, <2>1 DEF FlightRow, RowSound, Row, Action
  <2> QED BY <1>1, <1>2, <2>1, <2>2, DoneStays DEF FlightRow
<1>4. FlightRow(h)'
  BY <1>1, <1>2 DEF FlightRow, RowSound, IdleFlight, NoRec, Row
<1> HIDE DEF rec
<1>5. CASE InRing(rec.id)
  <2>1. ring' = [i \in DOMAIN ring |-> IF ring[i].id = rec.id THEN rec ELSE ring[i]]
    BY <1>2, <1>5 DEF ReplayUpdate
  <2>2. ring \in Seq(Row) /\ rec \in Row
    BY <1>3 DEF LogInv, RingInv, RowSound
  <2>3. ring' \in Seq(Row) /\ DOMAIN ring' = DOMAIN ring
    BY <2>1, <2>2
  <2>4. \A i \in DOMAIN ring : /\ ring'[i].id = ring[i].id /\ RowSound(ring'[i])
                               /\ ~ring[i].retryable => ~ring'[i].retryable
    BY <1>3, <2>1 DEF LogInv, RingInv
  <2> QED BY <1>1, <1>2, <1>4, <2>3, <2>4, RewriteRing
<1>6. CASE ~InRing(rec.id)
  BY <1>1, <1>2, <1>3, <1>4, <1>6, GrowRing DEF ReplayUpdate
<1> QED BY <1>5, <1>6

\* The rows an exception covers are allowed where they are.
LEMMA MarkAllowedLogs ==
    ASSUME Shaped, LogInv, NEW h \in Handler, MarkAllowed(h)
    PROVE  LogInv' /\ Unrevived
<1>1. ring \in Seq(Row) /\ \A i \in DOMAIN ring : RowSound(ring[i])
  BY DEF LogInv, RingInv
<1>2. /\ UNCHANGED flight /\ DOMAIN ring' = DOMAIN ring
      /\ \A i \in DOMAIN ring : \/ ring'[i] = ring[i]
                                \/ ring'[i] = [ring[i] EXCEPT !.action = "allow",
                                                              !.retryable = FALSE]
  BY DEF MarkAllowed, ApplyAllowedException
<1>3. \A i \in DOMAIN ring : /\ ring'[i].id = ring[i].id /\ RowSound(ring'[i])
                             /\ ~ring[i].retryable => ~ring'[i].retryable
  <2> SUFFICES ASSUME NEW i \in DOMAIN ring
               PROVE  /\ ring'[i].id = ring[i].id /\ RowSound(ring'[i])
                      /\ ~ring[i].retryable => ~ring'[i].retryable
    OBVIOUS
  <2>1. RowSound(ring[i])
    BY <1>1
  <2>2. CASE ring'[i] = ring[i]
    BY <2>1, <2>2
  <2>3. CASE ring'[i] = [ring[i] EXCEPT !.action = "allow", !.retryable = FALSE]
    BY <2>1, <2>3 DEF RowSound, Row
  <2> QED BY <1>2, <2>2, <2>3
<1>4. ring' \in [1 .. Len(ring) -> Row]
  <2> DEFINE marked(i) == IF /\ ring[i].action = "block"
                             /\ handler[h].host \in {AnyHost, Request[ring[i].id].host}
                             /\ recordOnlyPattern(ring[i], handler[h].pat)
                          THEN [ring[i] EXCEPT !.action = "allow", !.retryable = FALSE]
                          ELSE ring[i]
  <2>1. ring' = [i \in DOMAIN ring |-> marked(i)]
    BY DEF MarkAllowed, ApplyAllowedException
  <2>2. \A i \in DOMAIN ring : marked(i) \in Row
    BY <1>3, <2>1 DEF RowSound
  <2> HIDE DEF marked
  <2> QED BY <1>1, <2>1, <2>2
<1>5. ring' \in Seq(Row)
  BY <1>1, <1>4
<1>6. h \in Flight /\ h \notin Req
  BY EgressAssumption DEF Flight
<1>7. Only(h) /\ FlightRow(h)'
  BY <1>2, <1>6 DEF Only, LogInv, FlightRow
<1> QED BY <1>2, <1>3, <1>5, <1>6, <1>7, RewriteRing

\* A step that moves no flight and leaves the log alone.
LEMMA LogUntouched ==
    ASSUME LogInv, UNCHANGED <<ring, flight>>
    PROVE  LogInv' /\ Unrevived
  BY DEF LogInv, RingInv, FlightRow, Unrevived

\* All the steps of a handler.
LEMMA HandlerLogs ==
    ASSUME Shaped, LogInv, NEW h \in Handler, HandlerStep(h) \/ HandlerCall(h)
    PROVE  LogInv' /\ Unrevived
<1>1. CASE ReplayError(h)
  <2>1. h \in Flight /\ h \notin Req
    BY EgressAssumption DEF Flight
  <2>2. UNCHANGED ring /\ Only(h) /\ flight'[h] = IdleFlight
    BY <1>1, <2>1 DEF ReplayError, Shaped, Only
  <2>3. FlightRow(h)'
    BY <2>1, <2>2 DEF FlightRow, RowSound, IdleFlight, NoRec, Row
  <2> QED BY <2>1, <2>2, <2>3, KeepRing
<1>2. CASE Pop(h)
  <2>1. \/ UNCHANGED <<ring, flight>>
        \/ UNCHANGED ring /\ \E q : InRing(q) /\ StartReplay(h, RowOf(q))
    BY <1>2 DEF Pop
  <2> QED BY <2>1, LogUntouched, ReplayTakesRow
<1>3. CASE \E q \in Req : Retry(h, q)
  BY <1>3, ReplayTakesRow DEF Retry
<1>4. CASE UNCHANGED <<ring, flight>>
  BY <1>4, LogUntouched
<1> QED
  BY <1>1, <1>2, <1>3, <1>4, ReplayDoneLogs, MarkAllowedLogs
     DEF HandlerStep, HandlerCall, ReplaceSecret, SyncRulesForSecret, TakeEntry,
         ResolveAddSecret, SetEnvKey, ResolveAddRule, ExceptAdd, Match, NextHost,
         NextEntry, Return, PostSecret, PutSecret, Resolve, Except, RetryMatching

-----------------------------------------------------------------------------
(***************************************************************************)
(* The properties.                                                         *)
(***************************************************************************)
\* The gateway starts with an empty log.
LEMMA InitLog == Init => LogInv
<1> SUFFICES ASSUME Init PROVE LogInv
  OBVIOUS
<1>1. \A f \in Flight : flight[f] = IdleFlight
  BY DEF Init
<1>2. RowSound(NoRec)
  BY DEF RowSound, Row, NoRec
<1>3. \A f \in Flight : FlightRow(f)
  BY <1>1, <1>2 DEF FlightRow, IdleFlight
<1>4. RingInv
  BY EgressAssumption DEF Init, RingInv
<1> QED BY <1>3, <1>4 DEF LogInv

\* Every step keeps the log right and revives no row.
LEMMA NextLog == Shaped /\ LogInv /\ [Next]_vars => LogInv' /\ Unrevived
<1> SUFFICES ASSUME Shaped, LogInv, [Next]_vars PROVE LogInv' /\ Unrevived
  OBVIOUS
<1>1. CASE OperatorCall
  BY <1>1, LogUntouched
     DEF OperatorCall, OneCall, DeleteSecret, AddRule, DeleteRule, UpsertDomain, AddException,
         DeleteException, SetWorkerInternet
<1>2. CASE UNCHANGED vars
  BY <1>2, LogUntouched DEF vars
<1> QED BY <1>1, <1>2, FlyKeepsLog, RequestLogs, HandlerLogs DEF Next

\* Every row of the log and every row under replay is about a request that is
\* done, whatever the interleaving.
THEOREM LogHolds == Spec => []LogInv
<1>1. Sound => Shaped
  BY DEF Sound
<1> QED BY <1>1, InitLog, NextLog, FlightsSound, PTL DEF Spec

\* The log keeps its bound, no request is in it twice, and what offers a retry
\* is a block with a capture.
THEOREM RingHolds == Spec => []RingSound
<1>1. LogInv => RingSound
  BY DEF LogInv, RingInv, RowSound, RingSound
<1> QED BY <1>1, LogHolds, PTL

\* A slower replay writes back an old copy of a row, but never revives it.
THEOREM RetryStaysSpent == Spec => RetryNeverRevived
<1>1. Sound => Shaped
  BY DEF Sound
<1>2. LogInv /\ Unrevived =>
        \A i \in DOMAIN ring, j \in DOMAIN ring' :
          ring[i].id = ring'[j].id /\ ~ring[i].retryable => ~ring'[j].retryable
  BY DEF Unrevived, LogInv, RingInv
<1> QED BY <1>1, <1>2, NextLog, LogHolds, FlightsSound, PTL DEF Spec, RetryNeverRevived

-----------------------------------------------------------------------------
(***************************************************************************)
(* Types: of the store, of the flights, of what held, and of the frames of *)
(* the control-plane calls, which write to the store what they kept.       *)
(***************************************************************************)
\* The shape of a handler's frame, as IsRecord is that of a flight.
IsFrame(k) ==
    k \in [pc : {k.pc}, op : {k.op}, sid : {k.sid}, rec : {k.rec}, tok : {k.tok}, pat : {k.pat},
           host : {k.host}, todo : {k.todo}, queue : {k.queue}, seen : {k.seen},
           due : {k.due}, entries : {k.entries}]

\* What a call keeps between two store operations fits the store.
FrameTyped(k) ==
    /\ IsFrame(k)
    /\ k.sid \in Nat
    /\ k.pc \in {"replace", "sync", "addsecret"} => k.rec \in SecretRec
    /\ k.pc \in {"addsecret", "setenv", "addrule"} => k.tok \in Token
    /\ k.pc = "addexc" => k.pat \in Pattern /\ k.todo \subseteq Host
    /\ k.todo \subseteq Host \cup {AnyHost}
    /\ k.entries \in Seq(Entry)

HandlersTyped ==
    /\ handler = [h \in Handler |-> handler[h]]
    /\ \A h \in Handler : FrameTyped(handler[h])

StoreTyped ==
    /\ secrets \in [SecretId -> SecretRec \cup {Absent}]
    /\ nextSid \in Nat
    /\ rules \subseteq RuleRec
    /\ denied \subseteq Host /\ netOff \subseteq Worker
    /\ exceptions \subseteq [exc : Exception, n : Nat]

FlightsTyped ==
    /\ flight \in [Flight -> FlightState]
    /\ \A f \in Flight : Begun(f) => flight[f].req \in Req

Typed == StoreTyped /\ HandlersTyped /\ FlightsTyped /\ held \in [Flight -> FactSet]

\* A nonempty set of naturals has a least element.
LEMMA FirstIsMember ==
    ASSUME NEW S, S \subseteq Nat, S # {}
    PROVE  First(S) \in S
<1> DEFINE R == {x \in Nat \X Nat : x[1] < x[2]}
<1>1. IsWellFoundedOn(R, Nat)
  BY NatLessThanWellFounded, Zenon DEF OpToRel
<1>2. PICK n \in S : \A m \in S : ~(<<m, n>> \in R)
  BY <1>1, WFMin, Zenon
<1>3. \A m \in S : n <= m
  <2> TAKE m \in S
  <2>1. m \in Nat /\ n \in Nat /\ ~(m < n)
    BY <1>2
  <2> QED BY <2>1
<1> QED BY <1>3 DEF First

\* The copy number that AddCopy gives.
LEMMA CopyTyped ==
    ASSUME NEW S, NEW x, FreeCopy(S, x) # {}
    PROVE  First(FreeCopy(S, x)) \in Nat
<1>1. FreeCopy(S, x) \subseteq Nat
  BY EgressAssumption DEF FreeCopy
<1> QED BY <1>1, FirstIsMember

\* AddCopyOfException keeps the exceptions typed.
LEMMA ExceptionAdded ==
    ASSUME exceptions \subseteq [exc : Exception, n : Nat], NEW e \in Exception,
           AddCopyOfException(e)
    PROVE  exceptions' \subseteq [exc : Exception, n : Nat]
<1> DEFINE x == [exc |-> e, n |-> 0]
           k == First(FreeCopy(exceptions, x))
<1>1. k \in Nat
  BY CopyTyped DEF AddCopyOfException
<1>2. exceptions' = exceptions \cup {[x EXCEPT !.n = k]}
  BY DEF AddCopyOfException, AddCopy
<1> HIDE DEF k
<1> QED BY <1>1, <1>2

\* AddSecret keeps the secrets typed.
LEMMA SecretAdded ==
    ASSUME StoreTyped, NEW s \in SecretRec, AddSecret(s)
    PROVE  secrets' \in [SecretId -> SecretRec \cup {Absent}] /\ nextSid' \in Nat
<1> DEFINE X == SecretRec \cup {Absent}
<1>1. secrets \in [SecretId -> X] /\ nextSid \in Nat /\ s \in X
  BY DEF StoreTyped
<1>2. secrets' = [secrets EXCEPT ![nextSid] = s] /\ nextSid' = nextSid + 1
  BY DEF AddSecret
<1> HIDE DEF X
<1>3. secrets' \in [SecretId -> X]
  BY <1>1, <1>2
<1>4. nextSid' \in Nat
  BY <1>1, <1>2
<1> QED BY <1>3, <1>4 DEF X

\* Decide returns a decision.
LEMMA DecideTyped ==
    ASSUME NEW in
    PROVE  Decide(in) \in Decision
<1>1. credentialTokens(in) \subseteq Token
  BY DEF credentialTokens
<1>2. \A R \in SUBSET Reason : Block(R) \in Decision
  BY DEF Block, Decision
<1>3. \A r \in Reason : Allow(r) \in Decision
  BY DEF Allow, Decision
<1>4. decidePlaceholders(in) \in Decision
  <2>1. [action |-> "substitute", reasons |-> {"allowed-domain"},
         subst |-> credentialTokens(in)] \in Decision
    BY <1>1 DEF Decision, Reason
  <2> QED BY <1>2, <1>3, <2>1 DEF decidePlaceholders, Reason
<1> QED BY <1>2, <1>3, <1>4 DEF Decide, Reason

\* The proxy's view of the secrets and the rules is the policy's input.
LEMMA ViewTyped ==
    ASSUME StoreTyped
    PROVE  placeholderMap \in [Token -> VaultEntry] /\ recRules \subseteq Rule
<1>1. ASSUME NEW t \in Token, Holders(t) # {}
      PROVE  Last(Holders(t)) \in Nat /\ secrets[Last(Holders(t))] \in SecretRec
  <2>1. Holders(t) \in SUBSET (1 .. MaxSecrets) /\ MaxSecrets \in Nat
    BY EgressAssumption DEF Holders, Live, SecretId
  <2>2. Last(Holders(t)) \in Holders(t)
    BY <1>1, <2>1, LastIsMember
  <2>3. Last(Holders(t)) \in SecretId /\ secrets[Last(Holders(t))] # Absent
    BY <2>2 DEF Holders, Live, Absent
  <2> QED BY <2>1, <2>2, <2>3 DEF StoreTyped
<1>2. NoEntry \in VaultEntry
  BY DEF NoEntry, VaultEntry
<1>3. ASSUME NEW t \in Token, Holders(t) # {}
      PROVE  [id |-> Last(Holders(t)), workers |-> {},
              value |-> secrets[Last(Holders(t))].value] \in VaultEntry
  BY <1>1, <1>3 DEF VaultEntry, SecretRec
<1>4. placeholderMap \in [Token -> VaultEntry]
  BY <1>2, <1>3 DEF placeholderMap
<1>5. recRules \subseteq Rule
  BY DEF StoreTyped, recRules, RuleRec, Rule
<1> QED BY <1>4, <1>5

\* held stays a function to sets of facts.
LEMMA HeldTyped ==
    ASSUME held \in [Flight -> FactSet], TrackFacts, StoreTyped'
    PROVE  held' \in [Flight -> FactSet]
<1>1. Facts' \in FactSet
  BY DEF StoreTyped, Facts, FactSet
<1>2. \A f \in Flight : Meet(held[f], Facts') \in FactSet
  BY <1>1 DEF Meet, FactSet
<1> HIDE DEF FactSet
<1> QED BY <1>1, <1>2 DEF TrackFacts

\* A flight moves.
LEMMA FlightMoves ==
    ASSUME FlightsTyped, NEW f \in Flight, flight' = [flight EXCEPT ![f] = flight'[f]],
           flight'[f] \in FlightState, Begun(f)' => flight'[f].req \in Req
    PROVE  FlightsTyped'
  BY DEF FlightsTyped, Begun

\* A handler goes on.
LEMMA FrameMoves ==
    ASSUME HandlersTyped, NEW h \in Handler, handler' = [handler EXCEPT ![h] = handler'[h]],
           FrameTyped(handler'[h])
    PROVE  HandlersTyped'
  BY DEF HandlersTyped

\* The flight steps that requests and replays share.
LEMMA FlyTyped ==
    ASSUME Typed, NEW f \in Flight, Fly(f)
    PROVE  FlightsTyped'
<1>0. flight \in [Flight -> FlightState] /\ flight[f] \in FlightState
  BY DEF Typed, FlightsTyped
<1>1. flight[f].req \in Req
  BY DEF Typed, FlightsTyped, Fly, ScanRequest, ReadVault, ReadRules, ReadDomains, DecideFlight,
         applySubstitution, ForwardAnswered, ForwardFailed, ForwardDeadConn, Begun
<1> SUFFICES flight'[f] \in FlightState /\ flight'[f].req = flight[f].req
  <2>1. flight' = [flight EXCEPT ![f] = flight'[f]]
    BY <1>0 DEF Fly, ScanRequest, ReadVault, ReadRules, ReadDomains, DecideFlight,
                applySubstitution, ForwardAnswered, ForwardFailed, ForwardDeadConn, Goto
  <2> QED BY <1>1, <2>1, FlightMoves DEF Typed
<1>2. CASE ScanRequest(f)
  <2>1. flight'[f] = [flight[f] EXCEPT !.pc = "vault", !.real = carriesKnownSecret(flight[f].req)]
    BY <1>0, <1>2 DEF ScanRequest
  <2>2. carriesKnownSecret(flight[f].req) \in BOOLEAN
    BY DEF carriesKnownSecret
  <2> QED BY <1>0, <2>1, <2>2 DEF FlightState, FlightPc
<1>3. CASE ReadVault(f)
  <2>1. flight'[f] = [flight[f] EXCEPT !.pc = "rules", !.vault = placeholderMap]
    BY <1>0, <1>3 DEF ReadVault
  <2>2. placeholderMap \in [Token -> VaultEntry]
    BY ViewTyped DEF Typed
  <2> QED BY <1>0, <2>1, <2>2 DEF FlightState, FlightPc
<1>4. CASE ReadRules(f)
  <2>1. flight'[f] = [flight[f] EXCEPT !.pc = "domains", !.rules = recRules]
    BY <1>0, <1>4 DEF ReadRules
  <2>2. recRules \subseteq Rule
    BY ViewTyped DEF Typed
  <2> QED BY <1>0, <2>1, <2>2 DEF FlightState, FlightPc
<1>5. CASE ReadDomains(f)
  <2>1. flight'[f] = [flight[f] EXCEPT !.pc = "decide", !.denied = denied]
    BY <1>0, <1>5 DEF ReadDomains
  <2>2. denied \subseteq Host
    BY DEF Typed, StoreTyped
  <2> QED BY <1>0, <2>1, <2>2 DEF FlightState, FlightPc
<1>6. CASE DecideFlight(f)
  <2> DEFINE dec == Decide(PolicyInput(f))
             pc == IF f \in Req THEN "rescan" ELSE AfterDecision(f, dec.action)
  <2>1. dec \in Decision
    BY DecideTyped
  <2>2. pc \in FlightPc
    BY <2>1 DEF AfterDecision, FlightPc, Decision
  <2>3. NoVault \in [Token -> VaultEntry]
    BY DEF NoVault, NoEntry, VaultEntry
  <2>4. flight'[f] = [flight[f] EXCEPT !.pc = pc, !.dec = dec, !.real = FALSE,
                                       !.vault = NoVault, !.rules = {}, !.denied = {}]
    BY <1>0, <1>6 DEF DecideFlight
  <2> HIDE DEF dec, pc
  <2> QED BY <1>0, <2>1, <2>2, <2>3, <2>4 DEF FlightState
<1>7. CASE applySubstitution(f)
  <2>1. Request[flight[f].req].phs \subseteq Placeholder
    BY <1>1, EgressAssumption DEF RequestData
  <2>2. \A p \in Placeholder :
           p.tok \in Token /\ p.site \in Site /\ placeholderMap[p.tok].id \in Nat
    BY ViewTyped DEF Typed, Placeholder, VaultEntry
  <2> DEFINE put == {p \in Request[flight[f].req].phs :
                       /\ p.tok \in flight[f].dec.subst
                       /\ placeholderMap[p.tok].id # 0
                       /\ rewritable(p.site)}
             sub == {[tok |-> p.tok, site |-> p.site, id |-> placeholderMap[p.tok].id] :
                       p \in put}
  <2>3. flight'[f] = [flight[f] EXCEPT !.pc = "forward", !.sub = sub]
    BY <1>0, <1>7 DEF applySubstitution
  <2>4. sub \subseteq [tok : Token, site : Site, id : Nat]
    BY <2>1, <2>2
  <2> HIDE DEF sub
  <2> QED BY <1>0, <2>3, <2>4 DEF FlightState, FlightPc
<1>8. CASE ForwardAnswered(f) \/ ForwardFailed(f) \/ ForwardDeadConn(f)
  <2>1. PICK pc \in {"answered", "failed", "again"} : flight'[f] = [flight[f] EXCEPT !.pc = pc]
    BY <1>0, <1>8 DEF ForwardAnswered, ForwardFailed, ForwardDeadConn, Goto
  <2> QED BY <1>0, <2>1 DEF FlightState, FlightPc
<1> QED BY <1>2, <1>3, <1>4, <1>5, <1>6, <1>7, <1>8 DEF Fly

\* A flight with nothing in it.
LEMMA IdleTyped ==
    /\ IdleFlight \in FlightState /\ IdleFlight.pc = "idle"
    /\ \A pc \in FlightPc : [IdleFlight EXCEPT !.pc = pc] \in FlightState
<1>1. NoVault \in [Token -> VaultEntry]
  BY DEF NoVault, NoEntry, VaultEntry
<1>2. NoRec \in Row
  BY DEF NoRec, Row
<1>3. NoDecision \in Decision
  BY DEF NoDecision, Block, Decision
<1> QED BY <1>1, <1>2, <1>3 DEF IdleFlight, FlightState, FlightPc

\* The steps of a worker's own request.
LEMMA RequestTyped ==
    ASSUME Typed, NEW q \in Req, RequestStep(q)
    PROVE  FlightsTyped'
<1>0. q \in Flight /\ flight[q] \in FlightState
  BY DEF Typed, FlightsTyped, Flight
<1> USE <1>0 DEF Typed, FlightsTyped
<1>1. CASE BeginRequest(q)
  <2>1. flight' = [flight EXCEPT ![q].pc = "scan", ![q].req = q]
    BY <1>1 DEF BeginRequest
  <2>2. flight'[q] \in FlightState /\ flight'[q].req = q
    BY <2>1 DEF FlightState, FlightPc
  <2> QED BY <2>1, <2>2, FlightMoves
<1>2. CASE Rescan(q)
  <2>1. /\ carriesKnownSecret(q) \in BOOLEAN
        /\ flight[q].dec.action \in {"allow", "block", "substitute"}
    BY DEF carriesKnownSecret, FlightState, Decision
  <2> DEFINE row == [id |-> q, action |-> flight[q].dec.action,
                     retryable |-> flight[q].dec.action = "block",
                     capture |-> flight[q].dec.action = "block", found |-> TRUE,
                     real |-> carriesKnownSecret(q)]
             pc == AfterDecision(q, flight[q].dec.action)
  <2>2. row \in Row
    BY <2>1 DEF Row
  <2>3. pc \in FlightPc
    BY <2>1 DEF AfterDecision, FlightPc
  <2>4. flight' = [flight EXCEPT ![q].pc = pc, ![q].rec = row] /\ Begun(q)
    BY <1>2 DEF Rescan, Begun
  <2> HIDE DEF row, pc
  <2>5. flight'[q] \in FlightState /\ flight'[q].req = flight[q].req
    BY <2>2, <2>3, <2>4 DEF FlightState
  <2> QED BY <2>4, <2>5, FlightMoves
<1>3. CASE BlockRequest(q) \/ LogOutcome(q)
  <2>1. flight' = [flight EXCEPT ![q] = [IdleFlight EXCEPT !.pc = "done"]]
    BY <1>3 DEF BlockRequest, LogOutcome
  <2>2. [IdleFlight EXCEPT !.pc = "done"] \in FlightState
    BY IdleTyped DEF FlightPc
  <2>3. ~Begun(q)'
    BY <2>1 DEF Begun, IdleFlight
  <2> QED BY <2>1, <2>2, <2>3, FlightMoves
<1>4. CASE KillSwitchRefused(q) \/ Connect(q) \/ ConnectRefused(q) \/ ConnectUnresolved(q)
  <2>1. PICK pc \in {"open", "done"} : Goto(q, pc)
    BY <1>4 DEF KillSwitchRefused, Connect, ConnectRefused, ConnectUnresolved
  <2>2. flight'[q] \in FlightState /\ ~Begun(q)'
    BY <2>1 DEF Goto, Begun, FlightState, FlightPc
  <2> QED BY <2>1, <2>2, FlightMoves DEF Goto
<1> QED BY <1>1, <1>2, <1>3, <1>4 DEF RequestStep

\* A replay starts from a row of the log.
LEMMA ReplayTyped ==
    ASSUME Typed, LogInv, NEW h \in Handler, NEW q, InRing(q), StartReplay(h, RowOf(q))
    PROVE  FlightsTyped'
<1>1. h \in Flight
  BY DEF Flight
<1>2. PICK i \in DOMAIN ring : RowOf(q) = ring[i]
  BY DEF InRing, RowOf
<1>3. ring[i] \in Row /\ ring[i].id \in Req
  BY DEF LogInv, RingInv, RowSound
<1>4. flight' = [flight EXCEPT ![h] = [[IdleFlight EXCEPT !.pc = "scan"]
                                         EXCEPT !.req = ring[i].id, !.rec = ring[i]]]
  BY <1>2 DEF StartReplay, IdleFlight
<1>5. [IdleFlight EXCEPT !.pc = "scan"] \in FlightState
  BY IdleTyped DEF FlightPc
<1>6. flight'[h] \in FlightState /\ flight'[h].req \in Req
  BY <1>1, <1>3, <1>4, <1>5 DEF Typed, FlightsTyped, FlightState
<1> QED BY <1>1, <1>4, <1>6, FlightMoves DEF Typed, FlightsTyped
-----------------------------------------------------------------------------
\* A handler's flight starts from a row of the log and ends idle.
LEMMA HandlerFlightTyped ==
    ASSUME Typed, LogInv, NEW h \in Handler, HandlerStep(h) \/ HandlerCall(h)
    PROVE  FlightsTyped'
<1>1. CASE ReplayError(h) \/ ReplayDone(h)
  <2>1. h \in Flight /\ flight' = [flight EXCEPT ![h] = IdleFlight]
    BY <1>1 DEF Flight, ReplayError, ReplayDone
  <2>2. flight'[h] \in FlightState /\ ~Begun(h)'
    BY <2>1, IdleTyped DEF Begun, Typed, FlightsTyped
  <2> QED BY <2>1, <2>2, FlightMoves DEF Typed, FlightsTyped
<1>2. CASE Pop(h)
  <2>1. UNCHANGED flight \/ \E q : InRing(q) /\ StartReplay(h, RowOf(q))
    BY <1>2 DEF Pop
  <2>2. CASE UNCHANGED flight
    BY <2>2 DEF Typed, FlightsTyped, Begun
  <2> QED BY <2>1, <2>2, ReplayTyped
<1>3. CASE \E q \in Req : Retry(h, q)
  BY <1>3, ReplayTyped DEF Retry
<1>4. CASE UNCHANGED flight
  BY <1>4 DEF Typed, FlightsTyped, Begun
<1> QED
  BY <1>1, <1>2, <1>3, <1>4
     DEF HandlerStep, HandlerCall, ReplaceSecret, SyncRulesForSecret, TakeEntry,
         ResolveAddSecret, SetEnvKey, ResolveAddRule, ExceptAdd, MarkAllowed, Match, NextHost,
         NextEntry, Return, PostSecret, PutSecret, Resolve, Except, RetryMatching

\* A handler that is not under way has a frame with nothing in it.
LEMMA IdleFrameTyped == FrameTyped(IdleHandler)
  BY DEF FrameTyped, IsFrame, IdleHandler

\* The store operations of a call write what its frame holds.
LEMMA HandlerStoreTyped ==
    ASSUME Typed, NEW h \in Handler,
           \/ ReplaceSecret(h) \/ SyncRulesForSecret(h)
           \/ ResolveAddSecret(h) \/ ResolveAddRule(h) \/ ExceptAdd(h)
    PROVE  StoreTyped' /\ HandlersTyped'
<1>0. FrameTyped(handler[h])
  BY DEF Typed, HandlersTyped
<1> USE DEF Typed, StoreTyped
<1>1. CASE ReplaceSecret(h)
  <2>1. StoreTyped'
    BY <1>0, <1>1 DEF ReplaceSecret, FrameTyped, Live
  <2>2. FrameTyped(handler'[h])
    <3>1. CASE handler' = [handler EXCEPT ![h].pc = "sync"]
      BY <1>0, <1>1, <3>1 DEF ReplaceSecret, HandlersTyped, FrameTyped, IsFrame
    <3>2. CASE handler' = [handler EXCEPT ![h] = IdleHandler]
      BY <3>2, IdleFrameTyped DEF HandlersTyped
    <3> QED BY <1>1, <3>1, <3>2 DEF ReplaceSecret
  <2>3. handler' = [handler EXCEPT ![h] = handler'[h]]
    BY <1>1 DEF ReplaceSecret, HandlersTyped
  <2> QED BY <2>1, <2>2, <2>3, FrameMoves
<1>2. CASE SyncRulesForSecret(h)
  <2> DEFINE s == handler[h].rec
             hosts == CanonicalRuleHosts(s.hosts)
  <2>1. handler[h].pc = "sync" /\ s \in SecretRec /\ handler[h].sid \in Nat
    BY <1>0, <1>2 DEF SyncRulesForSecret, FrameTyped
  <2>2. hosts \subseteq Host \cup {AnyHost}
    BY <2>1 DEF CanonicalRuleHosts, SecretRec
  <2>3. \A host \in hosts : [NewRule(handler[h].sid, s.tok, host) EXCEPT !.n = 1] \in RuleRec
    BY <2>1, <2>2 DEF NewRule, RuleRec, SecretRec
  <2>4. StoreTyped'
    BY <1>2, <2>3 DEF SyncRulesForSecret
  <2>5. handler' = [handler EXCEPT ![h].pc = "match", ![h].todo = hosts,
                                   ![h].due = Blocked(s.tok, hosts)]
    BY <1>2 DEF SyncRulesForSecret
  <2> HIDE DEF hosts
  <2>6. FrameTyped(handler'[h])
    BY <1>0, <2>2, <2>5 DEF HandlersTyped, FrameTyped, IsFrame
  <2>7. handler' = [handler EXCEPT ![h] = handler'[h]]
    BY <2>5 DEF HandlersTyped
  <2> QED BY <2>4, <2>6, <2>7, FrameMoves
<1>3. CASE ResolveAddSecret(h)
  <2>1. StoreTyped'
    <3>1. handler[h].rec \in SecretRec
      BY <1>0, <1>3 DEF ResolveAddSecret, FrameTyped
    <3>2. secrets' \in [SecretId -> SecretRec \cup {Absent}] /\ nextSid' \in Nat
      BY <1>3, <3>1, SecretAdded DEF ResolveAddSecret
    <3> QED BY <1>3, <3>2 DEF ResolveAddSecret
  <2>2. FrameTyped(handler'[h])
    BY <1>0, <1>3 DEF ResolveAddSecret, HandlersTyped, FrameTyped, IsFrame
  <2>3. handler' = [handler EXCEPT ![h] = handler'[h]]
    BY <1>3 DEF ResolveAddSecret, HandlersTyped
  <2> QED BY <2>1, <2>2, <2>3, FrameMoves
<1>4. CASE ResolveAddRule(h)
  <2>1. PICK host \in handler[h].todo :
           LET r == NewRule(handler[h].sid, handler[h].tok, host) IN
             /\ FreeCopy(rules, r) # {}
             /\ rules' = AddCopy(rules, r)
             /\ handler' = [handler EXCEPT ![h].pc = "match",
                                           ![h].due = Blocked(handler[h].tok, {host})]
    BY <1>4 DEF ResolveAddRule
  <2> DEFINE r == NewRule(handler[h].sid, handler[h].tok, host)
             k == First(FreeCopy(rules, r))
  <2>2. k \in Nat
    BY <2>1, CopyTyped
  <2>3. handler[h].sid \in Nat /\ handler[h].tok \in Token /\ host \in Host \cup {AnyHost}
    BY <1>0, <1>4, <2>1 DEF ResolveAddRule, FrameTyped
  <2>4. rules' = rules \cup {[r EXCEPT !.n = k]}
    BY <2>1 DEF AddCopy
  <2> HIDE DEF k
  <2>5. rules' \subseteq RuleRec
    BY <2>2, <2>3, <2>4 DEF NewRule, RuleRec
  <2>6. StoreTyped'
    BY <1>4, <2>5 DEF ResolveAddRule
  <2>7. FrameTyped(handler'[h])
    BY <1>0, <2>1 DEF HandlersTyped, FrameTyped, IsFrame
  <2>8. handler' = [handler EXCEPT ![h] = handler'[h]]
    BY <2>1 DEF HandlersTyped
  <2> QED BY <2>6, <2>7, <2>8, FrameMoves
<1>5. CASE ExceptAdd(h)
  <2>1. PICK host \in handler[h].todo :
           AddCopyOfException(HostPatternException(host, handler[h].pat))
    BY <1>5 DEF ExceptAdd
  <2>2. HostPatternException(host, handler[h].pat) \in Exception
    BY <1>0, <1>5, <2>1 DEF ExceptAdd, FrameTyped, HostPatternException, Exception
  <2>3. exceptions' \subseteq [exc : Exception, n : Nat]
    BY <2>1, <2>2, ExceptionAdded
  <2>4. StoreTyped'
    BY <1>5, <2>3 DEF ExceptAdd
  <2>5. FrameTyped(handler'[h])
    BY <1>0, <1>5 DEF ExceptAdd, HandlersTyped, FrameTyped, IsFrame
  <2>6. handler' = [handler EXCEPT ![h] = handler'[h]]
    BY <1>5 DEF ExceptAdd, HandlersTyped
  <2> QED BY <2>4, <2>5, <2>6, FrameMoves
<1> QED BY <1>1, <1>2, <1>3, <1>4, <1>5

\* The other steps of a call leave the store alone.
LEMMA HandlerFrameTyped ==
    ASSUME Typed, NEW h \in Handler,
           \/ TakeEntry(h) \/ SetEnvKey(h) \/ MarkAllowed(h) \/ Match(h) \/ Pop(h)
           \/ ReplayError(h) \/ ReplayDone(h) \/ NextHost(h) \/ NextEntry(h) \/ Return(h)
    PROVE  StoreTyped' /\ HandlersTyped'
<1>0. FrameTyped(handler[h])
  BY DEF Typed, HandlersTyped
<1>1. StoreTyped'
  BY DEF Typed, StoreTyped, store, TakeEntry, SetEnvKey, MarkAllowed, Match, Pop, ReplayError,
         ReplayDone, NextHost, NextEntry, Return
<1> USE DEF HandlersTyped
<1>2. CASE TakeEntry(h)
  <2> DEFINE e == Head(handler[h].entries)
             rest == Tail(handler[h].entries)
             taken == [handler[h] EXCEPT
                          !.entries = rest, !.tok = e.tok, !.todo = {e.host}, !.due = {},
                          !.rec = [tok |-> e.tok, value |-> e.value, workers |-> {},
                                   hosts |-> hostsFor(e.host)]]
  <2>1. handler[h].pc = "entry" /\ handler[h].entries \in Seq(Entry) /\ handler[h].entries # <<>>
    BY <1>0, <1>2 DEF TakeEntry, FrameTyped
  <2>2. e \in Entry /\ rest \in Seq(Entry)
    BY <2>1
  <2>3. Holders(e.tok) # {} => First(Holders(e.tok)) \in Nat
    <3>1. Holders(e.tok) \subseteq Nat
      BY EgressAssumption DEF Holders, Live, SecretId
    <3> QED BY <3>1, FirstIsMember
  <2>4. handler' = [handler EXCEPT ![h] =
            IF e.value = Blank THEN [handler[h] EXCEPT !.entries = rest]
            ELSE IF Holders(e.tok) = {} THEN [taken EXCEPT !.pc = "addsecret"]
            ELSE [taken EXCEPT !.sid = First(Holders(e.tok)),
                               !.pc = IF e.rename THEN "setenv" ELSE "addrule"]]
    BY <1>2 DEF TakeEntry
  <2>5. FrameTyped(taken)
    BY <1>0, <2>1, <2>2 DEF FrameTyped, IsFrame, Entry
  <2>6. e.value # Blank => taken.rec \in SecretRec /\ taken.tok \in Token /\ taken.pc = "entry"
    BY <1>0, <2>1, <2>2 DEF FrameTyped, IsFrame, Entry, SecretRec, hostsFor
  <2>7. FrameTyped([handler[h] EXCEPT !.entries = rest])
    BY <1>0, <2>1, <2>2 DEF FrameTyped, IsFrame
  <2> HIDE DEF e, rest, taken
  <2>8. e.value # Blank => FrameTyped([taken EXCEPT !.pc = "addsecret"])
    BY <2>5, <2>6 DEF FrameTyped, IsFrame
  <2>9. e.value # Blank /\ Holders(e.tok) # {} =>
          \A pc \in {"setenv", "addrule"} :
             FrameTyped([taken EXCEPT !.sid = First(Holders(e.tok)), !.pc = pc])
    BY <2>3, <2>5, <2>6 DEF FrameTyped, IsFrame
  <2>10. FrameTyped(handler'[h])
    BY <2>4, <2>7, <2>8, <2>9 DEF Typed
  <2>11. handler' = [handler EXCEPT ![h] = handler'[h]]
    BY <2>4 DEF Typed
  <2> QED BY <1>1, <2>10, <2>11, FrameMoves DEF Typed
<1>3. CASE SetEnvKey(h)
  <2>1. FrameTyped(handler'[h])
    BY <1>0, <1>3, IdleFrameTyped DEF Typed, SetEnvKey, FrameTyped, IsFrame
  <2>2. handler' = [handler EXCEPT ![h] = handler'[h]]
    BY <1>3 DEF Typed, SetEnvKey
  <2> QED BY <1>1, <2>1, <2>2, FrameMoves DEF Typed
<1>4. CASE MarkAllowed(h) \/ Return(h)
  <2>1. handler' = [handler EXCEPT ![h] = IdleHandler]
    BY <1>4 DEF MarkAllowed, Return
  <2> QED BY <1>1, <2>1, IdleFrameTyped, FrameMoves DEF Typed
<1>5. CASE Match(h)
  <2>1. PICK todo, queue :
           /\ todo \subseteq handler[h].todo
           /\ handler' = [handler EXCEPT ![h].pc = "pop", ![h].todo = todo, ![h].queue = queue]
    BY <1>5 DEF Match
  <2>2. FrameTyped(handler'[h])
    BY <1>0, <2>1 DEF Typed, FrameTyped, IsFrame
  <2>3. handler' = [handler EXCEPT ![h] = handler'[h]]
    BY <2>1 DEF Typed
  <2> QED BY <1>1, <2>2, <2>3, FrameMoves DEF Typed
<1>6. CASE Pop(h)
  <2>1. FrameTyped(Popped(h)) /\ FrameTyped([Popped(h) EXCEPT !.pc = "replay"])
    BY <1>0 DEF FrameTyped, IsFrame, Popped
  <2>2. \/ handler' = [handler EXCEPT ![h] = Popped(h)]
        \/ handler' = [handler EXCEPT ![h] = [Popped(h) EXCEPT !.pc = "replay"]]
    BY <1>6 DEF Pop
  <2> QED BY <1>1, <2>1, <2>2, FrameMoves DEF Typed
<1>7. CASE ReplayError(h) \/ ReplayDone(h) \/ NextHost(h) \/ NextEntry(h)
  <2>1. PICK pc \in {"pop", "match", "entry"} : handler' = [handler EXCEPT ![h].pc = pc]
    BY <1>7 DEF ReplayError, ReplayDone, NextHost, NextEntry
  <2>2. FrameTyped(handler'[h])
    BY <1>0, <2>1 DEF Typed, FrameTyped, IsFrame
  <2>3. handler' = [handler EXCEPT ![h] = handler'[h]]
    BY <2>1 DEF Typed
  <2> QED BY <1>1, <2>2, <2>3, FrameMoves DEF Typed
<1> QED BY <1>2, <1>3, <1>4, <1>5, <1>6, <1>7

\* A call starts with the body it was given.
LEMMA CallTyped ==
    ASSUME Typed, NEW h \in Handler, HandlerCall(h)
    PROVE  StoreTyped' /\ HandlersTyped'
<1> USE DEF Typed, StoreTyped
<1>0. \A k : handler' = [handler EXCEPT ![h] = k] /\ FrameTyped(k) => HandlersTyped'
  BY FrameMoves DEF HandlersTyped
<1>1. ASSUME NEW s \in NewSecret, PostSecret(h, s)
      PROVE  StoreTyped' /\ HandlersTyped'
  <2> DEFINE k == [IdleHandler EXCEPT !.pc = "sync", !.op = "secret", !.sid = nextSid,
                                      !.rec = s, !.tok = s.tok]
  <2>1. s \in SecretRec
    BY EgressAssumption
  <2>2. FrameTyped(k)
    BY <2>1, IdleFrameTyped DEF FrameTyped, IsFrame
  <2>3. StoreTyped' /\ handler' = [handler EXCEPT ![h] = k]
    BY <1>1, <2>1, SecretAdded DEF PostSecret, Call
  <2> QED BY <1>0, <2>2, <2>3
<1>2. ASSUME NEW sid \in SecretId, NEW v \in Value \cup {Blank}, NEW hosts \in HostList,
             PutSecret(h, sid, v, hosts)
      PROVE  StoreTyped' /\ HandlersTyped'
  <2> DEFINE rec == [secrets[sid] EXCEPT !.hosts = hosts,
                                         !.value = IF v = Blank THEN secrets[sid].value ELSE v]
             k == [IdleHandler EXCEPT !.pc = "replace", !.op = "secret", !.sid = sid,
                                      !.tok = secrets[sid].tok, !.rec = rec]
  <2>1. secrets[sid] \in SecretRec /\ hosts \subseteq Host /\ sid \in Nat
    BY <1>2, EgressAssumption DEF PutSecret, Live, Absent, SecretId
  <2>2. rec \in SecretRec
    BY <2>1 DEF SecretRec
  <2>3. handler' = [handler EXCEPT ![h] = k] /\ UNCHANGED store
    BY <1>2 DEF PutSecret, Call
  <2> HIDE DEF rec
  <2>4. FrameTyped(k)
    BY <2>1, <2>2, IdleFrameTyped DEF FrameTyped, IsFrame
  <2>5. StoreTyped'
    BY <2>3 DEF store
  <2> QED BY <1>0, <2>3, <2>4, <2>5
<1>3. ASSUME NEW entries \in EntryList, Resolve(h, entries)
      PROVE  StoreTyped' /\ HandlersTyped'
  <2> DEFINE k == [IdleHandler EXCEPT !.pc = "entry", !.op = "resolve", !.entries = entries]
  <2>1. FrameTyped(k)
    BY IdleFrameTyped, EgressAssumption DEF FrameTyped, IsFrame
  <2>2. StoreTyped' /\ handler' = [handler EXCEPT ![h] = k]
    BY <1>3 DEF Resolve, Call, store
  <2> QED BY <1>0, <2>1, <2>2
<1>4. ASSUME NEW host \in Host, NEW pat \in Pattern, Except(h, host, pat)
      PROVE  StoreTyped' /\ HandlersTyped'
  <2> DEFINE k(pc) == [IdleHandler EXCEPT !.pc = pc, !.op = "except", !.pat = pat,
                                          !.host = host, !.todo = {host}]
  <2>1. \A pc \in {"match", "addexc"} : FrameTyped(k(pc))
    BY IdleFrameTyped DEF FrameTyped, IsFrame
  <2>2. StoreTyped' /\ \E pc \in {"match", "addexc"} : handler' = [handler EXCEPT ![h] = k(pc)]
    BY <1>4 DEF Except, Call, store
  <2> HIDE DEF k
  <2> QED BY <1>0, <2>1, <2>2
<1>5. ASSUME NEW tok \in Token, NEW host \in Host \cup {AnyHost}, RetryMatching(h, tok, host)
      PROVE  StoreTyped' /\ HandlersTyped'
  <2> DEFINE k == [IdleHandler EXCEPT !.pc = "match", !.op = "retry", !.tok = tok,
                                      !.todo = {host}]
  <2>1. FrameTyped(k)
    BY IdleFrameTyped DEF FrameTyped, IsFrame
  <2>2. StoreTyped' /\ handler' = [handler EXCEPT ![h] = k]
    BY <1>5 DEF RetryMatching, Call, store
  <2> QED BY <1>0, <2>1, <2>2
<1>6. ASSUME NEW q \in Req, Retry(h, q)
      PROVE  StoreTyped' /\ HandlersTyped'
  <2> DEFINE k == [IdleHandler EXCEPT !.pc = "replay", !.op = "retry"]
  <2>1. FrameTyped(k)
    BY IdleFrameTyped DEF FrameTyped, IsFrame
  <2>2. StoreTyped' /\ handler' = [handler EXCEPT ![h] = k]
    BY <1>6 DEF Retry, Call, store
  <2> QED BY <1>0, <2>1, <2>2
<1> QED BY <1>1, <1>2, <1>3, <1>4, <1>5, <1>6 DEF HandlerCall

\* The operator's edits.
LEMMA OperatorTyped ==
    ASSUME Typed, OperatorCall
    PROVE  StoreTyped' /\ HandlersTyped' /\ FlightsTyped'
<1>1. UNCHANGED <<flight, handler>>
  BY DEF OperatorCall, OneCall, DeleteSecret, AddRule, DeleteRule, UpsertDomain, AddException,
         DeleteException, SetWorkerInternet
<1>2. HandlersTyped' /\ FlightsTyped'
  BY <1>1 DEF Typed, HandlersTyped, FlightsTyped, Begun
<1> USE DEF Typed, StoreTyped
<1>3. ASSUME NEW sid \in SecretId, DeleteSecret(sid) PROVE StoreTyped'
  BY <1>3 DEF DeleteSecret
<1>4. ASSUME NEW sid \in Live \cup {0}, NEW tok \in Token, NEW host \in Host \cup {AnyHost},
             AddRule(sid, tok, host)
      PROVE  StoreTyped'
  <2> DEFINE r == NewRule(sid, tok, host)
             k == First(FreeCopy(rules, r))
  <2>1. k \in Nat /\ sid \in Nat
    BY <1>4, CopyTyped, EgressAssumption DEF AddRule, Live, SecretId
  <2>2. rules' = rules \cup {[r EXCEPT !.n = k]}
    BY <1>4 DEF AddRule, AddCopy
  <2> HIDE DEF k
  <2>3. rules' \subseteq RuleRec
    BY <2>1, <2>2 DEF NewRule, RuleRec
  <2> QED BY <1>4, <2>3 DEF AddRule
<1>5. ASSUME NEW r \in rules, DeleteRule(r) PROVE StoreTyped'
  BY <1>5 DEF DeleteRule
<1>6. ASSUME NEW host \in Host, NEW deny \in BOOLEAN, UpsertDomain(host, deny) PROVE StoreTyped'
  BY <1>6 DEF UpsertDomain
<1>7. ASSUME NEW e \in NewException, AddException(e) PROVE StoreTyped'
  <2>1. e \in Exception
    BY EgressAssumption
  <2>2. exceptions' \subseteq [exc : Exception, n : Nat]
    BY <1>7, <2>1, ExceptionAdded DEF AddException
  <2> QED BY <1>7, <2>2 DEF AddException
<1>8. ASSUME NEW x \in exceptions, DeleteException(x) PROVE StoreTyped'
  BY <1>8 DEF DeleteException
<1>9. ASSUME NEW w \in Worker, NEW off \in BOOLEAN, SetWorkerInternet(w, off) PROVE StoreTyped'
  BY <1>9 DEF SetWorkerInternet
<1> QED BY <1>2, <1>3, <1>4, <1>5, <1>6, <1>7, <1>8, <1>9 DEF OperatorCall

\* A gateway that has just loaded its state.
LEMMA InitTyped == Init => Typed
<1> SUFFICES ASSUME Init PROVE Typed
  OBVIOUS
<1>1. ASSUME NEW i \in DOMAIN Loaded
      PROVE  i \in Nat /\ Loaded[i] \in SecretRec
  BY EgressAssumption
<1>2. secrets \in [SecretId -> SecretRec \cup {Absent}] /\ nextSid \in Nat
  <2>1. \A i \in SecretId : i <= Len(Loaded) => i \in DOMAIN Loaded
    BY EgressAssumption DEF SecretId
  <2> QED BY <1>1, <2>1, EgressAssumption DEF Init
<1>3. rules \subseteq RuleRec
  <2>1. ASSUME NEW i \in DOMAIN Loaded, NEW host \in CanonicalRuleHosts(Loaded[i].hosts)
        PROVE  [NewRule(i, Loaded[i].tok, host) EXCEPT !.n = 1] \in RuleRec
    BY <1>1 DEF NewRule, RuleRec, SecretRec, CanonicalRuleHosts
  <2> QED BY <2>1 DEF Init
<1>4. StoreTyped
  BY <1>2, <1>3 DEF Init, StoreTyped
<1>5. HandlersTyped
  BY IdleFrameTyped DEF Init, HandlersTyped
<1>6. FlightsTyped
  BY IdleTyped DEF Init, FlightsTyped, Begun
<1>7. held \in [Flight -> FactSet]
  <2>1. Facts \in FactSet
    BY <1>4 DEF StoreTyped, Facts, FactSet
  <2> QED BY <2>1 DEF Init
<1> QED BY <1>4, <1>5, <1>6, <1>7 DEF Typed

\* Every step keeps the types.
LEMMA NextTyped == Typed /\ LogInv /\ [Next]_vars => Typed'
<1> SUFFICES ASSUME Typed, LogInv, [Next]_vars PROVE Typed'
  OBVIOUS
<1>1. ASSUME TrackFacts, StoreTyped', HandlersTyped', FlightsTyped' PROVE Typed'
  BY <1>1, HeldTyped DEF Typed
<1>2. ASSUME UNCHANGED <<store, handler>> PROVE StoreTyped' /\ HandlersTyped'
  BY <1>2 DEF store, Typed, StoreTyped, HandlersTyped
<1>3. ASSUME NEW f \in Flight, Fly(f), TrackFacts PROVE Typed'
  <2>1. UNCHANGED <<store, handler>>
    BY <1>3 DEF Fly, ScanRequest, ReadVault, ReadRules, ReadDomains, DecideFlight,
                applySubstitution, ForwardAnswered, ForwardFailed, ForwardDeadConn, FlightOnly
  <2> QED BY <1>1, <1>2, <1>3, <2>1, FlyTyped
<1>4. ASSUME NEW q \in Req, RequestStep(q), TrackFacts PROVE Typed'
  <2>1. UNCHANGED <<store, handler>>
    BY <1>4 DEF RequestStep, BeginRequest, KillSwitchRefused, Rescan, BlockRequest, LogOutcome,
                Connect, ConnectRefused, ConnectUnresolved, FlightOnly
  <2> QED BY <1>1, <1>2, <1>4, <2>1, RequestTyped
<1>5. ASSUME NEW h \in Handler, HandlerStep(h) \/ HandlerCall(h), TrackFacts PROVE Typed'
  <2>1. StoreTyped' /\ HandlersTyped'
    BY <1>5, HandlerStoreTyped, HandlerFrameTyped, CallTyped DEF HandlerStep
  <2> QED BY <1>1, <1>5, <2>1, HandlerFlightTyped
<1>6. ASSUME OperatorCall, TrackFacts PROVE Typed'
  BY <1>1, <1>6, OperatorTyped
<1>7. CASE UNCHANGED vars
  BY <1>7 DEF vars, store, Typed, StoreTyped, HandlersTyped, FlightsTyped, Begun
<1> QED BY <1>3, <1>4, <1>5, <1>6, <1>7 DEF Next

\* The types of the store, the log, the flights and the facts hold throughout.
THEOREM EgressTyped == Spec => []TypeOK
<1>1. Typed /\ LogInv => TypeOK
  BY DEF Typed, StoreTyped, FlightsTyped, LogInv, RingInv, TypeOK
<1> QED BY <1>1, InitTyped, NextTyped, LogHolds, PTL DEF Spec
-----------------------------------------------------------------------------
(***************************************************************************)
(* Who moves what: a request or a call is moved by its own steps only.     *)
(***************************************************************************)
\* A call moves no request.
LEMMA CallsMoveNoRequest ==
    ASSUME Shaped, NEW h \in Handler, HandlerStep(h) \/ HandlerCall(h), NEW q \in Req
    PROVE  flight'[q] = flight[q]
<1>1. q \in Flight /\ q # h
  BY EgressAssumption DEF Flight
<1>2. UNCHANGED flight \/ \E fl : flight' = [flight EXCEPT ![h] = fl]
  BY DEF HandlerStep, HandlerCall, ReplaceSecret, SyncRulesForSecret, TakeEntry,
         ResolveAddSecret, SetEnvKey, ResolveAddRule, ExceptAdd, MarkAllowed, Match, Pop,
         ReplayError, ReplayDone, NextHost, NextEntry, Return, PostSecret, PutSecret,
         Resolve, Except, RetryMatching, Retry, StartReplay
<1> QED BY <1>1, <1>2 DEF Shaped

\* Nobody else moves a request.
LEMMA RequestAlone ==
    ASSUME Shaped, [Next]_vars, NEW q \in Req
    PROVE  Fly(q) \/ RequestStep(q) \/ flight'[q] = flight[q]
<1>0. q \in Flight /\ q \notin Handler
  BY EgressAssumption DEF Flight
<1>1. ASSUME NEW f \in Flight, f # q, Fly(f) PROVE flight'[q] = flight[q]
  BY <1>0, <1>1 DEF Shaped, Fly, ScanRequest, ReadVault, ReadRules, ReadDomains, DecideFlight,
              applySubstitution, ForwardAnswered, ForwardFailed, ForwardDeadConn, Goto
<1>2. ASSUME NEW r \in Req, r # q, RequestStep(r) PROVE flight'[q] = flight[q]
  BY <1>0, <1>2 DEF Shaped, RequestStep, BeginRequest, KillSwitchRefused, Rescan, BlockRequest,
              LogOutcome, Connect, ConnectRefused, ConnectUnresolved, ReadyToProcess, Goto
<1>3. ASSUME NEW h \in Handler, HandlerStep(h) \/ HandlerCall(h) PROVE flight'[q] = flight[q]
  BY <1>3, CallsMoveNoRequest
<1>4. CASE OperatorCall
  BY <1>4 DEF OperatorCall, OneCall, DeleteSecret, AddRule, DeleteRule, UpsertDomain,
              AddException, DeleteException, SetWorkerInternet
<1> QED BY <1>1, <1>2, <1>3, <1>4 DEF Next, vars

\* Nobody else moves a call or its replay.
LEMMA CallAlone ==
    ASSUME Shaped, Typed, [Next]_vars, NEW h \in Handler
    PROVE  \/ Fly(h) \/ HandlerStep(h) \/ HandlerCall(h)
           \/ UNCHANGED <<handler[h], flight[h]>>
<1>0. h \in Flight /\ h \notin Req
  BY EgressAssumption DEF Flight
<1>1. ASSUME NEW f \in Flight, f # h, Fly(f) PROVE UNCHANGED <<handler[h], flight[h]>>
  BY <1>0, <1>1 DEF Shaped, Fly, ScanRequest, ReadVault, ReadRules, ReadDomains, DecideFlight,
              applySubstitution, ForwardAnswered, ForwardFailed, ForwardDeadConn, Goto,
              FlightOnly
<1>2. ASSUME NEW q \in Req, RequestStep(q) PROVE UNCHANGED <<handler[h], flight[h]>>
  BY <1>0, <1>2 DEF Shaped, RequestStep, BeginRequest, KillSwitchRefused, Rescan, BlockRequest,
              LogOutcome, Connect, ConnectRefused, ConnectUnresolved, ReadyToProcess, Goto,
              FlightOnly
<1>3. ASSUME NEW g \in Handler, g # h, HandlerStep(g) \/ HandlerCall(g)
      PROVE  UNCHANGED <<handler[h], flight[h]>>
  <2>1. UNCHANGED flight \/ \E fl : flight' = [flight EXCEPT ![g] = fl]
    BY <1>3 DEF HandlerStep, HandlerCall, ReplaceSecret, SyncRulesForSecret, TakeEntry,
                ResolveAddSecret, SetEnvKey, ResolveAddRule, ExceptAdd, MarkAllowed, Match, Pop,
                ReplayError, ReplayDone, NextHost, NextEntry, Return, PostSecret, PutSecret,
                Resolve, Except, RetryMatching, Retry, StartReplay
  <2>2. \E k : handler' = [handler EXCEPT ![g] = k]
    BY <1>3 DEF Typed, HandlersTyped, HandlerStep, HandlerCall, ReplaceSecret,
                SyncRulesForSecret, TakeEntry, ResolveAddSecret, SetEnvKey, ResolveAddRule,
                ExceptAdd, MarkAllowed, Match, Pop, ReplayError, ReplayDone, NextHost, NextEntry,
                Return, PostSecret, PutSecret, Resolve, Except, RetryMatching, Retry, Call
  <2> QED BY <1>0, <1>3, <2>1, <2>2 DEF Shaped, Typed, HandlersTyped
<1>4. CASE OperatorCall
  BY <1>4 DEF OperatorCall, OneCall, DeleteSecret, AddRule, DeleteRule, UpsertDomain,
              AddException, DeleteException, SetWorkerInternet
<1> QED BY <1>1, <1>2, <1>3, <1>4 DEF Next, vars

-----------------------------------------------------------------------------
(***************************************************************************)
(* The rows a change of rules unblocks.  A call notes them (due) when it   *)
(* changes the rules, and goes through the log one host at a time, with    *)
(* other requests, calls and evictions in between.  At every moment a row  *)
(* of due is settled, tried, in the queue of the match under way, or about *)
(* one of the hosts still to match.  A row that is settled stays so: that  *)
(* is Unrevived, as the request of a due row is done.                      *)
(***************************************************************************)
\* There is nothing left to replay of request q.
Settled(q) == ~InRing(q) \/ ~RowOf(q).retryable

\* Call h has tried q or is still going to.
Reached(h, q) ==
    \/ q \in handler[h].seen
    \/ \E i \in DOMAIN handler[h].queue : handler[h].queue[i] = q
    \/ \E host \in handler[h].todo : host \in {AnyHost, Request[q].host}

\* Row q is due in call h.  A placeholder longer than the log keeps hides its
\* rows from the match.
DueRow(h, q) ==
    /\ q \in Req /\ flight[q].pc = "done"
    /\ \E p \in Request[q].phs : p.tok = handler[h].tok
    /\ handler[h].tok \in LongToken \/ Settled(q) \/ Reached(h, q)

\* What the place of a call asks of its frame.
Placed(k) ==
    /\ k.pc \in {"replace", "sync"} => k.rec.tok = k.tok
    /\ k.pc \in {"replace", "sync", "entry", "addsecret", "setenv", "addrule"} =>
          k.op # "except"
    /\ k.pc \notin {"pop", "replay"} => DOMAIN k.queue = {}

CallDue(h) ==
    /\ Placed(handler[h])
    /\ handler[h].op = "except" => handler[h].due = {}
    /\ \A q \in handler[h].due : DueRow(h, q)

DueInv == \A h \in Handler : CallDue(h)

\* The log holds one row of a request, so RowOf is that row.
LEMMA RowIs ==
    ASSUME LogInv, NEW i \in DOMAIN ring
    PROVE  InRing(ring[i].id) /\ RowOf(ring[i].id) = ring[i]
<1> DEFINE j == CHOOSE j \in DOMAIN ring : ring[j].id = ring[i].id
<1>1. j \in DOMAIN ring /\ ring[j].id = ring[i].id
  OBVIOUS
<1>2. j = i
  BY <1>1 DEF LogInv, RingInv
<1> QED BY <1>2 DEF InRing, RowOf

\* Who is not settled has a retryable row.
LEMMA Unsettled ==
    ASSUME LogInv, NEW q, ~Settled(q)
    PROVE  \E i \in DOMAIN ring : ring[i].id = q /\ ring[i].retryable
<1>1. PICK i \in DOMAIN ring : ring[i].id = q
  BY DEF Settled, InRing
<1> QED BY <1>1, RowIs DEF Settled

\* A request that is done and settled stays so.
LEMMA SettledStays ==
    ASSUME LogInv, LogInv', Unrevived, NEW q, flight[q].pc = "done", Settled(q)
    PROVE  Settled(q)'
<1> SUFFICES ASSUME ~Settled(q)' PROVE FALSE
  OBVIOUS
<1>1. PICK j \in DOMAIN ring' : ring'[j].id = q /\ ring'[j].retryable
  <2>1. PICK j \in DOMAIN ring' : ring'[j].id = q
    BY DEF Settled, InRing
  <2>2. RowOf(q)' = ring'[j]
    <3> DEFINE k == CHOOSE k \in DOMAIN ring' : ring'[k].id = q
    <3>1. k \in DOMAIN ring' /\ ring'[k].id = q
      BY <2>1
    <3>2. k = j
      BY <2>1, <3>1 DEF LogInv, RingInv
    <3> QED BY <3>2 DEF RowOf
  <2> QED BY <2>1, <2>2 DEF Settled
<1>2. PICK i \in DOMAIN ring : ring[i].id = q /\ ring[i].retryable
  BY <1>1 DEF Unrevived
<1> QED BY <1>2, RowIs DEF Settled

\* A step that keeps the log right keeps the requests that are done.
LEMMA DoneKeeps ==
    ASSUME Shaped, LogInv, [Next]_vars, NEW q \in Req, flight[q].pc = "done"
    PROVE  flight'[q].pc = "done"
<1>1. ~Fly(q)
  BY DEF Fly, ScanRequest, ReadVault, ReadRules, ReadDomains, DecideFlight, applySubstitution,
         ForwardAnswered, ForwardFailed, ForwardDeadConn
<1>2. ~RequestStep(q)
  BY DEF RequestStep, BeginRequest, KillSwitchRefused, Rescan, BlockRequest, LogOutcome, Connect,
         ConnectRefused, ConnectUnresolved, ReadyToProcess
<1> QED BY <1>1, <1>2, RequestAlone

\* A row stays due while its call goes on with it.
LEMMA RowStaysDue ==
    ASSUME Shaped, LogInv, LogInv', Unrevived, [Next]_vars, NEW h, NEW q, DueRow(h, q),
           handler'[h].tok = handler[h].tok,
           handler[h].tok \notin LongToken /\ Reached(h, q) => Settled(q) \/ Reached(h, q)'
    PROVE  DueRow(h, q)'
  BY DoneKeeps, SettledStays DEF DueRow

\* A call that goes to another place and owes what it did.
LEMMA GoesOn ==
    ASSUME Shaped, LogInv, LogInv', Unrevived, [Next]_vars, NEW h, CallDue(h),
           Placed(handler'[h]), handler'[h].op = handler[h].op, handler'[h].tok = handler[h].tok,
           handler'[h].due = handler[h].due, handler'[h].seen = handler[h].seen,
           handler'[h].queue = handler[h].queue, handler'[h].todo = handler[h].todo
    PROVE  CallDue(h)'
<1>1. \A q \in handler[h].due : DueRow(h, q)'
  BY RowStaysDue DEF CallDue, Reached
<1> QED BY <1>1 DEF CallDue, Placed

\* A call that owes nothing.
LEMMA OwesNothing ==
    ASSUME NEW h, Placed(handler'[h]), handler'[h].due = {}
    PROVE  CallDue(h)'
  BY DEF CallDue, Placed

\* The rows that are noted are those of the hosts to match.
LEMMA NotedAreDue ==
    ASSUME LogInv', NEW h, Placed(handler'[h]), handler'[h].op # "except",
           UNCHANGED ring,
           handler'[h].due \subseteq Blocked(handler'[h].tok, handler'[h].todo)
    PROVE  CallDue(h)'
<1>1. ASSUME NEW q \in handler'[h].due PROVE DueRow(h, q)'
  <2>1. PICK i \in DOMAIN ring', host \in handler'[h].todo :
           /\ ring'[i].id = q /\ host \in {AnyHost, Request[ring'[i].id].host}
           /\ q \in Req /\ \E p \in Request[q].phs : p.tok = handler'[h].tok
    BY DEF Blocked, Retryable
  <2>2. flight'[q].pc = "done"
    BY <2>1 DEF LogInv, RingInv
  <2>3. Reached(h, q)'
    BY <2>1 DEF Reached
  <2> QED BY <2>1, <2>2, <2>3 DEF DueRow
<1> QED BY <1>1 DEF CallDue, Placed

\* The calls start with nothing due.
LEMMA CallOwesNothing ==
    ASSUME Typed, NEW h \in Handler, HandlerCall(h)
    PROVE  CallDue(h)'
<1>0. h \in DOMAIN handler
  BY DEF Typed, HandlersTyped
<1>1. ASSUME NEW k, Call(h, k) PROVE handler'[h] = k
  BY <1>0, <1>1 DEF Call
<1>2. ASSUME NEW s \in NewSecret, PostSecret(h, s)
      PROVE  Placed(handler'[h]) /\ handler'[h].due = {}
  <2>1. handler'[h] = [IdleHandler EXCEPT !.pc = "sync", !.op = "secret", !.sid = nextSid,
                                          !.rec = s, !.tok = s.tok]
    BY <1>1, <1>2 DEF PostSecret
  <2> QED BY <2>1 DEF IdleHandler, Placed
<1>3. ASSUME NEW sid \in SecretId, NEW v, NEW hosts, PutSecret(h, sid, v, hosts)
      PROVE  Placed(handler'[h]) /\ handler'[h].due = {}
  <2> DEFINE rec == [secrets[sid] EXCEPT !.hosts = hosts,
                                         !.value = IF v = Blank THEN secrets[sid].value ELSE v]
  <2>1. secrets[sid] \in SecretRec
    BY <1>3 DEF Typed, StoreTyped, PutSecret, Live, Absent
  <2>2. rec.tok = secrets[sid].tok
    BY <2>1 DEF SecretRec
  <2>3. handler'[h] = [IdleHandler EXCEPT !.pc = "replace", !.op = "secret", !.sid = sid,
                                          !.tok = secrets[sid].tok, !.rec = rec]
    BY <1>1, <1>3 DEF PutSecret
  <2> HIDE DEF rec
  <2> QED BY <2>2, <2>3 DEF IdleHandler, Placed
<1>4. ASSUME NEW entries, Resolve(h, entries)
      PROVE  Placed(handler'[h]) /\ handler'[h].due = {}
  <2>1. handler'[h] = [IdleHandler EXCEPT !.pc = "entry", !.op = "resolve", !.entries = entries]
    BY <1>1, <1>4 DEF Resolve
  <2> QED BY <2>1 DEF IdleHandler, Placed
<1>5. ASSUME NEW host, NEW pat, Except(h, host, pat)
      PROVE  Placed(handler'[h]) /\ handler'[h].due = {}
  <2>1. PICK pc \in {"match", "addexc"} :
           handler'[h] = [IdleHandler EXCEPT !.pc = pc, !.op = "except", !.pat = pat,
                                             !.host = host, !.todo = {host}]
    BY <1>1, <1>5 DEF Except
  <2> QED BY <2>1 DEF IdleHandler, Placed
<1>6. ASSUME NEW tok, NEW host, RetryMatching(h, tok, host)
      PROVE  Placed(handler'[h]) /\ handler'[h].due = {}
  <2>1. handler'[h] = [IdleHandler EXCEPT !.pc = "match", !.op = "retry", !.tok = tok,
                                          !.todo = {host}]
    BY <1>1, <1>6 DEF RetryMatching
  <2> QED BY <2>1 DEF IdleHandler, Placed
<1>7. ASSUME NEW q, Retry(h, q)
      PROVE  Placed(handler'[h]) /\ handler'[h].due = {}
  <2>1. handler'[h] = [IdleHandler EXCEPT !.pc = "replay", !.op = "retry"]
    BY <1>1, <1>7 DEF Retry
  <2> QED BY <2>1 DEF IdleHandler, Placed
<1>8. Placed(handler'[h]) /\ handler'[h].due = {}
  BY <1>2, <1>3, <1>4, <1>5, <1>6, <1>7 DEF HandlerCall
<1> QED BY <1>8, OwesNothing

\* A change of rules notes the rows it should unblock.
LEMMA RuleChangeDue ==
    ASSUME Typed, LogInv', NEW h \in Handler, CallDue(h),
           SyncRulesForSecret(h) \/ ResolveAddRule(h)
    PROVE  CallDue(h)'
<1>0. h \in DOMAIN handler /\ IsFrame(handler[h]) /\ Placed(handler[h]) /\ UNCHANGED ring
  BY DEF Typed, HandlersTyped, FrameTyped, SyncRulesForSecret, ResolveAddRule, CallDue
<1>1. CASE SyncRulesForSecret(h)
  <2> DEFINE hosts == CanonicalRuleHosts(handler[h].rec.hosts)
             due == Blocked(handler[h].rec.tok, hosts)
  <2>1. handler[h].pc = "sync" /\ handler[h].rec.tok = handler[h].tok
    BY <1>0, <1>1 DEF SyncRulesForSecret, Placed
  <2>2. handler' = [handler EXCEPT ![h].pc = "match", ![h].todo = hosts, ![h].due = due]
    BY <1>1 DEF SyncRulesForSecret
  <2> HIDE DEF hosts, due
  <2>3. handler'[h] = [handler[h] EXCEPT !.pc = "match", !.todo = hosts, !.due = due]
    BY <1>0, <2>2
  <2>4. /\ handler'[h].pc = "match" /\ handler'[h].todo = hosts /\ handler'[h].due = due
        /\ handler'[h].op = handler[h].op /\ handler'[h].tok = handler[h].tok
        /\ handler'[h].queue = handler[h].queue
    BY <1>0, <2>3 DEF IsFrame
  <2>5. Placed(handler'[h]) /\ handler'[h].op # "except"
    BY <1>0, <2>1, <2>4 DEF Placed
  <2>6. due \subseteq Blocked(handler[h].tok, hosts)
    BY <2>1 DEF due
  <2> QED BY <1>0, <2>4, <2>5, <2>6, NotedAreDue
<1>2. CASE ResolveAddRule(h)
  <2>1. handler[h].pc = "addrule"
    BY <1>2 DEF ResolveAddRule
  <2>2. PICK host \in handler[h].todo :
           handler' = [handler EXCEPT ![h].pc = "match",
                                      ![h].due = Blocked(handler[h].tok, {host})]
    BY <1>2 DEF ResolveAddRule
  <2> DEFINE due == Blocked(handler[h].tok, {host})
  <2>3. due \subseteq Blocked(handler[h].tok, handler[h].todo)
    BY DEF Blocked
  <2> HIDE DEF due
  <2>4. handler'[h] = [handler[h] EXCEPT !.pc = "match", !.due = due]
    BY <1>0, <2>2 DEF due
  <2>5. /\ handler'[h].pc = "match" /\ handler'[h].due = due
        /\ handler'[h].todo = handler[h].todo
        /\ handler'[h].op = handler[h].op /\ handler'[h].tok = handler[h].tok
        /\ handler'[h].queue = handler[h].queue
    BY <1>0, <2>4 DEF IsFrame
  <2>6. Placed(handler'[h]) /\ handler'[h].op # "except"
    BY <1>0, <2>1, <2>5 DEF Placed
  <2> QED BY <1>0, <2>3, <2>5, <2>6, NotedAreDue
<1> QED BY <1>1, <1>2

\* A match queues every due row that its host was still to reach.
LEMMA MatchKeepsDue ==
    ASSUME Shaped, Typed, LogInv, LogInv', Unrevived, [Next]_vars, NEW h \in Handler,
           CallDue(h), Match(h)
    PROVE  CallDue(h)'
<1>1. h \in DOMAIN handler /\ IsFrame(handler[h]) /\ Placed(handler[h])
  BY DEF Typed, HandlersTyped, FrameTyped, CallDue
<1>2. PICK host \in handler[h].todo :
         handler' = [handler EXCEPT
              ![h].pc = "pop", ![h].todo = @ \ {host},
              ![h].queue = IF handler[h].op = "except"
                           THEN matchingRetryablePattern(handler[h].pat, host)
                           ELSE matchingRetryable(handler[h].tok, host)]
  BY DEF Match
<1> DEFINE queue == IF handler[h].op = "except"
                    THEN matchingRetryablePattern(handler[h].pat, host)
                    ELSE matchingRetryable(handler[h].tok, host)
           todo == handler[h].todo \ {host}
<1>3. handler'[h] = [handler[h] EXCEPT !.pc = "pop", !.todo = todo, !.queue = queue]
  <2> HIDE DEF queue
  <2> QED BY <1>1, <1>2 DEF queue
<1>4. /\ handler'[h].pc = "pop" /\ handler'[h].todo = todo /\ handler'[h].queue = queue
      /\ handler'[h].op = handler[h].op /\ handler'[h].tok = handler[h].tok
      /\ handler'[h].due = handler[h].due /\ handler'[h].seen = handler[h].seen
  <2> HIDE DEF queue, todo
  <2> QED BY <1>1, <1>3 DEF IsFrame
<1>5. DOMAIN handler[h].queue = {}
  BY <1>1 DEF Match, Placed
<1>6. ASSUME NEW q \in handler[h].due, handler[h].tok \notin LongToken, Reached(h, q),
             ~Settled(q)
      PROVE  Reached(h, q)'
  <2>1. CASE q \in handler[h].seen
    BY <1>4, <2>1 DEF Reached
  <2>2. CASE \E x \in todo : x \in {AnyHost, Request[q].host}
    BY <1>4, <2>2 DEF Reached
  <2>3. CASE host \in {AnyHost, Request[q].host}
    <3>1. PICK i \in DOMAIN ring : ring[i].id = q /\ ring[i].retryable
      BY <1>6, Unsettled
    <3>2. RowSound(ring[i]) /\ \E p \in Request[q].phs : p.tok = handler[h].tok
      BY DEF LogInv, RingInv, CallDue, DueRow
    <3>3. Retryable(ring[i], host) /\ recordHasPlaceholder(ring[i], handler[h].tok)
      BY <1>6, <2>3, <3>1, <3>2 DEF RowSound, Retryable, recordHasPlaceholder
    <3>4. handler[h].op # "except"
      BY DEF CallDue
    <3>5. i \in DOMAIN queue /\ queue[i] = q
      BY <3>1, <3>3, <3>4 DEF matchingRetryable, IdsAt
    <3> QED BY <1>4, <3>5 DEF Reached
  <2> QED BY <1>5, <1>6, <2>1, <2>2, <2>3 DEF Reached
<1>7. \A q \in handler[h].due : DueRow(h, q)'
  BY <1>4, <1>6, RowStaysDue DEF CallDue
<1> HIDE DEF queue, todo
<1> QED BY <1>4, <1>7 DEF CallDue, Placed

\* A row that is popped has been tried.
LEMMA PopKeepsDue ==
    ASSUME Shaped, Typed, LogInv, LogInv', Unrevived, [Next]_vars, NEW h \in Handler,
           CallDue(h), Pop(h)
    PROVE  CallDue(h)'
<1>1. h \in DOMAIN handler /\ IsFrame(handler[h]) /\ handler[h].pc = "pop"
  BY DEF Typed, HandlersTyped, FrameTyped, Pop
<1> DEFINE last == Last(DOMAIN handler[h].queue)
           seen == handler[h].seen \cup {handler[h].queue[last]}
           queue == [i \in DOMAIN handler[h].queue \ {last} |-> handler[h].queue[i]]
<1>2. Popped(h) = [handler[h] EXCEPT !.seen = seen, !.queue = queue]
  BY <1>1 DEF Popped, NextRow, IsFrame
<1> HIDE DEF last, seen, queue
<1>3. \/ handler'[h] = Popped(h)
      \/ handler'[h] = [Popped(h) EXCEPT !.pc = "replay"]
  BY <1>1 DEF Pop
<1>4. /\ handler'[h].pc \in {"pop", "replay"}
      /\ handler'[h].seen = seen /\ handler'[h].queue = queue
      /\ handler'[h].op = handler[h].op /\ handler'[h].tok = handler[h].tok
      /\ handler'[h].due = handler[h].due /\ handler'[h].todo = handler[h].todo
  <2>1. /\ Popped(h).pc = "pop" /\ Popped(h).seen = seen /\ Popped(h).queue = queue
        /\ Popped(h).op = handler[h].op /\ Popped(h).tok = handler[h].tok
        /\ Popped(h).due = handler[h].due /\ Popped(h).todo = handler[h].todo
        /\ IsFrame(Popped(h))
    BY <1>1, <1>2 DEF IsFrame
  <2>2. CASE handler'[h] = Popped(h)
    BY <2>1, <2>2
  <2>3. CASE handler'[h] = [Popped(h) EXCEPT !.pc = "replay"]
    BY <2>1, <2>3 DEF IsFrame
  <2> QED BY <1>3, <2>2, <2>3
<1>5. ASSUME NEW q, Reached(h, q) PROVE Reached(h, q)'
  <2>1. ASSUME NEW i \in DOMAIN handler[h].queue, handler[h].queue[i] = q, i # last
        PROVE  i \in DOMAIN queue /\ queue[i] = q
    BY <2>1 DEF queue
  <2>2. handler[h].queue[last] \in seen /\ handler[h].seen \subseteq seen
    BY DEF seen
  <2> QED BY <1>4, <1>5, <2>1, <2>2 DEF Reached
<1>6. \A q \in handler[h].due : DueRow(h, q)'
  BY <1>4, <1>5, RowStaysDue DEF CallDue
<1> QED BY <1>4, <1>6 DEF CallDue, Placed

\* The next entry of a resolve call starts with nothing due, or is skipped.
LEMMA EntryKeepsDue ==
    ASSUME Shaped, Typed, LogInv, LogInv', Unrevived, [Next]_vars, NEW h \in Handler,
           CallDue(h), TakeEntry(h)
    PROVE  CallDue(h)'
<1>1. /\ h \in DOMAIN handler /\ IsFrame(handler[h]) /\ Placed(handler[h])
      /\ handler[h].pc = "entry"
  BY DEF Typed, HandlersTyped, FrameTyped, CallDue, TakeEntry
<1> DEFINE e == Head(handler[h].entries)
           rest == Tail(handler[h].entries)
           rec == [tok |-> e.tok, value |-> e.value, workers |-> {}, hosts |-> hostsFor(e.host)]
           taken == [handler[h] EXCEPT !.entries = rest, !.tok = e.tok, !.todo = {e.host},
                                       !.due = {}, !.rec = rec]
           sid == First(Holders(e.tok))
<1>2. handler'[h] = IF e.value = Blank THEN [handler[h] EXCEPT !.entries = rest]
                    ELSE IF Holders(e.tok) = {} THEN [taken EXCEPT !.pc = "addsecret"]
                    ELSE [taken EXCEPT !.sid = sid, !.pc = IF e.rename THEN "setenv"
                                                                       ELSE "addrule"]
  BY <1>1 DEF TakeEntry
<1> HIDE DEF e, rest, rec, sid
<1>3. CASE handler'[h] = [handler[h] EXCEPT !.entries = rest]
  <2>1. /\ handler'[h].pc = handler[h].pc /\ handler'[h].op = handler[h].op
        /\ handler'[h].tok = handler[h].tok /\ handler'[h].due = handler[h].due
        /\ handler'[h].seen = handler[h].seen /\ handler'[h].queue = handler[h].queue
        /\ handler'[h].todo = handler[h].todo
    BY <1>1, <1>3 DEF IsFrame
  <2>2. Placed(handler'[h])
    BY <1>1, <2>1 DEF Placed
  <2> QED BY <2>1, <2>2, GoesOn
<1>4. CASE \/ handler'[h] = [taken EXCEPT !.pc = "addsecret"]
           \/ handler'[h] = [taken EXCEPT !.sid = sid, !.pc = "setenv"]
           \/ handler'[h] = [taken EXCEPT !.sid = sid, !.pc = "addrule"]
  <2>1. /\ handler'[h].pc \in {"addsecret", "setenv", "addrule"}
        /\ handler'[h].op = handler[h].op /\ handler'[h].queue = handler[h].queue
        /\ handler'[h].due = {}
    BY <1>1, <1>4 DEF IsFrame
  <2>2. Placed(handler'[h])
    BY <1>1, <2>1 DEF Placed
  <2> QED BY <2>1, <2>2, OwesNothing
<1> HIDE DEF taken
<1> QED BY <1>2, <1>3, <1>4

\* The other steps of a call leave what it owes alone, or end it.
LEMMA OthersKeepDue ==
    ASSUME Shaped, Typed, LogInv, LogInv', Unrevived, [Next]_vars, NEW h \in Handler,
           CallDue(h),
           \/ ReplaceSecret(h) \/ ResolveAddSecret(h) \/ SetEnvKey(h) \/ ExceptAdd(h)
           \/ MarkAllowed(h) \/ ReplayError(h) \/ ReplayDone(h)
           \/ NextHost(h) \/ NextEntry(h) \/ Return(h)
    PROVE  CallDue(h)'
<1>1. h \in DOMAIN handler /\ IsFrame(handler[h]) /\ Placed(handler[h])
  BY DEF Typed, HandlersTyped, FrameTyped, CallDue
<1>2. CASE handler'[h] = IdleHandler
  BY <1>2, OwesNothing DEF IdleHandler, Placed
<1>3. ASSUME NEW pc, NEW sid, handler'[h] = [handler[h] EXCEPT !.pc = pc, !.sid = sid],
             Placed([handler[h] EXCEPT !.pc = pc, !.sid = sid])
      PROVE  CallDue(h)'
  <2>1. /\ handler'[h].op = handler[h].op /\ handler'[h].tok = handler[h].tok
        /\ handler'[h].due = handler[h].due /\ handler'[h].seen = handler[h].seen
        /\ handler'[h].queue = handler[h].queue /\ handler'[h].todo = handler[h].todo
    BY <1>1, <1>3 DEF IsFrame
  <2> QED BY <1>3, <2>1, GoesOn
<1>4. ASSUME NEW pc, NEW sid,
             /\ pc \in {"replace", "sync"} => handler[h].pc = "replace"
             /\ pc \in {"replace", "sync", "entry", "addsecret", "setenv", "addrule"} =>
                   handler[h].op # "except"
             /\ pc \notin {"pop", "replay"} => DOMAIN handler[h].queue = {}
      PROVE  Placed([handler[h] EXCEPT !.pc = pc, !.sid = sid])
  BY <1>1, <1>4 DEF IsFrame, Placed
<1>5. CASE ReplaceSecret(h)
  <2>1. CASE handler' = [handler EXCEPT ![h].pc = "sync"]
    <3>1. handler'[h] = [handler[h] EXCEPT !.pc = "sync", !.sid = handler[h].sid]
      BY <1>1, <2>1 DEF IsFrame
    <3>2. handler[h].pc = "replace" /\ handler[h].op # "except" /\ DOMAIN handler[h].queue = {}
      BY <1>1, <1>5 DEF ReplaceSecret, Placed
    <3> QED BY <1>3, <1>4, <3>1, <3>2
  <2>2. CASE handler' = [handler EXCEPT ![h] = IdleHandler]
    BY <1>1, <1>2, <2>2
  <2> QED BY <1>5, <2>1, <2>2 DEF ReplaceSecret
<1>6. CASE ResolveAddSecret(h)
  <2>1. handler'[h] = [handler[h] EXCEPT !.pc = "addrule", !.sid = nextSid]
    BY <1>1, <1>6 DEF ResolveAddSecret
  <2>2. handler[h].op # "except" /\ DOMAIN handler[h].queue = {}
    BY <1>1, <1>6 DEF ResolveAddSecret, Placed
  <2> QED BY <1>3, <1>4, <2>1, <2>2
<1>7. CASE SetEnvKey(h)
  <2>1. CASE handler' = [handler EXCEPT ![h] = IdleHandler]
    BY <1>1, <1>2, <2>1
  <2>2. CASE handler' = [handler EXCEPT ![h] = [@ EXCEPT !.pc = "addrule"]]
    <3>1. handler'[h] = [handler[h] EXCEPT !.pc = "addrule", !.sid = handler[h].sid]
      BY <1>1, <2>2 DEF IsFrame
    <3>2. handler[h].op # "except" /\ DOMAIN handler[h].queue = {}
      BY <1>1, <1>7 DEF SetEnvKey, Placed
    <3> QED BY <1>3, <1>4, <3>1, <3>2
  <2> QED BY <1>7, <2>1, <2>2 DEF SetEnvKey
<1>8. CASE ExceptAdd(h) \/ NextHost(h) \/ NextEntry(h)
  <2>1. PICK pc \in {"match", "entry"} :
           /\ handler' = [handler EXCEPT ![h].pc = pc]
           /\ pc = "entry" => handler[h].op # "except"
           /\ DOMAIN handler[h].queue = {}
    BY <1>1, <1>8 DEF ExceptAdd, NextHost, NextEntry, QueueDone, Placed
  <2>2. handler'[h] = [handler[h] EXCEPT !.pc = pc, !.sid = handler[h].sid]
    BY <1>1, <2>1 DEF IsFrame
  <2> QED BY <1>3, <1>4, <2>1, <2>2
<1>9. CASE ReplayError(h) \/ ReplayDone(h)
  <2>1. handler' = [handler EXCEPT ![h].pc = "pop"]
    BY <1>9 DEF ReplayError, ReplayDone
  <2>2. handler'[h] = [handler[h] EXCEPT !.pc = "pop", !.sid = handler[h].sid]
    BY <1>1, <2>1 DEF IsFrame
  <2> QED BY <1>3, <1>4, <2>2
<1>10. CASE MarkAllowed(h) \/ Return(h)
  BY <1>1, <1>2, <1>10 DEF MarkAllowed, Return
<1> QED BY <1>5, <1>6, <1>7, <1>8, <1>9, <1>10

\* Every step keeps what is due.
LEMMA NextDue ==
    Shaped /\ Typed /\ LogInv /\ LogInv' /\ Unrevived /\ DueInv /\ [Next]_vars => DueInv'
<1> SUFFICES ASSUME Shaped, Typed, LogInv, LogInv', Unrevived, DueInv, [Next]_vars,
                    NEW h \in Handler
             PROVE  CallDue(h)'
  BY DEF DueInv
<1>1. CallDue(h)
  BY DEF DueInv
<1>2. CASE HandlerStep(h) \/ HandlerCall(h)
  BY <1>1, <1>2, CallOwesNothing, RuleChangeDue, MatchKeepsDue, PopKeepsDue, EntryKeepsDue,
     OthersKeepDue DEF HandlerStep
<1>3. CASE handler'[h] = handler[h]
  BY <1>1, <1>3, GoesOn DEF CallDue
<1>4. CASE Fly(h)
  <2>1. UNCHANGED handler
    BY <1>4 DEF Fly, ScanRequest, ReadVault, ReadRules, ReadDomains, DecideFlight,
                applySubstitution, ForwardAnswered, ForwardFailed, ForwardDeadConn, FlightOnly
  <2> QED BY <1>3, <2>1
<1> QED BY <1>2, <1>3, <1>4, CallAlone

\* Nothing is due before the first call.
LEMMA InitDue == Init => DueInv
<1> SUFFICES ASSUME Init, NEW h \in Handler PROVE CallDue(h)
  BY DEF DueInv
<1>1. handler[h] = IdleHandler
  BY DEF Init
<1> QED BY <1>1 DEF CallDue, Placed, IdleHandler

\* At every moment of a call, each row it has to unblock is settled, tried, or
\* still on its way to it.
THEOREM DueHolds == Spec => []DueInv
<1>1. Sound => Shaped
  BY DEF Sound
<1> QED BY <1>1, InitDue, NextDue, InitTyped, NextTyped, NextLog, LogHolds, FlightsSound, PTL
        DEF Spec

\* What a call leaves out once it has run through its rows: only a placeholder
\* longer than the log keeps lets a blocked row go untried.
THEOREM ReplayReachesAll ==
    Spec => [](\A h \in Handler :
                  /\ QueueDone(h) /\ handler[h].todo = {} /\ handler[h].tok \notin LongToken
                  => \A q \in handler[h].due :
                        q \in handler[h].seen \/ ~InRing(q) \/ ~RowOf(q).retryable)
<1>1. DueInv =>
        \A h \in Handler :
          /\ QueueDone(h) /\ handler[h].todo = {} /\ handler[h].tok \notin LongToken
          => \A q \in handler[h].due :
                q \in handler[h].seen \/ ~InRing(q) \/ ~RowOf(q).retryable
  BY DEF DueInv, CallDue, DueRow, Reached, Settled, QueueDone
<1> QED BY <1>1, DueHolds, PTL

\* Where the log keeps every placeholder whole, a call that changed the rules has
\* tried each row it unblocks, unless that is settled or has left the log.
THEOREM AutoReplayHolds == LongToken = {} => (Spec => []AutoReplayComplete)
<1>1. LongToken = {} /\ DueInv => AutoReplayComplete
  BY DEF DueInv, CallDue, DueRow, Reached, Settled, QueueDone, AutoReplayComplete
<1>2. SUFFICES ASSUME LongToken = {} PROVE Spec => []AutoReplayComplete
  OBVIOUS
<1>3. DueInv => AutoReplayComplete
  BY <1>1, <1>2
<1> QED BY <1>3, DueHolds, PTL

-----------------------------------------------------------------------------
(***************************************************************************)
(* Nothing starts over.  A trip goes through its stages once, and a call   *)
(* through its entries, its hosts and its rows.  A handler's own trip is   *)
(* under way exactly while its call replays a row (Going), so that no  *)
(* stage of a replay falls anywhere else.                                  *)
(***************************************************************************)
\* The measure of a trip, stage by stage.
LEMMA Stages ==
    /\ StepsLeft["scan"] = 10 /\ StepsLeft["vault"] = 9 /\ StepsLeft["rules"] = 8
    /\ StepsLeft["domains"] = 7 /\ StepsLeft["decide"] = 6 /\ StepsLeft["rescan"] = 5
    /\ StepsLeft["subst"] = 4 /\ StepsLeft["forward"] = 3 /\ StepsLeft["again"] = 2
    /\ StepsLeft["block"] = 1 /\ StepsLeft["answered"] = 1 /\ StepsLeft["failed"] = 1
    /\ StepsLeft["idle"] = 0 /\ StepsLeft["done"] = 0
  BY DEF StepsLeft

\* The measure of a call, part by part.
LEMMA Parts ==
    /\ PartsLeft["replace"] = 3 /\ PartsLeft["addsecret"] = 3 /\ PartsLeft["setenv"] = 3
    /\ PartsLeft["sync"] = 2 /\ PartsLeft["addrule"] = 2 /\ PartsLeft["addexc"] = 2
    /\ PartsLeft["match"] = 1 /\ PartsLeft["pop"] = 1 /\ PartsLeft["replay"] = 1
    /\ PartsLeft["entry"] = 0
  BY DEF PartsLeft

\* Where a step of the trip itself leads.
LEMMA FlyAdvances ==
    ASSUME Shaped, NEW f \in Flight, Fly(f)
    PROVE  TripAdvances(f) /\ Begun(f) /\ Begun(f)'
<1>1. CASE DecideFlight(f)
  <2> DEFINE dec == Decide(PolicyInput(f))
             pc == IF f \in Req THEN "rescan" ELSE AfterDecision(f, dec.action)
  <2>1. dec.action \in Action
    BY DecideTyped DEF Decision, Action
  <2>2. pc \in {"rescan", "failed", "subst", "forward"}
    BY <2>1 DEF AfterDecision, Action
  <2> HIDE DEF dec, pc
  <2>3. flight[f].pc = "decide" /\ flight'[f].pc = pc
    BY <1>1 DEF DecideFlight, Shaped, IsRecord, dec, pc
  <2> QED BY <2>2, <2>3, Stages DEF TripAdvances, Begun
<1>2. CASE ~DecideFlight(f)
  <2>1. \/ flight[f].pc = "scan" /\ flight'[f].pc = "vault"
        \/ flight[f].pc = "vault" /\ flight'[f].pc = "rules"
        \/ flight[f].pc = "rules" /\ flight'[f].pc = "domains"
        \/ flight[f].pc = "domains" /\ flight'[f].pc = "decide"
        \/ flight[f].pc = "subst" /\ flight'[f].pc = "forward"
        \/ flight[f].pc \in {"forward", "again"} /\ flight'[f].pc \in {"answered", "failed"}
        \/ flight[f].pc = "forward" /\ flight'[f].pc = "again"
    BY <1>2 DEF Fly, ScanRequest, ReadVault, ReadRules, ReadDomains, applySubstitution,
                ForwardAnswered, ForwardFailed, ForwardDeadConn, Goto, Shaped, IsRecord
  <2> QED BY <2>1, Stages DEF TripAdvances, Begun
<1> QED BY <1>1, <1>2

\* A request that has been let in goes on to its row.
LEMMA RequestAdvances ==
    ASSUME Shaped, LogInv, NEW q \in Req, RequestStep(q), Begun(q)
    PROVE  TripAdvances(q)
<1>0. q \in Flight
  BY DEF Flight
<1>1. CASE Rescan(q)
  <2>1. flight[q].pc = "rescan" /\ flight[q].dec.action \in Action
    BY <1>0, <1>1 DEF Rescan, LogInv, FlightRow
  <2>2. AfterDecision(q, flight[q].dec.action) \in {"block", "subst", "forward"}
    BY <2>1 DEF AfterDecision, Action
  <2>3. flight'[q].pc = AfterDecision(q, flight[q].dec.action)
    BY <1>0, <1>1 DEF Rescan, Shaped, IsRecord
  <2> QED BY <2>1, <2>2, <2>3, Stages DEF TripAdvances
<1>2. CASE BlockRequest(q) \/ LogOutcome(q)
  <2>1. flight[q].pc \in {"block", "answered", "failed"} /\ flight'[q].pc = "done"
    BY <1>0, <1>2 DEF BlockRequest, LogOutcome, Shaped, IsRecord, IdleFlight
  <2> QED BY <2>1, Stages DEF TripAdvances
<1> QED
  BY <1>1, <1>2 DEF RequestStep, BeginRequest, KillSwitchRefused, Connect, ConnectRefused,
                    ConnectUnresolved, ReadyToProcess, Begun

\* The trip of call h is under way exactly while it replays a row, and the queue
\* has a place for each row the log can hold.
Going(h) ==
    /\ flight[h].pc # "idle" <=> handler[h].pc = "replay"
    /\ DOMAIN handler[h].queue \in SUBSET (1 .. MaxLog)

\* A part of the call is over, or the call is.
LEMMA PartEnds ==
    ASSUME Typed, NEW h \in Handler, Going(h),
           \/ ReplaceSecret(h) \/ SyncRulesForSecret(h) \/ ResolveAddSecret(h) \/ SetEnvKey(h)
           \/ ResolveAddRule(h) \/ ExceptAdd(h) \/ NextEntry(h) \/ MarkAllowed(h) \/ Return(h)
    PROVE  CallAdvances(h) /\ Going(h)'
<1>1. h \in DOMAIN handler /\ IsFrame(handler[h])
  BY DEF Typed, HandlersTyped, FrameTyped
<1>2. UNCHANGED flight /\ flight[h].pc = "idle"
  BY DEF ReplaceSecret, SyncRulesForSecret, ResolveAddSecret, SetEnvKey, ResolveAddRule, ExceptAdd,
         NextEntry, MarkAllowed, Return, QueueDone, Finished, Going
<1>3. CASE handler'[h] = IdleHandler
  <2>1. DOMAIN IdleHandler.queue = {} /\ IdleHandler.pc = "idle"
    BY DEF IdleHandler
  <2> QED BY <1>2, <1>3, <2>1 DEF CallAdvances, Going
<1>4. ASSUME \/ handler[h].pc \in {"replace", "addsecret", "setenv"}
                /\ handler'[h].pc \in {"sync", "addrule"}
             \/ handler[h].pc \in {"sync", "addrule", "addexc"} /\ handler'[h].pc = "match"
             \/ handler[h].pc = "pop" /\ handler'[h].pc = "entry",
             handler'[h].entries = handler[h].entries, handler'[h].queue = handler[h].queue
      PROVE  CallAdvances(h) /\ Going(h)'
  <2>1. PartsLeft[handler'[h].pc] < PartsLeft[handler[h].pc] /\ handler'[h].pc # "replay"
    BY <1>4, Parts
  <2> QED BY <1>2, <1>4, <2>1 DEF CallAdvances, Going
<1>5. ASSUME NEW pc, handler' = [handler EXCEPT ![h].pc = pc]
      PROVE  /\ handler'[h].pc = pc /\ handler'[h].entries = handler[h].entries
             /\ handler'[h].queue = handler[h].queue
  BY <1>1, <1>5 DEF IsFrame
<1>6. CASE ReplaceSecret(h) \/ SetEnvKey(h)
  <2>1. handler[h].pc \in {"replace", "setenv"}
    BY <1>6 DEF ReplaceSecret, SetEnvKey
  <2>2. CASE handler' = [handler EXCEPT ![h] = IdleHandler]
    BY <1>1, <1>3, <2>2
  <2>3. CASE \E pc \in {"sync", "addrule"} : handler' = [handler EXCEPT ![h].pc = pc]
    BY <1>4, <1>5, <2>1, <2>3
  <2> QED BY <1>6, <2>2, <2>3 DEF ReplaceSecret, SetEnvKey
<1>7. CASE SyncRulesForSecret(h)
  <2>1. handler[h].pc = "sync"
    BY <1>7 DEF SyncRulesForSecret
  <2>2. PICK todo, due : handler' = [handler EXCEPT ![h].pc = "match", ![h].todo = todo,
                                                    ![h].due = due]
    BY <1>7 DEF SyncRulesForSecret
  <2>3. /\ handler'[h].pc = "match" /\ handler'[h].entries = handler[h].entries
        /\ handler'[h].queue = handler[h].queue
    BY <1>1, <2>2 DEF IsFrame
  <2> QED BY <1>4, <2>1, <2>3
<1>8. CASE ResolveAddSecret(h)
  <2>1. handler[h].pc = "addsecret"
    BY <1>8 DEF ResolveAddSecret
  <2>2. /\ handler'[h].pc = "addrule" /\ handler'[h].entries = handler[h].entries
        /\ handler'[h].queue = handler[h].queue
    BY <1>1, <1>8 DEF ResolveAddSecret, IsFrame
  <2> QED BY <1>4, <2>1, <2>2
<1>9. CASE ResolveAddRule(h)
  <2>1. handler[h].pc = "addrule"
    BY <1>9 DEF ResolveAddRule
  <2>2. PICK due : handler' = [handler EXCEPT ![h].pc = "match", ![h].due = due]
    BY <1>9 DEF ResolveAddRule
  <2>3. /\ handler'[h].pc = "match" /\ handler'[h].entries = handler[h].entries
        /\ handler'[h].queue = handler[h].queue
    BY <1>1, <2>2 DEF IsFrame
  <2> QED BY <1>4, <2>1, <2>3
<1>10. CASE ExceptAdd(h)
  <2>1. handler[h].pc = "addexc" /\ handler' = [handler EXCEPT ![h].pc = "match"]
    BY <1>10 DEF ExceptAdd
  <2> QED BY <1>4, <1>5, <2>1
<1>11. CASE NextEntry(h)
  <2>1. handler[h].pc = "pop" /\ handler' = [handler EXCEPT ![h].pc = "entry"]
    BY <1>11 DEF NextEntry, QueueDone
  <2> QED BY <1>4, <1>5, <2>1
<1>12. CASE MarkAllowed(h) \/ Return(h)
  BY <1>1, <1>3, <1>12 DEF MarkAllowed, Return
<1> QED BY <1>6, <1>7, <1>8, <1>9, <1>10, <1>11, <1>12

\* The next entry leaves one fewer.
LEMMA EntryAdvances ==
    ASSUME Typed, NEW h \in Handler, Going(h), TakeEntry(h)
    PROVE  CallAdvances(h) /\ Going(h)'
<1>1. /\ h \in DOMAIN handler /\ IsFrame(handler[h]) /\ handler[h].entries \in Seq(Entry)
      /\ handler[h].entries # <<>> /\ handler[h].pc = "entry" /\ UNCHANGED flight
  BY DEF Typed, HandlersTyped, FrameTyped, TakeEntry
<1> DEFINE e == Head(handler[h].entries)
           rest == Tail(handler[h].entries)
           rec == [tok |-> e.tok, value |-> e.value, workers |-> {}, hosts |-> hostsFor(e.host)]
           taken == [handler[h] EXCEPT !.entries = rest, !.tok = e.tok, !.todo = {e.host},
                                       !.due = {}, !.rec = rec]
           sid == First(Holders(e.tok))
<1>2. handler'[h] = IF e.value = Blank THEN [handler[h] EXCEPT !.entries = rest]
                    ELSE IF Holders(e.tok) = {} THEN [taken EXCEPT !.pc = "addsecret"]
                    ELSE [taken EXCEPT !.sid = sid, !.pc = IF e.rename THEN "setenv"
                                                                       ELSE "addrule"]
  BY <1>1 DEF TakeEntry
<1>3. Len(rest) < Len(handler[h].entries)
  BY <1>1
<1> HIDE DEF e, rest, rec, sid
<1>4. /\ handler'[h].entries = rest /\ handler'[h].pc # "replay"
      /\ handler'[h].queue = handler[h].queue
  BY <1>1, <1>2 DEF IsFrame
<1> QED BY <1>1, <1>3, <1>4 DEF CallAdvances, Going

\* The loop over the hosts goes on.
LEMMA LoopGoesOn ==
    ASSUME Shaped, Typed, LogInv, NEW h \in Handler, Going(h),
           Match(h) \/ Pop(h) \/ ReplayError(h) \/ ReplayDone(h) \/ NextHost(h)
    PROVE  CallAdvances(h) /\ Going(h)'
<1>1. h \in DOMAIN handler /\ IsFrame(handler[h]) /\ h \in Flight
  BY DEF Typed, HandlersTyped, FrameTyped, Flight
<1>2. ASSUME handler[h].pc \in {"match", "pop", "replay"},
             handler'[h].pc \in {"match", "pop", "replay"},
             handler'[h].entries = handler[h].entries, LoopAdvances(h)
      PROVE  CallAdvances(h)
  <2>1. PartsLeft[handler'[h].pc] = PartsLeft[handler[h].pc]
    BY <1>2, Parts
  <2> QED BY <1>2, <2>1 DEF CallAdvances
<1>3. CASE Match(h)
  <2>1. PICK host \in handler[h].todo :
           handler' = [handler EXCEPT
                ![h].pc = "pop", ![h].todo = @ \ {host},
                ![h].queue = IF handler[h].op = "except"
                             THEN matchingRetryablePattern(handler[h].pat, host)
                             ELSE matchingRetryable(handler[h].tok, host)]
    BY <1>3 DEF Match
  <2> DEFINE queue == IF handler[h].op = "except"
                      THEN matchingRetryablePattern(handler[h].pat, host)
                      ELSE matchingRetryable(handler[h].tok, host)
             todo == handler[h].todo \ {host}
  <2>2. DOMAIN queue \in SUBSET (1 .. MaxLog)
    <3>1. DOMAIN queue \subseteq DOMAIN ring
      BY DEF matchingRetryable, matchingRetryablePattern, IdsAt
    <3> HIDE DEF queue
    <3> QED BY <3>1, EgressAssumption DEF LogInv, RingInv
  <2>3. todo \subseteq handler[h].todo /\ todo # handler[h].todo
    OBVIOUS
  <2>4. handler'[h] = [handler[h] EXCEPT !.pc = "pop", !.todo = todo, !.queue = queue]
    <3> HIDE DEF queue
    <3> QED BY <1>1, <2>1 DEF queue
  <2> HIDE DEF queue, todo
  <2>5. /\ handler'[h].pc = "pop" /\ handler'[h].todo = todo /\ handler'[h].queue = queue
        /\ handler'[h].entries = handler[h].entries
    BY <1>1, <2>4 DEF IsFrame
  <2>6. LoopAdvances(h)
    BY <2>3, <2>5 DEF LoopAdvances
  <2>7. handler[h].pc = "match" /\ UNCHANGED flight
    BY <1>3 DEF Match
  <2>8. CallAdvances(h)
    BY <1>2, <2>5, <2>6, <2>7
  <2> QED BY <2>2, <2>5, <2>7, <2>8 DEF Going
<1>4. CASE Pop(h)
  <2> DEFINE last == Last(DOMAIN handler[h].queue)
             seen == handler[h].seen \cup {handler[h].queue[last]}
             queue == [i \in DOMAIN handler[h].queue \ {last} |-> handler[h].queue[i]]
  <2>1. handler[h].pc = "pop" /\ DOMAIN handler[h].queue # {}
    BY <1>4 DEF Pop
  <2>2. Popped(h) = [handler[h] EXCEPT !.seen = seen, !.queue = queue]
    BY <1>1 DEF Popped, NextRow, IsFrame
  <2>3. last \in DOMAIN handler[h].queue
    BY <2>1, LastIsMember, EgressAssumption DEF Going
  <2>4. DOMAIN queue \subseteq DOMAIN handler[h].queue /\ DOMAIN queue # DOMAIN handler[h].queue
    BY <2>3
  <2> HIDE DEF last, seen, queue
  <2>5. \/ handler'[h] = Popped(h) /\ flight'[h] = flight[h]
        \/ handler'[h] = [Popped(h) EXCEPT !.pc = "replay"] /\ flight'[h].pc = "scan"
    BY <1>1, <1>4 DEF Pop, StartReplay, Shaped, IdleFlight
  <2>6. /\ Popped(h).pc = "pop" /\ Popped(h).queue = queue /\ Popped(h).todo = handler[h].todo
        /\ Popped(h).entries = handler[h].entries /\ IsFrame(Popped(h))
    BY <1>1, <2>1, <2>2 DEF IsFrame
  <2>7. /\ handler'[h].queue = queue /\ handler'[h].todo = handler[h].todo
        /\ handler'[h].entries = handler[h].entries
        /\ \/ handler'[h].pc = "pop" /\ flight'[h] = flight[h]
           \/ handler'[h].pc = "replay" /\ flight'[h].pc = "scan"
    BY <2>5, <2>6 DEF IsFrame
  <2>8. LoopAdvances(h)
    BY <2>1, <2>4, <2>7 DEF LoopAdvances, QueueAdvances
  <2>9. CallAdvances(h)
    BY <1>2, <2>1, <2>7, <2>8
  <2>10. DOMAIN handler'[h].queue \in SUBSET (1 .. MaxLog)
    BY <2>4, <2>7 DEF Going
  <2> QED BY <2>1, <2>7, <2>9, <2>10 DEF Going
<1>5. CASE ReplayError(h) \/ ReplayDone(h)
  <2>1. /\ handler[h].pc = "replay" /\ handler'[h] = [handler[h] EXCEPT !.pc = "pop"]
        /\ flight[h].pc \in {"failed", "answered"} /\ flight'[h].pc = "idle"
    BY <1>1, <1>5 DEF ReplayError, ReplayDone, Going, Shaped, IdleFlight
  <2>2. /\ handler'[h].pc = "pop" /\ handler'[h].queue = handler[h].queue
        /\ handler'[h].todo = handler[h].todo /\ handler'[h].entries = handler[h].entries
    BY <1>1, <2>1 DEF IsFrame
  <2>3. TripAdvances(h)
    BY <2>1, Stages DEF TripAdvances
  <2>4. LoopAdvances(h)
    BY <2>1, <2>2, <2>3 DEF LoopAdvances, QueueAdvances
  <2> QED BY <1>2, <2>1, <2>2, <2>4 DEF Going
<1>6. CASE NextHost(h)
  <2>1. /\ handler[h].pc = "pop" /\ handler'[h] = [handler[h] EXCEPT !.pc = "match"]
        /\ UNCHANGED flight
    BY <1>1, <1>6 DEF NextHost, QueueDone
  <2>2. /\ handler'[h].pc = "match" /\ handler'[h].todo = handler[h].todo
        /\ handler'[h].entries = handler[h].entries /\ handler'[h].queue = handler[h].queue
    BY <1>1, <2>1 DEF IsFrame
  <2>3. LoopAdvances(h)
    BY <2>1, <2>2 DEF LoopAdvances
  <2> QED BY <1>2, <2>1, <2>2, <2>3 DEF Going
<1> QED BY <1>3, <1>4, <1>5, <1>6
\* A call starts with an empty queue, and with a trip only when it replays a row.
LEMMA CallBegins ==
    ASSUME Shaped, Typed, NEW h \in Handler, Going(h), HandlerCall(h)
    PROVE  handler[h].pc = "idle" /\ Going(h)'
<1>0. /\ h \in DOMAIN handler /\ h \in Flight /\ DOMAIN <<>> \in SUBSET (1 .. MaxLog)
      /\ \A k : handler' = [handler EXCEPT ![h] = k] => handler'[h] = k
  BY EgressAssumption DEF Typed, HandlersTyped, Flight
<1>1. handler[h].pc = "idle"
  BY DEF HandlerCall, PostSecret, PutSecret, Resolve, Except, RetryMatching, Retry, Call
<1>2. CASE \E q \in Req : Retry(h, q)
  <2>1. handler'[h] = [IdleHandler EXCEPT !.pc = "replay", !.op = "retry"]
    BY <1>0, <1>2 DEF Retry, Call
  <2>2. flight'[h].pc = "scan"
    <3>1. PICK rec : flight' = [flight EXCEPT ![h] = [IdleFlight EXCEPT
                                   !.pc = "scan", !.req = rec.id, !.rec = rec]]
      BY <1>2 DEF Retry, StartReplay
    <3> QED BY <1>0, <3>1 DEF IdleFlight, Shaped
  <2>3. handler'[h].pc = "replay" /\ handler'[h].queue = <<>>
    BY <2>1 DEF IdleHandler
  <2> QED BY <1>0, <1>1, <2>2, <2>3 DEF Going
<1>3. CASE UNCHANGED flight /\ handler'[h].pc # "replay" /\ handler'[h].queue = <<>>
  BY <1>0, <1>1, <1>3 DEF Going
<1>4. CASE \E s \in NewSecret : PostSecret(h, s)
  <2>1. PICK s : UNCHANGED flight /\ handler'[h] =
           [IdleHandler EXCEPT !.pc = "sync", !.op = "secret", !.sid = nextSid, !.rec = s,
                               !.tok = s.tok]
    BY <1>0, <1>4 DEF PostSecret, Call
  <2> QED BY <1>3, <2>1 DEF IdleHandler
<1>5. CASE \E sid \in SecretId, v \in Value \cup {Blank}, hosts \in HostList :
              PutSecret(h, sid, v, hosts)
  <2>1. PICK sid, v, hosts : PutSecret(h, sid, v, hosts)
    BY <1>5
  <2> DEFINE rec == [secrets[sid] EXCEPT !.hosts = hosts,
                                         !.value = IF v = Blank THEN secrets[sid].value ELSE v]
  <2>2. UNCHANGED flight /\ handler'[h] =
           [IdleHandler EXCEPT !.pc = "replace", !.op = "secret", !.sid = sid,
                               !.tok = secrets[sid].tok, !.rec = rec]
    BY <1>0, <2>1 DEF PutSecret, Call
  <2> HIDE DEF rec
  <2> QED BY <1>3, <2>2 DEF IdleHandler
<1>6. CASE \E entries \in EntryList : Resolve(h, entries)
  <2>1. PICK entries : UNCHANGED flight /\ handler'[h] =
           [IdleHandler EXCEPT !.pc = "entry", !.op = "resolve", !.entries = entries]
    BY <1>0, <1>6 DEF Resolve, Call
  <2> QED BY <1>3, <2>1 DEF IdleHandler
<1>7. CASE \E host \in Host, pat \in Pattern : Except(h, host, pat)
  <2>1. PICK pc \in {"match", "addexc"}, host \in Host, pat \in Pattern :
         UNCHANGED flight /\ handler'[h] =
           [IdleHandler EXCEPT !.pc = pc, !.op = "except", !.pat = pat, !.host = host,
                               !.todo = {host}]
    BY <1>0, <1>7 DEF Except, Call
  <2> QED BY <1>3, <2>1 DEF IdleHandler
<1>8. CASE \E tok \in Token, host \in Host \cup {AnyHost} : RetryMatching(h, tok, host)
  <2>1. PICK tok, host : UNCHANGED flight /\ handler'[h] =
           [IdleHandler EXCEPT !.pc = "match", !.op = "retry", !.tok = tok, !.todo = {host}]
    BY <1>0, <1>8 DEF RetryMatching, Call
  <2> QED BY <1>3, <2>1 DEF IdleHandler
<1> QED BY <1>2, <1>4, <1>5, <1>6, <1>7, <1>8 DEF HandlerCall

\* A step of a call, or of its replay, advances it; the others leave it where it is.
LEMMA CallGoesOn ==
    ASSUME Shaped, Typed, LogInv, [Next]_vars, NEW h \in Handler, Going(h)
    PROVE  /\ Going(h)'
           /\ handler[h].pc # "idle" => UNCHANGED <<handler[h], flight[h]>> \/ CallAdvances(h)
<1>0. h \in Flight
  BY DEF Flight
<1>1. CASE Fly(h)
  <2>1. TripAdvances(h) /\ flight[h].pc # "idle" /\ flight'[h].pc # "idle"
    BY <1>0, <1>1, FlyAdvances DEF Begun
  <2>2. UNCHANGED handler
    BY <1>1 DEF Fly, ScanRequest, ReadVault, ReadRules, ReadDomains, DecideFlight,
                applySubstitution, ForwardAnswered, ForwardFailed, ForwardDeadConn, FlightOnly
  <2>3. handler[h].pc = "replay"
    BY <2>1 DEF Going
  <2>4. LoopAdvances(h)
    BY <2>1, <2>2, <2>3 DEF LoopAdvances, QueueAdvances
  <2>5. CallAdvances(h)
    BY <2>2, <2>4 DEF CallAdvances
  <2> QED BY <2>1, <2>2, <2>3, <2>5 DEF Going
<1>2. CASE HandlerStep(h)
  BY <1>2, PartEnds, EntryAdvances, LoopGoesOn DEF HandlerStep
<1>3. CASE HandlerCall(h)
  BY <1>3, CallBegins
<1>4. CASE UNCHANGED <<handler[h], flight[h]>>
  BY <1>4 DEF Going
<1> QED BY <1>1, <1>2, <1>3, <1>4, CallAlone

\* No step sets a request or a call back.
LEMMA NextAdvances ==
    ASSUME Shaped, Typed, LogInv, [Next]_vars, \A h \in Handler : Going(h)
    PROVE  /\ \A h \in Handler : Going(h)'
           /\ \A q \in Req : Begun(q) => UNCHANGED flight[q] \/ TripAdvances(q)
           /\ \A h \in Handler : handler[h].pc # "idle" =>
                UNCHANGED <<handler[h], flight[h]>> \/ CallAdvances(h)
<1>1. ASSUME NEW q \in Req, Begun(q) PROVE UNCHANGED flight[q] \/ TripAdvances(q)
  <2>1. q \in Flight
    BY DEF Flight
  <2> QED BY <1>1, <2>1, RequestAlone, FlyAdvances, RequestAdvances
<1> QED BY <1>1, CallGoesOn

\* Every request that was let in and every control-plane call only goes towards
\* its end: what is left of it goes down with each step it takes and is out of
\* reach of everybody else's steps.
THEOREM NothingStartsOverHolds == Spec => NothingStartsOver
<1> DEFINE I == \A h \in Handler : Going(h)
           A == /\ \A q \in Req : Begun(q) => UNCHANGED flight[q] \/ TripAdvances(q)
                /\ \A h \in Handler : handler[h].pc # "idle" =>
                     UNCHANGED <<handler[h], flight[h]>> \/ CallAdvances(h)
<1>1. Init => I
  BY EgressAssumption DEF Init, IdleFlight, IdleHandler, Flight, Going
<1>2. Shaped /\ Typed /\ LogInv /\ I /\ [Next]_vars => I' /\ A
  BY NextAdvances
<1>3. Sound => Shaped
  BY DEF Sound
<1>4. A => [A]_vars
  OBVIOUS
<1> QED BY <1>1, <1>2, <1>3, InitTyped, NextTyped, NextLog, LogHolds, FlightsSound, PTL
        DEF Spec, NothingStartsOver

-----------------------------------------------------------------------------
(***************************************************************************)
(* The log implements RequestLog.  A row that comes in is in front of the  *)
(* old ones, as many as the log has room for; what was on offer and is     *)
(* still shown stays on offer, since a request has one row.                *)
(***************************************************************************)
\* What is shown after a row has come in.
LEMMA ShownInFront ==
    ASSUME LogInv, NEW rec \in Row, ring' = Truncate(<<rec>> \o ring)
    PROVE  Shown' = Log!InFront(rec.id)
<1> USE EgressAssumption
<1> DEFINE u == <<rec>> \o ring
           v == <<rec.id>> \o Shown
           n == IF Len(ring) < MaxLog THEN Len(ring) + 1 ELSE MaxLog
<1>1. ring \in Seq(Row) /\ Len(ring) \in Nat
  BY DEF LogInv, RingInv
<1>2. /\ Shown \in Seq(Req \cup {NoReq}) /\ Len(Shown) = Len(ring)
      /\ \A i \in 1 .. Len(ring) : Shown[i] = ring[i].id
  <2>1. DOMAIN ring = 1 .. Len(ring) /\ \A i \in 1 .. Len(ring) : ring[i] \in Row
    BY <1>1
  <2>2. Shown = [i \in 1 .. Len(ring) |-> ring[i].id]
    BY <2>1 DEF Shown
  <2>3. \A i \in 1 .. Len(ring) : ring[i].id \in Req \cup {NoReq}
    BY <2>1 DEF Row
  <2> QED BY <1>1, <2>2, <2>3
<1>3. /\ u \in Seq(Row) /\ Len(u) = Len(ring) + 1
      /\ \A i \in 1 .. Len(ring) + 1 : u[i] = IF i = 1 THEN rec ELSE ring[i - 1]
  BY <1>1
<1>4. rec.id \in Req \cup {NoReq}
  BY DEF Row
<1>5. /\ v \in Seq(Req \cup {NoReq}) /\ Len(v) = Len(ring) + 1
      /\ \A i \in 1 .. Len(ring) + 1 : v[i] = IF i = 1 THEN rec.id ELSE Shown[i - 1]
  <2> HIDE DEF Shown
  <2> QED BY <1>1, <1>2, <1>4
<1>6. n \in 0 .. Len(ring) + 1
  BY <1>1
<1>7. ring' = SubSeq(u, 1, n)
  BY <1>1, <1>3 DEF Truncate
<1>8. Log!InFront(rec.id) = SubSeq(v, 1, n)
  BY <1>2 DEF Log!InFront
<1> HIDE DEF u, v, n
<1>9. /\ ring' \in Seq(Row) /\ Len(ring') = n /\ \A i \in 1 .. n : ring'[i] = u[i]
  <2>1. /\ SubSeq(u, 1, n) \in Seq(Row) /\ Len(SubSeq(u, 1, n)) = n
        /\ \A i \in 1 .. n : SubSeq(u, 1, n)[i] = u[i]
    BY <1>3, <1>6, SubSeqProperties
  <2> QED BY <1>7, <2>1
<1>10. /\ SubSeq(v, 1, n) \in Seq(Req \cup {NoReq}) /\ Len(SubSeq(v, 1, n)) = n
       /\ \A i \in 1 .. n : SubSeq(v, 1, n)[i] = v[i]
  BY <1>5, <1>6, SubSeqProperties
<1>11. ASSUME NEW i \in 1 .. n PROVE u[i].id = v[i]
  <2>1. i \in 1 .. Len(ring) + 1 /\ (i # 1 => i - 1 \in 1 .. Len(ring))
    BY <1>1, <1>6
  <2>2. u[i] = (IF i = 1 THEN rec ELSE ring[i - 1])
    BY <1>3, <2>1
  <2>3. v[i] = (IF i = 1 THEN rec.id ELSE Shown[i - 1])
    BY <1>5, <2>1
  <2>4. i # 1 => Shown[i - 1] = ring[i - 1].id
    BY <1>2, <2>1
  <2> QED BY <2>2, <2>3, <2>4
<1>12. DOMAIN ring' = 1 .. n
  BY <1>9
<1>13. Shown' = [i \in 1 .. n |-> v[i]]
  BY <1>9, <1>11, <1>12 DEF Shown
<1>14. SubSeq(v, 1, n) = [i \in 1 .. n |-> v[i]]
  BY <1>10
<1> QED BY <1>8, <1>13, <1>14

\* What is on offer after a row has come in.
LEMMA OfferedInFront ==
    ASSUME LogInv, NEW rec \in Row, ~InRing(rec.id), ring' = Truncate(<<rec>> \o ring)
    PROVE  Offered' = (Offered \cup (IF rec.retryable THEN {rec.id} ELSE {}))
                        \cap Log!Rows(Shown')
<1>1. /\ DOMAIN ring' \subseteq Nat /\ 1 \in DOMAIN ring'
      /\ \A i \in DOMAIN ring' :
            \/ i = 1 /\ ring'[i] = rec
            \/ i # 1 /\ i - 1 \in DOMAIN ring /\ ring'[i] = ring[i - 1]
  <2> DEFINE t == Truncate(<<rec>> \o ring)
  <2>1. ring \in Seq(Row)
    BY DEF LogInv, RingInv
  <2>2. /\ t \in Seq(Row)
        /\ \A i \in DOMAIN t : \/ i = 1 /\ t[i] = rec
                               \/ i # 1 /\ i - 1 \in DOMAIN ring /\ t[i] = ring[i - 1]
    BY <2>1, TruncateShape
  <2>3. 1 \in DOMAIN t
    <3>1. /\ <<rec>> \o ring \in Seq(Row) /\ Len(<<rec>> \o ring) \in Nat \ {0}
      BY <2>1
    <3> DEFINE n == IF Len(<<rec>> \o ring) > MaxLog THEN MaxLog ELSE Len(<<rec>> \o ring)
    <3>2. n \in 1 .. Len(<<rec>> \o ring) /\ t = SubSeq(<<rec>> \o ring, 1, n)
      BY <3>1, EgressAssumption DEF Truncate
    <3> HIDE DEF t, n
    <3>3. Len(t) = n
      BY <3>1, <3>2, SubSeqProperties
    <3> QED BY <2>2, <3>2, <3>3 DEF t
  <2> HIDE DEF t
  <2> QED BY <2>2, <2>3 DEF t
<1>2. Log!Rows(Shown') = {ring'[i].id : i \in DOMAIN ring'}
  BY DEF Log!Rows, Shown
<1>3. \A i \in DOMAIN ring : ring[i].id # rec.id
  BY DEF InRing
<1>4. ASSUME NEW q \in Offered' PROVE q \in Offered \/ (rec.retryable /\ q = rec.id)
  <2>1. PICK j \in DOMAIN ring' : q = ring'[j].id /\ ring'[j].retryable
    BY <1>4 DEF Offered
  <2> QED BY <1>1, <2>1 DEF Offered
<1>5. Offered' \subseteq Log!Rows(Shown')
  BY <1>2 DEF Offered
<1>6. ASSUME NEW q \in Offered, q \in Log!Rows(Shown') PROVE q \in Offered'
  <2>1. PICK i \in DOMAIN ring : q = ring[i].id /\ ring[i].retryable
    BY <1>6 DEF Offered
  <2>2. PICK j \in DOMAIN ring' : q = ring'[j].id
    BY <1>2, <1>6
  <2>3. ring'[j] = ring[i]
    BY <1>1, <1>3, <2>1, <2>2 DEF LogInv, RingInv
  <2> QED BY <2>1, <2>2, <2>3 DEF Offered
<1>7. rec.retryable => rec.id \in Offered'
  BY <1>1 DEF Offered
<1> QED BY <1>4, <1>5, <1>6, <1>7

\* The requests under way and those that have ended, when only q moves.
LEMMA OneMoves ==
    ASSUME NEW q \in Req, \A r \in Req \ {q} : flight'[r] = flight[r]
    PROVE  /\ Inside' = IF Begun(q)' THEN Inside \cup {q} ELSE Inside \ {q}
           /\ Over' = IF flight'[q].pc = "done" THEN Over \cup {q} ELSE Over \ {q}
<1>1. \A r \in Req : r # q => (r \in Inside' <=> r \in Inside) /\ (r \in Over' <=> r \in Over)
  BY DEF Inside, Over, Begun
<1>2. (q \in Inside' <=> Begun(q)') /\ (q \in Over' <=> flight'[q].pc = "done")
  BY DEF Inside, Over
<1>3. Inside \subseteq Req /\ Over \subseteq Req /\ Inside' \subseteq Req /\ Over' \subseteq Req
  BY DEF Inside, Over
<1> HIDE DEF Inside, Over
<1> QED BY <1>1, <1>2, <1>3

\* A request ends with its row.
LEMMA RowEnters ==
    ASSUME LogInv, NEW q \in Req, \A r \in Req \ {q} : flight'[r] = flight[r],
           flight[q].pc # "done", flight'[q].pc = "done",
           NEW rec \in Row, rec.id = q, ring' = Truncate(<<rec>> \o ring)
    PROVE  Log!Next
<1>1. ~InRing(q)
  BY DEF LogInv, RingInv, InRing
<1>2. Shown' = Log!InFront(q)
  BY ShownInFront
<1>3. \E offer \in SUBSET {q} : Offered' = (Offered \cup offer) \cap Log!Rows(Shown')
  <2>1. Offered' = (Offered \cup (IF rec.retryable THEN {q} ELSE {})) \cap Log!Rows(Shown')
    BY <1>1, OfferedInFront
  <2>2. (IF rec.retryable THEN {q} ELSE {}) \in SUBSET {q}
    OBVIOUS
  <2> QED BY <2>1, <2>2
<1>4. Inside' = Inside \ {q} /\ Over' = Over \cup {q} /\ q \notin Over
  BY OneMoves DEF Begun, Over
<1>5. Log!Enter(q)
  BY <1>2, <1>3, <1>4 DEF Log!Enter
<1> QED BY <1>5 DEF Log!Next

\* No request moves and no row comes or goes; some may no longer offer a retry.
LEMMA RowsSettle ==
    ASSUME DOMAIN ring' = DOMAIN ring, \A r \in Req : flight'[r] = flight[r],
           \A i \in DOMAIN ring : /\ ring'[i].id = ring[i].id
                                  /\ ring'[i].retryable => ring[i].retryable
    PROVE  Log!Next
<1>1. Shown' = Shown /\ Offered' \subseteq Offered
  BY DEF Shown, Offered
<1>2. UNCHANGED <<Inside, Over>>
  BY DEF Inside, Over, Begun
<1> QED BY <1>1, <1>2 DEF Log!Next, Log!Settle
\* The steps of a trip: a request is still under way after them.
LEMMA FlyLogs ==
    ASSUME Shaped, LogInv, NEW f \in Flight, Fly(f)
    PROVE  Log!Next
<1>1. /\ UNCHANGED ring
      /\ \A g \in Flight \ {f} : flight'[g] = flight[g]
  BY DEF Shaped, Fly, ScanRequest, ReadVault, ReadRules, ReadDomains, DecideFlight,
         applySubstitution, ForwardAnswered, ForwardFailed, ForwardDeadConn, Goto, FlightOnly
<1>2. Begun(f) /\ Begun(f)'
  BY FlyAdvances
<1>3. \A r \in Req : (Begun(r)' <=> Begun(r)) /\ (flight'[r].pc = "done" <=> flight[r].pc = "done")
  BY <1>1, <1>2 DEF Begun, Flight
<1>4. UNCHANGED <<Inside, Over, Shown, Offered>>
  BY <1>1, <1>3 DEF Inside, Over, Shown, Offered
<1> QED BY <1>4 DEF Log!Next, Log!Settle

\* The steps of a request.
LEMMA RequestShows ==
    ASSUME Shaped, LogInv, NEW q \in Req, RequestStep(q)
    PROVE  [Log!Next]_(Log!log)
<1>0. q \in Flight /\ Req \subseteq Flight
  BY DEF Flight
<1>1. \A r \in Req \ {q} : flight'[r] = flight[r]
  BY <1>0 DEF Shaped, RequestStep, BeginRequest, KillSwitchRefused, Rescan, BlockRequest,
              LogOutcome, Connect, ConnectRefused, ConnectUnresolved, ReadyToProcess, Goto
<1>2. FlightRow(q) /\ NoRec \in Row
  BY <1>0 DEF LogInv, NoRec, Row
<1>3. CASE /\ UNCHANGED ring
           /\ \/ Begun(q) /\ Begun(q)'
              \/ flight[q].pc = "idle" /\ flight'[q].pc = "open"
  <2>1. \A r \in Req : /\ (Begun(r)' <=> Begun(r))
                        /\ (flight'[r].pc = "done" <=> flight[r].pc = "done")
    BY <1>1, <1>3 DEF Begun
  <2>2. UNCHANGED <<Inside, Over, Shown, Offered>>
    BY <1>3, <2>1 DEF Inside, Over, Shown, Offered
  <2> QED BY <2>2 DEF Log!Next, Log!Settle
<1>4. CASE Connect(q)
  <2>1. UNCHANGED ring /\ flight[q].pc = "idle" /\ flight'[q].pc = "open"
    BY <1>0, <1>4 DEF Connect, Goto, FlightOnly, Shaped, IsRecord
  <2> QED BY <1>3, <2>1
<1>5. CASE Rescan(q)
  <2>1. UNCHANGED ring /\ flight[q].pc = "rescan" /\ flight[q].dec.action \in Action
    BY <1>2, <1>5 DEF Rescan, FlightOnly, FlightRow
  <2>2. flight'[q].pc = AfterDecision(q, flight[q].dec.action)
    BY <1>0, <1>5 DEF Rescan, Shaped, IsRecord
  <2>3. Begun(q) /\ Begun(q)'
    BY <2>1, <2>2 DEF Begun, AfterDecision, Action
  <2> QED BY <1>3, <2>1, <2>3
<1>6. CASE BeginRequest(q)
  <2>1. UNCHANGED ring /\ flight[q].pc \in {"idle", "open"} /\ flight'[q].pc = "scan"
    BY <1>0, <1>6 DEF BeginRequest, ReadyToProcess, FlightOnly, Shaped, IsRecord
  <2>2. Inside' = Inside \cup {q} /\ Over' = Over /\ q \notin Inside \cup Over
    BY <1>1, <2>1, OneMoves DEF Begun, Inside, Over
  <2>3. UNCHANGED <<Shown, Offered>>
    BY <2>1 DEF Shown, Offered
  <2> QED BY <2>2, <2>3 DEF Log!Next, Log!LetIn
<1>7. CASE ConnectUnresolved(q)
  <2>1. UNCHANGED ring /\ flight[q].pc = "idle" /\ flight'[q].pc = "done"
    BY <1>0, <1>7 DEF ConnectUnresolved, Goto, FlightOnly, Shaped, IsRecord
  <2>2. Inside' = Inside /\ Over' = Over \cup {q} /\ q \notin Inside \cup Over
    BY <1>1, <2>1, OneMoves DEF Begun, Inside, Over
  <2>3. UNCHANGED <<Shown, Offered>>
    BY <2>1 DEF Shown, Offered
  <2> QED BY <2>2, <2>3 DEF Log!Next, Log!Vanish
<1>8. CASE BlockRequest(q)
  <2>1. /\ ring' = Truncate(<<flight[q].rec>> \o ring)
        /\ flight[q].pc = "block" /\ flight'[q].pc = "done"
    BY <1>0, <1>8 DEF BlockRequest, AppendLog, Shaped, IsRecord, IdleFlight
  <2>2. flight[q].rec \in Row /\ flight[q].rec.id = q
    BY <1>0, <1>2, <2>1 DEF FlightRow, RowSound
  <2>3. Log!Next
    BY <1>1, <2>1, <2>2, RowEnters
  <2> QED BY <2>3
<1>9. CASE LogOutcome(q)
  <2> DEFINE row == [flight[q].rec EXCEPT
                        !.action = IF flight[q].pc = "failed" THEN "block" ELSE @]
  <2>1. /\ ring' = Truncate(<<row>> \o ring)
        /\ flight[q].pc \in {"answered", "failed"} /\ flight'[q].pc = "done"
    BY <1>0, <1>9 DEF LogOutcome, AppendLog, Shaped, IsRecord, IdleFlight
  <2>2. row \in Row /\ row.id = q
    BY <1>0, <1>2, <2>1 DEF FlightRow, RowSound, Row
  <2> HIDE DEF row
  <2>3. Log!Next
    BY <1>1, <2>1, <2>2, RowEnters
  <2> QED BY <2>3
<1>10. CASE KillSwitchRefused(q) \/ ConnectRefused(q)
  <2>1. /\ ring' = Truncate(<<RefusalRow(q)>> \o ring)
        /\ flight[q].pc \in {"idle", "open"} /\ flight'[q].pc = "done"
    BY <1>0, <1>10 DEF KillSwitchRefused, ConnectRefused, ReadyToProcess, AppendLog, Goto, Shaped,
                       IsRecord
  <2>2. RefusalRow(q) \in Row /\ RefusalRow(q).id = q
    BY DEF RefusalRow, NoRec, Row
  <2>3. Log!Next
    BY <1>1, <2>1, <2>2, RowEnters
  <2> QED BY <2>3
<1> QED BY <1>4, <1>5, <1>6, <1>7, <1>8, <1>9, <1>10 DEF RequestStep

\* An answered replay settles its row, or brings it back without an offer.
LEMMA ReplayShows ==
    ASSUME Shaped, LogInv, NEW h \in Handler, ReplayDone(h),
           \A r \in Req : flight'[r] = flight[r]
    PROVE  Log!Next
<1> DEFINE rec == [flight[h].rec EXCEPT !.action = flight[h].dec.action, !.retryable = FALSE]
<1>1. h \in Flight /\ h \notin Req
  BY EgressAssumption DEF Flight
<1>2. flight[h].pc = "answered" /\ ReplayUpdate(rec)
  BY DEF ReplayDone
<1>3. rec \in Row /\ ~rec.retryable /\ rec.id \in Req /\ flight[rec.id].pc = "done"
  <2>1. FlightRow(h)
    BY <1>1 DEF LogInv
  <2>2. rec \in Row /\ ~rec.retryable /\ rec.id = flight[h].rec.id
    BY <1>2, <2>1 DEF FlightRow, RowSound, Row, Action
  <2> QED BY <1>1, <1>2, <2>1, <2>2 DEF FlightRow
<1> HIDE DEF rec
<1>4. CASE InRing(rec.id)
  <2>1. ring' = [i \in DOMAIN ring |-> IF ring[i].id = rec.id THEN rec ELSE ring[i]]
    BY <1>2, <1>4 DEF ReplayUpdate
  <2>2. /\ DOMAIN ring' = DOMAIN ring
        /\ \A i \in DOMAIN ring : /\ ring'[i].id = ring[i].id
                                  /\ ring'[i].retryable => ring[i].retryable
    BY <1>3, <2>1
  <2> QED BY <2>2, RowsSettle
<1>5. CASE ~InRing(rec.id)
  <2>1. ring' = Truncate(<<rec>> \o ring)
    BY <1>2, <1>5 DEF ReplayUpdate
  <2>2. Shown' = Log!InFront(rec.id)
    BY <1>3, <2>1, ShownInFront
  <2>3. Offered' = Offered \cap Log!Rows(Shown')
    BY <1>3, <1>5, <2>1, OfferedInFront
  <2>4. rec.id \in Over /\ rec.id \notin Log!Rows(Shown)
    BY <1>3, <1>5 DEF Over, Shown, InRing, Log!Rows
  <2>5. UNCHANGED <<Inside, Over>>
    BY DEF Inside, Over, Begun
  <2>6. Log!Return(rec.id)
    BY <2>2, <2>3, <2>4, <2>5 DEF Log!Return
  <2> QED BY <1>3, <2>6 DEF Log!Next
<1> QED BY <1>4, <1>5

\* The steps of a call.
LEMMA CallShows ==
    ASSUME Shaped, LogInv, NEW h \in Handler, HandlerStep(h) \/ HandlerCall(h)
    PROVE  Log!Next
<1>1. \A r \in Req : flight'[r] = flight[r]
  BY CallsMoveNoRequest
<1>2. CASE ReplayDone(h)
  BY <1>1, <1>2, ReplayShows
<1>3. CASE MarkAllowed(h)
  <2>1. DOMAIN ring' = DOMAIN ring
    BY <1>3 DEF MarkAllowed, ApplyAllowedException
  <2>2. ASSUME NEW i \in DOMAIN ring
        PROVE  ring'[i].id = ring[i].id /\ (ring'[i].retryable => ring[i].retryable)
    <3>1. \/ ring'[i] = ring[i]
          \/ ring'[i] = [ring[i] EXCEPT !.action = "allow", !.retryable = FALSE]
      BY <1>3 DEF MarkAllowed, ApplyAllowedException
    <3>2. ring[i] \in Row
      BY DEF LogInv, RingInv, RowSound
    <3> QED BY <3>1, <3>2 DEF Row
  <2> QED BY <1>1, <2>1, <2>2, RowsSettle
<1>4. CASE UNCHANGED ring
  BY <1>1, <1>4, RowsSettle
<1> QED
  BY <1>2, <1>3, <1>4
     DEF HandlerStep, HandlerCall, ReplaceSecret, SyncRulesForSecret, TakeEntry,
         ResolveAddSecret, SetEnvKey, ResolveAddRule, ExceptAdd, Match, Pop, ReplayError,
         NextHost, NextEntry, Return, PostSecret, PutSecret, Resolve, Except, RetryMatching,
         Retry

\* The log of the proxy is a RequestLog: every step of any thread is one of its
\* steps, or none.
THEOREM LogKeepsItsPromise == Spec => ImplementsRequestLog
<1>1. Init => Log!Init
  <2> SUFFICES ASSUME Init PROVE Log!Init
    OBVIOUS
  <2>1. ring = <<>> /\ \A q \in Req : flight[q].pc = "idle"
    BY DEF Init, Flight, IdleFlight
  <2>2. Inside = {} /\ Over = {}
    BY <2>1 DEF Inside, Over, Begun
  <2>3. Shown = <<>> /\ Offered = {}
    BY <2>1 DEF Shown, Offered
  <2> QED BY <2>2, <2>3 DEF Log!Init
<1>2. Shaped /\ LogInv /\ [Next]_vars => [Log!Next]_(Log!log)
  <2> SUFFICES ASSUME Shaped, LogInv, [Next]_vars PROVE [Log!Next]_(Log!log)
    OBVIOUS
  <2>1. CASE OperatorCall \/ UNCHANGED vars
    <3>1. UNCHANGED <<ring, flight>>
      BY <2>1 DEF OperatorCall, OneCall, DeleteSecret, AddRule, DeleteRule, UpsertDomain,
                  AddException, DeleteException, SetWorkerInternet, vars
    <3>2. Log!Next
      BY <3>1, RowsSettle
    <3> QED BY <3>2
  <2>2. ASSUME NEW f \in Flight, Fly(f) PROVE Log!Next
    BY <2>2, FlyLogs
  <2>3. ASSUME NEW q \in Req, RequestStep(q) PROVE [Log!Next]_(Log!log)
    BY <2>3, RequestShows
  <2>4. ASSUME NEW h \in Handler, HandlerStep(h) \/ HandlerCall(h) PROVE Log!Next
    BY <2>4, CallShows
  <2> QED BY <2>1, <2>2, <2>3, <2>4 DEF Next
<1>3. Sound => Shaped
  BY DEF Sound
<1> QED BY <1>1, <1>2, <1>3, LogHolds, FlightsSound, PTL
        DEF Spec, ImplementsRequestLog, Log!Spec
=============================================================================
