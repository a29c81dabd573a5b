-------------------------------- MODULE Feed --------------------------------
(***************************************************************************)
(* The activity feed (server/worker.go, store/activity.go): workers post   *)
(* rows to a database table and take their own back, while the feed is     *)
(* read.  One read (GET /worker/activities?active=span) asks the table     *)
(* three times, and rows come and go in between: the rows of the project,  *)
(* the rows aimed at it, and the caller's own judgements.  What it shows   *)
(* is merged, windowed and fused from the three answers.                   *)
(*                                                                         *)
(* A row is [id, worker, kind, text, target, ts].  Kind "started" is the   *)
(* note "session started", the kinds the feed does not tell apart are      *)
(* "note".  Each worker has a slug of its own, so the worker stands for    *)
(* both.  Rows are stamped from the wall clock before they are written,    *)
(* so they come in any order of their stamps.                              *)
(***************************************************************************)
EXTENDS Integers, Sequences

CONSTANTS
    Reporter,       \* workers, and their slugs
    Monitor,        \* the project manager's worker
    NoTarget,
    Text,
    Report,         \* the bodies of POST, with what the feed tells apart
    Time,           \* stamps
    activeSpanGap,  \* the largest gap inside one working run
    Get,            \* reads that may be under way at one time
    Limit,          \* limits a read may ask for
    LogLength       \* bound: rows ever posted

ASSUME FeedAssumption ==
    /\ Monitor \in Reporter /\ NoTarget \notin Reporter
    /\ Report \subseteq [kind : {"active", "started", "note"}, text : Text,
                         target : Reporter \cup {NoTarget}]
    /\ Time \subseteq Int /\ activeSpanGap \in Nat
    /\ Limit \subseteq Nat \ {0} /\ LogLength \in Nat

VARIABLES
    log,        \* the table
    posted,     \* rows ever posted; the next id
    view,       \* view[g]: a read, with what it has so far
    stood,      \* history, stood[g]: the rows in the table ever since the read began
    came        \* history, came[g]: the rows in the table at some moment between the queries

feedVars == <<log, posted, view, stood, came>>

Row == [id : 1 .. LogLength, worker : Reporter, kind : {"active", "started", "note"},
        text : Text, target : Reporter \cup {NoTarget}, ts : Time]

-----------------------------------------------------------------------------
(* Queries and the merge.                                                   *)

Shows(s, r) == \E i \in 1 .. Len(s) : s[i] = r

\* No row twice, newer rows first.
NewestFirst(s) == \A i, j \in 1 .. Len(s) : i < j => s[i] # s[j] /\ s[i].ts >= s[j].ts

\* As many of the rows as the limit allows; those left out are older, or as old.
LeavesOlder(s, rows, limit) ==
    /\ Len(s) = limit \/ \A r \in rows : Shows(s, r)
    /\ \A r \in rows : Shows(s, r) \/ \A i \in 1 .. Len(s) : r.ts <= s[i].ts

\* WHERE ... ORDER BY ts DESC LIMIT: the possible answers.  Rows of one millisecond come in any
\* order, and any of them may be cut off.
QueryActivities(rows, limit) ==
    {s \in UNION {[1 .. n -> rows] : n \in 0 .. limit} :
        NewestFirst(s) /\ LeavesOlder(s, rows, limit)}

\* A slip: the merged rows are not cut.
CutNone(s, limit) == s

Cut(s, limit) == IF Len(s) > limit THEN SubSeq(s, 1, limit) ELSE s

\* A slip: a row that matches both queries is shown twice.
AddAlways(out, r) == Append(out, r)

\* A row that matches both queries, aimed at its own project, is shown once.
AddUnseen(out, r) ==
    IF \E i \in 1 .. Len(out) : out[i].id = r.id THEN out ELSE Append(out, r)

\* One turn of the loop: the next row is own's unless aimed has a newer one.
MergeStep(own, aimed, m) ==
    IF m.j > Len(aimed) \/ (m.i <= Len(own) /\ own[m.i].ts >= aimed[m.j].ts)
    THEN [i |-> m.i + 1, j |-> m.j, out |-> AddUnseen(m.out, own[m.i])]
    ELSE [i |-> m.i, j |-> m.j + 1, out |-> AddUnseen(m.out, aimed[m.j])]

Merge(own, aimed) ==
    LET turn[n \in 0 .. Len(own) + Len(aimed)] ==
            IF n = 0 THEN [i |-> 1, j |-> 1, out |-> <<>>]
            ELSE MergeStep(own, aimed, turn[n - 1])
    IN  turn[Len(own) + Len(aimed)].out

Track(own, aimed, limit) ==
    IF aimed = <<>> THEN own ELSE Cut(Merge(own, aimed), limit)

-----------------------------------------------------------------------------
(* What is shown.                                                           *)

\* The rows at those places, in their order.
Keep(s, places) ==
    LET out[n \in 0 .. Len(s)] ==
            IF n = 0 THEN <<>>
            ELSE IF n \in places THEN Append(out[n - 1], s[n]) ELSE out[n - 1]
    IN  out[Len(s)]

dropSessionStartedNotes(s) == Keep(s, {i \in 1 .. Len(s) : s[i].kind # "started"})

\* When the worker posted rows aimed at whom.  The code keeps the newest time for each target; a
\* row is older than the newest when it is older than one of them.
NewestTsByTarget(worker) == {<<r.target, r.ts>> : r \in {q \in log : q.worker = worker}}

\* A slip: a row is judged when it is older than every judgement.
JudgedByAll(r, last) ==
    LET times == {p[2] : p \in {q \in last : q[1] = r.worker}}
    IN  times # {} /\ \A ts \in times : r.ts < ts

Judged(r, last) == \E p \in last : p[1] = r.worker /\ r.ts < p[2]

\* Rows of a project older than the caller's last row aimed at it are left out.
limitToLastJudgment(s, last) == Keep(s, {i \in 1 .. Len(s) : ~Judged(s[i], last)})

\* A row as it is shown; a working run is one row.
Shown(r) == [row |-> r, beats |-> 1, from |-> r.ts]

\* A slip: the gap is measured from the newest beat of the run.
ExtendsFromNewest(span, r) ==
    /\ span.row.kind = "active" /\ r.kind = "active"
    /\ r.worker = span.row.worker /\ r.text = span.row.text
    /\ span.row.ts - r.ts <= activeSpanGap

Extends(span, r) ==
    /\ span.row.kind = "active" /\ r.kind = "active"
    /\ r.worker = span.row.worker /\ r.text = span.row.text
    /\ span.from - r.ts <= activeSpanGap

\* The next row joins the run before it or is shown for itself.
SpanStep(out, r) ==
    IF out # <<>> /\ Extends(out[Len(out)], r)
    THEN [out EXCEPT ![Len(out)] = [row |-> @.row, beats |-> @.beats + 1, from |-> r.ts]]
    ELSE Append(out, Shown(r))

collapseActiveSpans(s) ==
    LET out[n \in 0 .. Len(s)] == IF n = 0 THEN <<>> ELSE SpanStep(out[n - 1], s[n])
    IN  out[Len(s)]

-----------------------------------------------------------------------------
(* The handlers.                                                            *)

NoView == [pc |-> "idle"]

\* POST: the table numbers the row.
InsertActivity(worker, report, ts) ==
    LET row == [id |-> posted + 1, worker |-> worker, kind |-> report.kind,
                text |-> report.text, target |-> report.target, ts |-> ts]
    IN  /\ posted < LogLength
        /\ posted' = posted + 1
        /\ log' = log \cup {row}
        /\ came' = [g \in Get |-> IF view[g].pc = "aimed" THEN came[g] \cup {row} ELSE came[g]]
        /\ UNCHANGED <<view, stood>>

\* DELETE: a worker takes back a row of its own.
DeleteOwnActivity(worker, row) ==
    /\ row.worker = worker
    /\ log' = log \ {row}
    /\ stood' = [g \in Get |-> stood[g] \ {row}]
    /\ UNCHANGED <<posted, view, came>>

\* The monitor reads every project or one, the others read their own.
Scope(caller) == IF caller = Monitor THEN Reporter \cup {NoTarget} ELSE {caller}

Start(g, caller, slug, limit) ==
    /\ view[g].pc = "idle" /\ slug \in Scope(caller)
    /\ \E acts \in QueryActivities({r \in log : slug \in {r.worker, NoTarget}}, limit) :
          view' = [view EXCEPT ![g] =
                     [pc |-> IF slug = NoTarget THEN "window" ELSE "aimed", caller |-> caller,
                      slug |-> slug, limit |-> limit, acts |-> acts, last |-> {},
                      shown |-> <<>>]]
    /\ stood' = [stood EXCEPT ![g] = log]
    /\ came' = [came EXCEPT ![g] = log]
    /\ UNCHANGED <<log, posted>>

\* The rows aimed at the project.
AskAimed(g) ==
    /\ view[g].pc = "aimed"
    /\ \E aimed \in QueryActivities({r \in log : r.target = view[g].slug}, view[g].limit) :
          view' = [view EXCEPT ![g].pc = "window",
                               ![g].acts = Track(@, aimed, view[g].limit)]
    /\ UNCHANGED <<log, posted, stood, came>>

\* The rest of the handler, with the judgements it has.
AnswerWith(g, last, pc) ==
    /\ view[g].pc = "window"
    /\ LET rows == limitToLastJudgment(dropSessionStartedNotes(view[g].acts), last)
       IN  view' = [view EXCEPT ![g].pc = pc, ![g].last = last,
                                ![g].shown = collapseActiveSpans(rows)]
    /\ came' = [came EXCEPT ![g] = {}]
    /\ UNCHANGED <<log, posted, stood>>

\* The caller's judgements, and the answer.
Answer(g) == AnswerWith(g, NewestTsByTarget(view[g].caller), "shown")

\* The third query fails, and its error is dropped: the answer is given without the judgements.
\* So it is when the caller names the time it wants to read from.
AnswerUnjudged(g) == AnswerWith(g, {}, "unjudged")

\* The answer is sent, and the next read may begin.
Sent(g) ==
    /\ view[g].pc \in {"shown", "unjudged"}
    /\ view' = [view EXCEPT ![g] = NoView]
    /\ stood' = [stood EXCEPT ![g] = {}]
    /\ UNCHANGED <<log, posted, came>>

FeedInit ==
    /\ log = {} /\ posted = 0
    /\ view = [g \in Get |-> NoView]
    /\ stood = [g \in Get |-> {}] /\ came = [g \in Get |-> {}]

FeedNext ==
    \/ \E worker \in Reporter, report \in Report, ts \in Time : InsertActivity(worker, report, ts)
    \/ \E worker \in Reporter, row \in log : DeleteOwnActivity(worker, row)
    \/ \E g \in Get :
          \/ \E caller \in Reporter, slug \in Reporter \cup {NoTarget}, limit \in Limit :
                Start(g, caller, slug, limit)
          \/ AskAimed(g) \/ Answer(g) \/ AnswerUnjudged(g) \/ Sent(g)

FeedSpec == FeedInit /\ [][FeedNext]_feedVars

-----------------------------------------------------------------------------
(* Properties.                                                              *)

View == [pc : {"aimed", "window", "shown", "unjudged"}, caller : Reporter,
         slug : Reporter \cup {NoTarget}, limit : Limit, acts : Seq(Row),
         last : SUBSET ((Reporter \cup {NoTarget}) \X Time),
         shown : Seq([row : Row, beats : Nat, from : Time])]

\* The types of the table and of what a read holds: never more rows than it asked for
\* (handleWorkerGetActivities, server/worker.go).
FeedTypeOK ==
    /\ log \subseteq Row /\ posted \in 0 .. LogLength
    /\ view \in [Get -> View \cup {NoView}]
    /\ \A g \in Get : view[g].pc # "idle" => Len(view[g].acts) <= view[g].limit
    /\ stood \in [Get -> SUBSET Row] /\ came \in [Get -> SUBSET Row]

\* The rows a read is about: all, or the track of one project.
OnTrack(r, slug) == slug \in {r.worker, r.target, NoTarget}

\* Whatever is posted and taken back between the two queries and whatever the limit, their merge is
\* a newest part of the track: no row twice, newest first, only rows that were there; a row that
\* was there all the time is left out only when the limit is reached by rows as new
\* (handleWorkerGetActivities, server/worker.go).
FeedIsNewest ==
    \A g \in Get : view[g].pc = "window" =>
        LET acts   == view[g].acts
            steady == {r \in stood[g] : OnTrack(r, view[g].slug)}
        IN  /\ NewestFirst(acts) /\ LeavesOlder(acts, steady, view[g].limit)
            /\ \A i \in 1 .. Len(acts) : acts[i] \in came[g] /\ OnTrack(acts[i], view[g].slug)

\* A row starts a working run unless it and the row before it are beats of one worker with one
\* text, no further apart than the gap.
StartsRun(rows, i) ==
    \/ i = 1
    \/ rows[i].kind # "active" \/ rows[i - 1].kind # "active"
    \/ rows[i].worker # rows[i - 1].worker \/ rows[i].text # rows[i - 1].text
    \/ rows[i - 1].ts - rows[i].ts > activeSpanGap

Increasing(f) == \A i, j \in DOMAIN f : i < j => f[i] < f[j]

\* The runs of rows, cut at edge: run k is at the places edge[k] to edge[k + 1] - 1, it shows its
\* newest row, counts every beat and begins with the oldest.
RunsAt(shown, rows, edge) ==
    /\ Increasing(edge) /\ edge[1] = 1 /\ edge[Len(shown) + 1] = Len(rows) + 1
    /\ \A i \in 1 .. Len(rows) : StartsRun(rows, i) <=> \E k \in 1 .. Len(shown) : edge[k] = i
    /\ \A k \in 1 .. Len(shown) :
          shown[k] = [row |-> rows[edge[k]], beats |-> edge[k + 1] - edge[k],
                      from |-> rows[edge[k + 1] - 1].ts]

\* What a read shows are the rows of its window that are no session starts and not judged by what
\* the third query answered, in their order, every working run as one row; nothing else is fused
\* or lost (collapseActiveSpans, server/worker.go).
SpansAreRuns ==
    \A g \in Get : view[g].pc \in {"shown", "unjudged"} =>
        LET acts == view[g].acts
            seen == {i \in 1 .. Len(acts) :
                        acts[i].kind # "started" /\ ~Judged(acts[i], view[g].last)}
        IN  \E n \in 0 .. Len(acts) : \E place \in [1 .. n -> 1 .. Len(acts)] :
               /\ Increasing(place)
               /\ \A i \in 1 .. Len(acts) : i \in seen <=> \E k \in 1 .. n : place[k] = i
               /\ \E edge \in [1 .. Len(view[g].shown) + 1 -> 1 .. n + 1] :
                     RunsAt(view[g].shown, [k \in 1 .. n |-> acts[place[k]]], edge)

\* Unless the third query failed or the caller named a time, no beat of what a read shows is older
\* than a judgement of its caller about that project that stood while it read ("the monitor never
\* re-judges history it already acted on", server/worker.go).
NothingRejudged ==
    \A g \in Get : view[g].pc = "shown" =>
        \A k \in 1 .. Len(view[g].shown), q \in stood[g] :
            q.worker = view[g].caller /\ q.target = view[g].shown[k].row.worker =>
                q.ts <= view[g].shown[k].from

=============================================================================
