----------------------------- MODULE FeedProofs -----------------------------
(***************************************************************************)
(* Whatever rows come and go between the queries of a read, what it merges *)
(* is a newest part of its track, and what it shows are the working runs   *)
(* of its unjudged rows.  The module proves first what the loops of the    *)
(* handler compute: a loop is a function of the number of its turns, so it *)
(* has a value at every turn (LoopExists) and what one turn preserves      *)
(* holds of the last (KeepPicks, MergeIs, SpansRun).  TrackNewest is the   *)
(* heart: the merge of the newest rows of two sets, cut at the limit, is a *)
(* newest part of both.  FeedInv then says of every read under way what it *)
(* has after each of its queries.                                          *)
(***************************************************************************)
EXTENDS Feed, FiniteSetTheorems, SequenceTheorems, WellFoundedInduction, TLAPS

-----------------------------------------------------------------------------
(* Loops.                                                                   *)

\* Induction up to N, on a set instead of a formula.
LEMMA UpTo ==
    ASSUME NEW N \in Nat, NEW T, 0 \in T, \A n \in 1 .. N : n - 1 \in T => n \in T
    PROVE  \A n \in 0 .. N : n \in T
<1> DEFINE B == {n \in 0 .. N : n \notin T}
<1> SUFFICES B = {}
  OBVIOUS
<1>1. SUFFICES ASSUME B # {} PROVE FALSE
  OBVIOUS
<1>2. B \subseteq Nat
  OBVIOUS
<1>3. \E x \in B : \A y \in B : ~ (<<y, x>> \in OpToRel(<, Nat))
  <2> HIDE DEF B
  <2> QED BY <1>1, <1>2, NatLessThanWellFounded, WFMin
<1>4. PICK x \in B : \A y \in B : ~ (<<y, x>> \in OpToRel(<, Nat))
  BY <1>3
<1>5. x \in 1 .. N /\ x - 1 \in 0 .. N
  OBVIOUS
<1>6. <<x - 1, x>> \in OpToRel(<, Nat)
  <2>1. x - 1 \in Nat /\ x \in Nat /\ x - 1 < x
    BY <1>5
  <2> QED BY <2>1 DEF OpToRel
<1>7. x - 1 \notin B
  BY <1>4, <1>6
<1>8. x - 1 \in T
  BY <1>5, <1>7
<1>9. x \in T
  BY <1>5, <1>8
<1> QED BY <1>9

\* Each turn of a loop of N turns leads from a state in St[n - 1] to one in St[n].
Turns(N, S, St, s0, step) ==
    /\ N \in Nat /\ s0 \in St[0] /\ \A n \in 0 .. N : St[n] \subseteq S
    /\ \A n \in 1 .. N : \A s \in St[n - 1] : step[<<s, n>>] \in St[n]

\* The states the loop goes through.
IsLoop(f, N, S, St, s0, step) ==
    /\ f \in [0 .. N -> S] /\ f[0] = s0
    /\ \A n \in 1 .. N : f[n] = step[<<f[n - 1], n>>]
    /\ \A n \in 0 .. N : f[n] \in St[n]

\* There are such states.
LEMMA LoopExists ==
    ASSUME NEW N, NEW S, NEW St, NEW s0, NEW step, Turns(N, S, St, s0, step)
    PROVE  \E f : IsLoop(f, N, S, St, s0, step)
<1>0. /\ N \in Nat /\ s0 \in St[0] /\ \A n \in 0 .. N : St[n] \subseteq S
      /\ \A n \in 1 .. N : \A s \in St[n - 1] : step[<<s, n>>] \in St[n]
  BY DEF Turns
<1> DEFINE Is(f, M) == /\ DOMAIN f = 0 .. M /\ f = [n \in 0 .. M |-> f[n]]
                       /\ f[0] = s0 /\ \A n \in 0 .. M : f[n] \in St[n]
                       /\ \A n \in 1 .. M : f[n] = step[<<f[n - 1], n>>]
           T == {M \in 0 .. N : \E f : Is(f, M)}
<1>1. 0 \in T
  <2> DEFINE f == [n \in 0 .. 0 |-> s0]
  <2>1. Is(f, 0)
    BY <1>0
  <2>2. 0 \in 0 .. N
    BY <1>0
  <2> HIDE DEF Is
  <2> QED BY <2>1, <2>2
<1>2. \A M \in 1 .. N : M - 1 \in T => M \in T
  <2> SUFFICES ASSUME NEW M \in 1 .. N, M - 1 \in T PROVE M \in T
    OBVIOUS
  <2>1. PICK f : Is(f, M - 1)
    OBVIOUS
  <2> DEFINE g == [n \in 0 .. M |-> IF n = M THEN step[<<f[M - 1], M>>] ELSE f[n]]
  <2>2. M - 1 \in 0 .. (M - 1) /\ f[M - 1] \in St[M - 1]
    BY <2>1
  <2>3. g[M] \in St[M] /\ g[M] = step[<<g[M - 1], M>>]
    <3>1. step[<<f[M - 1], M>>] \in St[M]
      BY <1>0, <2>2
    <3>2. g[M] = step[<<f[M - 1], M>>] /\ g[M - 1] = f[M - 1]
      BY <2>2
    <3> HIDE DEF g
    <3> QED BY <3>1, <3>2
  <2>4. \A n \in 0 .. (M - 1) : g[n] = f[n]
    OBVIOUS
  <2>5. \A n \in 0 .. M : n = M \/ n \in 0 .. (M - 1)
    OBVIOUS
  <2>6. \A n \in 0 .. M : g[n] \in St[n]
    BY <2>1, <2>3, <2>4, <2>5
  <2>7. \A n \in 1 .. (M - 1) : g[n] = step[<<g[n - 1], n>>]
    <3> SUFFICES ASSUME NEW n \in 1 .. (M - 1) PROVE g[n] = step[<<g[n - 1], n>>]
      OBVIOUS
    <3>1. n \in 0 .. (M - 1) /\ n - 1 \in 0 .. (M - 1)
      OBVIOUS
    <3> QED BY <2>1, <2>4, <3>1
  <2>8. g[0] = s0
    BY <2>1, <2>4
  <2>9. \A n \in 1 .. M : n = M \/ n \in 1 .. (M - 1)
    OBVIOUS
  <2>10. Is(g, M)
    <3>1. DOMAIN g = 0 .. M /\ g = [n \in 0 .. M |-> g[n]]
      OBVIOUS
    <3> HIDE DEF g
    <3> QED BY <3>1, <2>3, <2>6, <2>7, <2>8, <2>9
  <2> HIDE DEF Is
  <2> QED BY <2>10
<1>3. N \in T
  <2> HIDE DEF T
  <2> QED BY <1>0, <1>1, <1>2, UpTo
<1>4. PICK f : Is(f, N)
  BY <1>3
<1>5. f \in [0 .. N -> S]
  BY <1>0, <1>4
<1>6. IsLoop(f, N, S, St, s0, step)
  BY <1>4, <1>5 DEF IsLoop
<1> QED BY <1>6

-----------------------------------------------------------------------------
(* Keep.                                                                    *)

\* out are the rows of s at those places among its first n.
Picks(out, s, places, n) ==
    /\ out \in Seq(Row) /\ Len(out) <= n
    /\ \E place \in [1 .. Len(out) -> 1 .. n] :
          /\ Increasing(place) /\ \A k \in 1 .. Len(out) : out[k] = s[place[k]]
          /\ \A i \in 1 .. n : i \in places <=> \E k \in 1 .. Len(out) : place[k] = i

KeepStep(out, s, places, n) == IF n \in places THEN Append(out, s[n]) ELSE out

\* One turn of the loop.
LEMMA KeepStepPicks ==
    ASSUME NEW s \in Seq(Row), NEW places, NEW n \in 1 .. Len(s), NEW out,
           Picks(out, s, places, n - 1)
    PROVE  Picks(KeepStep(out, s, places, n), s, places, n)
<1>1. PICK place \in [1 .. Len(out) -> 1 .. (n - 1)] :
          /\ Increasing(place) /\ \A k \in 1 .. Len(out) : out[k] = s[place[k]]
          /\ \A i \in 1 .. (n - 1) : i \in places <=> \E k \in 1 .. Len(out) : place[k] = i
  BY DEF Picks
<1>2. out \in Seq(Row) /\ Len(out) <= n - 1 /\ Len(out) \in Nat /\ s[n] \in Row
  BY DEF Picks
<1>i. \A i \in 1 .. n : i = n \/ i \in 1 .. (n - 1)
  OBVIOUS
<1>3. CASE n \in places
  <2> DEFINE l == Len(out) + 1
             new == Append(out, s[n])
             far == [k \in 1 .. l |-> IF k = l THEN n ELSE place[k]]
  <2>1. new \in Seq(Row) /\ Len(new) = l /\ l <= n /\ new[l] = s[n]
    BY <1>2
  <2>2. \A k \in 1 .. Len(out) : new[k] = out[k] /\ far[k] = place[k] /\ k # l
    BY <1>2
  <2>3. \A k \in 1 .. l : k = l \/ k \in 1 .. Len(out)
    BY <1>2
  <2>4. far \in [1 .. l -> 1 .. n] /\ far[l] = n
    BY <1>1, <1>2
  <2> HIDE DEF far, new
  <2>5. Increasing(far)
    <3> SUFFICES ASSUME NEW i \in 1 .. l, NEW j \in 1 .. l, i < j PROVE far[i] < far[j]
      BY <2>4 DEF Increasing
    <3>1. i \in 1 .. Len(out) /\ place[i] \in 1 .. (n - 1) /\ far[i] = place[i]
      BY <1>1, <1>2, <2>2
    <3>2. CASE j = l
      BY <2>4, <3>1, <3>2
    <3>3. CASE j \in 1 .. Len(out)
      BY <1>1, <2>2, <3>1, <3>3 DEF Increasing
    <3> QED BY <2>3, <3>2, <3>3
  <2>6. \A k \in 1 .. l : new[k] = s[far[k]]
    BY <1>1, <2>1, <2>2, <2>3, <2>4
  <2>7. \A i \in 1 .. n : i \in places <=> \E k \in 1 .. l : far[k] = i
    <3> SUFFICES ASSUME NEW i \in 1 .. n
                 PROVE  i \in places <=> \E k \in 1 .. l : far[k] = i
      OBVIOUS
    <3>1. l \in 1 .. l /\ 1 .. Len(out) \subseteq 1 .. l
      BY <1>2
    <3>2. CASE i = n
      BY <1>3, <2>4, <3>1, <3>2
    <3>3. CASE i \in 1 .. (n - 1)
      <4>1. i # n
        BY <3>3
      <4> QED BY <1>1, <2>2, <2>3, <2>4, <3>1, <3>3, <4>1
    <3> QED BY <1>i, <3>2, <3>3
  <2>8. Picks(new, s, places, n)
    BY <2>1, <2>4, <2>5, <2>6, <2>7 DEF Picks
  <2>9. KeepStep(out, s, places, n) = new
    BY <1>3 DEF KeepStep, new
  <2> QED BY <2>8, <2>9
<1>4. CASE n \notin places
  <2>1. place \in [1 .. Len(out) -> 1 .. n]
    BY <1>1
  <2>2. \A k \in 1 .. Len(out) : place[k] # n
    BY <1>1
  <2>3. \A i \in 1 .. n : i \in places <=> \E k \in 1 .. Len(out) : place[k] = i
    BY <1>1, <1>4, <1>i, <2>2
  <2>4. Len(out) <= n
    BY <1>2
  <2>5. Picks(out, s, places, n)
    BY <1>1, <1>2, <2>1, <2>3, <2>4 DEF Picks
  <2> QED BY <1>4, <2>5 DEF KeepStep
<1> QED BY <1>3, <1>4

\* Keep gives the rows at those places, in order.
LEMMA KeepPicks ==
    ASSUME NEW s \in Seq(Row), NEW places
    PROVE  Picks(Keep(s, places), s, places, Len(s))
<1> DEFINE N == Len(s)
           Is(f) == f = [n \in 0 .. N |-> IF n = 0 THEN <<>>
                                          ELSE IF n \in places THEN Append(f[n - 1], s[n])
                                          ELSE f[n - 1]]
           St == [n \in 0 .. N |-> {out \in Seq(Row) : Picks(out, s, places, n)}]
           step == [p \in Seq(Row) \X (1 .. N) |-> KeepStep(p[1], s, places, p[2])]
<1>1. N \in Nat
  OBVIOUS
<1>2. Picks(<<>>, s, places, 0)
  <2> DEFINE none == [k \in 1 .. 0 |-> 0]
             out == <<>>
  <2>1. out \in Seq(Row) /\ Len(out) = 0
    OBVIOUS
  <2>2. none \in [1 .. 0 -> 1 .. 0] /\ Increasing(none)
    BY DEF Increasing
  <2>3. \A i \in 1 .. 0 : FALSE
    OBVIOUS
  <2> HIDE DEF none, out
  <2>4. none \in [1 .. Len(out) -> 1 .. 0] /\ \A k \in 1 .. Len(out) : FALSE
    BY <2>1, <2>2, <2>3
  <2>5. \E place \in [1 .. Len(out) -> 1 .. 0] :
           /\ Increasing(place) /\ \A k \in 1 .. Len(out) : out[k] = s[place[k]]
           /\ \A i \in 1 .. 0 : i \in places <=> \E k \in 1 .. Len(out) : place[k] = i
    BY <2>2, <2>3, <2>4
  <2>6. Len(out) <= 0
    BY <2>1
  <2>7. Picks(out, s, places, 0)
    BY <2>1, <2>5, <2>6, Zenon DEF Picks
  <2> QED BY <2>7 DEF out
<1>3. <<>> \in St[0]
  BY <1>1, <1>2
<1>4. \A n \in 1 .. N : \A out \in St[n - 1] :
         /\ step[<<out, n>>] = KeepStep(out, s, places, n) /\ step[<<out, n>>] \in St[n]
  <2> SUFFICES ASSUME NEW n \in 1 .. N, NEW out \in St[n - 1]
               PROVE  /\ step[<<out, n>>] = KeepStep(out, s, places, n)
                      /\ step[<<out, n>>] \in St[n]
    OBVIOUS
  <2>1. n - 1 \in 0 .. N /\ n \in 0 .. N
    OBVIOUS
  <2>2. out \in Seq(Row) /\ Picks(out, s, places, n - 1)
    BY <2>1
  <2>3. step[<<out, n>>] = KeepStep(out, s, places, n)
    BY <2>2
  <2>4. Picks(KeepStep(out, s, places, n), s, places, n)
    BY <2>2, KeepStepPicks
  <2>5. KeepStep(out, s, places, n) \in Seq(Row)
    BY <2>4 DEF Picks
  <2> QED BY <2>1, <2>3, <2>4, <2>5
<1>5. PICK f \in [0 .. N -> Seq(Row)] :
          /\ f[0] = <<>> /\ \A n \in 1 .. N : f[n] = step[<<f[n - 1], n>>]
          /\ \A n \in 0 .. N : f[n] \in St[n]
  <2>1. \A n \in 1 .. N : \A out \in St[n - 1] : step[<<out, n>>] \in St[n]
    BY <1>4
  <2>2. \A n \in 0 .. N : St[n] \subseteq Seq(Row)
    OBVIOUS
  <2> HIDE DEF N, St, step
  <2>3. Turns(N, Seq(Row), St, <<>>, step)
    BY <1>1, <1>3, <2>1, <2>2 DEF Turns
  <2>4. \E f : IsLoop(f, N, Seq(Row), St, <<>>, step)
    BY <2>3, LoopExists
  <2> QED BY <2>4 DEF IsLoop
<1>6. Is(f)
  <2>1. \A n \in 1 .. N : n - 1 \in 0 .. N
    OBVIOUS
  <2>2. \A n \in 1 .. N : step[<<f[n - 1], n>>] = KeepStep(f[n - 1], s, places, n)
    <3> HIDE DEF St, step
    <3> QED BY <1>4, <1>5, <2>1
  <2>3. \A n \in 0 .. N : n = 0 \/ n \in 1 .. N
    OBVIOUS
  <2> HIDE DEF step, St
  <2> QED BY <1>5, <2>2, <2>3 DEF KeepStep
<1>7. PICK g : Is(g) /\ Keep(s, places) = g[N]
  <2> DEFINE g == CHOOSE h : Is(h)
  <2>1. Is(g)
    <3> HIDE DEF Is
    <3> QED BY <1>6
  <2>2. Keep(s, places) = g[N]
    BY DEF Keep
  <2> HIDE DEF g
  <2> QED BY <2>1, <2>2
<1>8. \A n \in 0 .. N : n \in {m \in 0 .. N : Picks(g[m], s, places, m)}
  <2> DEFINE T == {m \in 0 .. N : Picks(g[m], s, places, m)}
  <2>1. 0 \in T
    BY <1>1, <1>2, <1>7
  <2>2. \A n \in 1 .. N : n - 1 \in T => n \in T
    <3> SUFFICES ASSUME NEW n \in 1 .. N, n - 1 \in T PROVE n \in T
      OBVIOUS
    <3>1. g[n] = KeepStep(g[n - 1], s, places, n)
      <4>1. n \in 0 .. N /\ n # 0
        OBVIOUS
      <4> HIDE DEF T
      <4> QED BY <1>7, <4>1 DEF KeepStep
    <3>2. Picks(g[n - 1], s, places, n - 1)
      OBVIOUS
    <3> QED BY <3>1, <3>2, KeepStepPicks
  <2> HIDE DEF T
  <2>3. \A n \in 0 .. N : n \in T
    BY <1>1, <2>1, <2>2, UpTo
  <2> QED BY <2>3 DEF T
<1>9. N \in 0 .. N
  OBVIOUS
<1> QED BY <1>7, <1>8, <1>9

-----------------------------------------------------------------------------
(* Spans.                                                                   *)

Span == [row : Row, beats : Nat, from : Time]

\* The oldest beat of a span is like its row, and has its time.
Alike(span, r) ==
    /\ span.from = r.ts
    /\ span.row.kind = r.kind /\ span.row.worker = r.worker /\ span.row.text = r.text

\* out are the working runs among the first n rows, cut at edge.
CutAt(out, rows, n, edge) ==
    /\ edge \in [1 .. Len(out) + 1 -> 1 .. n + 1]
    /\ Increasing(edge) /\ edge[1] = 1 /\ edge[Len(out) + 1] = n + 1
    /\ \A i \in 1 .. n : StartsRun(rows, i) <=> \E k \in 1 .. Len(out) : edge[k] = i
    /\ \A k \in 1 .. Len(out) :
          /\ out[k] = [row |-> rows[edge[k]], beats |-> edge[k + 1] - edge[k],
                       from |-> rows[edge[k + 1] - 1].ts]
          /\ Alike(out[k], rows[edge[k + 1] - 1])

Runs(out, rows, n) == out \in Seq(Span) /\ \E edge : CutAt(out, rows, n, edge)

\* A row that extends the last span.
LEMMA RunGoesOn ==
    ASSUME NEW rows \in Seq(Row), NEW n \in 1 .. Len(rows), NEW out \in Seq(Span), NEW edge,
           CutAt(out, rows, n - 1, edge), out # <<>>, ~StartsRun(rows, n)
    PROVE  Runs([out EXCEPT ![Len(out)] = [row |-> @.row, beats |-> @.beats + 1,
                                           from |-> rows[n].ts]], rows, n)
<1> DEFINE l == Len(out)
           last == [row |-> out[l].row, beats |-> out[l].beats + 1, from |-> rows[n].ts]
           new == [out EXCEPT ![l] = last]
           far == [k \in 1 .. l + 1 |-> IF k = l + 1 THEN n + 1 ELSE edge[k]]
<1>1. l \in Nat \ {0} /\ out[l] \in Span /\ rows[n] \in Row
  OBVIOUS
<1>2. last \in Span
  <2>1. out[l].row \in Row /\ out[l].beats \in Nat
    BY <1>1 DEF Span
  <2>2. rows[n].ts \in Time
    BY <1>1 DEF Row
  <2> QED BY <2>1, <2>2 DEF Span
<1>3. new \in Seq(Span) /\ Len(new) = l /\ new[l] = last
      /\ \A k \in 1 .. l : k # l => new[k] = out[k]
  BY <1>1, <1>2
<1>4. /\ edge \in [1 .. l + 1 -> 1 .. n] /\ Increasing(edge) /\ edge[1] = 1 /\ edge[l + 1] = n
      /\ \A i \in 1 .. (n - 1) : StartsRun(rows, i) <=> \E k \in 1 .. l : edge[k] = i
  BY DEF CutAt
<1>5. \A k \in 1 .. l : /\ out[k] = [row |-> rows[edge[k]], beats |-> edge[k + 1] - edge[k],
                                     from |-> rows[edge[k + 1] - 1].ts]
                        /\ Alike(out[k], rows[edge[k + 1] - 1])
  BY DEF CutAt
<1>6. l \in 1 .. l + 1 /\ l + 1 \in 1 .. l + 1 /\ edge[l] < n /\ edge[l] \in 1 .. n
  <2>1. l \in 1 .. l + 1 /\ l + 1 \in 1 .. l + 1 /\ l < l + 1
    BY <1>1
  <2>2. DOMAIN edge = 1 .. l + 1
    BY <1>4
  <2>3. edge[l] < edge[l + 1]
    BY <1>4, <2>1, <2>2 DEF Increasing
  <2> QED BY <1>4, <2>1, <2>3
<1>7. /\ far \in [1 .. l + 1 -> 1 .. n + 1] /\ far[l + 1] = n + 1 /\ far[1] = 1
      /\ \A k \in 1 .. l : far[k] = edge[k] /\ k \in 1 .. l + 1 /\ k + 1 \in 1 .. l + 1
  BY <1>1, <1>4
<1> HIDE DEF far, new, last, l
<1>8. Increasing(far)
  <2> SUFFICES ASSUME NEW i \in 1 .. l + 1, NEW j \in 1 .. l + 1, i < j PROVE far[i] < far[j]
    BY <1>7 DEF Increasing
  <2>1. i \in 1 .. l /\ far[i] = edge[i] /\ edge[i] \in 1 .. n
    BY <1>1, <1>4, <1>7
  <2>2. CASE j = l + 1
    BY <1>7, <2>1, <2>2
  <2>3. CASE j \in 1 .. l
    BY <1>4, <1>7, <2>1, <2>3 DEF Increasing
  <2> QED BY <1>1, <2>2, <2>3
<1>9. \A i \in 1 .. n : StartsRun(rows, i) <=> \E k \in 1 .. l : far[k] = i
  <2> SUFFICES ASSUME NEW i \in 1 .. n
               PROVE  StartsRun(rows, i) <=> \E k \in 1 .. l : far[k] = i
    OBVIOUS
  <2>1. CASE i \in 1 .. (n - 1)
    BY <1>4, <1>7, <2>1
  <2>2. CASE i = n
    <3>1. ASSUME NEW k \in 1 .. l PROVE far[k] # n
      <4>1. k \in 1 .. l + 1 /\ l + 1 \in 1 .. l + 1 /\ k < l + 1
        BY <1>1
      <4>2. edge[k] < edge[l + 1] /\ edge[k] \in 1 .. n
        BY <1>4, <4>1 DEF Increasing
      <4> QED BY <1>4, <1>7, <4>2
    <3> QED BY <2>2, <3>1
  <2> QED BY <2>1, <2>2
<1>10. ~StartsRun(rows, n) /\ n - 1 \in 1 .. Len(rows) /\ rows[n - 1] \in Row
  <2>1. n # 1
    BY DEF StartsRun
  <2>2. n - 1 \in 1 .. Len(rows)
    BY <2>1
  <2> QED BY <2>2
<1>11. \A k \in 1 .. l :
          /\ new[k] = [row |-> rows[far[k]], beats |-> far[k + 1] - far[k],
                       from |-> rows[far[k + 1] - 1].ts]
          /\ Alike(new[k], rows[far[k + 1] - 1])
  <2> SUFFICES ASSUME NEW k \in 1 .. l
               PROVE  /\ new[k] = [row |-> rows[far[k]], beats |-> far[k + 1] - far[k],
                                   from |-> rows[far[k + 1] - 1].ts]
                      /\ Alike(new[k], rows[far[k + 1] - 1])
    OBVIOUS
  <2>1. CASE k = l
    <3>1. far[k] = edge[l] /\ far[k + 1] = n + 1 /\ far[k + 1] - 1 = n
      <4>1. far[l] = edge[l] /\ far[l + 1] = n + 1
        BY <1>7, <2>1
      <4>2. n + 1 - 1 = n
        OBVIOUS
      <4> QED BY <2>1, <4>1, <4>2
    <3>2. out[l] = [row |-> rows[edge[l]], beats |-> n - edge[l], from |-> rows[n - 1].ts]
      BY <1>1, <1>4, <1>5
    <3>3. Alike(out[l], rows[n - 1])
      <4>1. l \in 1 .. l
        BY <1>1
      <4>2. Alike(out[l], rows[edge[l + 1] - 1])
        BY <1>5, <4>1
      <4> QED BY <1>4, <4>2
    <3>4. last = [row |-> rows[edge[l]], beats |-> n + 1 - edge[l], from |-> rows[n].ts]
      <4>1. last = [row |-> out[l].row, beats |-> out[l].beats + 1, from |-> rows[n].ts]
        BY DEF last
      <4>2. out[l].row = rows[edge[l]] /\ out[l].beats = n - edge[l]
        BY <3>2
      <4>3. n - edge[l] + 1 = n + 1 - edge[l]
        BY <1>6
      <4> QED BY <4>1, <4>2, <4>3
    <3>5. last.row = out[l].row /\ last.from = rows[n].ts
      BY DEF last
    <3>6. Alike(last, rows[n])
      BY <1>10, <3>3, <3>5 DEF Alike, StartsRun
    <3>7. new[k] = last /\ far[k + 1] - far[k] = n + 1 - edge[l]
      <4>1. new[k] = last
        BY <1>3, <2>1, Zenon
      <4>2. far[k + 1] - far[k] = n + 1 - edge[l]
        <5> DEFINE a == far[k + 1]
                   b == far[k]
                   c == edge[l]
        <5>1. a = n + 1 /\ b = c /\ n \in Int /\ c \in Int
          BY <1>6, <3>1
        <5> HIDE DEF a, b, c
        <5>2. a - b = n + 1 - c
          BY <5>1
        <5> QED BY <5>2 DEF a, b, c
      <4> QED BY <4>1, <4>2
    <3>8. rows[far[k + 1] - 1] = rows[n] /\ rows[far[k]] = rows[edge[l]]
      BY <3>1
    <3> QED BY <3>4, <3>6, <3>7, <3>8
  <2>2. CASE k # l
    <3>1. k + 1 \in 1 .. l /\ new[k] = out[k] /\ far[k] = edge[k] /\ far[k + 1] = edge[k + 1]
      BY <1>1, <1>3, <1>7, <2>2
    <3> QED BY <1>5, <3>1
  <2> QED BY <2>1, <2>2
<1>12. CutAt(new, rows, n, far)
  BY <1>3, <1>7, <1>8, <1>9, <1>11 DEF CutAt
<1>13. Runs(new, rows, n)
  BY <1>3, <1>12 DEF Runs
<1> QED BY <1>13 DEF new, last, l

\* A row that does not.
LEMMA RunBegins ==
    ASSUME NEW rows \in Seq(Row), NEW n \in 1 .. Len(rows), NEW out \in Seq(Span), NEW edge,
           CutAt(out, rows, n - 1, edge), StartsRun(rows, n)
    PROVE  Runs(Append(out, Shown(rows[n])), rows, n)
<1> DEFINE l == Len(out)
           last == Shown(rows[n])
           new == Append(out, last)
           far == [k \in 1 .. l + 2 |-> IF k = l + 2 THEN n + 1 ELSE edge[k]]
<1>1. l \in Nat /\ rows[n] \in Row
  OBVIOUS
<1>2. last \in Span
  BY <1>1 DEF Span, Row, Shown
<1>3. new \in Seq(Span) /\ Len(new) = l + 1 /\ new[l + 1] = last
      /\ \A k \in 1 .. l : new[k] = out[k]
  BY <1>1, <1>2
<1>4. /\ edge \in [1 .. l + 1 -> 1 .. n] /\ Increasing(edge) /\ edge[1] = 1 /\ edge[l + 1] = n
      /\ \A i \in 1 .. (n - 1) : StartsRun(rows, i) <=> \E k \in 1 .. l : edge[k] = i
  BY DEF CutAt
<1>5. \A k \in 1 .. l : /\ out[k] = [row |-> rows[edge[k]], beats |-> edge[k + 1] - edge[k],
                                     from |-> rows[edge[k + 1] - 1].ts]
                        /\ Alike(out[k], rows[edge[k + 1] - 1])
  BY DEF CutAt
<1>7. /\ far \in [1 .. l + 2 -> 1 .. n + 1] /\ far[l + 2] = n + 1 /\ far[1] = 1
      /\ \A k \in 1 .. l + 1 : far[k] = edge[k] /\ k \in 1 .. l + 2 /\ k + 1 \in 1 .. l + 2
      /\ far[l + 1] = n
  BY <1>1, <1>4
<1> HIDE DEF far, new, last, l
<1>8. Increasing(far)
  <2> SUFFICES ASSUME NEW i \in 1 .. l + 2, NEW j \in 1 .. l + 2, i < j PROVE far[i] < far[j]
    BY <1>7 DEF Increasing
  <2>1. i \in 1 .. l + 1 /\ far[i] = edge[i] /\ edge[i] \in 1 .. n
    BY <1>1, <1>4, <1>7
  <2>2. CASE j = l + 2
    BY <1>7, <2>1, <2>2
  <2>3. CASE j \in 1 .. l + 1
    BY <1>4, <1>7, <2>1, <2>3 DEF Increasing
  <2> QED BY <1>1, <2>2, <2>3
<1>9. \A i \in 1 .. n : StartsRun(rows, i) <=> \E k \in 1 .. l + 1 : far[k] = i
  <2> SUFFICES ASSUME NEW i \in 1 .. n
               PROVE  StartsRun(rows, i) <=> \E k \in 1 .. l + 1 : far[k] = i
    OBVIOUS
  <2>0. \A k \in 1 .. l + 1 : k = l + 1 \/ k \in 1 .. l
    BY <1>1
  <2>1. CASE i \in 1 .. (n - 1)
    <3>1. i # n /\ 1 .. l \subseteq 1 .. l + 1
      BY <1>1, <2>1
    <3>2. (\E k \in 1 .. l + 1 : far[k] = i) <=> \E k \in 1 .. l : edge[k] = i
      BY <1>7, <2>0, <3>1
    <3> QED BY <1>4, <2>1, <3>2
  <2>2. CASE i = n
    <3>1. l + 1 \in 1 .. l + 1
      BY <1>1
    <3> QED BY <1>7, <2>2, <3>1
  <2> QED BY <2>1, <2>2
<1>11. \A k \in 1 .. l + 1 :
          /\ new[k] = [row |-> rows[far[k]], beats |-> far[k + 1] - far[k],
                       from |-> rows[far[k + 1] - 1].ts]
          /\ Alike(new[k], rows[far[k + 1] - 1])
  <2> SUFFICES ASSUME NEW k \in 1 .. l + 1
               PROVE  /\ new[k] = [row |-> rows[far[k]], beats |-> far[k + 1] - far[k],
                                   from |-> rows[far[k + 1] - 1].ts]
                      /\ Alike(new[k], rows[far[k + 1] - 1])
    OBVIOUS
  <2>1. CASE k = l + 1
    <3>1. far[k] = n /\ far[k + 1] = n + 1 /\ far[k + 1] - 1 = n /\ far[k + 1] - far[k] = 1
      <4>1. l + 1 + 1 = l + 2
        BY <1>1
      <4> QED BY <1>7, <2>1, <4>1
    <3>2. new[k] = [row |-> rows[n], beats |-> 1, from |-> rows[n].ts]
      BY <1>3, <2>1 DEF last, Shown
    <3>3. Alike(new[k], rows[n])
      BY <3>2 DEF Alike
    <3> QED BY <3>1, <3>2, <3>3
  <2>2. CASE k \in 1 .. l
    <3>1. k \in 1 .. l + 1 /\ k + 1 \in 1 .. l + 1
      BY <1>1, <2>2
    <3>2. new[k] = out[k] /\ far[k] = edge[k] /\ far[k + 1] = edge[k + 1]
      BY <1>3, <1>7, <2>2, <3>1
    <3> QED BY <1>5, <2>2, <3>2
  <2> QED BY <1>1, <2>1, <2>2
<1>12. CutAt(new, rows, n, far)
  <2>1. Len(new) + 1 = l + 2
    BY <1>1, <1>3
  <2> QED BY <1>3, <1>7, <1>8, <1>9, <1>11, <2>1 DEF CutAt
<1>13. Runs(new, rows, n)
  BY <1>3, <1>12 DEF Runs
<1> QED BY <1>13 DEF new, last, l

\* One turn of the loop.
LEMMA SpanStepRuns ==
    ASSUME NEW rows \in Seq(Row), NEW n \in 1 .. Len(rows), NEW out, Runs(out, rows, n - 1)
    PROVE  Runs(SpanStep(out, rows[n]), rows, n)
<1>1. out \in Seq(Span)
  BY DEF Runs
<1>2. PICK edge : CutAt(out, rows, n - 1, edge)
  BY DEF Runs
<1>3. CASE out = <<>>
  <2>1. edge[1] = 1 /\ edge[1] = n
    BY <1>2, <1>3 DEF CutAt
  <2>2. StartsRun(rows, n)
    BY <2>1 DEF StartsRun
  <2>3. SpanStep(out, rows[n]) = Append(out, Shown(rows[n]))
    BY <1>3 DEF SpanStep
  <2> QED BY <1>1, <1>2, <2>2, <2>3, RunBegins
<1>4. CASE out # <<>>
  <2>1. Len(out) \in 1 .. Len(out) /\ edge[Len(out) + 1] = n
    BY <1>1, <1>2, <1>4 DEF CutAt
  <2>2. Alike(out[Len(out)], rows[n - 1])
    BY <1>2, <2>1 DEF CutAt
  <2>3. n # 1
    <3>1. 1 \in 1 .. Len(out) + 1 /\ Len(out) + 1 \in 1 .. Len(out) + 1 /\ 1 < Len(out) + 1
      BY <1>1, <2>1
    <3>2. edge[1] < edge[Len(out) + 1] /\ edge[1] = 1
      BY <1>2, <3>1 DEF CutAt, Increasing
    <3> QED BY <2>1, <3>2
  <2>4. rows[n] \in Row /\ rows[n - 1] \in Row
    BY <2>3
  <2>5. rows[n].ts \in Int /\ rows[n - 1].ts \in Int
    BY <2>4, FeedAssumption DEF Row
  <2>6. Extends(out[Len(out)], rows[n]) <=> ~StartsRun(rows, n)
    BY <2>2, <2>3, <2>5, FeedAssumption DEF Extends, StartsRun, Alike
  <2>7. CASE StartsRun(rows, n)
    <3>1. SpanStep(out, rows[n]) = Append(out, Shown(rows[n]))
      BY <2>6, <2>7 DEF SpanStep
    <3> QED BY <1>1, <1>2, <2>7, <3>1, RunBegins
  <2>8. CASE ~StartsRun(rows, n)
    <3>1. SpanStep(out, rows[n]) =
             [out EXCEPT ![Len(out)] = [row |-> @.row, beats |-> @.beats + 1,
                                        from |-> rows[n].ts]]
      BY <1>4, <2>6, <2>8 DEF SpanStep
    <3> QED BY <1>1, <1>2, <1>4, <2>8, <3>1, RunGoesOn
  <2> QED BY <2>7, <2>8
<1> QED BY <1>3, <1>4

\* collapseActiveSpans gives the working runs.
LEMMA SpansRun ==
    ASSUME NEW s \in Seq(Row)
    PROVE  Runs(collapseActiveSpans(s), s, Len(s))
<1> DEFINE N == Len(s)
           Is(f) == f = [n \in 0 .. N |-> IF n = 0 THEN <<>> ELSE SpanStep(f[n - 1], s[n])]
           St == [n \in 0 .. N |-> {out \in Seq(Span) : Runs(out, s, n)}]
           step == [p \in Seq(Span) \X (1 .. N) |-> SpanStep(p[1], s[p[2]])]
<1>1. N \in Nat
  OBVIOUS
<1>2. Runs(<<>>, s, 0)
  <2> DEFINE edge == [k \in 1 .. 1 |-> 1]
             out == <<>>
  <2>1. out \in Seq(Span) /\ Len(out) = 0
    OBVIOUS
  <2>2. edge \in [1 .. 1 -> 1 .. 1] /\ Increasing(edge) /\ edge[1] = 1
    BY DEF Increasing
  <2>3. \A i \in 1 .. 0 : FALSE
    OBVIOUS
  <2> HIDE DEF edge, out
  <2>4. edge \in [1 .. Len(out) + 1 -> 1 .. 0 + 1] /\ edge[Len(out) + 1] = 0 + 1
    BY <2>1, <2>2
  <2>5. \A k \in 1 .. Len(out) : FALSE
    BY <2>1, <2>3
  <2>6. CutAt(out, s, 0, edge)
    BY <2>2, <2>3, <2>4, <2>5 DEF CutAt
  <2>7. Runs(out, s, 0)
    BY <2>1, <2>6 DEF Runs
  <2> QED BY <2>7 DEF out
<1>3. <<>> \in St[0]
  BY <1>1, <1>2
<1>4. \A n \in 1 .. N : \A out \in St[n - 1] :
         /\ step[<<out, n>>] = SpanStep(out, s[n]) /\ step[<<out, n>>] \in St[n]
  <2> SUFFICES ASSUME NEW n \in 1 .. N, NEW out \in St[n - 1]
               PROVE  /\ step[<<out, n>>] = SpanStep(out, s[n])
                      /\ step[<<out, n>>] \in St[n]
    OBVIOUS
  <2>1. n - 1 \in 0 .. N /\ n \in 0 .. N
    OBVIOUS
  <2>2. out \in Seq(Span) /\ Runs(out, s, n - 1)
    BY <2>1
  <2>3. step[<<out, n>>] = SpanStep(out, s[n])
    BY <2>2
  <2>4. Runs(SpanStep(out, s[n]), s, n)
    BY <2>2, SpanStepRuns
  <2>5. SpanStep(out, s[n]) \in Seq(Span)
    BY <2>4 DEF Runs
  <2> QED BY <2>1, <2>3, <2>4, <2>5
<1>5. PICK f \in [0 .. N -> Seq(Span)] :
          /\ f[0] = <<>> /\ \A n \in 1 .. N : f[n] = step[<<f[n - 1], n>>]
          /\ \A n \in 0 .. N : f[n] \in St[n]
  <2>1. \A n \in 1 .. N : \A out \in St[n - 1] : step[<<out, n>>] \in St[n]
    BY <1>4
  <2>2. \A n \in 0 .. N : St[n] \subseteq Seq(Span)
    OBVIOUS
  <2> HIDE DEF N, St, step
  <2>3. Turns(N, Seq(Span), St, <<>>, step)
    BY <1>1, <1>3, <2>1, <2>2 DEF Turns
  <2>4. \E f : IsLoop(f, N, Seq(Span), St, <<>>, step)
    BY <2>3, LoopExists
  <2> QED BY <2>4 DEF IsLoop
<1>6. Is(f)
  <2>1. \A n \in 1 .. N : n - 1 \in 0 .. N
    OBVIOUS
  <2>2. \A n \in 1 .. N : step[<<f[n - 1], n>>] = SpanStep(f[n - 1], s[n])
    <3> HIDE DEF St, step
    <3> QED BY <1>4, <1>5, <2>1
  <2>3. \A n \in 0 .. N : n = 0 \/ n \in 1 .. N
    OBVIOUS
  <2> HIDE DEF step, St
  <2> QED BY <1>5, <2>2, <2>3
<1>7. PICK g : Is(g) /\ collapseActiveSpans(s) = g[N]
  <2> DEFINE g == CHOOSE h : Is(h)
  <2>1. Is(g)
    <3> HIDE DEF Is
    <3> QED BY <1>6
  <2>2. collapseActiveSpans(s) = g[N]
    BY DEF collapseActiveSpans
  <2> HIDE DEF g
  <2> QED BY <2>1, <2>2
<1>8. \A n \in 0 .. N : n \in {m \in 0 .. N : Runs(g[m], s, m)}
  <2> DEFINE T == {m \in 0 .. N : Runs(g[m], s, m)}
  <2>1. 0 \in T
    BY <1>1, <1>2, <1>7
  <2>2. \A n \in 1 .. N : n - 1 \in T => n \in T
    <3> SUFFICES ASSUME NEW n \in 1 .. N, n - 1 \in T PROVE n \in T
      OBVIOUS
    <3>1. g[n] = SpanStep(g[n - 1], s[n])
      <4>1. n \in 0 .. N /\ n # 0
        OBVIOUS
      <4> HIDE DEF T
      <4> QED BY <1>7, <4>1
    <3>2. Runs(g[n - 1], s, n - 1)
      OBVIOUS
    <3> QED BY <3>1, <3>2, SpanStepRuns
  <2> HIDE DEF T
  <2>3. \A n \in 0 .. N : n \in T
    BY <1>1, <2>1, <2>2, UpTo
  <2> QED BY <2>3 DEF T
<1>9. N \in 0 .. N
  OBVIOUS
<1> QED BY <1>7, <1>8, <1>9

-----------------------------------------------------------------------------
(* The merge of two queries.                                                *)

\* No two rows of R have one id.
IdsUnique(R) == \A r, q \in R : r.id = q.id => r = q

\* Adding a row that is no newer.
LEMMA AddKeepsNewest ==
    ASSUME NEW R \in SUBSET Row, IdsUnique(R), NEW out \in Seq(R), NewestFirst(out), NEW r \in R,
           \A q \in R : Shows(out, q) => r.ts <= q.ts
    PROVE  /\ AddUnseen(out, r) \in Seq(R) /\ NewestFirst(AddUnseen(out, r))
           /\ \A q \in R : Shows(AddUnseen(out, r), q) <=> Shows(out, q) \/ q = r
<1>1. CASE \E i \in 1 .. Len(out) : out[i].id = r.id
  <2>1. PICK i \in 1 .. Len(out) : out[i].id = r.id
    BY <1>1
  <2>2. out[i] = r
    BY <2>1 DEF IdsUnique
  <2>3. AddUnseen(out, r) = out
    BY <1>1 DEF AddUnseen
  <2> QED BY <2>2, <2>3 DEF Shows
<1>2. CASE ~\E i \in 1 .. Len(out) : out[i].id = r.id
  <2> DEFINE new == Append(out, r)
             l == Len(out) + 1
  <2>1. AddUnseen(out, r) = new
    BY <1>2 DEF AddUnseen
  <2>2. /\ new \in Seq(R) /\ Len(new) = l /\ new[l] = r /\ l \in Nat
        /\ \A k \in 1 .. Len(out) : new[k] = out[k]
    OBVIOUS
  <2>3. \A k \in 1 .. l : k = l \/ k \in 1 .. Len(out)
    OBVIOUS
  <2>4. 1 .. Len(out) \subseteq 1 .. l /\ l \in 1 .. l /\ \A k \in 1 .. Len(out) : k < l
    OBVIOUS
  <2> HIDE DEF new, l
  <2>5. NewestFirst(new)
    <3> SUFFICES ASSUME NEW i \in 1 .. l, NEW j \in 1 .. l, i < j
                 PROVE  new[i] # new[j] /\ new[i].ts >= new[j].ts
      BY <2>2 DEF NewestFirst
    <3>1. i \in 1 .. Len(out) /\ new[i] = out[i] /\ out[i] \in R
      <4>1. i # l
        BY <2>2
      <4> QED BY <2>2, <2>3, <4>1
    <3>2. CASE j = l
      <4>1. Shows(out, out[i])
        BY <3>1 DEF Shows
      <4>2. r.ts <= out[i].ts /\ r.ts \in Int /\ out[i].ts \in Int
        BY <3>1, <4>1, FeedAssumption DEF Row
      <4> QED BY <1>2, <2>2, <3>1, <3>2, <4>2
    <3>3. CASE j \in 1 .. Len(out)
      BY <2>2, <3>1, <3>3 DEF NewestFirst
    <3> QED BY <2>3, <3>2, <3>3
  <2>6. \A q \in R : Shows(new, q) <=> Shows(out, q) \/ q = r
    BY <2>2, <2>3, <2>4 DEF Shows
  <2> QED BY <2>1, <2>2, <2>5, <2>6
<1> QED BY <1>1, <1>2

Taken(q, own, aimed, m) ==
    \/ \E a \in 1 .. m.i - 1 : own[a] = q
    \/ \E b \in 1 .. m.j - 1 : aimed[b] = q

\* After n turns: the rows taken are out, newest first, and those to come are no newer.
Merging(m, R, own, aimed, n) ==
    /\ m \in [i : 1 .. Len(own) + 1, j : 1 .. Len(aimed) + 1, out : Seq(R)]
    /\ m.i + m.j = n + 2 /\ NewestFirst(m.out)
    /\ \A q \in R : Shows(m.out, q) <=> Taken(q, own, aimed, m)
    /\ \A q \in R : Shows(m.out, q) =>
          /\ \A a \in m.i .. Len(own) : own[a].ts <= q.ts
          /\ \A b \in m.j .. Len(aimed) : aimed[b].ts <= q.ts

\* A turn that takes the next row of one side.
LEMMA TakesOwn ==
    ASSUME NEW R \in SUBSET Row, IdsUnique(R), NEW own \in Seq(R), NEW aimed \in Seq(R),
           NewestFirst(own), NewestFirst(aimed), NEW n \in Nat, NEW m,
           Merging(m, R, own, aimed, n - 1), m.i \in 1 .. Len(own),
           m.j \in 1 .. Len(aimed) => aimed[m.j].ts <= own[m.i].ts
    PROVE  Merging([i |-> m.i + 1, j |-> m.j, out |-> AddUnseen(m.out, own[m.i])],
                   R, own, aimed, n)
<1> DEFINE i == m.i
           j == m.j
           r == own[i]
           out == AddUnseen(m.out, r)
           new == [i |-> i + 1, j |-> j, out |-> out]
<1>1. i \in 1 .. Len(own) /\ j \in 1 .. Len(aimed) + 1 /\ m.out \in Seq(R) /\ r \in R
  BY DEF Merging
<1>t. \A q \in R : q.ts \in Int
  BY FeedAssumption DEF Row
<1>2. \A q \in R : Shows(m.out, q) => r.ts <= q.ts
  BY <1>1 DEF Merging
<1>3. /\ out \in Seq(R) /\ NewestFirst(out)
      /\ \A q \in R : Shows(out, q) <=> Shows(m.out, q) \/ q = r
  <2>1. NewestFirst(m.out)
    BY DEF Merging
  <2> HIDE DEF r
  <2> QED BY <1>1, <1>2, <2>1, AddKeepsNewest
<1>4. new \in [i : 1 .. Len(own) + 1, j : 1 .. Len(aimed) + 1, out : Seq(R)]
  BY <1>1, <1>3
<1>5. new.i = i + 1 /\ new.j = j /\ new.out = out /\ i + 1 + j = n + 2
  <2>1. i + j = n - 1 + 2
    BY DEF Merging
  <2>2. i + 1 + j = n + 2
    <3> HIDE DEF i, j
    <3> QED BY <1>1, <2>1
  <2> QED BY <2>2
<1>6. \A q \in R : Shows(out, q) <=> Taken(q, own, aimed, new)
  <2> SUFFICES ASSUME NEW q \in R PROVE Shows(out, q) <=> Taken(q, own, aimed, new)
    OBVIOUS
  <2>1. Shows(m.out, q) <=> (\E a \in 1 .. i - 1 : own[a] = q) \/ \E b \in 1 .. j - 1 : aimed[b] = q
    BY DEF Merging, Taken
  <2>2. (\E a \in 1 .. i : own[a] = q) <=> (\E a \in 1 .. i - 1 : own[a] = q) \/ q = r
    BY <1>1
  <2> HIDE DEF r, out, new, i, j
  <2>3. 1 .. new.i - 1 = 1 .. i /\ 1 .. new.j - 1 = 1 .. j - 1
    BY <1>1, <1>5
  <2>4. Shows(out, q) <=> Shows(m.out, q) \/ q = r
    BY <1>3
  <2> QED BY <2>1, <2>2, <2>3, <2>4, Zenon DEF Taken
<1>7. \A q \in R : Shows(out, q) =>
          /\ \A a \in i + 1 .. Len(own) : own[a].ts <= q.ts
          /\ \A b \in j .. Len(aimed) : aimed[b].ts <= q.ts
  <2> SUFFICES ASSUME NEW q \in R, Shows(out, q)
               PROVE  /\ \A a \in i + 1 .. Len(own) : own[a].ts <= q.ts
                      /\ \A b \in j .. Len(aimed) : aimed[b].ts <= q.ts
    OBVIOUS
  <2>1. CASE Shows(m.out, q)
    BY <1>1, <2>1 DEF Merging
  <2>2. CASE q = r
    <3>1. ASSUME NEW a \in i + 1 .. Len(own) PROVE own[a].ts <= r.ts
      <4>1. a \in 1 .. Len(own) /\ i < a
        BY <1>1
      <4> QED BY <1>1, <1>t, <4>1 DEF NewestFirst
    <3>2. ASSUME NEW b \in j .. Len(aimed) PROVE aimed[b].ts <= r.ts
      <4>1. b \in 1 .. Len(aimed) /\ j \in 1 .. Len(aimed) /\ (b = j \/ j < b)
        BY <1>1
      <4>2. aimed[j].ts <= r.ts
        BY <4>1
      <4>3. aimed[b].ts <= aimed[j].ts
        BY <1>t, <4>1 DEF NewestFirst
      <4>4. aimed[b] \in R /\ aimed[j] \in R
        BY <4>1
      <4> HIDE DEF r, j
      <4> QED BY <1>1, <1>t, <4>2, <4>3, <4>4
    <3> QED BY <2>2, <3>1, <3>2
  <2> QED BY <1>3, <2>1, <2>2
<1> HIDE DEF out, new, i, j
<1>8. Merging(new, R, own, aimed, n)
  BY <1>3, <1>4, <1>5, <1>6, <1>7 DEF Merging
<1> QED BY <1>8 DEF new, out, i, j

\* The same for the other side.
LEMMA TakesAimed ==
    ASSUME NEW R \in SUBSET Row, IdsUnique(R), NEW own \in Seq(R), NEW aimed \in Seq(R),
           NewestFirst(own), NewestFirst(aimed), NEW n \in Nat, NEW m,
           Merging(m, R, own, aimed, n - 1), m.j \in 1 .. Len(aimed),
           m.i \in 1 .. Len(own) => own[m.i].ts <= aimed[m.j].ts
    PROVE  Merging([i |-> m.i, j |-> m.j + 1, out |-> AddUnseen(m.out, aimed[m.j])],
                   R, own, aimed, n)
<1> DEFINE i == m.i
           j == m.j
           r == aimed[j]
           out == AddUnseen(m.out, r)
           new == [i |-> i, j |-> j + 1, out |-> out]
<1>1. j \in 1 .. Len(aimed) /\ i \in 1 .. Len(own) + 1 /\ m.out \in Seq(R) /\ r \in R
  BY DEF Merging
<1>t. \A q \in R : q.ts \in Int
  BY FeedAssumption DEF Row
<1>2. \A q \in R : Shows(m.out, q) => r.ts <= q.ts
  BY <1>1 DEF Merging
<1>3. /\ out \in Seq(R) /\ NewestFirst(out)
      /\ \A q \in R : Shows(out, q) <=> Shows(m.out, q) \/ q = r
  <2>1. NewestFirst(m.out)
    BY DEF Merging
  <2> HIDE DEF r
  <2> QED BY <1>1, <1>2, <2>1, AddKeepsNewest
<1>4. new \in [i : 1 .. Len(own) + 1, j : 1 .. Len(aimed) + 1, out : Seq(R)]
  BY <1>1, <1>3
<1>5. new.i = i /\ new.j = j + 1 /\ new.out = out /\ i + (j + 1) = n + 2
  <2>1. i + j = n - 1 + 2
    BY DEF Merging
  <2>2. i + (j + 1) = n + 2
    <3> HIDE DEF i, j
    <3> QED BY <1>1, <2>1
  <2> QED BY <2>2
<1>6. \A q \in R : Shows(out, q) <=> Taken(q, own, aimed, new)
  <2> SUFFICES ASSUME NEW q \in R PROVE Shows(out, q) <=> Taken(q, own, aimed, new)
    OBVIOUS
  <2>1. Shows(m.out, q) <=> (\E a \in 1 .. i - 1 : own[a] = q) \/ \E b \in 1 .. j - 1 : aimed[b] = q
    BY DEF Merging, Taken
  <2>2. (\E b \in 1 .. j : aimed[b] = q) <=> (\E b \in 1 .. j - 1 : aimed[b] = q) \/ q = r
    BY <1>1
  <2> HIDE DEF r, out, new, i, j
  <2>3. 1 .. new.i - 1 = 1 .. i - 1 /\ 1 .. new.j - 1 = 1 .. j
    BY <1>1, <1>5
  <2>4. Shows(out, q) <=> Shows(m.out, q) \/ q = r
    BY <1>3
  <2> QED BY <2>1, <2>2, <2>3, <2>4, Zenon DEF Taken
<1>7. \A q \in R : Shows(out, q) =>
          /\ \A a \in i .. Len(own) : own[a].ts <= q.ts
          /\ \A b \in j + 1 .. Len(aimed) : aimed[b].ts <= q.ts
  <2> SUFFICES ASSUME NEW q \in R, Shows(out, q)
               PROVE  /\ \A a \in i .. Len(own) : own[a].ts <= q.ts
                      /\ \A b \in j + 1 .. Len(aimed) : aimed[b].ts <= q.ts
    OBVIOUS
  <2>1. CASE Shows(m.out, q)
    BY <1>1, <2>1 DEF Merging
  <2>2. CASE q = r
    <3>1. ASSUME NEW b \in j + 1 .. Len(aimed) PROVE aimed[b].ts <= r.ts
      <4>1. b \in 1 .. Len(aimed) /\ j < b
        BY <1>1
      <4> QED BY <1>1, <1>t, <4>1 DEF NewestFirst
    <3>2. ASSUME NEW a \in i .. Len(own) PROVE own[a].ts <= r.ts
      <4>1. a \in 1 .. Len(own) /\ i \in 1 .. Len(own) /\ (a = i \/ i < a)
        BY <1>1
      <4>2. own[i].ts <= r.ts
        BY <4>1
      <4>3. own[a].ts <= own[i].ts
        BY <1>t, <4>1 DEF NewestFirst
      <4>4. own[a] \in R /\ own[i] \in R
        BY <4>1
      <4> HIDE DEF r, i
      <4> QED BY <1>1, <1>t, <4>2, <4>3, <4>4
    <3> QED BY <2>2, <3>1, <3>2
  <2> QED BY <1>3, <2>1, <2>2
<1> HIDE DEF out, new, i, j
<1>8. Merging(new, R, own, aimed, n)
  BY <1>3, <1>4, <1>5, <1>6, <1>7 DEF Merging
<1> QED BY <1>8 DEF new, out, i, j

\* One turn of the loop.
LEMMA MergeStepMerges ==
    ASSUME NEW R \in SUBSET Row, IdsUnique(R), NEW own \in Seq(R), NEW aimed \in Seq(R),
           NewestFirst(own), NewestFirst(aimed), NEW n \in 1 .. Len(own) + Len(aimed), NEW m,
           Merging(m, R, own, aimed, n - 1)
    PROVE  Merging(MergeStep(own, aimed, m), R, own, aimed, n)
<1>n. n \in Nat
  OBVIOUS
<1>1. m.i \in 1 .. Len(own) + 1 /\ m.j \in 1 .. Len(aimed) + 1 /\ m.i + m.j = n - 1 + 2
  BY DEF Merging
<1>2. \A a \in 1 .. Len(own), b \in 1 .. Len(aimed) : own[a].ts \in Int /\ aimed[b].ts \in Int
  <2>1. \A a \in 1 .. Len(own), b \in 1 .. Len(aimed) : own[a] \in Row /\ aimed[b] \in Row
    OBVIOUS
  <2> QED BY <2>1, FeedAssumption DEF Row
<1>3. CASE m.j > Len(aimed) \/ (m.i <= Len(own) /\ own[m.i].ts >= aimed[m.j].ts)
  <2>1. m.i \in 1 .. Len(own)
    BY <1>1, <1>3
  <2>2. m.j \in 1 .. Len(aimed) => aimed[m.j].ts <= own[m.i].ts
    BY <1>2, <1>3, <2>1
  <2>3. MergeStep(own, aimed, m) =
           [i |-> m.i + 1, j |-> m.j, out |-> AddUnseen(m.out, own[m.i])]
    BY <1>3 DEF MergeStep
  <2> QED BY <2>1, <2>2, <2>3, <1>n, TakesOwn
<1>4. CASE ~(m.j > Len(aimed) \/ (m.i <= Len(own) /\ own[m.i].ts >= aimed[m.j].ts))
  <2>1. m.j \in 1 .. Len(aimed)
    BY <1>1, <1>4
  <2>2. m.i \in 1 .. Len(own) => own[m.i].ts <= aimed[m.j].ts
    BY <1>2, <1>4, <2>1
  <2>3. MergeStep(own, aimed, m) =
           [i |-> m.i, j |-> m.j + 1, out |-> AddUnseen(m.out, aimed[m.j])]
    BY <1>4 DEF MergeStep
  <2> QED BY <2>1, <2>2, <2>3, <1>n, TakesAimed
<1> QED BY <1>3, <1>4

\* Merge shows the rows of both, newest first and each once.
LEMMA MergeIs ==
    ASSUME NEW R \in SUBSET Row, IdsUnique(R), NEW own \in Seq(R), NEW aimed \in Seq(R),
           NewestFirst(own), NewestFirst(aimed)
    PROVE  /\ Merge(own, aimed) \in Seq(R) /\ NewestFirst(Merge(own, aimed))
           /\ \A q \in R : Shows(Merge(own, aimed), q) <=> Shows(own, q) \/ Shows(aimed, q)
<1> DEFINE N == Len(own) + Len(aimed)
           start == [i |-> 1, j |-> 1, out |-> <<>>]
           Is(f) == f = [n \in 0 .. N |-> IF n = 0 THEN start
                                          ELSE MergeStep(own, aimed, f[n - 1])]
           M == [i : 1 .. Len(own) + 1, j : 1 .. Len(aimed) + 1, out : Seq(R)]
           St == [n \in 0 .. N |-> {m \in M : Merging(m, R, own, aimed, n)}]
           step == [p \in M \X (1 .. N) |-> MergeStep(own, aimed, p[1])]
<1>1. N \in Nat
  OBVIOUS
<1>2. Merging(start, R, own, aimed, 0)
  <2>1. start \in M
    <3>1. <<>> \in Seq(R) /\ 1 \in 1 .. Len(own) + 1 /\ 1 \in 1 .. Len(aimed) + 1
      OBVIOUS
    <3> QED BY <3>1
  <2>2. start.i = 1 /\ start.j = 1 /\ start.out = <<>>
    OBVIOUS
  <2>3. \A q : ~Shows(<<>>, q) /\ ~Taken(q, own, aimed, start)
    BY DEF Shows, Taken
  <2>4. NewestFirst(<<>>)
    BY DEF NewestFirst
  <2> HIDE DEF start
  <2> QED BY <2>1, <2>2, <2>3, <2>4 DEF Merging
<1>3. start \in St[0]
  <2>1. start \in M
    BY <1>2 DEF Merging
  <2> HIDE DEF start, M
  <2> QED BY <1>1, <1>2, <2>1
<1>4. \A n \in 1 .. N : \A m \in St[n - 1] :
         /\ step[<<m, n>>] = MergeStep(own, aimed, m) /\ step[<<m, n>>] \in St[n]
  <2> SUFFICES ASSUME NEW n \in 1 .. N, NEW m \in St[n - 1]
               PROVE  /\ step[<<m, n>>] = MergeStep(own, aimed, m) /\ step[<<m, n>>] \in St[n]
    OBVIOUS
  <2>1. n - 1 \in 0 .. N /\ n \in 0 .. N
    OBVIOUS
  <2>2. m \in M /\ Merging(m, R, own, aimed, n - 1)
    BY <2>1
  <2>3. step[<<m, n>>] = MergeStep(own, aimed, m)
    BY <2>2
  <2>4. Merging(MergeStep(own, aimed, m), R, own, aimed, n)
    BY <2>2, MergeStepMerges
  <2>5. MergeStep(own, aimed, m) \in M
    BY <2>4 DEF Merging
  <2> QED BY <2>1, <2>3, <2>4, <2>5
<1>5. PICK f \in [0 .. N -> M] :
          /\ f[0] = start /\ \A n \in 1 .. N : f[n] = step[<<f[n - 1], n>>]
          /\ \A n \in 0 .. N : f[n] \in St[n]
  <2>1. \A n \in 1 .. N : \A m \in St[n - 1] : step[<<m, n>>] \in St[n]
    BY <1>4
  <2>2. \A n \in 0 .. N : St[n] \subseteq M
    OBVIOUS
  <2> HIDE DEF N, M, St, step, start
  <2>3. Turns(N, M, St, start, step)
    BY <1>1, <1>3, <2>1, <2>2 DEF Turns
  <2>4. \E f : IsLoop(f, N, M, St, start, step)
    BY <2>3, LoopExists
  <2> QED BY <2>4 DEF IsLoop
<1>6. Is(f)
  <2>1. \A n \in 1 .. N : n - 1 \in 0 .. N
    OBVIOUS
  <2>2. \A n \in 1 .. N : step[<<f[n - 1], n>>] = MergeStep(own, aimed, f[n - 1])
    <3> HIDE DEF St, step
    <3> QED BY <1>4, <1>5, <2>1
  <2>3. \A n \in 0 .. N : n = 0 \/ n \in 1 .. N
    OBVIOUS
  <2> HIDE DEF step, St, start, M
  <2> QED BY <1>5, <2>2, <2>3
<1>7. PICK g : Is(g) /\ Merge(own, aimed) = g[N].out
  <2> DEFINE g == CHOOSE h : Is(h)
  <2>1. Is(g)
    <3> HIDE DEF Is
    <3> QED BY <1>6
  <2>2. Merge(own, aimed) = g[N].out
    BY DEF Merge
  <2> HIDE DEF g
  <2> QED BY <2>1, <2>2
<1>8. Merging(g[N], R, own, aimed, N)
  <2> DEFINE T == {k \in 0 .. N : Merging(g[k], R, own, aimed, k)}
  <2>1. 0 \in T
    <3>1. g[0] = start
      <4> HIDE DEF start
      <4> QED BY <1>1, <1>7
    <3> QED BY <1>1, <1>2, <3>1
  <2>2. \A n \in 1 .. N : n - 1 \in T => n \in T
    <3> SUFFICES ASSUME NEW n \in 1 .. N, n - 1 \in T PROVE n \in T
      OBVIOUS
    <3>1. g[n] = MergeStep(own, aimed, g[n - 1])
      <4>1. n \in 0 .. N /\ n # 0
        OBVIOUS
      <4> HIDE DEF T
      <4> QED BY <1>7, <4>1
    <3>2. Merging(g[n - 1], R, own, aimed, n - 1)
      OBVIOUS
    <3> QED BY <3>1, <3>2, MergeStepMerges
  <2> HIDE DEF T
  <2>3. \A n \in 0 .. N : n \in T
    BY <1>1, <2>1, <2>2, UpTo
  <2>4. N \in T
    BY <1>1, <2>3
  <2> QED BY <2>4 DEF T
<1> DEFINE m == g[N]
<1> HIDE DEF m
<1>9. Merging(m, R, own, aimed, N)
  BY <1>8 DEF m
<1>10. m.i = Len(own) + 1 /\ m.j = Len(aimed) + 1
  <2>1. m.i \in 1 .. Len(own) + 1 /\ m.j \in 1 .. Len(aimed) + 1
        /\ m.i + m.j = Len(own) + Len(aimed) + 2
    BY <1>9 DEF Merging
  <2> QED BY <2>1
<1>11. \A q \in R : Taken(q, own, aimed, m) <=> Shows(own, q) \/ Shows(aimed, q)
  <2>1. 1 .. m.i - 1 = 1 .. Len(own) /\ 1 .. m.j - 1 = 1 .. Len(aimed)
    BY <1>10
  <2> QED BY <2>1 DEF Taken, Shows
<1>12. m.out \in Seq(R) /\ NewestFirst(m.out)
       /\ \A q \in R : Shows(m.out, q) <=> Taken(q, own, aimed, m)
  BY <1>9 DEF Merging
<1>13. Merge(own, aimed) = m.out
  BY <1>7 DEF m
<1> QED BY <1>11, <1>12, <1>13

\* Different rows that are all among the first m of a list are at most m.
LEMMA NoMoreThan ==
    ASSUME NEW R \in SUBSET Row, NEW s \in Seq(R), NewestFirst(s), NEW t, NEW m \in Nat,
           \A i \in 1 .. Len(s) : \E k \in 1 .. m : t[k] = s[i]
    PROVE  Len(s) <= m
<1> DEFINE h == [i \in 1 .. Len(s) |-> CHOOSE k \in 1 .. m : t[k] = s[i]]
<1>1. \A i \in 1 .. Len(s) : h[i] \in 1 .. m /\ t[h[i]] = s[i]
  OBVIOUS
<1>2. h \in [1 .. Len(s) -> 1 .. m]
  BY <1>1
<1>3. \A i, j \in 1 .. Len(s) : i # j => s[i] # s[j]
  <2> SUFFICES ASSUME NEW i \in 1 .. Len(s), NEW j \in 1 .. Len(s), i # j PROVE s[i] # s[j]
    OBVIOUS
  <2>1. i < j \/ j < i
    OBVIOUS
  <2> QED BY <2>1 DEF NewestFirst
<1> HIDE DEF h
<1>4. SUFFICES ASSUME m < Len(s) PROVE FALSE
  OBVIOUS
<1>5. /\ IsFiniteSet(1 .. Len(s)) /\ Cardinality(1 .. Len(s)) = Len(s)
      /\ IsFiniteSet(1 .. m) /\ Cardinality(1 .. m) = m
  <2>1. Len(s) \in Nat
    OBVIOUS
  <2>2. \A k \in Nat : IsFiniteSet(1 .. k) /\ Cardinality(1 .. k) = k
    <3> SUFFICES ASSUME NEW k \in Nat
                 PROVE  IsFiniteSet(1 .. k) /\ Cardinality(1 .. k) = k
      OBVIOUS
    <3>1. IsFiniteSet(1 .. k) /\ Cardinality(1 .. k) = IF 1 > k THEN 0 ELSE k - 1 + 1
      BY FS_Interval
    <3> QED BY <3>1
  <2> QED BY <2>1, <2>2
<1>6. Cardinality(1 .. m) < Cardinality(1 .. Len(s))
  BY <1>4, <1>5
<1>7. \E x, y \in 1 .. Len(s) : x # y /\ h[x] = h[y]
  <2> DEFINE S == 1 .. Len(s)
             T == 1 .. m
  <2> HIDE DEF S, T
  <2>1. /\ IsFiniteSet(S) /\ IsFiniteSet(T) /\ Cardinality(T) < Cardinality(S)
        /\ h \in [S -> T]
    BY <1>2, <1>5, <1>6 DEF S, T
  <2>2. \E x, y \in S : x # y /\ h[x] = h[y]
    BY <2>1, FS_PigeonHole
  <2> QED BY <2>2 DEF S
<1> QED BY <1>1, <1>3, <1>7

\* What an answer of the table is.
LEMMA QueryIs ==
    ASSUME NEW rows, NEW limit \in Nat, NEW s \in QueryActivities(rows, limit)
    PROVE  s \in Seq(rows) /\ Len(s) <= limit /\ NewestFirst(s) /\ LeavesOlder(s, rows, limit)
<1>1. PICK n \in 0 .. limit : s \in [1 .. n -> rows]
  BY DEF QueryActivities
<1>2. n \in Nat /\ n <= limit
  OBVIOUS
<1>3. s \in Seq(rows)
  BY <1>1, <1>2, SeqDef
<1>4. Len(s) = n
  <2>1. DOMAIN s = 1 .. Len(s) /\ Len(s) \in Nat
    BY <1>3, LenProperties
  <2>2. DOMAIN s = 1 .. n
    BY <1>1
  <2>3. \A k \in Nat \ {0} : k <= Len(s) <=> k <= n
    <3>1. \A k \in Nat \ {0} : k \in 1 .. Len(s) <=> k \in 1 .. n
      BY <2>1, <2>2
    <3> QED BY <1>2, <2>1, <3>1
  <2>4. /\ n + 1 <= Len(s) <=> n + 1 <= n
        /\ Len(s) + 1 <= Len(s) <=> Len(s) + 1 <= n
    <3>1. n + 1 \in Nat \ {0} /\ Len(s) + 1 \in Nat \ {0}
      BY <1>2, <2>1
    <3> QED BY <2>3, <3>1
  <2>5. Len(s) \in Nat
    BY <2>1
  <2> QED BY <1>2, <2>4, <2>5
<1>5. NewestFirst(s) /\ LeavesOlder(s, rows, limit)
  BY DEF QueryActivities
<1> QED BY <1>2, <1>3, <1>4, <1>5

\* The row r is left out of the newest rows s of R; t has them all.
LeftOut(r, s, t, R, limit) ==
    /\ R \in SUBSET Row /\ limit \in Nat /\ s \in Seq(R) /\ NewestFirst(s)
    /\ Len(s) = limit /\ t \in Seq(R) /\ NewestFirst(t) /\ r \in R
    /\ \A q \in R : Shows(s, q) => Shows(t, q)
    /\ \A i \in 1 .. Len(s) : r.ts <= s[i].ts

\* A row that a full answer left out is no newer than the first rows of the merge.
LEMMA LeftOutStaysOut ==
    ASSUME NEW R, NEW limit, NEW s, NEW t, NEW r, LeftOut(r, s, t, R, limit)
    PROVE  /\ Len(t) >= limit
           /\ \A i \in 1 .. Len(t) : i <= limit => r.ts <= t[i].ts
<1>0. /\ R \in SUBSET Row /\ limit \in Nat /\ s \in Seq(R) /\ NewestFirst(s)
      /\ Len(s) = limit /\ t \in Seq(R) /\ NewestFirst(t) /\ r \in R
      /\ \A q \in R : Shows(s, q) => Shows(t, q)
      /\ \A i \in 1 .. Len(s) : r.ts <= s[i].ts
  BY DEF LeftOut
<1>t. \A q \in R : q.ts \in Int
  BY <1>0, FeedAssumption DEF Row
<1>1. \A i \in 1 .. Len(s) : \E k \in 1 .. Len(t) : t[k] = s[i]
  <2> SUFFICES ASSUME NEW i \in 1 .. Len(s) PROVE \E k \in 1 .. Len(t) : t[k] = s[i]
    OBVIOUS
  <2>1. s[i] \in R /\ Shows(s, s[i])
    BY <1>0 DEF Shows
  <2> QED BY <1>0, <2>1 DEF Shows
<1>2. Len(t) >= limit
  <2>1. Len(s) <= Len(t)
    <3>1. Len(t) \in Nat /\ R \in SUBSET Row /\ s \in Seq(R) /\ NewestFirst(s)
      BY <1>0
    <3> QED BY <1>1, <3>1, NoMoreThan
  <2> QED BY <1>0, <2>1
<1>3. ASSUME NEW i \in 1 .. Len(t), i <= limit PROVE r.ts <= t[i].ts
  <2>0. t[i] \in R /\ r \in R /\ i - 1 \in Nat
    BY <1>0
  <2>1. SUFFICES ASSUME t[i].ts < r.ts PROVE FALSE
    BY <1>t, <2>0
  <2>2. \A x \in 1 .. Len(s) : \E k \in 1 .. (i - 1) : t[k] = s[x]
    <3> SUFFICES ASSUME NEW x \in 1 .. Len(s) PROVE \E k \in 1 .. (i - 1) : t[k] = s[x]
      OBVIOUS
    <3>1. PICK k \in 1 .. Len(t) : t[k] = s[x]
      BY <1>1
    <3>2. s[x] \in R /\ r.ts <= s[x].ts
      BY <1>0
    <3>3. k # i
      BY <1>t, <2>0, <2>1, <3>1, <3>2
    <3>4. ~(i < k)
      <4>1. i < k => t[k].ts <= t[i].ts
        BY <1>0, <1>t, <2>0, <3>1, <3>2 DEF NewestFirst
      <4> QED BY <1>t, <2>0, <2>1, <3>1, <3>2, <4>1
    <3>5. k \in 1 .. (i - 1)
      BY <3>3, <3>4
    <3> QED BY <3>1, <3>5
  <2>3. Len(s) <= i - 1
    <3> DEFINE M == i - 1
    <3>1. M \in Nat /\ \A x \in 1 .. Len(s) : \E k \in 1 .. M : t[k] = s[x]
      BY <2>0, <2>2
    <3>2. R \in SUBSET Row /\ s \in Seq(R) /\ NewestFirst(s)
      BY <1>0
    <3> HIDE DEF M
    <3>3. Len(s) <= M
      BY <3>1, <3>2, NoMoreThan
    <3> QED BY <3>3 DEF M
  <2> QED BY <1>0, <1>3, <2>3
<1> QED BY <1>2, <1>3

\* The merge of the newest rows of two sets is the newest part of both.
LEMMA TrackNewest ==
    ASSUME NEW R1 \in SUBSET Row, NEW R2 \in SUBSET Row, IdsUnique(R1 \cup R2),
           NEW limit \in Nat \ {0},
           NEW own \in QueryActivities(R1, limit), NEW aimed \in QueryActivities(R2, limit)
    PROVE  /\ Track(own, aimed, limit) \in Seq(R1 \cup R2)
           /\ Len(Track(own, aimed, limit)) <= limit
           /\ NewestFirst(Track(own, aimed, limit))
           /\ LeavesOlder(Track(own, aimed, limit), R1 \cup R2, limit)
<1> DEFINE R == R1 \cup R2
           mg == Merge(own, aimed)
<1>1. /\ own \in Seq(R1) /\ Len(own) <= limit /\ NewestFirst(own)
      /\ LeavesOlder(own, R1, limit)
  BY QueryIs
<1>2. /\ aimed \in Seq(R2) /\ Len(aimed) <= limit /\ NewestFirst(aimed)
      /\ LeavesOlder(aimed, R2, limit)
  BY QueryIs
<1>3. own \in Seq(R) /\ aimed \in Seq(R)
  BY <1>1, <1>2, SeqMonotonic
<1>4. CASE aimed = <<>>
  <2>1. R2 = {}
    <3>1. Len(aimed) = 0 /\ \A r \in R2 : ~Shows(aimed, r)
      BY <1>4 DEF Shows
    <3>2. \A r \in R2 : FALSE
      BY <1>2, <3>1 DEF LeavesOlder
    <3> QED BY <3>2
  <2>2. R1 \cup R2 = R1 /\ Track(own, aimed, limit) = own
    BY <1>4, <2>1 DEF Track
  <2> QED BY <1>1, <2>2
<1>5. CASE aimed # <<>>
  <2>1. /\ mg \in Seq(R) /\ NewestFirst(mg)
        /\ \A q \in R : Shows(mg, q) <=> Shows(own, q) \/ Shows(aimed, q)
    <3>1. R \in SUBSET Row
      OBVIOUS
    <3> HIDE DEF R
    <3> QED BY <1>1, <1>2, <1>3, <3>1, MergeIs DEF R
  <2> DEFINE t == Cut(mg, limit)
  <2>2. Track(own, aimed, limit) = t
    BY <1>5 DEF Track
  <2> HIDE DEF mg
  <2>3. /\ t \in Seq(R) /\ Len(t) <= limit /\ Len(t) <= Len(mg)
        /\ Len(t) = limit \/ t = mg
        /\ \A i \in 1 .. Len(t) : t[i] = mg[i]
        /\ \A i \in 1 .. Len(mg) : i <= limit => i \in 1 .. Len(t)
    <3>1. CASE Len(mg) > limit
      <4>1. t = SubSeq(mg, 1, limit)
        BY <3>1 DEF Cut
      <4>2. \A i \in 1 .. limit : i \in 1 .. Len(mg) /\ mg[i] \in R
        BY <2>1, <3>1
      <4> HIDE DEF R, t
      <4>3. /\ t \in Seq(R) /\ Len(t) = limit
            /\ \A i \in 1 .. limit : t[i] = mg[i]
        <5>1. 1 \in Int /\ limit \in Int /\ 1 <= limit
          OBVIOUS
        <5>2. /\ SubSeq(mg, 1, limit) \in Seq(R)
              /\ Len(SubSeq(mg, 1, limit)) = IF 1 <= limit THEN limit - 1 + 1 ELSE 0
              /\ \A i \in 1 .. limit - 1 + 1 : SubSeq(mg, 1, limit)[i] = mg[1 + i - 1]
          BY <4>2, <5>1, SubSeqProperties
        <5> QED BY <4>1, <5>1, <5>2
      <4> QED BY <3>1, <4>2, <4>3
    <3>2. CASE ~(Len(mg) > limit)
      <4>1. t = mg
        BY <3>2 DEF Cut
      <4> QED BY <2>1, <3>2, <4>1
    <3> QED BY <3>1, <3>2
  <2> HIDE DEF t
  <2>4. NewestFirst(t)
    <3> SUFFICES ASSUME NEW i \in 1 .. Len(t), NEW j \in 1 .. Len(t), i < j
                 PROVE  t[i] # t[j] /\ t[i].ts >= t[j].ts
      BY DEF NewestFirst
    <3>1. i \in 1 .. Len(mg) /\ j \in 1 .. Len(mg)
      BY <2>1, <2>3
    <3> QED BY <2>1, <2>3, <3>1 DEF NewestFirst
  <2>5. \A r \in R : \/ Shows(own, r) \/ Shows(aimed, r)
                     \/ /\ Len(mg) >= limit
                        /\ \A i \in 1 .. Len(mg) : i <= limit => r.ts <= mg[i].ts
    <3> SUFFICES ASSUME NEW r \in R, ~Shows(own, r), ~Shows(aimed, r)
                 PROVE  /\ Len(mg) >= limit
                        /\ \A i \in 1 .. Len(mg) : i <= limit => r.ts <= mg[i].ts
      OBVIOUS
    <3>0. R \in SUBSET Row /\ limit \in Nat
      OBVIOUS
    <3>1. CASE r \in R1
      <4>1. Len(own) = limit /\ \A i \in 1 .. Len(own) : r.ts <= own[i].ts
        BY <1>1, <3>1 DEF LeavesOlder
      <4>2. \A q \in R : Shows(own, q) => Shows(mg, q)
        BY <2>1
      <4>3. own \in Seq(R) /\ NewestFirst(own) /\ mg \in Seq(R) /\ NewestFirst(mg)
        BY <1>1, <1>3, <2>1
      <4> HIDE DEF R
      <4>4. LeftOut(r, own, mg, R, limit)
        BY <3>0, <4>1, <4>2, <4>3 DEF LeftOut
      <4> QED BY <4>4, LeftOutStaysOut
    <3>2. CASE r \in R2
      <4>1. Len(aimed) = limit /\ \A i \in 1 .. Len(aimed) : r.ts <= aimed[i].ts
        BY <1>2, <3>2 DEF LeavesOlder
      <4>2. \A q \in R : Shows(aimed, q) => Shows(mg, q)
        BY <2>1
      <4>3. aimed \in Seq(R) /\ NewestFirst(aimed) /\ mg \in Seq(R) /\ NewestFirst(mg)
        BY <1>2, <1>3, <2>1
      <4> HIDE DEF R
      <4>4. LeftOut(r, aimed, mg, R, limit)
        BY <3>0, <4>1, <4>2, <4>3 DEF LeftOut
      <4> QED BY <4>4, LeftOutStaysOut
    <3>3. r \in R1 \/ r \in R2
      OBVIOUS
    <3> HIDE DEF R
    <3> QED BY <3>1, <3>2, <3>3, Zenon
  <2>6. LeavesOlder(t, R, limit)
    <3>1. Len(t) = limit \/ \A r \in R : Shows(t, r)
      <4> SUFFICES ASSUME Len(t) # limit, NEW r \in R PROVE Shows(t, r)
        OBVIOUS
      <4>1. t = mg /\ Len(mg) < limit
        BY <2>1, <2>3
      <4>2. Shows(own, r) \/ Shows(aimed, r)
        <5>1. ~(Len(mg) >= limit)
          BY <2>1, <4>1
        <5> QED BY <2>5, <5>1
      <4> QED BY <2>1, <4>1, <4>2
    <3>2. \A r \in R : Shows(t, r) \/ \A i \in 1 .. Len(t) : r.ts <= t[i].ts
      <4> SUFFICES ASSUME NEW r \in R, ~Shows(t, r), NEW i \in 1 .. Len(t)
                   PROVE  r.ts <= t[i].ts
        OBVIOUS
      <4>0. i \in 1 .. Len(mg) /\ i <= limit /\ t[i] = mg[i]
        BY <2>1, <2>3
      <4>1. CASE Shows(mg, r)
        <5>1. PICK k \in 1 .. Len(mg) : mg[k] = r
          BY <4>1 DEF Shows
        <5>2. ~(k <= limit)
          BY <2>3, <5>1 DEF Shows
        <5>3. i < k
          BY <4>0, <5>2
        <5>4. mg[i].ts >= mg[k].ts
          BY <2>1, <4>0, <5>3 DEF NewestFirst
        <5>5. mg[i].ts \in Int /\ r.ts \in Int
          <6>1. mg[i] \in Row /\ r \in Row
            BY <2>1, <4>0
          <6> QED BY <6>1, FeedAssumption DEF Row
        <5> QED BY <4>0, <5>1, <5>4, <5>5
      <4>2. CASE ~Shows(mg, r)
        <5>1. ~Shows(own, r) /\ ~Shows(aimed, r)
          BY <2>1, <4>2
        <5>2. \A k \in 1 .. Len(mg) : k <= limit => r.ts <= mg[k].ts
          BY <2>5, <5>1
        <5> QED BY <4>0, <5>2
      <4> QED BY <4>1, <4>2
    <3> QED BY <3>1, <3>2 DEF LeavesOlder
  <2> QED BY <2>2, <2>3, <2>4, <2>6
<1> QED BY <1>4, <1>5

-----------------------------------------------------------------------------
(* The reads under way.                                                     *)

\* Ids are given once, and a row that was there in a read keeps its own.
IdsGiven(g) ==
    /\ IdsUnique(log \cup came[g])
    /\ \A r \in log \cup came[g] : r.id <= posted

Tracked(g) ==
    /\ stood[g] \subseteq log
    /\ view[g].pc = "aimed" => log \subseteq came[g] /\ view[g].slug \in Reporter

\* Between the queries, what the read has is a newest part of the project's rows at some moment.
OwnOf(g, R) ==
    /\ R \subseteq {r \in came[g] : r.worker = view[g].slug}
    /\ {r \in stood[g] : r.worker = view[g].slug} \subseteq R
    /\ view[g].acts \in QueryActivities(R, view[g].limit)

HasOwn(g) == view[g].pc = "aimed" => \E R : OwnOf(g, R)

\* FeedIsNewest, SpansAreRuns and NothingRejudged of one read.
NewestOf(g) ==
    view[g].pc = "window" =>
        LET acts   == view[g].acts
            steady == {r \in stood[g] : OnTrack(r, view[g].slug)}
        IN  /\ NewestFirst(acts) /\ LeavesOlder(acts, steady, view[g].limit)
            /\ \A i \in 1 .. Len(acts) : acts[i] \in came[g] /\ OnTrack(acts[i], view[g].slug)

RunsShown(acts, last, shown) ==
    LET seen == {i \in 1 .. Len(acts) : acts[i].kind # "started" /\ ~Judged(acts[i], last)}
    IN  \E n \in 0 .. Len(acts) : \E place \in [1 .. n -> 1 .. Len(acts)] :
           /\ Increasing(place)
           /\ \A i \in 1 .. Len(acts) : i \in seen <=> \E k \in 1 .. n : place[k] = i
           /\ \E edge \in [1 .. Len(shown) + 1 -> 1 .. n + 1] :
                 RunsAt(shown, [k \in 1 .. n |-> acts[place[k]]], edge)

RunsIn(v) == v.pc \in {"shown", "unjudged"} => RunsShown(v.acts, v.last, v.shown)

RunsOf(g) == RunsIn(view[g])

UnjudgedOf(g) ==
    view[g].pc = "shown" =>
        \A k \in 1 .. Len(view[g].shown), q \in stood[g] :
            q.worker = view[g].caller /\ q.target = view[g].shown[k].row.worker =>
                q.ts <= view[g].shown[k].from

ReadSound(g) ==
    IdsGiven(g) /\ Tracked(g) /\ HasOwn(g) /\ NewestOf(g) /\ RunsOf(g) /\ UnjudgedOf(g)

FeedInv == FeedTypeOK /\ \A g \in Get : ReadSound(g)

\* A list that leaves out only older rows of a set does so for a smaller one.
LEMMA LeavesOlderOfFewer ==
    ASSUME NEW s, NEW R, NEW T, T \subseteq R, NEW limit, LeavesOlder(s, R, limit)
    PROVE  LeavesOlder(s, T, limit)
BY DEF LeavesOlder

\* POST and DELETE leave a read as it was: rows come, rows go, and what the read holds stays.
LEMMA TableMoves ==
    ASSUME NEW g \in Get, ReadSound(g), view' = view, stood'[g] \subseteq stood[g],
           came[g] \subseteq came'[g], IdsGiven(g)', Tracked(g)'
    PROVE  ReadSound(g)'
<1>1. HasOwn(g)'
  <2> SUFFICES ASSUME view[g].pc = "aimed" PROVE (\E R : OwnOf(g, R))'
    BY DEF HasOwn
  <2>1. PICK R : OwnOf(g, R)
    BY DEF ReadSound, HasOwn
  <2>2. /\ R \subseteq {r \in came'[g] : r.worker = view[g].slug}
        /\ {r \in stood'[g] : r.worker = view[g].slug} \subseteq R
        /\ view[g].acts \in QueryActivities(R, view[g].limit)
    BY <2>1 DEF OwnOf
  <2>3. OwnOf(g, R)'
    BY <2>2 DEF OwnOf
  <2> QED BY <2>3
<1>2. NewestOf(g)'
  <2> SUFFICES ASSUME view[g].pc = "window" PROVE NewestOf(g)'
    BY DEF NewestOf
  <2> DEFINE acts == view[g].acts
             before == {r \in stood[g] : OnTrack(r, view[g].slug)}
             after == {r \in stood'[g] : OnTrack(r, view[g].slug)}
  <2>1. /\ NewestFirst(acts) /\ LeavesOlder(acts, before, view[g].limit)
        /\ \A i \in 1 .. Len(acts) : acts[i] \in came[g] /\ OnTrack(acts[i], view[g].slug)
    BY DEF ReadSound, NewestOf
  <2>2. after \subseteq before
    OBVIOUS
  <2>3. LeavesOlder(acts, after, view[g].limit)
    <3> HIDE DEF acts, before, after
    <3> QED BY <2>1, <2>2, LeavesOlderOfFewer
  <2>4. \A i \in 1 .. Len(acts) : acts[i] \in came'[g] /\ OnTrack(acts[i], view[g].slug)
    BY <2>1
  <2> QED BY <2>1, <2>3, <2>4 DEF NewestOf
<1>3. RunsOf(g)'
  BY DEF ReadSound, RunsOf
<1>4. UnjudgedOf(g)'
  BY DEF ReadSound, UnjudgedOf
<1> QED BY <1>1, <1>2, <1>3, <1>4 DEF ReadSound

\* A step of one read leaves the others alone.
LEMMA OtherReads ==
    ASSUME NEW g \in Get, ReadSound(g), log' = log, posted' = posted, view'[g] = view[g],
           stood'[g] = stood[g], came'[g] = came[g]
    PROVE  ReadSound(g)'
<1>1. IdsGiven(g)' /\ Tracked(g)'
  BY DEF ReadSound, IdsGiven, Tracked, IdsUnique
<1>2. HasOwn(g)'
  BY DEF ReadSound, HasOwn, OwnOf
<1>3. NewestOf(g)'
  BY DEF ReadSound, NewestOf
<1>4. RunsOf(g)'
  BY DEF ReadSound, RunsOf
<1>5. UnjudgedOf(g)'
  BY DEF ReadSound, UnjudgedOf
<1> QED BY <1>1, <1>2, <1>3, <1>4, <1>5 DEF ReadSound

\* A row that is posted is no part of any read under way: its id is new, and no read stood on it.
LEMMA InsertSound ==
    ASSUME FeedTypeOK, NEW worker \in Reporter, NEW report \in Report, NEW ts \in Time,
           InsertActivity(worker, report, ts)
    PROVE  FeedTypeOK' /\ \A g \in Get : ReadSound(g) => ReadSound(g)'
<1> DEFINE row == [id |-> posted + 1, worker |-> worker, kind |-> report.kind,
                   text |-> report.text, target |-> report.target, ts |-> ts]
<1>1. /\ posted < LogLength /\ posted' = posted + 1 /\ log' = log \cup {row}
      /\ came' = [g \in Get |-> IF view[g].pc = "aimed" THEN came[g] \cup {row} ELSE came[g]]
      /\ view' = view /\ stood' = stood
  BY DEF InsertActivity
<1>2. row \in Row /\ row.id = posted + 1
  <2>1. posted + 1 \in 1 .. LogLength
    BY <1>1, FeedAssumption DEF FeedTypeOK
  <2>2. /\ report.kind \in {"active", "started", "note"} /\ report.text \in Text
        /\ report.target \in Reporter \cup {NoTarget}
    BY FeedAssumption
  <2> QED BY <2>1, <2>2 DEF Row
<1> HIDE DEF row
<1>3. FeedTypeOK'
  <2>1. log' \subseteq Row /\ posted' \in 0 .. LogLength
    BY <1>1, <1>2, FeedAssumption DEF FeedTypeOK
  <2>2. came' \in [Get -> SUBSET Row]
    BY <1>1, <1>2 DEF FeedTypeOK
  <2> QED BY <1>1, <2>1, <2>2 DEF FeedTypeOK
<1>4. ASSUME NEW g \in Get, ReadSound(g) PROVE ReadSound(g)'
  <2>1. came[g] \subseteq came'[g] /\ came'[g] \subseteq came[g] \cup {row}
    BY <1>1
  <2>2. \A r \in log \cup came[g] : r.id \in Int
    BY DEF FeedTypeOK, Row
  <2>3. IdsGiven(g)'
    <3>0. posted \in Int
      BY DEF FeedTypeOK
    <3>1. \A r \in log \cup came[g] : r.id <= posted /\ r.id < row.id
      BY <1>2, <1>4, <2>2, <3>0 DEF ReadSound, IdsGiven
    <3>2. IdsUnique(log \cup came[g])
      BY <1>4 DEF ReadSound, IdsGiven
    <3>3. \A r \in log' \cup came'[g] : r \in log \cup came[g] \/ r = row
      BY <1>1, <2>1
    <3>4. IdsUnique(log' \cup came'[g])
      BY <1>2, <2>2, <3>0, <3>1, <3>2, <3>3 DEF IdsUnique
    <3>5. \A r \in log' \cup came'[g] : r.id <= posted'
      BY <1>1, <1>2, <2>2, <3>0, <3>1, <3>3
    <3> QED BY <3>4, <3>5 DEF IdsGiven
  <2>4. Tracked(g)'
    BY <1>1, <1>4 DEF ReadSound, Tracked
  <2> QED BY <1>1, <1>4, <2>1, <2>3, <2>4, TableMoves
<1> QED BY <1>3, <1>4

\* A row that is taken back no longer stands, and what a read holds of it stays.
LEMMA DeleteSound ==
    ASSUME FeedTypeOK, NEW worker \in Reporter, NEW row \in log, DeleteOwnActivity(worker, row)
    PROVE  FeedTypeOK' /\ \A g \in Get : ReadSound(g) => ReadSound(g)'
<1>1. /\ log' = log \ {row} /\ stood' = [g \in Get |-> stood[g] \ {row}]
      /\ posted' = posted /\ view' = view /\ came' = came
  BY DEF DeleteOwnActivity
<1>2. FeedTypeOK'
  <2>1. stood' \in [Get -> SUBSET Row] /\ log' \subseteq Row
    BY <1>1 DEF FeedTypeOK
  <2> QED BY <1>1, <2>1 DEF FeedTypeOK
<1>3. ASSUME NEW g \in Get, ReadSound(g) PROVE ReadSound(g)'
  <2>1. stood'[g] = stood[g] \ {row}
    BY <1>1
  <2>2. IdsGiven(g)'
    BY <1>1, <1>3 DEF ReadSound, IdsGiven, IdsUnique
  <2>3. Tracked(g)'
    BY <1>1, <1>3, <2>1 DEF ReadSound, Tracked
  <2> QED BY <1>1, <1>3, <2>1, <2>2, <2>3, TableMoves
<1> QED BY <1>2, <1>3

\* The parts of a read that is under way.
LEMMA ViewParts ==
    ASSUME FeedTypeOK, NEW g \in Get, view[g].pc # "idle"
    PROVE  /\ view[g] \in View /\ view[g].limit \in Nat \ {0}
           /\ view[g].acts \in Seq(Row) /\ Len(view[g].acts) <= view[g].limit
           /\ stood[g] \subseteq Row /\ came[g] \subseteq Row
<1>1. view[g] \in View \cup {NoView}
  BY DEF FeedTypeOK
<1>2. view[g] # NoView
  BY DEF NoView
<1>3. view[g] \in View
  BY <1>1, <1>2
<1>4. view[g].limit \in Nat \ {0} /\ view[g].acts \in Seq(Row)
  BY <1>3, FeedAssumption DEF View
<1>5. Len(view[g].acts) <= view[g].limit
  BY DEF FeedTypeOK
<1>6. stood[g] \subseteq Row /\ came[g] \subseteq Row
  BY DEF FeedTypeOK
<1> QED BY <1>3, <1>4, <1>5, <1>6

\* A read is typed again when its new view, stood and came are.
LEMMA ReadTyped ==
    ASSUME FeedTypeOK, NEW g \in Get, NEW v \in View \cup {NoView},
           v.pc # "idle" => Len(v.acts) <= v.limit,
           view' = [view EXCEPT ![g] = v], log' = log, posted' = posted,
           stood' \in [Get -> SUBSET Row], came' \in [Get -> SUBSET Row]
    PROVE  FeedTypeOK'
<1>1. view' \in [Get -> View \cup {NoView}]
  BY DEF FeedTypeOK
<1>2. \A h \in Get : view'[h].pc # "idle" => Len(view'[h].acts) <= view'[h].limit
  BY DEF FeedTypeOK
<1> QED BY <1>1, <1>2 DEF FeedTypeOK

\* The first query is the whole answer when every project is read; for one project it is the
\* newest part of its own rows.
LEMMA StartSound ==
    ASSUME FeedTypeOK, NEW g \in Get, NEW caller \in Reporter,
           NEW slug \in Reporter \cup {NoTarget}, NEW limit \in Limit,
           Start(g, caller, slug, limit), \A h \in Get : ReadSound(h)
    PROVE  FeedTypeOK' /\ \A h \in Get : ReadSound(h)'
<1> DEFINE rows == {r \in log : slug \in {r.worker, NoTarget}}
           Next(acts) == [pc |-> IF slug = NoTarget THEN "window" ELSE "aimed",
                          caller |-> caller, slug |-> slug, limit |-> limit, acts |-> acts,
                          last |-> {}, shown |-> <<>>]
<1>1. PICK acts \in QueryActivities(rows, limit) : view' = [view EXCEPT ![g] = Next(acts)]
  BY DEF Start
<1>2. /\ stood' = [stood EXCEPT ![g] = log] /\ came' = [came EXCEPT ![g] = log]
      /\ log' = log /\ posted' = posted
  BY DEF Start
<1> DEFINE v == Next(acts)
<1>3. /\ v.pc = (IF slug = NoTarget THEN "window" ELSE "aimed") /\ v.slug = slug
      /\ v.limit = limit /\ v.acts = acts /\ v.caller = caller
  OBVIOUS
<1>4. limit \in Nat \ {0} /\ rows \subseteq log /\ log \subseteq Row
  BY FeedAssumption DEF FeedTypeOK
<1>5. /\ acts \in Seq(rows) /\ Len(acts) <= limit /\ NewestFirst(acts)
      /\ LeavesOlder(acts, rows, limit)
  <2>1. limit \in Nat
    BY <1>4
  <2> HIDE DEF rows
  <2> QED BY <2>1, QueryIs
<1>6. acts \in Seq(Row)
  <2>1. rows \subseteq Row
    BY <1>4
  <2> HIDE DEF rows
  <2> QED BY <1>5, <2>1, SeqMonotonic
<1>7. v \in View
  <2>1. <<>> \in Seq([row : Row, beats : Nat, from : Time])
    OBVIOUS
  <2> QED BY <1>6, <2>1 DEF View
<1> HIDE DEF v
<1>8. view'[g] = v /\ stood'[g] = log /\ came'[g] = log
  BY <1>1, <1>2 DEF FeedTypeOK, v
<1>9. FeedTypeOK'
  <2>1. stood' \in [Get -> SUBSET Row] /\ came' \in [Get -> SUBSET Row]
    BY <1>2, <1>4 DEF FeedTypeOK
  <2>2. Len(v.acts) <= v.limit
    BY <1>3, <1>5
  <2>3. view' = [view EXCEPT ![g] = v]
    BY <1>1 DEF v
  <2> QED BY <1>2, <1>7, <2>1, <2>2, <2>3, ReadTyped
<1>10. ReadSound(g)'
  <2>1. IdsGiven(g)'
    BY <1>2, <1>8 DEF ReadSound, IdsGiven, IdsUnique
  <2>2. Tracked(g)'
    BY <1>2, <1>3, <1>8 DEF Tracked
  <2>3. HasOwn(g)'
    <3> SUFFICES ASSUME v.pc = "aimed" PROVE HasOwn(g)'
      BY <1>8 DEF HasOwn
    <3>1. slug # NoTarget
      BY <1>3
    <3>2. /\ rows \subseteq {r \in came'[g] : r.worker = view'[g].slug}
          /\ {r \in stood'[g] : r.worker = view'[g].slug} \subseteq rows
      BY <1>3, <1>8, <3>1
    <3>3. view'[g].acts \in QueryActivities(rows, view'[g].limit)
      BY <1>3, <1>8
    <3>4. OwnOf(g, rows)'
      <4>1. (rows)' = rows
        BY <1>2
      <4> HIDE DEF rows
      <4> QED BY <3>2, <3>3, <4>1 DEF OwnOf
    <3> QED BY <3>4 DEF HasOwn
  <2>4. NewestOf(g)'
    <3> SUFFICES ASSUME v.pc = "window" PROVE NewestOf(g)'
      BY <1>8 DEF NewestOf
    <3>1. slug = NoTarget
      BY <1>3
    <3>2. \A r : OnTrack(r, slug)
      BY <3>1 DEF OnTrack
    <3>3. {r \in stood'[g] : OnTrack(r, view'[g].slug)} = rows
      BY <1>3, <1>8, <3>1, <3>2
    <3>4. \A i \in 1 .. Len(acts) : acts[i] \in came'[g] /\ OnTrack(acts[i], view'[g].slug)
      BY <1>3, <1>4, <1>5, <1>8, <3>2
    <3> HIDE DEF rows
    <3> QED BY <1>3, <1>5, <1>8, <3>3, <3>4 DEF NewestOf
  <2>5. RunsOf(g)' /\ UnjudgedOf(g)'
    BY <1>3, <1>8 DEF RunsOf, RunsIn, UnjudgedOf
  <2> QED BY <2>1, <2>2, <2>3, <2>4, <2>5 DEF ReadSound
<1>11. ASSUME NEW h \in Get, h # g PROVE ReadSound(h)'
  <2>1. view'[h] = view[h] /\ stood'[h] = stood[h] /\ came'[h] = came[h]
    BY <1>1, <1>2, <1>11 DEF FeedTypeOK
  <2> QED BY <1>2, <2>1, OtherReads
<1> QED BY <1>9, <1>10, <1>11

\* The second query is merged with the first: TrackNewest, with the rows of either query.
LEMMA AskAimedSound ==
    ASSUME FeedTypeOK, NEW g \in Get, AskAimed(g), \A h \in Get : ReadSound(h)
    PROVE  FeedTypeOK' /\ \A h \in Get : ReadSound(h)'
<1> DEFINE slug == view[g].slug
           limit == view[g].limit
           own == view[g].acts
           R2 == {r \in log : r.target = slug}
<1>1. PICK aimed \in QueryActivities(R2, limit) :
         view' = [view EXCEPT ![g].pc = "window", ![g].acts = Track(own, aimed, limit)]
  BY DEF AskAimed
<1>2. log' = log /\ posted' = posted /\ stood' = stood /\ came' = came /\ view[g].pc = "aimed"
  BY DEF AskAimed
<1>3. /\ view[g] \in View /\ limit \in Nat \ {0} /\ own \in Seq(Row)
      /\ came[g] \subseteq Row /\ log \subseteq Row
  BY <1>2, ViewParts DEF FeedTypeOK
<1>4. PICK R1 : OwnOf(g, R1)
  BY <1>2 DEF ReadSound, HasOwn
<1>5. /\ R1 \subseteq {r \in came[g] : r.worker = slug}
      /\ {r \in stood[g] : r.worker = slug} \subseteq R1
      /\ own \in QueryActivities(R1, limit)
  BY <1>4 DEF OwnOf
<1>6. stood[g] \subseteq log /\ log \subseteq came[g] /\ IdsUnique(log \cup came[g])
      /\ slug \in Reporter
  BY <1>2 DEF ReadSound, Tracked, IdsGiven
<1>7. /\ R1 \in SUBSET Row /\ R2 \in SUBSET Row /\ IdsUnique(R1 \cup R2)
      /\ R1 \cup R2 \subseteq came[g] /\ R1 \cup R2 \subseteq Row
  BY <1>3, <1>5, <1>6 DEF IdsUnique
<1> DEFINE acts == Track(own, aimed, limit)
<1>8. /\ acts \in Seq(R1 \cup R2) /\ Len(acts) <= limit
      /\ NewestFirst(acts) /\ LeavesOlder(acts, R1 \cup R2, limit)
  <2> HIDE DEF R2, own, limit
  <2> QED BY <1>1, <1>3, <1>5, <1>7, TrackNewest
<1>9. acts \in Seq(Row)
  <2> HIDE DEF acts, R2
  <2> QED BY <1>7, <1>8, SeqMonotonic
<1> HIDE DEF acts
<1> DEFINE v == [view[g] EXCEPT !.pc = "window", !.acts = acts]
<1>10. view' = [view EXCEPT ![g] = v]
  BY <1>1 DEF FeedTypeOK, acts
<1>11. v \in View /\ v.pc = "window" /\ v.slug = slug /\ v.limit = limit /\ v.acts = acts
  BY <1>3, <1>9 DEF View
<1> HIDE DEF v
<1>12. view'[g] = v
  BY <1>10 DEF FeedTypeOK
<1>13. FeedTypeOK'
  <2>1. Len(v.acts) <= v.limit
    BY <1>8, <1>11
  <2>2. stood' \in [Get -> SUBSET Row] /\ came' \in [Get -> SUBSET Row]
    BY <1>2 DEF FeedTypeOK
  <2> QED BY <1>2, <1>10, <1>11, <2>1, <2>2, ReadTyped
<1>14. ReadSound(g)'
  <2>1. IdsGiven(g)'
    BY <1>2 DEF ReadSound, IdsGiven, IdsUnique
  <2>2. Tracked(g)'
    BY <1>2, <1>6, <1>11, <1>12 DEF Tracked
  <2>3. HasOwn(g)' /\ RunsOf(g)' /\ UnjudgedOf(g)'
    BY <1>11, <1>12 DEF HasOwn, RunsOf, RunsIn, UnjudgedOf
  <2>4. NewestOf(g)'
    <3> DEFINE steady == {r \in stood[g] : OnTrack(r, slug)}
    <3>0. slug # NoTarget
      BY <1>6, FeedAssumption
    <3>1. steady \subseteq R1 \cup R2
      BY <1>5, <1>6, <3>0 DEF OnTrack
    <3>2. LeavesOlder(acts, steady, limit)
      <4> HIDE DEF steady, R2, limit
      <4> QED BY <1>8, <3>1, LeavesOlderOfFewer
    <3>3. \A r \in R1 \cup R2 : r \in came[g] /\ OnTrack(r, slug)
      BY <1>5, <1>7 DEF OnTrack
    <3>4. \A i \in 1 .. Len(acts) : acts[i] \in came[g] /\ OnTrack(acts[i], slug)
      <4> HIDE DEF R2, slug
      <4> QED BY <1>8, <3>3
    <3>5. steady = {r \in stood'[g] : OnTrack(r, v.slug)}
      BY <1>2, <1>11
    <3> HIDE DEF steady, slug, limit
    <3> QED BY <1>2, <1>8, <1>11, <1>12, <3>2, <3>4, <3>5 DEF NewestOf
  <2> QED BY <2>1, <2>2, <2>3, <2>4 DEF ReadSound
<1>15. ASSUME NEW h \in Get, h # g PROVE ReadSound(h)'
  <2>1. view'[h] = view[h] /\ stood'[h] = stood[h] /\ came'[h] = came[h]
    BY <1>2, <1>10, <1>15 DEF FeedTypeOK
  <2> QED BY <1>2, <2>1, OtherReads
<1> QED BY <1>13, <1>14, <1>15

\* Once the answer is sent the read holds nothing.
LEMMA SentSound ==
    ASSUME FeedTypeOK, NEW g \in Get, Sent(g), \A h \in Get : ReadSound(h)
    PROVE  FeedTypeOK' /\ \A h \in Get : ReadSound(h)'
<1>1. /\ view' = [view EXCEPT ![g] = NoView] /\ stood' = [stood EXCEPT ![g] = {}]
      /\ log' = log /\ posted' = posted /\ came' = came
  BY DEF Sent
<1>2. NoView.pc = "idle" /\ view'[g] = NoView /\ stood'[g] = {}
  BY <1>1 DEF NoView, FeedTypeOK
<1>3. FeedTypeOK'
  <2>1. stood' \in [Get -> SUBSET Row] /\ came' \in [Get -> SUBSET Row]
    BY <1>1 DEF FeedTypeOK
  <2> QED BY <1>1, <1>2, <2>1, ReadTyped
<1>4. ReadSound(g)'
  <2>1. IdsGiven(g)'
    BY <1>1 DEF ReadSound, IdsGiven, IdsUnique
  <2> QED BY <1>2, <2>1 DEF ReadSound, Tracked, HasOwn, NewestOf, RunsOf, RunsIn, UnjudgedOf
<1>5. ASSUME NEW h \in Get, h # g PROVE ReadSound(h)'
  <2>1. view'[h] = view[h] /\ stood'[h] = stood[h] /\ came'[h] = came[h]
    BY <1>1, <1>5 DEF FeedTypeOK
  <2> QED BY <1>1, <2>1, OtherReads
<1> QED BY <1>3, <1>4, <1>5

\* rows are the rows of acts that are no session starts and not judged by last, in their order.
WindowOf(acts, rows, last) ==
    /\ rows \in Seq(Row) /\ Len(rows) <= Len(acts)
    /\ \A k \in 1 .. Len(rows) : ~Judged(rows[k], last)
    /\ \E place \in [1 .. Len(rows) -> 1 .. Len(acts)] :
          /\ Increasing(place) /\ \A k \in 1 .. Len(rows) : rows[k] = acts[place[k]]
          /\ \A i \in 1 .. Len(acts) :
                (acts[i].kind # "started" /\ ~Judged(acts[i], last))
                   <=> \E k \in 1 .. Len(rows) : place[k] = i

\* The filters keep the rows that are no session starts and not judged, in their order.
LEMMA WindowPicks ==
    ASSUME NEW acts \in Seq(Row), NEW last,
           NEW rows, rows = limitToLastJudgment(dropSessionStartedNotes(acts), last)
    PROVE  WindowOf(acts, rows, last)
<1> DEFINE P1 == {i \in 1 .. Len(acts) : acts[i].kind # "started"}
           mid == dropSessionStartedNotes(acts)
           P2 == {i \in 1 .. Len(mid) : ~Judged(mid[i], last)}
<1>1. Picks(mid, acts, P1, Len(acts))
  BY KeepPicks DEF dropSessionStartedNotes
<1>2. mid \in Seq(Row) /\ Len(mid) <= Len(acts)
  BY <1>1 DEF Picks
<1>3. PICK f \in [1 .. Len(mid) -> 1 .. Len(acts)] :
         /\ Increasing(f) /\ \A k \in 1 .. Len(mid) : mid[k] = acts[f[k]]
         /\ \A i \in 1 .. Len(acts) : i \in P1 <=> \E k \in 1 .. Len(mid) : f[k] = i
  BY <1>1 DEF Picks
<1> HIDE DEF mid
<1>4. Picks(rows, mid, P2, Len(mid))
  <2>1. rows = Keep(mid, P2)
    BY DEF limitToLastJudgment, mid
  <2> HIDE DEF P2
  <2> QED BY <1>2, <2>1, KeepPicks
<1>5. rows \in Seq(Row) /\ Len(rows) <= Len(mid)
  BY <1>4 DEF Picks
<1>6. PICK h \in [1 .. Len(rows) -> 1 .. Len(mid)] :
         /\ Increasing(h) /\ \A k \in 1 .. Len(rows) : rows[k] = mid[h[k]]
         /\ \A i \in 1 .. Len(mid) : i \in P2 <=> \E k \in 1 .. Len(rows) : h[k] = i
  BY <1>4 DEF Picks
<1>7. \A k \in 1 .. Len(rows) : h[k] \in 1 .. Len(mid) /\ f[h[k]] \in 1 .. Len(acts)
  BY <1>3, <1>6
<1> DEFINE place == [k \in 1 .. Len(rows) |-> f[h[k]]]
<1>8. /\ place \in [1 .. Len(rows) -> 1 .. Len(acts)]
      /\ \A k \in 1 .. Len(rows) : place[k] = f[h[k]] /\ rows[k] = acts[place[k]]
  BY <1>3, <1>6, <1>7
<1> HIDE DEF place, P1, P2
<1>9. \A k \in 1 .. Len(rows) : ~Judged(rows[k], last)
  <2> SUFFICES ASSUME NEW k \in 1 .. Len(rows) PROVE ~Judged(rows[k], last)
    OBVIOUS
  <2>1. h[k] \in P2
    BY <1>6, <1>7
  <2> QED BY <1>6, <2>1 DEF P2
<1>10. Increasing(place)
  <2> SUFFICES ASSUME NEW i \in 1 .. Len(rows), NEW j \in 1 .. Len(rows), i < j
               PROVE  place[i] < place[j]
    BY <1>8 DEF Increasing
  <2>1. h[i] < h[j]
    BY <1>6 DEF Increasing
  <2>2. f[h[i]] < f[h[j]]
    BY <1>3, <1>7, <2>1 DEF Increasing
  <2> QED BY <1>8, <2>2
<1>11. ASSUME NEW i \in 1 .. Len(acts)
       PROVE  (acts[i].kind # "started" /\ ~Judged(acts[i], last))
                 <=> \E k \in 1 .. Len(rows) : place[k] = i
  <2>1. ASSUME acts[i].kind # "started", ~Judged(acts[i], last)
        PROVE  \E k \in 1 .. Len(rows) : place[k] = i
    <3>1. i \in P1
      BY <2>1 DEF P1
    <3>2. PICK x \in 1 .. Len(mid) : f[x] = i
      BY <1>3, <3>1
    <3>3. x \in P2
      BY <1>3, <2>1, <3>2 DEF P2
    <3>4. PICK k \in 1 .. Len(rows) : h[k] = x
      BY <1>6, <3>3
    <3> QED BY <1>8, <3>2, <3>4
  <2>2. ASSUME NEW k \in 1 .. Len(rows), place[k] = i
        PROVE  acts[i].kind # "started" /\ ~Judged(acts[i], last)
    <3>1. acts[i] = rows[k] /\ f[h[k]] = i
      BY <1>8, <2>2
    <3>2. i \in P1
      BY <1>3, <1>7, <3>1
    <3>3. acts[i].kind # "started"
      BY <3>2 DEF P1
    <3> QED BY <1>9, <3>1, <3>3
  <2> QED BY <2>1, <2>2
<1>12. Len(rows) <= Len(acts)
  BY <1>2, <1>5
<1> QED BY <1>5, <1>8, <1>9, <1>10, <1>11, <1>12 DEF WindowOf

\* The third query, and the answer: what is left of the window is fused into working runs, and no
\* beat of a run is judged, unless the query failed.
LEMMA AnswerSound ==
    ASSUME FeedTypeOK, NEW g \in Get, NEW last, NEW pc \in {"shown", "unjudged"},
           AnswerWith(g, last, pc), \A h \in Get : ReadSound(h),
           last \in {NewestTsByTarget(view[g].caller), {}},
           pc = "shown" => last = NewestTsByTarget(view[g].caller)
    PROVE  FeedTypeOK' /\ \A h \in Get : ReadSound(h)'
<1> DEFINE acts == view[g].acts
           rows == limitToLastJudgment(dropSessionStartedNotes(acts), last)
           shown == collapseActiveSpans(rows)
           v == [view[g] EXCEPT !.pc = pc, !.last = last, !.shown = shown]
<1>1. /\ view[g].pc = "window" /\ came' = [came EXCEPT ![g] = {}]
      /\ log' = log /\ posted' = posted /\ stood' = stood
  BY DEF AnswerWith
<1>2. /\ view[g] \in View /\ acts \in Seq(Row) /\ log \subseteq Row /\ stood[g] \subseteq log
      /\ Len(acts) <= view[g].limit
  BY <1>1, ViewParts DEF FeedTypeOK, ReadSound, Tracked
<1>3. view' = [view EXCEPT ![g] = v]
  BY DEF AnswerWith, FeedTypeOK
<1>4. /\ rows \in Seq(Row) /\ Len(rows) <= Len(acts)
      /\ \A k \in 1 .. Len(rows) : ~Judged(rows[k], last)
      /\ \E place \in [1 .. Len(rows) -> 1 .. Len(acts)] :
            /\ Increasing(place) /\ \A k \in 1 .. Len(rows) : rows[k] = acts[place[k]]
            /\ \A i \in 1 .. Len(acts) :
                  (acts[i].kind # "started" /\ ~Judged(acts[i], last))
                     <=> \E k \in 1 .. Len(rows) : place[k] = i
  <2>1. rows = limitToLastJudgment(dropSessionStartedNotes(acts), last)
    OBVIOUS
  <2> HIDE DEF acts, rows
  <2>2. WindowOf(acts, rows, last)
    BY <1>2, <2>1, WindowPicks
  <2> QED BY <2>2 DEF WindowOf
<1>5. last \in SUBSET ((Reporter \cup {NoTarget}) \X Time)
  BY <1>2 DEF NewestTsByTarget, Row
<1> HIDE DEF rows
<1>6. Runs(shown, rows, Len(rows))
  BY <1>4, SpansRun
<1>7. PICK edge : CutAt(shown, rows, Len(rows), edge)
  BY <1>6 DEF Runs
<1>8. shown \in Seq([row : Row, beats : Nat, from : Time])
  BY <1>6 DEF Runs, Span
<1>9. \A q \in stood[g] : pc = "shown" /\ q.worker = view[g].caller => <<q.target, q.ts>> \in last
  BY <1>2 DEF NewestTsByTarget
<1> HIDE DEF shown
<1>10. /\ v \in View /\ v.pc = pc /\ v.shown = shown /\ v.last = last /\ v.acts = acts
       /\ v.caller = view[g].caller /\ v.limit = view[g].limit
  BY <1>2, <1>5, <1>8 DEF View
<1> HIDE DEF v
<1>11. view'[g] = v /\ stood'[g] = stood[g] /\ came'[g] = {}
  BY <1>1, <1>3 DEF FeedTypeOK
<1>12. FeedTypeOK'
  <2>1. stood' \in [Get -> SUBSET Row] /\ came' \in [Get -> SUBSET Row]
    BY <1>1 DEF FeedTypeOK
  <2> QED BY <1>1, <1>2, <1>3, <1>10, <2>1, ReadTyped
<1>13. RunsIn(v)
  <2> DEFINE n == Len(rows)
             seen == {i \in 1 .. Len(acts) : acts[i].kind # "started" /\ ~Judged(acts[i], last)}
  <2>1. PICK place \in [1 .. n -> 1 .. Len(acts)] :
           /\ Increasing(place) /\ \A k \in 1 .. n : rows[k] = acts[place[k]]
           /\ \A i \in 1 .. Len(acts) :
                 (acts[i].kind # "started" /\ ~Judged(acts[i], last))
                    <=> \E k \in 1 .. n : place[k] = i
    BY <1>4
  <2>2. n \in 0 .. Len(acts)
    BY <1>2, <1>4
  <2>3. \A i \in 1 .. Len(acts) : i \in seen <=> \E k \in 1 .. n : place[k] = i
    BY <2>1
  <2>4. [k \in 1 .. n |-> acts[place[k]]] = rows
    <3>1. rows = [k \in 1 .. n |-> rows[k]]
      BY <1>4
    <3> QED BY <2>1, <3>1
  <2>5. edge \in [1 .. Len(shown) + 1 -> 1 .. n + 1] /\ RunsAt(shown, rows, edge)
    BY <1>7 DEF CutAt, RunsAt
  <2> DEFINE picked == [k \in 1 .. n |-> acts[place[k]]]
  <2>6. RunsAt(shown, picked, edge)
    BY <2>4, <2>5
  <2> HIDE DEF n, picked
  <2>7. \E nn \in 0 .. Len(acts) : \E pl \in [1 .. nn -> 1 .. Len(acts)] :
           /\ Increasing(pl)
           /\ \A i \in 1 .. Len(acts) : i \in seen <=> \E k \in 1 .. nn : pl[k] = i
           /\ \E e \in [1 .. Len(shown) + 1 -> 1 .. nn + 1] :
                 RunsAt(shown, [k \in 1 .. nn |-> acts[pl[k]]], e)
    <3> HIDE DEF seen
    <3> QED BY <2>1, <2>2, <2>3, <2>5, <2>6 DEF picked
  <2> HIDE DEF acts
  <2>8. RunsShown(acts, last, shown)
    BY <2>7 DEF RunsShown
  <2> QED BY <1>10, <2>8 DEF RunsIn
<1>14. UnjudgedOf(g)'
  <2> SUFFICES ASSUME pc = "shown", NEW k \in 1 .. Len(shown), NEW q \in stood[g],
                      q.worker = view[g].caller, q.target = shown[k].row.worker
               PROVE  q.ts <= shown[k].from
    BY <1>10, <1>11 DEF UnjudgedOf
  <2> DEFINE i == edge[k + 1] - 1
  <2>1. i \in 1 .. Len(rows) /\ Alike(shown[k], rows[i])
    <3>1. /\ k \in 1 .. Len(shown) + 1 /\ k + 1 \in 1 .. Len(shown) + 1 /\ k < k + 1
          /\ edge \in [1 .. Len(shown) + 1 -> 1 .. Len(rows) + 1] /\ Increasing(edge)
      BY <1>7, <1>8 DEF CutAt
    <3>2. edge[k] < edge[k + 1] /\ edge[k] \in 1 .. Len(rows) + 1
          /\ edge[k + 1] \in 1 .. Len(rows) + 1
      BY <3>1 DEF Increasing
    <3>3. Alike(shown[k], rows[i])
      BY <1>7 DEF CutAt
    <3> QED BY <1>4, <3>2, <3>3
  <2> HIDE DEF i
  <2>2. rows[i].worker = q.target /\ shown[k].from = rows[i].ts
    BY <2>1 DEF Alike
  <2>3. <<q.target, q.ts>> \in last
    BY <1>9
  <2>4. ~(rows[i].ts < q.ts)
    <3>1. ~Judged(rows[i], last)
      BY <1>4, <2>1
    <3> QED BY <2>2, <2>3, <3>1 DEF Judged
  <2>5. rows[i].ts \in Int /\ q.ts \in Int
    <3>1. rows[i] \in Row /\ q \in Row
      BY <1>2, <1>4, <2>1
    <3> QED BY <3>1, FeedAssumption DEF Row
  <2> QED BY <2>2, <2>4, <2>5
<1>15. ReadSound(g)'
  <2>1. IdsGiven(g)'
    BY <1>1, <1>11 DEF ReadSound, IdsGiven, IdsUnique
  <2>2. Tracked(g)' /\ HasOwn(g)' /\ NewestOf(g)'
    BY <1>1, <1>2, <1>10, <1>11 DEF Tracked, HasOwn, NewestOf
  <2>3. RunsOf(g)'
    BY <1>11, <1>13 DEF RunsOf
  <2> QED BY <1>14, <2>1, <2>2, <2>3 DEF ReadSound
<1>16. ASSUME NEW h \in Get, h # g PROVE ReadSound(h)'
  <2>1. view'[h] = view[h] /\ stood'[h] = stood[h] /\ came'[h] = came[h]
    BY <1>1, <1>3, <1>16 DEF FeedTypeOK
  <2> QED BY <1>1, <2>1, OtherReads
<1> QED BY <1>12, <1>15, <1>16

-----------------------------------------------------------------------------
(* The theorems.                                                            *)

\* The empty table and no reads are sound.
LEMMA InitSound == FeedInit => FeedInv
<1> SUFFICES ASSUME FeedInit PROVE FeedInv
  OBVIOUS
<1>1. /\ log = {} /\ posted = 0 /\ view = [g \in Get |-> NoView]
      /\ stood = [g \in Get |-> {}] /\ came = [g \in Get |-> {}]
  BY DEF FeedInit
<1>2. \A g \in Get : view[g] = NoView /\ NoView.pc = "idle" /\ stood[g] = {} /\ came[g] = {}
  BY <1>1 DEF NoView
<1>3. FeedTypeOK
  <2>1. log \subseteq Row /\ posted \in 0 .. LogLength
    BY <1>1, FeedAssumption
  <2>2. view \in [Get -> View \cup {NoView}]
    BY <1>1
  <2>3. stood \in [Get -> SUBSET Row] /\ came \in [Get -> SUBSET Row]
    BY <1>1
  <2> QED BY <1>2, <2>1, <2>2, <2>3 DEF FeedTypeOK
<1>4. ASSUME NEW g \in Get PROVE ReadSound(g)
  <2>1. IdsGiven(g)
    BY <1>1, <1>2 DEF IdsGiven, IdsUnique
  <2>2. view[g].pc = "idle" /\ stood[g] = {}
    BY <1>2
  <2> QED BY <2>1, <2>2
          DEF ReadSound, Tracked, HasOwn, NewestOf, RunsOf, RunsIn, UnjudgedOf
<1> QED BY <1>3, <1>4 DEF FeedInv

\* Every handler keeps every read sound.
LEMMA NextSound == FeedInv /\ [FeedNext]_feedVars => FeedInv'
<1> SUFFICES ASSUME FeedInv, [FeedNext]_feedVars PROVE FeedInv'
  OBVIOUS
<1>1. FeedTypeOK /\ \A g \in Get : ReadSound(g)
  BY DEF FeedInv
<1>2. ASSUME NEW worker \in Reporter, NEW report \in Report, NEW ts \in Time,
             InsertActivity(worker, report, ts)
      PROVE  FeedInv'
  BY <1>1, <1>2, InsertSound DEF FeedInv
<1>3. ASSUME NEW worker \in Reporter, NEW row \in log, DeleteOwnActivity(worker, row)
      PROVE  FeedInv'
  BY <1>1, <1>3, DeleteSound DEF FeedInv
<1>4. ASSUME NEW g \in Get, NEW caller \in Reporter, NEW slug \in Reporter \cup {NoTarget},
             NEW limit \in Limit, Start(g, caller, slug, limit)
      PROVE  FeedInv'
  BY <1>1, <1>4, StartSound DEF FeedInv
<1>5. ASSUME NEW g \in Get, AskAimed(g) PROVE FeedInv'
  BY <1>1, <1>5, AskAimedSound DEF FeedInv
<1>6. ASSUME NEW g \in Get, Answer(g) \/ AnswerUnjudged(g) PROVE FeedInv'
  BY <1>1, <1>6, AnswerSound DEF FeedInv, Answer, AnswerUnjudged
<1>7. ASSUME NEW g \in Get, Sent(g) PROVE FeedInv'
  BY <1>1, <1>7, SentSound DEF FeedInv
<1>8. CASE UNCHANGED feedVars
  <2>1. log' = log /\ posted' = posted /\ view' = view /\ stood' = stood /\ came' = came
    BY <1>8 DEF feedVars
  <2>2. FeedTypeOK'
    BY <1>1, <2>1 DEF FeedTypeOK
  <2>3. ASSUME NEW g \in Get PROVE ReadSound(g)'
    BY <1>1, <2>1, OtherReads
  <2> QED BY <2>2, <2>3 DEF FeedInv
<1> QED BY <1>2, <1>3, <1>4, <1>5, <1>6, <1>7, <1>8 DEF FeedNext

\* Whatever rows come and go between its queries, every read is sound at every moment.
THEOREM FeedHolds == FeedSpec => []FeedInv
BY InitSound, NextSound, PTL DEF FeedSpec

\* The table and the reads have their types, and no read holds more rows than it asked for.
THEOREM FeedTyped == FeedSpec => []FeedTypeOK
<1>1. FeedInv => FeedTypeOK
  BY DEF FeedInv
<1> QED BY <1>1, FeedHolds, PTL

\* The merged rows of a read are a newest part of its track, whatever came and went meanwhile.
THEOREM FeedNewestHolds == FeedSpec => []FeedIsNewest
<1>1. FeedInv => FeedIsNewest
  BY DEF FeedInv, ReadSound, NewestOf, FeedIsNewest
<1> QED BY <1>1, FeedHolds, PTL

\* A read shows its unjudged rows in their order, every working run as one row.
THEOREM SpansHold == FeedSpec => []SpansAreRuns
<1>1. FeedInv => SpansAreRuns
  <2> SUFFICES ASSUME FeedInv, NEW g \in Get, view[g].pc \in {"shown", "unjudged"}
               PROVE  RunsShown(view[g].acts, view[g].last, view[g].shown)
    BY DEF SpansAreRuns, RunsShown
  <2> QED BY DEF FeedInv, ReadSound, RunsOf, RunsIn
<1> QED BY <1>1, FeedHolds, PTL

\* No read whose third query was answered shows a beat older than a judgement of its caller that
\* stood while it read.
THEOREM RejudgedNever == FeedSpec => []NothingRejudged
<1>1. FeedInv => NothingRejudged
  BY DEF FeedInv, ReadSound, UnjudgedOf, NothingRejudged
<1> QED BY <1>1, FeedHolds, PTL
=============================================================================
