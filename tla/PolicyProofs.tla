---------------------------- MODULE PolicyProofs ----------------------------
(***************************************************************************)
(* Proofs about Decide, for every set of hosts, tokens, patterns and sites.*)
(***************************************************************************)
EXTENDS PolicyEdits, TLAPS

(***************************************************************************)
(* An edit that adds exceptions, rules or transcript placeholders.         *)
(***************************************************************************)
Edit(i, j) ==
    /\ i \in Input /\ j \in Input
    /\ j.host = i.host /\ j.shape = i.shape /\ j.worker = i.worker
    /\ j.vault = i.vault /\ j.denied = i.denied
    /\ j.scan.real = i.scan.real /\ j.scan.hits = i.scan.hits
    /\ i.rules \subseteq j.rules
    /\ i.exceptions \subseteq j.exceptions
    /\ i.scan.phs \subseteq j.scan.phs
    /\ \A p \in j.scan.phs \ i.scan.phs : IsChatContent(p.site)

\* Every step is such an edit.
LEMMA StepIsEdit == EditsTypeOK /\ EditsNext => Edit(in, in')
<1> SUFFICES ASSUME EditsTypeOK, EditsNext PROVE Edit(in, in')
  OBVIOUS
<1> USE PolicyEditsAssumption
<1>1. CASE \E e \in EditException : EditAddException(e)
  BY <1>1 DEF EditAddException, EditsTypeOK, Input, Edit, Exception, Scan
<1>2. CASE \E r \in EditRule : EditAddRule(r)
  BY <1>2 DEF EditAddRule, EditsTypeOK, Input, Edit, Rule, Scan
<1>3. CASE \E p \in Placeholder : Mention(p)
  BY <1>3 DEF Mention, EditsTypeOK, Input, Edit, Scan
<1> QED BY <1>1, <1>2, <1>3 DEF EditsNext

\* Types are preserved.
THEOREM TypeCorrect == EditsSpec => []EditsTypeOK
<1>1. EditsInit => EditsTypeOK
  BY PolicyEditsAssumption DEF EditsInit, EditsTypeOK
<1>2. EditsTypeOK /\ [EditsNext]_in => EditsTypeOK'
  BY StepIsEdit DEF Edit, EditsTypeOK
<1> QED BY <1>1, <1>2, PTL DEF EditsSpec

\* An exception that matches goes on matching.
LEMMA MatchGrows ==
    ASSUME NEW i, NEW j, Edit(i, j), NEW e, exceptionRequestMatch(e, i)
    PROVE  exceptionRequestMatch(e, j)
  BY DEF Edit, exceptionRequestMatch

\* A waiver stays a waiver.
LEMMA HostWideGrows ==
    ASSUME NEW i, NEW j, Edit(i, j), hostWideExceptionApplies(i)
    PROVE  hostWideExceptionApplies(j)
  BY MatchGrows DEF Edit, hostWideExceptionApplies

\* A pattern hit is explained by more placeholders, so fewer hits are left over,
\* and those that are left stay covered.
LEMMA LeftoverShrinks ==
    ASSUME NEW i, NEW j, Edit(i, j)
    PROVE  egressPatternHits(j.scan) \subseteq egressPatternHits(i.scan)
  BY DEF Edit, egressPatternHits, patternHitIsPlaceholder

\* What was covered stays covered.
LEMMA CoverGrows ==
    ASSUME NEW i, NEW j, Edit(i, j), allHitsCovered(i, egressPatternHits(i.scan))
    PROVE  allHitsCovered(j, egressPatternHits(j.scan))
  BY MatchGrows, LeftoverShrinks DEF Edit, allHitsCovered, patternHitCovered

\* The credential-site placeholders are those of before, and resolve if they did.
LEMMA CredentialsFixed ==
    ASSUME NEW i, NEW j, Edit(i, j)
    PROVE  credentialTokens(j) = credentialTokens(i)
  BY DEF Edit, credentialTokens, isVaultPlaceholder

\* Placeholders that resolved still do.
LEMMA ResolutionGrows ==
    ASSUME NEW i, NEW j, Edit(i, j), substituteAllOk(i)
    PROVE  substituteAllOk(j)
  BY CredentialsFixed DEF Edit, substituteAllOk, lookupRule, secretAllowedForWorker

\* When Decide passes, as a formula without its branches.
LEMMA PassesIff ==
    ASSUME NEW i
    PROVE  Passes(i) <=>
             /\ ~isInternal(i.host) /\ ~isDenied(i)
             /\ \/ i.scan.real /\ hostWideExceptionApplies(i)
                \/ /\ ~i.scan.real
                   /\ allHitsCovered(i, egressPatternHits(i.scan))
                   /\ i.scan.phs # {} => hostWideExceptionApplies(i) \/ substituteAllOk(i)
  BY DEF Passes, Decide, decidePlaceholders, Allow, Block

\* No credential site holds a vault placeholder when there are none at all.
LEMMA NothingToResolve ==
    ASSUME NEW i, i.scan.phs = {} PROVE substituteAllOk(i)
  BY DEF substituteAllOk, credentialTokens

\* Opening up never shuts (see PassingStaysPassing).
THEOREM EditsKeepPassing ==
    ASSUME NEW i, NEW j, Edit(i, j), Passes(i) PROVE Passes(j)
<1>1. ~isInternal(j.host) /\ ~isDenied(j)
  BY PassesIff DEF Edit, isDenied
<1>2. CASE i.scan.real
  BY <1>1, <1>2, PassesIff, HostWideGrows DEF Edit
<1>3. CASE ~i.scan.real
  <2>1. ~j.scan.real
    BY <1>3 DEF Edit
  <2>2. allHitsCovered(j, egressPatternHits(j.scan))
    BY <1>3, PassesIff, CoverGrows
  <2>3. hostWideExceptionApplies(i) \/ substituteAllOk(i)
    BY <1>3, PassesIff, NothingToResolve
  <2>4. hostWideExceptionApplies(j) \/ substituteAllOk(j)
    BY <2>3, HostWideGrows, ResolutionGrows
  <2> QED BY <1>1, <2>1, <2>2, <2>4, PassesIff
<1> QED BY <1>2, <1>3

\* No step of the operator or of the agent's transcript blocks a request that
\* passed.
THEOREM PassingIsStable == EditsSpec => PassingStaysPassing
<1>1. EditsTypeOK /\ [EditsNext]_in => [Passes(in) => Passes(in')]_in
  BY StepIsEdit, EditsKeepPassing
<1> QED BY <1>1, TypeCorrect, PTL DEF EditsSpec, PassingStaysPassing

-----------------------------------------------------------------------------
(***************************************************************************)
(* What particular edits leave alone.                                      *)
(***************************************************************************)
\* Only an exception without a pattern can be host-wide.
LEMMA PatternExceptionIsNotHostWide ==
    ASSUME NEW i \in Input, NEW e \in Exception, e.pat # NoPattern,
           NEW j, j = [i EXCEPT !.exceptions = @ \cup {e}]
    PROVE  hostWideExceptionApplies(j) <=> hostWideExceptionApplies(i)
<1>1. j.exceptions = i.exceptions \cup {e} /\ j.host = i.host /\ j.shape = i.shape
      /\ j.scan = i.scan
  BY DEF Input
<1>2. \A x : exceptionRequestMatch(x, j) <=> exceptionRequestMatch(x, i)
  BY <1>1 DEF exceptionRequestMatch
<1> QED BY <1>1, <1>2 DEF hostWideExceptionApplies

\* A request that passed keeps its decision when an exception for one pattern is
\* added to it: its hits were covered already, and nothing else is looked up.
THEOREM PatternExceptionKeepsDecision ==
    ASSUME NEW i \in Input, NEW e \in Exception, e.pat # NoPattern, Passes(i),
           NEW j, j = [i EXCEPT !.exceptions = @ \cup {e}]
    PROVE  Decide(j) = Decide(i)
<1>1. j.host = i.host /\ j.scan = i.scan /\ j.vault = i.vault /\ j.rules = i.rules
      /\ j.denied = i.denied /\ j.worker = i.worker
  BY DEF Input
<1>2. Edit(i, j)
  BY DEF Edit, Input, Exception
<1>3. hostWideExceptionApplies(j) <=> hostWideExceptionApplies(i)
  BY PatternExceptionIsNotHostWide
<1>4. isDenied(j) <=> isDenied(i)
  BY <1>1 DEF isDenied
<1>5. CASE i.scan.real
  BY <1>1, <1>3, <1>4, <1>5 DEF Decide
<1>6. CASE ~i.scan.real
  <2>1. allHitsCovered(i, egressPatternHits(i.scan))
    BY <1>6, PassesIff
  <2>2. allHitsCovered(j, egressPatternHits(j.scan))
    BY <2>1, <1>2, CoverGrows
  <2>3. \A tok : lookupRule(j, tok) <=> lookupRule(i, tok)
    BY <1>1 DEF lookupRule
  <2>4. \A tok : secretAllowedForWorker(j, tok) <=> secretAllowedForWorker(i, tok)
    BY <1>1 DEF secretAllowedForWorker
  <2>5. credentialTokens(j) = credentialTokens(i)
    BY <1>2, CredentialsFixed
  <2>6. substituteAllOk(j) <=> substituteAllOk(i)
    BY <1>1, <2>3, <2>4, <2>5 DEF substituteAllOk
  <2>7. placeholderNeedsMcpAuth(j) <=> placeholderNeedsMcpAuth(i)
    BY <1>1, <2>3, <2>4, <2>5 DEF placeholderNeedsMcpAuth
  <2>8. decidePlaceholders(j) = decidePlaceholders(i)
    BY <1>3, <2>5, <2>6, <2>7 DEF decidePlaceholders
  <2> QED BY <1>1, <1>4, <1>6, <2>1, <2>2, <2>8 DEF Decide
<1> QED BY <1>5, <1>6

\* The step form of the theorem above.
THEOREM PatternExceptionsAreNarrow == EditsSpec => PatternExceptionsKeepDecisions
<1>1. EditsTypeOK /\ [EditsNext]_in =>
        [\A e \in EditException :
            e.pat # NoPattern /\ EditAddException(e) /\ Passes(in) =>
                Decide(in') = Decide(in)]_in
  BY PatternExceptionKeepsDecision, PolicyEditsAssumption DEF EditsTypeOK, EditAddException
<1> QED BY <1>1, TypeCorrect, PTL DEF EditsSpec, PatternExceptionsKeepDecisions

\* With no exception bound to a placeholder, what is put in is exactly the
\* credential-site tokens, unless an exception waives the request.
LEMMA SubstOfPassing ==
    ASSUME NEW i, Passes(i)
    PROVE  Decide(i).subst = IF hostWideExceptionApplies(i) \/ i.scan.real
                             THEN {} ELSE credentialTokens(i)
<1>1. i.scan.phs = {} => credentialTokens(i) = {}
  BY DEF credentialTokens
<1> QED BY <1>1, PassesIff DEF Decide, decidePlaceholders, Allow, Block

\* Exceptions that name no placeholder do not see the transcript.
LEMMA MentionKeepsHostWide ==
    ASSUME NEW i, NEW j, Edit(i, j), j.exceptions = i.exceptions,
           \A e \in i.exceptions : e.tok = NoToken
    PROVE  hostWideExceptionApplies(j) <=> hostWideExceptionApplies(i)
  BY DEF Edit, hostWideExceptionApplies, exceptionRequestMatch

\* Quoting a placeholder in the transcript neither adds a substitution nor drops
\* one (see MentionsKeepSubstitutions).
THEOREM MentionsAreText == EditsSpec => MentionsKeepSubstitutions
<1>1. ASSUME EditsTypeOK, EditsNext, NEW p \in Placeholder, Mention(p), Passes(in),
             \A e \in in.exceptions : e.tok = NoToken
      PROVE  Decide(in').subst = Decide(in).subst
  <2>1. Edit(in, in')
    BY <1>1, StepIsEdit
  <2>2. in'.exceptions = in.exceptions
    BY <1>1 DEF Mention, EditsTypeOK, Input
  <2>3. Passes(in')
    BY <1>1, <2>1, EditsKeepPassing
  <2>4. hostWideExceptionApplies(in') <=> hostWideExceptionApplies(in)
    BY <1>1, <2>1, <2>2, MentionKeepsHostWide
  <2>5. credentialTokens(in') = credentialTokens(in) /\ in'.scan.real = in.scan.real
    BY <2>1, CredentialsFixed DEF Edit
  <2> QED BY <1>1, <2>3, <2>4, <2>5, SubstOfPassing
<1>2. EditsTypeOK /\ [EditsNext]_in =>
        [\A p \in Placeholder :
            /\ Mention(p)
            /\ Passes(in)
            /\ \A e \in in.exceptions : e.tok = NoToken
            => Decide(in').subst = Decide(in).subst]_in
  BY <1>1
<1> QED BY <1>2, TypeCorrect, PTL DEF EditsSpec, MentionsKeepSubstitutions
=============================================================================
