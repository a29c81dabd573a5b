------------------------------- MODULE Policy -------------------------------
(***************************************************************************)
(* The gateway's enforcement point, internal/policy: a pure function from  *)
(* what the scanner found in one request, together with the configured     *)
(* secrets, rules, domains and exceptions, to a decision.                  *)
(*                                                                         *)
(* Lists the code only searches are sets here.  A regular expression of an *)
(* exception is the set of hosts, or of path-and-body shapes, it accepts;  *)
(* the empty expression accepts all of them.  A location-and-field pair of *)
(* a finding is one site.                                                  *)
(***************************************************************************)
EXTENDS Naturals

CONSTANTS
    Host,           \* hostnames a request can name (compared case-insensitively)
    InternalHost,   \* those that are loopback, private or link-local literals
    AnyHost,        \* the rule host "*"
    Token,          \* piso_ placeholder tokens
    NoToken,        \* an exception's empty Placeholder
    Pattern,        \* ids of the credential-pattern library
    NoPattern,      \* an exception's empty PatternID
    Site,           \* where a finding sits: a header, the query, a body field
    ChatSite,       \* the sites under messages[] of a JSON body
    Shape,          \* classes of path and body the exception regexes tell apart
    Value,          \* real credential values
    Blank,          \* the empty credential value
    Worker          \* origin identities: worker slugs and the fallback "worker"

ASSUME PolicyAssumption ==
    /\ InternalHost \subseteq Host
    /\ AnyHost \notin Host
    /\ NoToken \notin Token
    /\ NoPattern \notin Pattern
    /\ ChatSite \subseteq Site
    /\ Blank \notin Value

(***************************************************************************)
(* Records.                                                                *)
(***************************************************************************)
Placeholder == [tok : Token, site : Site]
Hit         == [pat : Pattern, site : Site, wraps : SUBSET Token]
Scan        == [phs : SUBSET Placeholder, real : BOOLEAN, hits : SUBSET Hit]

\* model.Secret as the policy sees it; id 0 is "no such key in the map".
VaultEntry  == [id : Nat, value : Value \cup {Blank}, workers : SUBSET Worker]
Rule        == [tok : Token, host : Host \cup {AnyHost}]
Exception   == [hosts : SUBSET Host, shapes : SUBSET Shape,
                tok : Token \cup {NoToken}, pat : Pattern \cup {NoPattern},
                enabled : BOOLEAN]

Input == [host : Host, shape : Shape, scan : Scan, vault : [Token -> VaultEntry],
          rules : SUBSET Rule, denied : SUBSET Host,
          exceptions : SUBSET Exception, worker : Worker]

Reason   == {"internal-target", "denied-domain", "allowed-exception",
             "real-secret-detected", "credential-pattern", "allowed-domain",
             "mcp-auth-required", "no-secret-rule"}
Decision == [action : {"allow", "block", "substitute"},
             reasons : SUBSET Reason, subst : SUBSET Token]

Block(reasons) == [action |-> "block", reasons |-> reasons, subst |-> {}]
Allow(reason)  == [action |-> "allow", reasons |-> {reason}, subst |-> {}]

-----------------------------------------------------------------------------
IsChatContent(site) == site \in ChatSite

\* Hostnames are external; only address literals can be internal.
isInternal(host) == host \in InternalHost

exceptionRequestMatch(e, in) ==
    /\ e.enabled
    /\ in.host \in e.hosts
    /\ in.shape \in e.shapes
    /\ e.tok # NoToken => \E p \in in.scan.phs : p.tok = e.tok

\* A slip: pattern-scoped exceptions are not left out.
anyExceptionApplies(in) == \E e \in in.exceptions : exceptionRequestMatch(e, in)

hostWideExceptionApplies(in) ==
    \E e \in in.exceptions : e.pat = NoPattern /\ exceptionRequestMatch(e, in)

patternHitCovered(in, pat) ==
    \E e \in in.exceptions : e.pat \in {NoPattern, pat} /\ exceptionRequestMatch(e, in)

patternHitIsPlaceholder(hit, phs) ==
    \E p \in phs : p.tok \in hit.wraps \/ p.site = hit.site

\* Pattern hits that really leave as credentials.
egressPatternHits(scan) ==
    {hit \in scan.hits : /\ ~patternHitIsPlaceholder(hit, scan.phs)
                         /\ ~IsChatContent(hit.site)}

allHitsCovered(in, hits) == \A hit \in hits : patternHitCovered(in, hit.pat)

isVaultPlaceholder(in, tok) == in.vault[tok].id # 0

secretAllowedForWorker(in, tok) ==
    in.vault[tok].workers # {} => in.worker \in in.vault[tok].workers

\* A slip: the host of a rule is not compared.
lookupRuleOfToken(in, tok) == \E r \in in.rules : r.tok = tok

lookupRule(in, tok) ==
    \E r \in in.rules : r.tok = tok /\ r.host \in {AnyHost, in.host}

\* A slip: substituteAll skips a placeholder without a rule instead of failing.
ruledTokens(in) ==
    {tok \in Token : /\ isVaultPlaceholder(in, tok) /\ lookupRule(in, tok)
                     /\ \E p \in in.scan.phs : p.tok = tok /\ ~IsChatContent(p.site)}

\* A slip: a mention in the transcript counts as a credential.
mentionedTokens(in) ==
    {tok \in Token : isVaultPlaceholder(in, tok) /\ \E p \in in.scan.phs : p.tok = tok}

\* The vault placeholders that occur outside the LLM transcript.
credentialTokens(in) ==
    {tok \in Token : /\ isVaultPlaceholder(in, tok)
                     /\ \E p \in in.scan.phs : p.tok = tok /\ ~IsChatContent(p.site)}

\* substituteAll's verdict: every credential-site vault placeholder resolves.
substituteAllOk(in) ==
    \A tok \in credentialTokens(in) :
        /\ lookupRule(in, tok)
        /\ secretAllowedForWorker(in, tok)
        /\ in.vault[tok].value # Blank

placeholderNeedsMcpAuth(in) ==
    \E tok \in credentialTokens(in) :
        /\ in.vault[tok].value = Blank
        /\ lookupRule(in, tok)
        /\ secretAllowedForWorker(in, tok)

\* Step 5 of Decide: a request with placeholders that nothing blocked so far.
decidePlaceholders(in) ==
    IF hostWideExceptionApplies(in) THEN Allow("allowed-exception")
    ELSE IF ~substituteAllOk(in)
         THEN Block({IF placeholderNeedsMcpAuth(in) THEN "mcp-auth-required"
                                                    ELSE "no-secret-rule"})
    ELSE IF credentialTokens(in) = {} THEN Allow("allowed-domain")
    ELSE [action |-> "substitute", reasons |-> {"allowed-domain"},
          subst |-> credentialTokens(in)]

\* A slip: exceptions are consulted before the deny list.
isDeniedUnlessExcepted(in) == in.host \in in.denied /\ ~hostWideExceptionApplies(in)

isDenied(in) == in.host \in in.denied

\* The whole pipeline; the first test that applies returns.
Decide(in) ==
    LET leftover == egressPatternHits(in.scan) IN
    IF isInternal(in.host) THEN Block({"internal-target"})
    ELSE IF isDenied(in) THEN Block({"denied-domain"})
    ELSE IF in.scan.real
         THEN IF hostWideExceptionApplies(in) THEN Allow("allowed-exception")
              ELSE Block({"real-secret-detected"} \cup
                         {r \in {"credential-pattern"} : in.scan.hits # {}})
    ELSE IF ~allHitsCovered(in, leftover) THEN Block({"credential-pattern"})
    ELSE IF in.scan.phs # {} THEN decidePlaceholders(in)
    ELSE IF leftover # {} THEN Allow("allowed-exception")
    ELSE Allow("allowed-domain")
=============================================================================
