----------------------------- MODULE PolicyEdits -----------------------------
(***************************************************************************)
(* One captured request judged again and again while its surroundings      *)
(* change: the operator adds rules and exceptions until it passes, and the *)
(* agent quotes placeholders in its transcript.  The properties compare    *)
(* the decision before an edit with the decision after it.                 *)
(***************************************************************************)
EXTENDS Policy

CONSTANTS
    Start,          \* the inputs to begin with
    EditException,  \* exceptions the operator may add
    EditRule        \* rules the operator may add

ASSUME PolicyEditsAssumption ==
    /\ Start \subseteq Input
    /\ EditException \subseteq Exception
    /\ EditRule \subseteq Rule

VARIABLE in

EditAddException(e) == in' = [in EXCEPT !.exceptions = @ \cup {e}]
EditAddRule(r)      == in' = [in EXCEPT !.rules = @ \cup {r}]

\* The conversation grows by a mention of a placeholder; nothing else changes.
Mention(p) ==
    /\ IsChatContent(p.site)
    /\ in' = [in EXCEPT !.scan.phs = @ \cup {p}]

EditsInit == in \in Start
EditsNext ==
    \/ \E e \in EditException : EditAddException(e)
    \/ \E r \in EditRule : EditAddRule(r)
    \/ \E p \in Placeholder : Mention(p)
EditsSpec == EditsInit /\ [][EditsNext]_in

-----------------------------------------------------------------------------
\* Every value is an input of Decide.
EditsTypeOK == in \in Input

Passes(i) == Decide(i).action # "block"

\* Opening up never shuts: no rule or exception the operator adds, and no
\* mention of a placeholder in messages[], blocks a request that Decide passed.
PassingStaysPassing == [][Passes(in) => Passes(in')]_in

\* A pattern-scoped exception changes nothing but pattern hits: a request that
\* passed before keeps its decision, substitutions included.
PatternExceptionsKeepDecisions ==
    [][\A e \in EditException :
          e.pat # NoPattern /\ EditAddException(e) /\ Passes(in) =>
              Decide(in') = Decide(in)]_in

\* What a decision puts in is determined by the credential sites: quoting a
\* placeholder in the transcript neither adds a substitution nor drops one,
\* as long as no exception is bound to a placeholder.
MentionsKeepSubstitutions ==
    [][\A p \in Placeholder :
          /\ Mention(p)
          /\ Passes(in)
          /\ \A e \in in.exceptions : e.tok = NoToken
          => Decide(in').subst = Decide(in).subst]_in
=============================================================================
