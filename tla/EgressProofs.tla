---------------------------- MODULE EgressProofs ----------------------------
(***************************************************************************)
(* The containment properties of Egress, for any number of requests,       *)
(* handlers, secrets, rules and operator calls.                            *)
(*                                                                         *)
(* The argument is one invariant per flight.  While a flight reads the     *)
(* store, what it has read agrees with whatever has held since it began    *)
(* (ReadsSound); Decide turns that into facts about the request            *)
(* (Cleared); applySubstitution adds the values (SubstSound).  held only   *)
(* shrinks while a flight is under way, so a step that leaves the flight   *)
(* alone, every operator call among them, preserves all of it.             *)
(***************************************************************************)
EXTENDS Egress, TLAPS, WellFoundedInduction

\* The shape of a flight: a record with these fields, whatever they hold.
IsRecord(fl) ==
    fl \in [pc : {fl.pc}, req : {fl.req}, real : {fl.real}, vault : {fl.vault},
            rules : {fl.rules}, denied : {fl.denied}, dec : {fl.dec}, sub : {fl.sub},
            rec : {fl.rec}]

Shaped ==
    /\ flight = [f \in Flight |-> flight[f]]
    /\ \A f \in Flight : IsRecord(flight[f])

\* What a flight has read so far agrees with what held since it began.
ReadsSound(f) ==
    /\ flight[f].pc \in {"vault", "rules", "domains", "decide"} =>
          (Request[flight[f].req].vals \cap held[f].known # {} => flight[f].real)
    /\ flight[f].pc \in {"rules", "domains", "decide"} =>
          \A t \in held[f].vaulted : t \in Token /\ flight[f].vault[t].id # 0
    /\ flight[f].pc \in {"domains", "decide"} =>
          \A r \in flight[f].rules, x \in held[f].unruled :
              ~(r.tok = x[1] /\ r.host \in {AnyHost, x[2]})
    /\ flight[f].pc = "decide" => held[f].denied \subseteq flight[f].denied

\* What a decision that is not a block says of the request.
Cleared(f) ==
    /\ HostOf(f) \notin InternalHost \cup held[f].denied
    /\ Request[flight[f].req].vals \cap held[f].known # {} =>
          flight[f].req \notin held[f].unwaived
    /\ \A t \in flight[f].dec.subst : <<t, HostOf(f)>> \notin held[f].unruled
    /\ \A p \in Request[flight[f].req].phs :
          rewritable(p.site) /\ p.tok \in held[f].vaulted /\ flight[f].req \in held[f].unwaived
              => p.tok \in flight[f].dec.subst

DecisionSound(f) ==
    flight[f].pc \in {"rescan", "subst", "forward", "again"} =>
        /\ flight[f].dec.action \in {"allow", "block", "substitute"}
        /\ flight[f].dec.action = "allow" => flight[f].dec.subst = {}
        /\ flight[f].pc # "rescan" => flight[f].dec.action # "block"
        /\ flight[f].dec.action # "block" => Cleared(f)

\* The values put in are those of the decision, and none is missing that could
\* have been put in throughout, but for the body of a replay's second try.
SubstSound(f) ==
    /\ flight[f].pc \notin {"forward", "again", "answered", "failed"} => flight[f].sub = {}
    /\ Forwarding(f) =>
          /\ \A s \in flight[f].sub : s.tok \in flight[f].dec.subst
          /\ \A p \in Request[flight[f].req].phs :
                (/\ rewritable(p.site) /\ ~(CapturedBody(f) /\ p.site \in BodySite)
                 /\ p.tok \in held[f].vaulted /\ p.tok \in flight[f].dec.subst)
                    => \E s \in flight[f].sub : s.tok = p.tok /\ s.site = p.site

\* The kill-switch was off at some moment of every request that was let in.
SwitchSound(f) == f \in Req /\ Begun(f) => Request[f].worker \notin held[f].off

FlightSound(f) ==
    ReadsSound(f) /\ DecisionSound(f) /\ SubstSound(f) /\ SwitchSound(f)

Sound == Shaped /\ \A f \in Flight : FlightSound(f)

-----------------------------------------------------------------------------
\* Once a flight has begun, held loses facts and never gains one.
LEMMA HeldShrinks ==
    ASSUME TrackFacts, NEW f \in Flight, Begun(f)
    PROVE  /\ held'[f].denied \subseteq held[f].denied
           /\ held'[f].off \subseteq held[f].off
           /\ held'[f].unruled \subseteq held[f].unruled
           /\ held'[f].known \subseteq held[f].known
           /\ held'[f].vaulted \subseteq held[f].vaulted
           /\ held'[f].unwaived \subseteq held[f].unwaived
  BY DEF TrackFacts, Meet

\* Whatever is held is true now.
LEMMA HeldIsTrue ==
    ASSUME TrackFacts, NEW f \in Flight
    PROVE  /\ held'[f].denied \subseteq Facts'.denied
           /\ held'[f].off \subseteq Facts'.off
           /\ held'[f].unruled \subseteq Facts'.unruled
           /\ held'[f].known \subseteq Facts'.known
           /\ held'[f].vaulted \subseteq Facts'.vaulted
           /\ held'[f].unwaived \subseteq Facts'.unwaived
  BY DEF TrackFacts, Meet

\* A step that leaves a flight alone keeps its invariant.
LEMMA Undisturbed ==
    ASSUME TrackFacts, NEW f \in Flight, FlightSound(f), flight'[f] = flight[f]
    PROVE  FlightSound(f)'
<1>1. CASE Begun(f)
  <2> USE <1>1, HeldShrinks
  <2>1. ReadsSound(f)'
    BY DEF FlightSound, ReadsSound
  <2>2. DecisionSound(f)'
    BY DEF FlightSound, DecisionSound, Cleared, HostOf, rewritable
  <2>3. SubstSound(f)'
    BY DEF FlightSound, SubstSound, Forwarding, rewritable, CapturedBody
  <2>4. SwitchSound(f)'
    BY DEF FlightSound, SwitchSound, Begun
  <2> QED BY <2>1, <2>2, <2>3, <2>4 DEF FlightSound
<1>2. CASE ~Begun(f)
  BY <1>2 DEF FlightSound, ReadsSound, DecisionSound, SubstSound, SwitchSound, Forwarding,
              Begun
<1> QED BY <1>1, <1>2

-----------------------------------------------------------------------------
(***************************************************************************)
(* Steps that move one flight.                                             *)
(***************************************************************************)
Moves(g) ==
    /\ Shaped'
    /\ FlightSound(g)'
    /\ \A f \in Flight \ {g} : flight'[f] = flight[f]

\* If the one flight that moves keeps its invariant, all of them do.
LEMMA MovingOne ==
    ASSUME Sound, TrackFacts, NEW g \in Flight, Moves(g)
    PROVE  Sound'
  BY Undisturbed DEF Sound, Moves

\* A step that moves no flight keeps the invariant of all of them.
LEMMA MovingNone ==
    ASSUME Sound, TrackFacts, UNCHANGED flight
    PROVE  Sound'
<1>1. \A f \in Flight : FlightSound(f)'
  BY Undisturbed DEF Sound
<1> QED BY <1>1 DEF Sound, Shaped, IsRecord

\* A flight that is fresh, or over, has nothing to answer for.
LEMMA MovingToRest ==
    ASSUME Sound, TrackFacts, NEW g \in Flight, Shaped',
           flight'[g].pc \in {"idle", "open", "done", "scan"},
           g \in Req => flight'[g].pc # "scan",
           flight'[g].sub = {},
           \A f \in Flight \ {g} : flight'[f] = flight[f]
    PROVE  Sound'
<1>1. FlightSound(g)'
  BY DEF FlightSound, ReadsSound, DecisionSound, SubstSound, SwitchSound, Forwarding, Begun
<1> QED BY <1>1, MovingOne DEF Moves

\* handleConnect.
LEMMA GotoRest ==
    ASSUME Sound, TrackFacts, NEW g \in Flight, NEW pc \in {"open", "done"}, Goto(g, pc),
           flight[g].pc \in {"idle", "open"}
    PROVE  Sound'
<1>1. /\ Shaped' /\ flight'[g].pc = pc /\ flight'[g].sub = flight[g].sub
      /\ \A f \in Flight \ {g} : flight'[f] = flight[f]
  BY DEF Goto, Sound, Shaped, IsRecord
<1>2. flight[g].sub = {}
  BY DEF Sound, FlightSound, SubstSound
<1>3. flight'[g].pc \in {"idle", "open", "done", "scan"} /\ flight'[g].pc # "scan"
  BY <1>1
<1> QED BY <1>1, <1>2, <1>3, MovingToRest

\* The end of a request or of a replay, and the start of a replay.
LEMMA EndSound ==
    ASSUME Sound, TrackFacts, NEW g \in Flight,
           \/ flight' = [flight EXCEPT ![g] = IdleFlight]
           \/ flight' = [flight EXCEPT ![g] = [IdleFlight EXCEPT !.pc = "done"]]
    PROVE  Sound'
<1>1. /\ Shaped' /\ flight'[g].pc \in {"idle", "done"} /\ flight'[g].sub = {}
      /\ \A f \in Flight \ {g} : flight'[f] = flight[f]
  BY DEF IdleFlight, Sound, Shaped, IsRecord
<1>2. flight'[g].pc \in {"idle", "open", "done", "scan"} /\ flight'[g].pc # "scan"
  BY <1>1
<1> QED BY <1>1, <1>2, MovingToRest

\* StartReplay begins with nothing read and nothing decided.
LEMMA ReplaySound ==
    ASSUME Sound, TrackFacts, NEW h \in Handler, NEW rec, StartReplay(h, rec)
    PROVE  Sound'
<1>1. h \in Flight /\ h \notin Req
  BY EgressAssumption DEF Flight
<1>2. /\ Shaped' /\ flight'[h].pc = "scan" /\ flight'[h].sub = {}
      /\ \A f \in Flight \ {h} : flight'[f] = flight[f]
  BY <1>1 DEF StartReplay, IdleFlight, Sound, Shaped, IsRecord
<1> QED BY <1>1, <1>2, MovingToRest

\* process lets a request in only while its worker's kill-switch is off.
LEMMA BeginSound ==
    ASSUME Sound, TrackFacts, NEW q \in Req, BeginRequest(q)
    PROVE  Sound'
<1>1. q \in Flight /\ flight[q].pc \in {"idle", "open"}
  BY DEF Flight, BeginRequest, ReadyToProcess
<1>2. /\ Shaped' /\ flight'[q].pc = "scan" /\ flight'[q].sub = flight[q].sub
      /\ \A f \in Flight \ {q} : flight'[f] = flight[f]
  BY <1>1 DEF BeginRequest, Sound, Shaped, IsRecord
<1>3. SwitchSound(q)'
  <2>1. Facts'.off = netOff
    BY DEF Facts, BeginRequest, FlightOnly, store
  <2> QED BY <1>1, <2>1, HeldIsTrue DEF SwitchSound, BeginRequest
<1>4. FlightSound(q)'
  BY <1>1, <1>2, <1>3
     DEF FlightSound, ReadsSound, DecisionSound, SubstSound, Forwarding, Sound
<1> QED BY <1>1, <1>2, <1>4, MovingOne DEF Moves

-----------------------------------------------------------------------------
(***************************************************************************)
(* The reads of a flight.  Each copies what the store holds now, and what  *)
(* has held since the flight began is part of that.                        *)
(***************************************************************************)
\* ScanRequest reports every value the vault has held since the flight began.
LEMMA ScanSound ==
    ASSUME Sound, TrackFacts, NEW f \in Flight, ScanRequest(f)
    PROVE  Sound'
<1>1. /\ Shaped' /\ flight'[f].pc = "vault" /\ flight'[f].sub = flight[f].sub
      /\ flight'[f].req = flight[f].req
      /\ flight'[f].real = carriesKnownSecret(flight[f].req)
      /\ \A g \in Flight \ {f} : flight'[g] = flight[g]
  BY DEF ScanRequest, Sound, Shaped, IsRecord
<1>2. Facts'.known = {v \in Value : \E i \in Live : secrets[i].value = v}
  BY DEF Facts, ScanRequest, FlightOnly, store, Live
<1>3. ReadsSound(f)'
  BY <1>1, <1>2, HeldIsTrue DEF ReadsSound, carriesKnownSecret
<1>4. SwitchSound(f)'
  BY HeldShrinks DEF SwitchSound, ScanRequest, Begun, Sound, FlightSound
<1>5. FlightSound(f)'
  BY <1>1, <1>3, <1>4
     DEF FlightSound, DecisionSound, SubstSound, Forwarding, Sound, ScanRequest
<1> QED BY <1>1, <1>5, MovingOne DEF Moves

\* A bounded, nonempty set of naturals has a greatest element.
LEMMA LastIsMember ==
    ASSUME NEW N \in Nat, NEW S \in SUBSET (1 .. N), S # {}
    PROVE  Last(S) \in S
<1> DEFINE T == {n \in Nat : \E i \in S : n = N - i}
<1>1. T \subseteq Nat /\ T # {}
  <2>1. PICK i \in S : TRUE
    OBVIOUS
  <2>2. N - i \in Nat
    BY <2>1
  <2> QED BY <2>2
<1> DEFINE R == {x \in Nat \X Nat : x[1] < x[2]}
<1>w. IsWellFoundedOn(R, Nat)
  BY NatLessThanWellFounded, Zenon DEF OpToRel
<1>2. PICK n \in T : \A m \in T : ~(<<m, n>> \in R)
  BY <1>1, <1>w, WFMin, Zenon
<1>3. PICK i \in S : n = N - i
  OBVIOUS
<1>4. \A j \in S : i >= j
  <2> TAKE j \in S
  <2>1. N - j \in T
    OBVIOUS
  <2>2. ~(N - j < n)
    BY <1>1, <1>2, <2>1
  <2> QED BY <1>3, <2>2
<1> QED BY <1>4 DEF Last

\* An issued placeholder is in the proxy's map.
LEMMA IssuedIsMapped ==
    ASSUME NEW t \in Token, Holders(t) # {}
    PROVE  placeholderMap[t].id # 0
<1>1. Holders(t) \in SUBSET (1 .. MaxSecrets) /\ MaxSecrets \in Nat
  BY EgressAssumption DEF Holders, Live, SecretId
<1>2. Last(Holders(t)) \in 1 .. MaxSecrets
  BY <1>1, LastIsMember
<1> QED BY <1>2 DEF placeholderMap

\* ReadVault maps every placeholder that has been issued since the flight began.
LEMMA VaultSound ==
    ASSUME Sound, TrackFacts, NEW f \in Flight, ReadVault(f)
    PROVE  Sound'
<1>0. flight[f].pc = "vault" /\ Begun(f) /\ ReadsSound(f)
  BY DEF ReadVault, Begun, Sound, FlightSound
<1>1. /\ Shaped' /\ flight'[f].pc = "rules" /\ flight'[f].sub = flight[f].sub
      /\ flight'[f].req = flight[f].req /\ flight'[f].real = flight[f].real
      /\ flight'[f].vault = placeholderMap
      /\ \A g \in Flight \ {f} : flight'[g] = flight[g]
  BY DEF ReadVault, Sound, Shaped, IsRecord
<1>2. Facts'.vaulted = {t \in Token : Holders(t) # {}}
  BY DEF Facts, ReadVault, FlightOnly, store, Holders, Live
<1>3. ReadsSound(f)'
  <2>1. \A t \in held'[f].vaulted : t \in Token /\ flight'[f].vault[t].id # 0
    BY <1>1, <1>2, HeldIsTrue, IssuedIsMapped
  <2> QED BY <1>1, <2>1, <1>0, HeldShrinks DEF ReadsSound
<1>4. SwitchSound(f)'
  BY HeldShrinks DEF SwitchSound, ReadVault, Begun, Sound, FlightSound
<1>5. FlightSound(f)'
  BY <1>1, <1>3, <1>4
     DEF FlightSound, DecisionSound, SubstSound, Forwarding, Sound, ReadVault
<1> QED BY <1>1, <1>5, MovingOne DEF Moves

\* ReadRules finds no rule for a pair that has had none since the flight began.
LEMMA RulesSound ==
    ASSUME Sound, TrackFacts, NEW f \in Flight, ReadRules(f)
    PROVE  Sound'
<1>0. flight[f].pc = "rules" /\ Begun(f) /\ ReadsSound(f)
  BY DEF ReadRules, Begun, Sound, FlightSound
<1>1. /\ Shaped' /\ flight'[f].pc = "domains" /\ flight'[f].sub = flight[f].sub
      /\ flight'[f].req = flight[f].req /\ flight'[f].real = flight[f].real
      /\ flight'[f].vault = flight[f].vault /\ flight'[f].rules = recRules
      /\ \A g \in Flight \ {f} : flight'[g] = flight[g]
  BY DEF ReadRules, Sound, Shaped, IsRecord
<1>2. \A x \in Facts'.unruled : ~\E r \in rules : r.tok = x[1] /\ r.host \in {AnyHost, x[2]}
  BY DEF Facts, ReadRules, FlightOnly, store
<1>3. ReadsSound(f)'
  <2>1. \A r \in recRules, x \in held'[f].unruled :
            ~(r.tok = x[1] /\ r.host \in {AnyHost, x[2]})
    BY <1>2, HeldIsTrue DEF recRules
  <2> QED BY <1>1, <2>1, <1>0, HeldShrinks DEF ReadsSound
<1>4. SwitchSound(f)'
  BY HeldShrinks DEF SwitchSound, ReadRules, Begun, Sound, FlightSound
<1>5. FlightSound(f)'
  BY <1>1, <1>3, <1>4
     DEF FlightSound, DecisionSound, SubstSound, Forwarding, Sound, ReadRules
<1> QED BY <1>1, <1>5, MovingOne DEF Moves

\* ReadDomains finds every host that has been denied since the flight began.
LEMMA DomainsSound ==
    ASSUME Sound, TrackFacts, NEW f \in Flight, ReadDomains(f)
    PROVE  Sound'
<1>0. flight[f].pc = "domains" /\ Begun(f) /\ ReadsSound(f)
  BY DEF ReadDomains, Begun, Sound, FlightSound
<1>1. /\ Shaped' /\ flight'[f].pc = "decide" /\ flight'[f].sub = flight[f].sub
      /\ flight'[f].req = flight[f].req /\ flight'[f].real = flight[f].real
      /\ flight'[f].vault = flight[f].vault /\ flight'[f].rules = flight[f].rules
      /\ flight'[f].denied = denied
      /\ \A g \in Flight \ {f} : flight'[g] = flight[g]
  BY DEF ReadDomains, Sound, Shaped, IsRecord
<1>2. Facts'.denied = denied
  BY DEF Facts, ReadDomains, FlightOnly, store
<1>3. ReadsSound(f)'
  BY <1>1, <1>2, HeldIsTrue, <1>0, HeldShrinks DEF ReadsSound
<1>4. SwitchSound(f)'
  BY HeldShrinks DEF SwitchSound, ReadDomains, Begun, Sound, FlightSound
<1>5. FlightSound(f)'
  BY <1>1, <1>3, <1>4
     DEF FlightSound, DecisionSound, SubstSound, Forwarding, Sound, ReadDomains
<1> QED BY <1>1, <1>5, MovingOne DEF Moves

-----------------------------------------------------------------------------
(***************************************************************************)
(* The decision, the values put in, and the round trip.                    *)
(***************************************************************************)
\* What Decide guarantees of an input, with none of its branches.
LEMMA DecideFacts ==
    ASSUME NEW in
    PROVE  /\ Decide(in).action \in {"allow", "block", "substitute"}
           /\ Decide(in).action = "allow" => Decide(in).subst = {}
           /\ Decide(in).action # "block" =>
                /\ ~isInternal(in.host) /\ ~isDenied(in)
                /\ in.scan.real => hostWideExceptionApplies(in)
                /\ \A t \in Decide(in).subst : t \in Token /\ lookupRule(in, t)
                /\ ~hostWideExceptionApplies(in) => Decide(in).subst = credentialTokens(in)
<1>1. in.scan.phs = {} => credentialTokens(in) = {}
  BY DEF credentialTokens
<1>2. credentialTokens(in) \subseteq Token
  BY DEF credentialTokens
<1>3. substituteAllOk(in) => \A t \in credentialTokens(in) : lookupRule(in, t)
  BY DEF substituteAllOk
<1> QED BY <1>1, <1>2, <1>3 DEF Decide, decidePlaceholders, Allow, Block

\* The host-wide exceptions Decide sees are those Waived is about.
LEMMA WaivedIsHostWide ==
    ASSUME NEW f
    PROVE  hostWideExceptionApplies(PolicyInput(f)) <=> Waived(flight[f].req)
<1>1. /\ PolicyInput(f).host = Request[flight[f].req].host
      /\ PolicyInput(f).shape = Request[flight[f].req].shape
      /\ PolicyInput(f).exceptions = recExceptions
      /\ PolicyInput(f).scan.phs = Request[flight[f].req].phs
  BY DEF PolicyInput, ScanOf
<1> QED BY <1>1 DEF hostWideExceptionApplies, exceptionRequestMatch, Waived

\* DecideFlight turns what was read into facts about the request.
LEMMA DecideSound ==
    ASSUME Sound, TrackFacts, NEW f \in Flight, DecideFlight(f)
    PROVE  Sound'
<1> DEFINE in == PolicyInput(f)
           q == flight[f].req
<1>0. flight[f].pc = "decide" /\ Begun(f) /\ ReadsSound(f) /\ SubstSound(f) /\ SwitchSound(f)
  BY DEF DecideFlight, Begun, Sound, FlightSound
<1>1. /\ Shaped' /\ flight'[f].dec = Decide(in) /\ flight'[f].sub = flight[f].sub
      /\ flight'[f].req = q
      /\ flight'[f].pc = IF f \in Req THEN "rescan" ELSE AfterDecision(f, Decide(in).action)
      /\ \A g \in Flight \ {f} : flight'[g] = flight[g]
  BY DEF DecideFlight, Sound, Shaped, IsRecord
<1>2. /\ flight'[f].pc \in {"rescan", "subst", "forward", "failed"}
      /\ flight'[f].pc = "subst" => Decide(in).action # "block"
      /\ flight'[f].pc = "forward" => Decide(in).action = "allow"
  BY <1>1, DecideFacts DEF AfterDecision
<1>3. /\ in.host = Request[q].host /\ in.scan.phs = Request[q].phs
      /\ in.scan.real = flight[f].real /\ in.vault = flight[f].vault
      /\ in.rules = flight[f].rules /\ in.denied = flight[f].denied
  BY DEF PolicyInput, ScanOf
<1>4. \A x \in held'[f].unwaived : ~Waived(x)
  BY HeldIsTrue DEF DecideFlight, FlightOnly, store, Facts, Waived, recExceptions
<1>5. ASSUME Decide(in).action # "block" PROVE Cleared(f)'
  <2>1. Request[q].host \notin InternalHost \cup held'[f].denied
    BY <1>0, <1>3, <1>5, DecideFacts, HeldShrinks DEF isInternal, isDenied, ReadsSound
  <2>2. Request[q].vals \cap held'[f].known # {} => q \notin held'[f].unwaived
    BY <1>0, <1>3, <1>4, <1>5, DecideFacts, WaivedIsHostWide, HeldShrinks DEF ReadsSound
  <2>3. \A t \in Decide(in).subst : <<t, Request[q].host>> \notin held'[f].unruled
    <3> SUFFICES ASSUME NEW t \in Decide(in).subst,
                        <<t, Request[q].host>> \in held'[f].unruled
                 PROVE  FALSE
      OBVIOUS
    <3>1. PICK r \in flight[f].rules : r.tok = t /\ r.host \in {AnyHost, Request[q].host}
      BY <1>3, <1>5, DecideFacts DEF lookupRule
    <3>2. <<t, Request[q].host>> \in held[f].unruled
      BY <1>0, HeldShrinks
    <3> QED BY <1>0, <3>1, <3>2 DEF ReadsSound
  <2>4. ASSUME NEW p \in Request[q].phs, rewritable(p.site), p.tok \in held'[f].vaulted,
               q \in held'[f].unwaived
        PROVE  p.tok \in Decide(in).subst
    <3>1. p.tok \in Token /\ flight[f].vault[p.tok].id # 0
      BY <1>0, <2>4, HeldShrinks DEF ReadsSound
    <3>2. p.tok \in credentialTokens(in)
      BY <1>3, <2>4, <3>1 DEF credentialTokens, isVaultPlaceholder, rewritable
    <3> QED BY <1>4, <1>5, <2>4, <3>2, DecideFacts, WaivedIsHostWide
  <2> QED BY <1>1, <2>1, <2>2, <2>3, <2>4 DEF Cleared, HostOf, rewritable
<1>6. DecisionSound(f)'
  BY <1>1, <1>2, <1>5, DecideFacts DEF DecisionSound
<1>7. SubstSound(f)'
  BY <1>0, <1>1, <1>2, DecideFacts DEF SubstSound, Forwarding, CapturedBody
<1>8. ReadsSound(f)' /\ SwitchSound(f)'
  BY <1>0, <1>2, HeldShrinks DEF ReadsSound, SwitchSound
<1> QED BY <1>1, <1>6, <1>7, <1>8, MovingOne DEF Moves, FlightSound

\* Rescan fills the log row and follows the decision.
LEMMA RescanSound ==
    ASSUME Sound, TrackFacts, NEW q \in Req, Rescan(q)
    PROVE  Sound'
<1>0. q \in Flight /\ flight[q].pc = "rescan" /\ Begun(q) /\ DecisionSound(q) /\ SubstSound(q)
      /\ SwitchSound(q)
  BY DEF Flight, Rescan, Begun, Sound, FlightSound
<1>1. /\ Shaped' /\ flight'[q].dec = flight[q].dec /\ flight'[q].sub = flight[q].sub
      /\ flight'[q].req = flight[q].req
      /\ flight'[q].pc = AfterDecision(q, flight[q].dec.action)
      /\ \A g \in Flight \ {q} : flight'[g] = flight[g]
  BY <1>0 DEF Rescan, Sound, Shaped, IsRecord
<1>2. /\ flight'[q].pc \in {"block", "subst", "forward"}
      /\ flight'[q].pc = "subst" => flight[q].dec.action # "block"
      /\ flight'[q].pc = "forward" => flight[q].dec.action = "allow"
  BY <1>0, <1>1 DEF AfterDecision, DecisionSound
<1>3. DecisionSound(q)'
  <2>1. flight[q].dec.action # "block" => Cleared(q)'
    BY <1>0, <1>1, HeldShrinks DEF DecisionSound, Cleared, HostOf, rewritable
  <2> QED BY <1>0, <1>1, <1>2, <2>1 DEF DecisionSound
<1>4. SubstSound(q)'
  BY <1>0, <1>1, <1>2 DEF SubstSound, Forwarding, DecisionSound, CapturedBody
<1>5. ReadsSound(q)' /\ SwitchSound(q)'
  BY <1>0, <1>2, HeldShrinks DEF ReadsSound, SwitchSound
<1> QED BY <1>0, <1>1, <1>3, <1>4, <1>5, MovingOne DEF Moves, FlightSound

\* applySubstitution puts in a value for every placeholder it could have all along.
LEMMA SubstitutionSound ==
    ASSUME Sound, TrackFacts, NEW f \in Flight, applySubstitution(f)
    PROVE  Sound'
<1> DEFINE phs == Request[flight[f].req].phs
           put == {o \in phs : /\ o.tok \in flight[f].dec.subst
                               /\ placeholderMap[o.tok].id # 0
                               /\ rewritable(o.site)}
<1>0. flight[f].pc = "subst" /\ Begun(f) /\ DecisionSound(f) /\ SwitchSound(f)
  BY DEF applySubstitution, Begun, Sound, FlightSound
<1>1. /\ Shaped' /\ flight'[f].dec = flight[f].dec /\ flight'[f].pc = "forward"
      /\ flight'[f].req = flight[f].req
      /\ flight'[f].sub = {[tok |-> p.tok, site |-> p.site, id |-> placeholderMap[p.tok].id] :
                             p \in put}
      /\ \A g \in Flight \ {f} : flight'[g] = flight[g]
  BY DEF applySubstitution, Sound, Shaped, IsRecord
<1>2. DecisionSound(f)'
  <2>1. Cleared(f)'
    BY <1>0, <1>1, HeldShrinks DEF DecisionSound, Cleared, HostOf, rewritable
  <2> QED BY <1>0, <1>1, <2>1 DEF DecisionSound
<1>3. SubstSound(f)'
  <2>1. \A s \in flight'[f].sub : s.tok \in flight[f].dec.subst
    BY <1>1
  <2>2. ASSUME NEW p \in phs, rewritable(p.site), p.tok \in held'[f].vaulted,
               p.tok \in flight[f].dec.subst
        PROVE  \E s \in flight'[f].sub : s.tok = p.tok /\ s.site = p.site
    <3>1. p.tok \in Token /\ Holders(p.tok) # {}
      BY <2>2, HeldIsTrue DEF Facts, applySubstitution, FlightOnly, store, Holders, Live
    <3>2. p \in put
      BY <2>2, <3>1, IssuedIsMapped
    <3> DEFINE s == [tok |-> p.tok, site |-> p.site, id |-> placeholderMap[p.tok].id]
    <3> HIDE DEF put
    <3>3. s \in flight'[f].sub
      BY <1>1, <3>2
    <3> QED BY <3>3
  <2> QED BY <1>1, <2>1, <2>2 DEF SubstSound, Forwarding, rewritable, CapturedBody
<1>4. ReadsSound(f)' /\ SwitchSound(f)'
  BY <1>0, <1>1, HeldShrinks DEF ReadsSound, SwitchSound
<1> QED BY <1>1, <1>2, <1>3, <1>4, MovingOne DEF Moves, FlightSound

\* The end of the round trip changes the control state only.
LEMMA ForwardSound ==
    ASSUME Sound, TrackFacts, NEW f \in Flight, Forwarding(f),
           NEW pc \in {"answered", "failed"}, Goto(f, pc)
    PROVE  Sound'
<1>0. Begun(f) /\ DecisionSound(f) /\ SubstSound(f) /\ SwitchSound(f)
  BY DEF Forwarding, Begun, Sound, FlightSound
<1>1. /\ Shaped' /\ flight'[f].dec = flight[f].dec /\ flight'[f].pc = pc
      /\ flight'[f].req = flight[f].req /\ flight'[f].sub = flight[f].sub
      /\ \A g \in Flight \ {f} : flight'[g] = flight[g]
  BY DEF Goto, Sound, Shaped, IsRecord
<1>2. DecisionSound(f)'
  <2>1. Cleared(f)'
    BY <1>0, <1>1, HeldShrinks DEF DecisionSound, Cleared, HostOf, rewritable, Forwarding
  <2> QED BY <1>0, <1>1, <2>1 DEF DecisionSound, Forwarding
<1>3. SubstSound(f)'
  BY <1>0, <1>1, HeldShrinks DEF SubstSound, Forwarding, rewritable
<1>4. ReadsSound(f)' /\ SwitchSound(f)'
  BY <1>0, <1>1, HeldShrinks DEF ReadsSound, SwitchSound
<1> QED BY <1>1, <1>2, <1>3, <1>4, MovingOne DEF Moves, FlightSound

\* The second try sends a worker's request as it was, and the headers of a replay.
LEMMA RetrySound ==
    ASSUME Sound, TrackFacts, NEW f \in Flight, ForwardDeadConn(f)
    PROVE  Sound'
<1>0. /\ flight[f].pc = "forward" /\ Forwarding(f) /\ ~CapturedBody(f) /\ Begun(f)
      /\ DecisionSound(f) /\ SubstSound(f) /\ SwitchSound(f)
  BY DEF ForwardDeadConn, Forwarding, CapturedBody, Begun, Sound, FlightSound
<1>1. /\ Shaped' /\ flight'[f].dec = flight[f].dec /\ flight'[f].pc = "again"
      /\ flight'[f].req = flight[f].req
      /\ flight'[f].sub = IF f \in Req THEN flight[f].sub
                          ELSE {s \in flight[f].sub : s.site \notin BodySite}
      /\ \A g \in Flight \ {f} : flight'[g] = flight[g]
  BY DEF ForwardDeadConn, Sound, Shaped, IsRecord
<1>2. DecisionSound(f)'
  <2>1. Cleared(f)'
    BY <1>0, <1>1, HeldShrinks DEF DecisionSound, Cleared, HostOf, rewritable
  <2> QED BY <1>0, <1>1, <2>1 DEF DecisionSound
<1>3. SubstSound(f)'
  <2>1. \A s \in flight'[f].sub : s \in flight[f].sub /\ s.tok \in flight[f].dec.subst
    BY <1>0, <1>1 DEF SubstSound
  <2>2. ASSUME NEW p \in Request[flight[f].req].phs, rewritable(p.site),
               ~(f \in Handler /\ p.site \in BodySite),
               p.tok \in held'[f].vaulted, p.tok \in flight[f].dec.subst
        PROVE  \E s \in flight'[f].sub : s.tok = p.tok /\ s.site = p.site
    <3>1. PICK s \in flight[f].sub : s.tok = p.tok /\ s.site = p.site
      BY <1>0, <2>2, HeldShrinks DEF SubstSound
    <3>2. f \in Req \/ s.site \notin BodySite
      BY <2>2, <3>1 DEF Flight
    <3> QED BY <1>1, <3>1, <3>2
  <2>3. flight'[f].pc = "again" /\ (CapturedBody(f)' <=> f \in Handler)
    BY <1>1 DEF CapturedBody
  <2> QED BY <1>1, <2>1, <2>2, <2>3 DEF SubstSound
<1>4. ReadsSound(f)' /\ SwitchSound(f)'
  BY <1>0, <1>1, HeldShrinks DEF ReadsSound, SwitchSound
<1> QED BY <1>1, <1>2, <1>3, <1>4, MovingOne DEF Moves, FlightSound

-----------------------------------------------------------------------------
(***************************************************************************)
(* All steps.                                                              *)
(***************************************************************************)
\* The steps that requests and replays share.
LEMMA FlySound ==
    ASSUME Sound, TrackFacts, NEW f \in Flight, Fly(f)
    PROVE  Sound'
<1>1. CASE ScanRequest(f)
  BY <1>1, ScanSound
<1>2. CASE ReadVault(f)
  BY <1>2, VaultSound
<1>3. CASE ReadRules(f)
  BY <1>3, RulesSound
<1>4. CASE ReadDomains(f)
  BY <1>4, DomainsSound
<1>5. CASE DecideFlight(f)
  BY <1>5, DecideSound
<1>6. CASE applySubstitution(f)
  BY <1>6, SubstitutionSound
<1>7. CASE ForwardAnswered(f) \/ ForwardFailed(f)
  BY <1>7, ForwardSound DEF ForwardAnswered, ForwardFailed, Forwarding
<1>8. CASE ForwardDeadConn(f)
  BY <1>8, RetrySound
<1> QED BY <1>1, <1>2, <1>3, <1>4, <1>5, <1>6, <1>7, <1>8 DEF Fly

\* The steps of a worker's own request.
LEMMA RequestSound ==
    ASSUME Sound, TrackFacts, NEW q \in Req, RequestStep(q)
    PROVE  Sound'
<1>0. q \in Flight
  BY DEF Flight
<1>1. CASE BeginRequest(q)
  BY <1>1, BeginSound
<1>2. CASE Rescan(q)
  BY <1>2, RescanSound
<1>3. CASE BlockRequest(q) \/ LogOutcome(q)
  BY <1>0, <1>3, EndSound DEF BlockRequest, LogOutcome
<1>4. CASE KillSwitchRefused(q)
  BY <1>0, <1>4, GotoRest DEF KillSwitchRefused, ReadyToProcess
<1>5. CASE Connect(q) \/ ConnectRefused(q) \/ ConnectUnresolved(q)
  BY <1>0, <1>5, GotoRest DEF Connect, ConnectRefused, ConnectUnresolved
<1> QED BY <1>1, <1>2, <1>3, <1>4, <1>5 DEF RequestStep

\* A handler touches its own flight when it starts a replay or has done with one,
\* and no flight otherwise.
LEMMA HandlerSound ==
    ASSUME Sound, TrackFacts, NEW h \in Handler, HandlerStep(h) \/ HandlerCall(h)
    PROVE  Sound'
<1>0. h \in Flight
  BY DEF Flight
<1>1. CASE ReplayError(h) \/ ReplayDone(h)
  BY <1>0, <1>1, EndSound DEF ReplayError, ReplayDone
<1>2. CASE Pop(h)
  <2>1. UNCHANGED flight \/ \E rec : StartReplay(h, rec)
    BY <1>2 DEF Pop
  <2> QED BY <2>1, MovingNone, ReplaySound
<1>3. CASE \E q \in Req : Retry(h, q)
  BY <1>3, ReplaySound DEF Retry
<1>4. CASE UNCHANGED flight
  BY <1>4, MovingNone
<1> QED
  BY <1>1, <1>2, <1>3, <1>4
     DEF HandlerStep, HandlerCall, ReplaceSecret, SyncRulesForSecret, TakeEntry,
         ResolveAddSecret, SetEnvKey, ResolveAddRule, ExceptAdd, MarkAllowed, Match, NextHost,
         NextEntry, Return, PostSecret, PutSecret, Resolve, Except, RetryMatching

\* The operator's edits leave every flight alone.
LEMMA OperatorSound ==
    ASSUME Sound, TrackFacts, OperatorCall
    PROVE  Sound'
  BY MovingNone
     DEF OperatorCall, OneCall, DeleteSecret, AddRule, DeleteRule, UpsertDomain, AddException,
         DeleteException, SetWorkerInternet

\* A gateway that has just loaded its state has no flight under way.
LEMMA InitSound == Init => Sound
<1> SUFFICES ASSUME Init PROVE Sound
  OBVIOUS
<1>1. \A f \in Flight : flight[f] = IdleFlight
  BY DEF Init
<1>2. \A f \in Flight : flight[f].pc = "idle" /\ flight[f].sub = {} /\ IsRecord(flight[f])
  BY <1>1 DEF IdleFlight, IsRecord
<1>3. Shaped
  BY <1>2 DEF Shaped, Init
<1>4. \A f \in Flight : FlightSound(f)
  BY <1>2 DEF FlightSound, ReadsSound, DecisionSound, SubstSound, SwitchSound, Forwarding,
              Begun
<1> QED BY <1>3, <1>4 DEF Sound

\* The invariant is inductive.
LEMMA NextSound == Sound /\ [Next]_vars => Sound'
<1> SUFFICES ASSUME Sound, [Next]_vars PROVE Sound'
  OBVIOUS
<1>1. CASE Next
  <2>1. TrackFacts
    BY <1>1 DEF Next
  <2> QED BY <1>1, <2>1, FlySound, RequestSound, HandlerSound, OperatorSound DEF Next
<1>2. CASE UNCHANGED vars
  BY <1>2 DEF vars, Sound, Shaped, FlightSound, ReadsSound, DecisionSound, Cleared, SubstSound,
              SwitchSound, Forwarding, Begun, HostOf, rewritable, CapturedBody
<1> QED BY <1>1, <1>2

\* The inductive invariant holds: whatever the interleaving, what a flight has
\* read, decided and put in agrees with what has held since it began.
THEOREM FlightsSound == Spec => []Sound
  BY InitSound, NextSound, PTL DEF Spec

-----------------------------------------------------------------------------
(***************************************************************************)
(* The properties.                                                         *)
(***************************************************************************)
\* Nothing leaves for an internal target, nor for a host that was denied during
\* the whole flight.
THEOREM OnlyOpenHosts == Spec => []OpenHostsOnly
<1>1. Sound => OpenHostsOnly
  BY DEF Sound, FlightSound, DecisionSound, Cleared, OpenHostsOnly, Forwarding
<1> QED BY <1>1, FlightsSound, PTL

\* Every value put in was allowed by a rule for the destination host.
THEOREM SubstitutionsRuled == Spec => []SubstitutionWasRuled
<1>1. Sound => SubstitutionWasRuled
  BY DEF Sound, FlightSound, DecisionSound, Cleared, SubstSound, SubstitutionWasRuled,
         Forwarding
<1> QED BY <1>1, FlightsSound, PTL

\* A request with a real value leaves only under a host-wide exception.
THEOREM RealSecretsContained == Spec => []RealSecretContained
<1>1. Sound => RealSecretContained
  BY DEF Sound, FlightSound, DecisionSound, Cleared, RealSecretContained, Forwarding
<1> QED BY <1>1, FlightsSound, PTL

\* A vault placeholder in a header or in the body outside the transcript never
\* leaves as it is, but in the body of a replay's second try.
THEOREM PlaceholdersContained == Spec => []PlaceholderContained
<1>1. Sound => PlaceholderContained
  <2> SUFFICES ASSUME Sound, NEW f \in Flight, Forwarding(f),
                      NEW p \in Request[flight[f].req].phs, rewritable(p.site),
                      ~(CapturedBody(f) /\ p.site \in BodySite)
               PROVE  ~LeavesRaw(f, p)
    BY DEF PlaceholderContained
  <2>1. Cleared(f) /\ SubstSound(f)
    BY DEF Sound, FlightSound, DecisionSound, Forwarding
  <2> QED BY <2>1 DEF Cleared, SubstSound, LeavesRaw
<1> QED BY <1>1, FlightsSound, PTL

\* A worker whose kill-switch was on during its whole request reaches no origin.
THEOREM KillSwitchWorks == Spec => []KillSwitchHolds
<1>1. Sound => KillSwitchHolds
  BY DEF Sound, FlightSound, SwitchSound, KillSwitchHolds, Forwarding, Begun, Flight
<1> QED BY <1>1, FlightsSound, PTL
=============================================================================
