------------------------------ MODULE MCEgress ------------------------------
(***************************************************************************)
(* Instances of Egress for TLC, and of PolicyEdits: every mix of findings  *)
(* of one request to h1.  The two share no state, so one rests in its      *)
(* initial state while the other moves.                                    *)
(***************************************************************************)
EXTENDS Egress, PolicyEdits, TLC

CONSTANTS h1, h2, t1, t2, v1, v2, p1, p2, auth, query, body, chat, plain, w1, w2,
          q1, q2, k1, k2

Ph(tok, site) == [tok |-> tok, site |-> site]
PatternHit(site) == [pat |-> p1, site |-> site, wraps |-> {}]
Sends(host, tunnel, phs, vals, hits) ==
    [host |-> host, shape |-> plain, worker |-> w1, tunnel |-> tunnel,
     phs |-> phs, vals |-> vals, hits |-> hits]

Secret(value, hosts) == [tok |-> t1, value |-> value, hosts |-> hosts, workers |-> {}]
HostWide(hosts) == [hosts |-> hosts, shapes |-> Shape, tok |-> NoToken,
                    pat |-> NoPattern, enabled |-> TRUE]

\* A placeholder in a header and in the body, next to a value that is not in the
\* vault yet.
MCRequest == q1 :> Sends(h1, TRUE, {Ph(t1, auth), Ph(t1, body)}, {v2}, {})
MCLoaded == <<Secret(v1, {h2})>>
MCNewSecret == {Secret(v2, {h1})}
MCHostList == {{}, {h1}}
MCNewException == {HostWide({h1, h2})}
MCEntryList == {<<[tok |-> t1, value |-> v2, host |-> h1, rename |-> TRUE]>>}

\* One request, one call: the secret is another worker's.
OneRequest == q1 :> Sends(h1, FALSE, {Ph(t1, auth)}, {}, {})
\* One request, one call: the placeholder is in the body.
BodyRequest == q1 :> Sends(h1, FALSE, {Ph(t1, body)}, {}, {})

OthersOnly == <<[Secret(v1, {}) EXCEPT !.workers = {w2}]>>

\* Replays: q1 is blocked for a pattern in its body, and for its placeholder once
\* that is in the vault; the row of q2, refused at CONNECT, pushes it out of a
\* one-row log.
ReplayRequest == q1 :> Sends(h1, FALSE, {Ph(t1, auth)}, {}, {PatternHit(body)})
              @@ q2 :> Sends(h2, TRUE, {}, {}, {})
ReplayLoaded == <<>>
ReplayNewSecret == {Secret(v1, {h1})}
ReplayHostList == {{h1}}
ReplayEntries == {<<[tok |-> t1, value |-> v1, host |-> AnyHost, rename |-> TRUE],
                    [tok |-> t1, value |-> v1, host |-> h1, rename |-> FALSE]>>}
ReplaySymmetry == Permutations(Handler)

-----------------------------------------------------------------------------
\* The header hit matches the whole value, placeholder included.
MCHits(phs) == {[pat |-> p1, site |-> auth, wraps |-> {t \in {t1} : Ph(t, auth) \in phs}],
                [pat |-> p2, site |-> body, wraps |-> {}],
                [pat |-> p1, site |-> chat, wraps |-> {}]}
MCVault == {[id |-> 0, value |-> Blank, workers |-> {}],
            [id |-> 1, value |-> Blank, workers |-> {}],
            [id |-> 1, value |-> v1, workers |-> {}],
            [id |-> 1, value |-> v1, workers |-> {w2}]}

MCStart ==
    UNION {{[host |-> h1, shape |-> plain,
             scan |-> [phs |-> phs, real |-> real, hits |-> hits],
             vault |-> [t \in Token |-> IF t = t1 THEN e
                                        ELSE [id |-> 2, value |-> v1, workers |-> {}]],
             rules |-> {}, denied |-> deny, exceptions |-> {}, worker |-> w1] :
               real \in BOOLEAN, hits \in SUBSET MCHits(phs), e \in MCVault,
               deny \in {{}, {h1}}} :
           phs \in SUBSET {Ph(t1, auth), Ph(t2, body), Ph(t1, chat)}}

Exc(tok, pat) == [hosts |-> {h1}, shapes |-> {plain}, tok |-> tok, pat |-> pat,
                  enabled |-> TRUE]
MCEditException == {Exc(NoToken, p1), Exc(NoToken, p2), Exc(t1, p1), Exc(t2, NoPattern)}
MCEditRule == {[tok |-> t1, host |-> h1], [tok |-> t2, host |-> AnyHost],
               [tok |-> t1, host |-> h2]}

\* The input PolicyEdits rests in, none of those it starts from.
Unjudged == [host |-> h1, shape |-> plain, scan |-> [phs |-> {}, real |-> FALSE, hits |-> {}],
             vault |-> [t \in Token |-> NoEntry], rules |-> {}, denied |-> {},
             exceptions |-> {}, worker |-> UnknownWorker]

MCInit == Init /\ (EditsInit \/ in = Unjudged)
MCNext ==
    \/ in = Unjudged /\ Next /\ UNCHANGED in
    \/ in # Unjudged /\ EditsNext /\ UNCHANGED vars
MCSpec == MCInit /\ [][MCNext]_<<vars, in>>
MCFairSpec == MCSpec /\ Fairness
=============================================================================
