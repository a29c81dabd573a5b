------------------------------ MODULE McpBroker ------------------------------
(***************************************************************************)
(* The MCP OAuth broker (server/mcp.go, server/mcp_oauth.go) on the vault, *)
(* beside the other calls that write secrets and rules: /secrets, /rules,  *)
(* the import of host keys (server/import.go) and the operator's answer to *)
(* blocked requests (server/resolve.go).                                   *)
(*                                                                         *)
(* A handler makes several store calls and talks to the authorization      *)
(* server between them, with copies of the row and of the secret in hand;  *)
(* each store call and each network answer is an action.  The              *)
(* authorization server and the browser are external: a code is accepted   *)
(* once, and only with the verifier and the client its login began with.   *)
(***************************************************************************)
EXTENDS Vault

CONSTANTS
    Ops,        \* the kinds of call that are made
    MaxCalls,   \* bound: calls made
    MaxFaults   \* bound: failed writes and crashes

ASSUME BrokerAssumption == MaxCalls \in Nat /\ MaxFaults \in Nat

VARIABLES
    call,       \* what each slot is doing
    made,       \* how many secrets, rows, logins and clients were ever made
    logins,     \* history: login -> the row and the client it began with
    opened,     \* history: logins whose URL the operator got
    redeemed,   \* history: logins whose code was exchanged
    spent,      \* history: logins whose callback has completed
    answered,   \* history: <<announcement, placeholder>> answers given
    deleted,    \* history: secrets DELETE /secrets took out, and placeholders whose last
                \* rule a DELETE took
    behind,     \* history: directories a fault or a late start left behind
    calls, faults

history == <<logins, opened, redeemed, spent, answered, deleted>>
vars == <<mem, files, io, call, made, history, behind, calls, faults>>

NoLogin  == [rid |-> 0, client |-> 0]
IdleCall == [op |-> "none", pc |-> "idle", ann |-> NoAnn, tok |-> NoToken, sid |-> 0,
             sec |-> NoSecret, rid |-> 0, row |-> NoRow, login |-> 0]

\* A slip: the row is stored before the rule.
AfterSaveSwapped(c) ==
    CASE c.pc = "addSecret" /\ c.op = "announce" -> "upsert"
      [] c.pc = "addSecret" /\ c.op # "announce" -> "syncRules"
      [] c.pc = "discover"                       -> "register"
      [] c.pc = "register"                       -> "start"
      [] c.pc = "replace" /\ c.op # "put"        -> "settle"
      [] OTHER                                   -> "idle"

\* The pc a call goes on with when a store call has returned nil.
AfterSave(c) ==
    CASE c.pc = "addSecret" /\ c.op \in {"announce", "post"} -> "syncRules"
      [] c.pc = "addSecret" /\ c.op = "import"   -> "hasRule"
      [] c.pc \in {"addSecret", "setEnvKey"} /\ c.op = "resolve" -> "addRule"
      [] c.pc = "syncRules" /\ c.op = "announce" -> "upsert"
      [] c.pc = "discover"                       -> IF c.row.client = 0 THEN "register"
                                                                        ELSE "start"
      [] c.pc = "register"                       -> "start"
      [] c.pc = "replace" /\ c.op \in {"callback", "revoke"} -> "settle"
      [] c.pc = "replace" /\ c.op = "put"        -> "syncRules"
      [] c.pc = "replace" /\ c.op = "import"     -> "hasRule"
      [] OTHER                                   -> "idle"

At(h, pc) == call[h].pc = pc /\ io = NoIo

Goto(h, c) == call' = [call EXCEPT ![h] = c]

\* A new call, whose first store call is a read.
Begin(h, c) ==
    /\ call[h] = IdleCall /\ io = NoIo
    /\ c.op \in Ops
    /\ calls < MaxCalls /\ calls' = calls + 1
    /\ Goto(h, c)
    /\ UNCHANGED <<mem, files, io, made, history, behind, faults>>

ReadOnly == UNCHANGED <<mem, files, io, made, history, behind, calls, faults>>

\* The rest of a step that makes a store call.
StoreCall(h, c, st, secret) ==
    /\ Change(h, st, secret)
    /\ Goto(h, c)
    /\ UNCHANGED <<files, opened, redeemed, spent, answered, deleted, behind, calls, faults>>

\* An error ends the call.
Abandon(h) == Goto(h, IdleCall) /\ ReadOnly

-----------------------------------------------------------------------------
(* POST /worker/mcp.                                                        *)

\* upsertMCP begins with FindMcp; the row there is, is the answer.
Announce(h, a) ==
    /\ FindMcp(mem, a) = {}
    /\ Begin(h, [IdleCall EXCEPT !.op = "announce", !.ann = a, !.pc = "mint"])

AnnounceAgain(a) ==
    LET found == FindMcp(mem, a) IN
    /\ found # {} /\ io = NoIo
    /\ "announce" \in Ops /\ calls < MaxCalls /\ calls' = calls + 1
    /\ answered' = answered \cup {<<a, mem.rows[Earliest(found)].tok>>}
    /\ UNCHANGED <<mem, files, io, call, made, logins, opened, redeemed, spent, deleted, behind,
                   faults>>

\* Random placeholders never meet.
Random == {t \in Token : /\ \A a \in Ann : Base[a] # t /\ <<a, t>> \notin answered
                         /\ ~PlaceholderTaken(mem, t)
                         /\ \A h \in Slot : call[h].tok # t}

\* A slip: the row is stored before its secret.
MintThenUpsert(h) ==
    /\ At(h, "mint")
    /\ Goto(h, [call[h] EXCEPT !.pc = "upsert", !.tok = Base[call[h].ann]])
    /\ ReadOnly

mintMCPPlaceholder(h) ==
    /\ At(h, "mint")
    /\ \E t \in IF PlaceholderTaken(mem, Base[call[h].ann]) THEN Random
                ELSE {Base[call[h].ann]} :
          Goto(h, [call[h] EXCEPT !.pc = "addSecret", !.tok = t])
    /\ ReadOnly

NewSecret(c) ==
    IF c.op = "announce"
    THEN [tok |-> c.tok, key |-> Base[c.ann], scope |-> {SlugOf[c.ann]}, value |-> Blank]
    ELSE [tok |-> c.tok, key |-> IF c.op = "import" THEN ImportKey ELSE c.tok,
          scope |-> {}, value |-> Typed]

AddSecret(h) ==
    /\ At(h, "addSecret") /\ made.secrets < MaxSecrets
    /\ LET sid == made.secrets + 1 IN
       /\ made' = [made EXCEPT !.secrets = sid]
       /\ StoreCall(h, [call[h] EXCEPT !.sid = sid],
                    PutSecretAt(mem, sid, NewSecret(call[h])), TRUE)
    /\ UNCHANGED logins

SyncRules(h) ==
    /\ At(h, "syncRules")
    /\ StoreCall(h, call[h], SyncRulesForSecret(mem, call[h].sid, call[h].tok), FALSE)
    /\ UNCHANGED <<made, logins>>

NewRow(c) == [ann |-> c.ann, sid |-> c.sid, tok |-> c.tok, status |-> "needs-auth",
              endpoints |-> FALSE, client |-> 0, refresh |-> 0, verifier |-> 0, state |-> 0]

\* A slip: UpsertMcpServer relies on the handler's FindMcp.
InsertMcpServer(h) ==
    /\ At(h, "upsert") /\ made.rows < MaxRows
    /\ made' = [made EXCEPT !.rows = @ + 1]
    /\ StoreCall(h, call[h], PutRowAt(mem, made.rows + 1, NewRow(call[h])), FALSE)
    /\ UNCHANGED logins

\* A slip: the answer is the placeholder this call minted.
UpsertTellsMinted(h) ==
    /\ At(h, "upsert")
    /\ LET found == FindMcp(mem, call[h].ann) IN
       IF found = {}
       THEN /\ made.rows < MaxRows
            /\ made' = [made EXCEPT !.rows = @ + 1]
            /\ StoreCall(h, call[h], PutRowAt(mem, made.rows + 1, NewRow(call[h])), FALSE)
       ELSE StoreCall(h, call[h], mem, FALSE) /\ UNCHANGED made
    /\ UNCHANGED logins

\* The row that came first stays and is the answer; the secret just made stays too.
UpsertMcpServer(h) ==
    /\ At(h, "upsert")
    /\ LET found == FindMcp(mem, call[h].ann) IN
       IF found = {}
       THEN /\ made.rows < MaxRows
            /\ made' = [made EXCEPT !.rows = @ + 1]
            /\ StoreCall(h, call[h], PutRowAt(mem, made.rows + 1, NewRow(call[h])), FALSE)
       ELSE /\ StoreCall(h, [call[h] EXCEPT !.tok = mem.rows[Earliest(found)].tok], mem, FALSE)
            /\ UNCHANGED made
    /\ UNCHANGED logins

-----------------------------------------------------------------------------
(* POST /mcp/{id}/authorize: startMCPOAuth.                                 *)

\* A slip: every login discovers the endpoints again.
AuthorizeAfresh(h, rid) ==
    /\ rid \in Rows(mem)
    /\ Begin(h, [IdleCall EXCEPT !.op = "authorize", !.rid = rid, !.row = mem.rows[rid],
                                 !.pc = "discover"])

Authorize(h, rid) ==
    /\ rid \in Rows(mem)
    /\ LET row == mem.rows[rid] IN
       Begin(h, [IdleCall EXCEPT !.op = "authorize", !.rid = rid, !.row = row,
                                 !.pc = IF ~row.endpoints THEN "discover"
                                        ELSE IF row.client = 0 THEN "register" ELSE "start"])

\* ReplaceMcpServer puts the caller's copy in the place of the row.
ReplaceMcpServer(h, row) ==
    StoreCall(h, [call[h] EXCEPT !.row = row], PutRowAt(mem, call[h].rid, row), FALSE)

discoverMCPOAuth(h) ==
    /\ At(h, "discover")
    /\ ReplaceMcpServer(h, [call[h].row EXCEPT !.endpoints = TRUE])
    /\ UNCHANGED <<made, logins>>

registerMCPClient(h) ==
    /\ At(h, "register")
    /\ made' = [made EXCEPT !.clients = @ + 1]
    /\ ReplaceMcpServer(h, [call[h].row EXCEPT !.client = made.clients + 1])
    /\ UNCHANGED logins

\* New verifier and state; the URL is built from the same copy.
startMCPOAuth(h) ==
    /\ At(h, "start") /\ made.logins < MaxLogins
    /\ LET n == made.logins + 1 IN
       /\ made' = [made EXCEPT !.logins = n]
       /\ logins' = [logins EXCEPT ![n] = [rid |-> call[h].rid, client |-> call[h].row.client]]
       /\ Change(h, PutRowAt(mem, call[h].rid,
                             [call[h].row EXCEPT !.verifier = n, !.state = n]), FALSE)
       /\ Goto(h, [call[h] EXCEPT !.login = n])
    /\ UNCHANGED <<files, opened, redeemed, spent, answered, deleted, behind, calls, faults>>

\* Discovery, registration or the exchange gets no usable answer.
NetworkFails(h) ==
    /\ call[h].pc \in {"discover", "register", "exchange"} /\ io.by # h
    /\ Abandon(h)

-----------------------------------------------------------------------------
(* The callback: handleMcpOAuthHTTP, exchangeMCPCode, applyMCPTokens.       *)

\* The browser comes back from login n, perhaps twice.  An unknown state is
\* refused.
Callback(h, n) ==
    /\ n \in opened
    /\ LET found == {i \in Rows(mem) : mem.rows[i].state = n} IN
       /\ found # {}
       /\ Begin(h, [IdleCall EXCEPT !.op = "callback", !.pc = "exchange", !.login = n,
                                    !.rid = Earliest(found), !.row = mem.rows[Earliest(found)]])

exchangeMCPCode(h) ==
    /\ call[h].pc = "exchange"
    /\ LET n == call[h].login IN
       /\ n \notin redeemed
       /\ call[h].row.verifier = n /\ call[h].row.client = logins[n].client
       /\ redeemed' = redeemed \cup {n}
    /\ Goto(h, [call[h] EXCEPT !.pc = "load"])
    /\ UNCHANGED <<mem, files, io, made, logins, opened, spent, answered, deleted, behind,
                   calls, faults>>

\* A slip: the secret is looked up by its placeholder.
LoadByPlaceholder(h) ==
    /\ At(h, "load")
    /\ LET found == {i \in Live(mem) : mem.secrets[i].tok = call[h].row.tok}
           new == IF call[h].op = "callback" THEN call[h].login ELSE Blank
       IN  /\ found # {}
           /\ Goto(h, [call[h] EXCEPT !.pc = "replace", !.sid = Earliest(found),
                                !.sec = [mem.secrets[Earliest(found)] EXCEPT !.value = new]])
    /\ ReadOnly

\* SecretByID, in the callback and in revoke: a revoke goes on without it.
LoadSecret(h) ==
    /\ At(h, "load")
    /\ LET sid == call[h].row.sid
           new == IF call[h].op = "callback" THEN call[h].login ELSE Blank
       IN  IF sid \in Live(mem)
           THEN Goto(h, [call[h] EXCEPT !.pc = "replace", !.sid = sid,
                                        !.sec = [mem.secrets[sid] EXCEPT !.value = new]])
           ELSE Goto(h, IF call[h].op = "callback" THEN IdleCall
                        ELSE [call[h] EXCEPT !.pc = "settle"])
    /\ ReadOnly

\* ReplaceSecret puts the caller's copy in the place of the secret, if it is
\* still there.
ReplaceSecret(h) ==
    /\ At(h, "replace") /\ call[h].sid \in Live(mem)
    /\ StoreCall(h, call[h], PutSecretAt(mem, call[h].sid, call[h].sec), TRUE)
    /\ UNCHANGED <<made, logins>>

ReplaceMissing(h) ==
    /\ At(h, "replace") /\ call[h].sid \notin Live(mem)
    /\ Abandon(h)

\* The last write of the callback; a token answer may lack a refresh token.
applyMCPTokens(h) ==
    /\ At(h, "settle") /\ call[h].op = "callback"
    /\ \E r \in {call[h].row.refresh, call[h].login} :
          ReplaceMcpServer(h, [call[h].row EXCEPT !.refresh = r, !.verifier = 0, !.state = 0,
                                                  !.status = "ok"])
    /\ UNCHANGED <<made, logins>>

-----------------------------------------------------------------------------
(* POST /mcp/{id}/revoke, POST, PUT and DELETE /secrets, POST and DELETE    *)
(* /rules, POST /imports/pi-keys, POST /failures/resolve.                   *)

Revoke(h, rid) ==
    /\ rid \in Rows(mem)
    /\ Begin(h, [IdleCall EXCEPT !.op = "revoke", !.pc = "load", !.rid = rid,
                                 !.row = mem.rows[rid]])

handleRevokeMCP(h) ==
    /\ At(h, "settle") /\ call[h].op = "revoke"
    /\ ReplaceMcpServer(h, [call[h].row EXCEPT !.refresh = 0, !.verifier = 0, !.state = 0,
                                               !.status = "revoked"])
    /\ UNCHANGED <<made, logins>>

\* A call whose first store call is a write.
BeginWith(h, c) ==
    /\ call[h] = IdleCall /\ c.op \in Ops
    /\ calls < MaxCalls /\ calls' = calls + 1
    /\ Goto(h, c)
    /\ UNCHANGED <<files, logins, opened, redeemed, spent, answered, behind, faults>>

\* POST /secrets takes the operator's placeholder, taken or not.
PostSecret(h, t) ==
    LET sid == made.secrets + 1
        c == [IdleCall EXCEPT !.op = "post", !.pc = "addSecret", !.tok = t, !.sid = sid]
    IN  /\ made.secrets < MaxSecrets /\ made' = [made EXCEPT !.secrets = sid]
        /\ Change(h, PutSecretAt(mem, sid, NewSecret(c)), TRUE)
        /\ BeginWith(h, c)
        /\ UNCHANGED deleted

\* PUT /secrets edits a copy: a new value, or a new env key and the value of the copy.
PutSecret(h, sid) ==
    /\ sid \in Live(mem)
    /\ LET sec == mem.secrets[sid] IN
       \E edit \in {[sec EXCEPT !.value = Typed], [sec EXCEPT !.key = ImportKey]} :
          Begin(h, [IdleCall EXCEPT !.op = "put", !.pc = "replace", !.sid = sid, !.tok = sec.tok,
                                    !.sec = edit])

Delete(h, sid, secret) ==
    /\ Change(h, WithoutSecret(mem, sid), secret)
    /\ BeginWith(h, [IdleCall EXCEPT !.op = "delete", !.pc = "delete"])
    /\ deleted' = [secrets |-> deleted.secrets \cup {sid},
                   rules |-> deleted.rules \cup Unruled(mem, WithoutSecret(mem, sid))]
    /\ UNCHANGED made

\* A slip: DeleteSecret does not rewrite the env files.
DeleteSecretOnly(h, sid) == sid <= made.secrets /\ Delete(h, sid, FALSE)

\* A secret that is gone already is deleted again.
DeleteSecret(h, sid) == sid <= made.secrets /\ Delete(h, sid, TRUE)

\* upsertPiSecret: the first secret with the provider's env key, or a new one.
importPiKeys(h) ==
    LET found == SecretByEnvKey(mem, ImportKey)
        c == [IdleCall EXCEPT !.op = "import"]
    IN  IF found = {}
        THEN \E t \in Random : Begin(h, [c EXCEPT !.pc = "addSecret", !.tok = t])
        ELSE LET sec == mem.secrets[Earliest(found)] IN
             Begin(h, [c EXCEPT !.pc = "replace", !.sid = Earliest(found), !.tok = sec.tok,
                                !.sec = [sec EXCEPT !.value = Typed]])

\* No rule is added when there is one for the provider's host or for all, or when the
\* provider came without a host; the rules there are may be for other hosts.
ImportHasRule(h) ==
    /\ At(h, "hasRule")
    /\ \E next \in {IdleCall, [call[h] EXCEPT !.pc = "addRule"]} : Goto(h, next)
    /\ ReadOnly

\* POST /rules: the operator's rule may name any secret and any placeholder.
PostRule(h, sid, t) ==
    /\ sid <= made.secrets
    /\ Change(h, AddRule(mem, sid, t), FALSE)
    /\ BeginWith(h, [IdleCall EXCEPT !.op = "postRule", !.pc = "rule"])
    /\ UNCHANGED <<made, deleted>>

\* DELETE /rules/{id}: the placeholder may have another rule of the secret, for another
\* host.
DeleteRule(h, rule) ==
    /\ rule \in mem.rules
    /\ \E rest \in {mem.rules, mem.rules \ {rule}} :
          LET st == [mem EXCEPT !.rules = rest]
          IN  /\ Change(h, st, FALSE)
              /\ deleted' = [deleted EXCEPT !.rules = @ \cup Unruled(mem, st)]
    /\ BeginWith(h, [IdleCall EXCEPT !.op = "deleteRule", !.pc = "rule"])
    /\ UNCHANGED made

\* resolveFailures, one entry: the first secret with its placeholder, given the entry's
\* env key when it has another, or a new one; then a rule is added in either case.
resolveFailures(h, t) ==
    LET found == {i \in Live(mem) : mem.secrets[i].tok = t}
        c == [IdleCall EXCEPT !.op = "resolve", !.tok = t]
    IN  IF found = {} THEN Begin(h, [c EXCEPT !.pc = "addSecret"])
        ELSE LET sid == Earliest(found)
             IN  \E pc \in {"addRule"} \cup
                          (IF mem.secrets[sid].key = ImportKey THEN {} ELSE {"setEnvKey"}) :
                    Begin(h, [c EXCEPT !.pc = pc, !.sid = sid])

\* The env key is set in the list, not through a copy.
SetEnvKey(h) ==
    /\ At(h, "setEnvKey") /\ call[h].sid \in Live(mem)
    /\ StoreCall(h, call[h],
                 PutSecretAt(mem, call[h].sid,
                             [mem.secrets[call[h].sid] EXCEPT !.key = ImportKey]), TRUE)
    /\ UNCHANGED <<made, logins>>

SetEnvKeyMissing(h) ==
    /\ At(h, "setEnvKey") /\ call[h].sid \notin Live(mem)
    /\ Abandon(h)

\* The last store call of an import and of a resolved entry.
AddRuleLast(h) ==
    /\ At(h, "addRule")
    /\ StoreCall(h, call[h], AddRule(mem, call[h].sid, call[h].tok), FALSE)
    /\ UNCHANGED <<made, logins>>

-----------------------------------------------------------------------------
(* The lock holder's writes, and what can go wrong.                         *)

\* A file written is level with the vault again.
Save ==
    /\ SaveStep
    /\ behind' = behind \ (io.left \ io'.left)
    /\ UNCHANGED <<call, made, history, calls, faults>>

\* The store call returns nil: the lock is free and the handler goes on.
SaveReturns ==
    /\ Saved
    /\ LET h == io.by
           c == call[h]
       IN  /\ Goto(h, IF AfterSave(c) = "idle" THEN IdleCall
                      ELSE [c EXCEPT !.pc = AfterSave(c)])
           /\ opened' = IF c.pc = "start" THEN opened \cup {c.login} ELSE opened
           /\ answered' = IF c.pc = "upsert" THEN answered \cup {<<c.ann, c.tok>>} ELSE answered
           /\ spent' = IF c.pc = "settle" /\ c.op = "callback" THEN spent \cup {c.login} ELSE spent
    /\ UNCHANGED <<mem, files, made, logins, redeemed, deleted, behind, calls, faults>>

OneFault == faults < MaxFaults /\ faults' = faults + 1

\* The store call returns the error, and so does the handler; the files of a call that changed
\* secrets and did not get to them are behind.
SaveError ==
    /\ OneFault
    /\ SaveFails
    /\ Goto(io.by, IdleCall)
    /\ behind' = behind \cup (IF ~io.secret THEN {} ELSE IF io.step = "env" THEN io.left ELSE dirs)
    /\ UNCHANGED <<made, history, calls>>

\* The gateway dies: every call is gone, what only the memory had is lost.
Crash ==
    /\ OneFault
    /\ Reload
    /\ call' = [h \in Slot |-> IdleCall]
    /\ behind' = behind \cup io.left
    /\ UNCHANGED <<made, history, calls>>

Up(slug) ==
    /\ EnsureWorkerPlaceholdersEnv(slug)
    /\ behind' = behind \cup {slug}
    /\ UNCHANGED <<call, made, history, calls, faults>>

NewCall(h) ==
    \/ \E a \in Ann : Announce(h, a) \/ AnnounceAgain(a)
    \/ \E rid \in RowId : Authorize(h, rid) \/ Revoke(h, rid)
    \/ \E n \in Login : Callback(h, n)
    \/ \E t \in Token : PostSecret(h, t)
    \/ \E sid \in SecretId : PutSecret(h, sid) \/ DeleteSecret(h, sid)
    \/ \E sid \in SecretId, t \in Token : PostRule(h, sid, t)
    \/ \E rule \in mem.rules : DeleteRule(h, rule)
    \/ importPiKeys(h)
    \/ \E t \in Token : resolveFailures(h, t)

CallStep(h) ==
    \/ mintMCPPlaceholder(h) \/ AddSecret(h) \/ SyncRules(h) \/ UpsertMcpServer(h)
    \/ discoverMCPOAuth(h) \/ registerMCPClient(h) \/ startMCPOAuth(h) \/ NetworkFails(h)
    \/ exchangeMCPCode(h) \/ LoadSecret(h) \/ ReplaceSecret(h) \/ ReplaceMissing(h)
    \/ applyMCPTokens(h) \/ handleRevokeMCP(h)
    \/ ImportHasRule(h) \/ SetEnvKey(h) \/ SetEnvKeyMissing(h) \/ AddRuleLast(h)

Init ==
    /\ VaultInit
    /\ call = [h \in Slot |-> IdleCall]
    /\ made = [secrets |-> 0, rows |-> 0, logins |-> 0, clients |-> 0]
    /\ logins = [n \in Login |-> NoLogin]
    /\ opened = {} /\ redeemed = {} /\ spent = {} /\ answered = {}
    /\ deleted = [secrets |-> {}, rules |-> {}] /\ behind = {}
    /\ calls = 0 /\ faults = 0

Next ==
    \/ \E h \in Slot : NewCall(h) \/ CallStep(h)
    \/ Save \/ SaveReturns \/ SaveError \/ Crash
    \/ \E slug \in Slug : Up(slug)

Spec == Init /\ [][Next]_vars

-----------------------------------------------------------------------------
(* Properties.                                                              *)

Pc == {"idle", "mint", "addSecret", "syncRules", "upsert", "discover", "register", "start",
       "exchange", "load", "replace", "settle", "delete", "hasRule",
       "addRule", "rule", "setEnvKey"}

Call == [op : Ops \cup {"none"}, pc : Pc, ann : Ann \cup {NoAnn}, tok : Token \cup {NoToken},
         sid : 0 .. MaxSecrets, sec : Secret \cup {NoSecret},
         rid : 0 .. MaxRows, row : Row \cup {NoRow}, login : 0 .. MaxLogins]

\* Every piece of state has its type: a row always names a secret, every file is a whole state.
BrokerTypeOK ==
    /\ VaultTypeOK
    /\ call \in [Slot -> Call]
    /\ made \in [secrets : 0 .. MaxSecrets, rows : 0 .. MaxRows, logins : 0 .. MaxLogins,
                 clients : Nat]
    /\ logins \in [Login -> [rid : 0 .. MaxRows, client : Nat]]
    /\ opened \subseteq Login /\ redeemed \subseteq Login /\ spent \subseteq Login
    /\ answered \subseteq Ann \X Token /\ behind \subseteq Slug
    /\ deleted \in [secrets : SUBSET SecretId, rules : SUBSET Token]
    /\ calls \in Nat /\ faults \in Nat

\* Two announcements of one server, however they interleave and whatever fails between them, never
\* make two rows for it (UpsertMcpServer looks again under the lock, store/mcp.go), in memory or
\* in state.json.
RowsUnique ==
    \A st \in {mem, disk} : \A i, j \in Rows(st) :
        i # j => st.rows[i].ann \notin Same[st.rows[j].ann]

\* A row is stored last: in memory, in state.json and after any failure or crash its secret is
\* there, unless DELETE /secrets took that secret, and so is a rule of its placeholder, unless
\* DELETE /rules or DELETE /secrets took the last one (upsertMCP, server/mcp.go).
RowsWhole ==
    \A st \in {mem, disk} : \A i \in Rows(st) :
        /\ st.rows[i].sid \in Live(st) \cup deleted.secrets
        /\ HasRule(st, st.rows[i].tok) \/ st.rows[i].tok \in deleted.rules

\* The access token a login brought is only ever in the secret of the row the login was started
\* for, though the exchange happens without the lock (applyMCPTokens, server/mcp_oauth.go).
TokenInItsSecret ==
    \A st \in {mem, disk} : \A i \in Live(st) :
        LET n == st.secrets[i].value
        IN  n \in Login => /\ logins[n].rid \in Rows(st)
                           /\ st.rows[logins[n].rid].sid = i

\* A login that completed cannot come back: no row, in memory or in state.json, ever carries its
\* state again, though other handlers write back copies of the row read before.
SpentStateGone ==
    \A st \in {mem, disk} : \A i \in Rows(st) : st.rows[i].state \notin spent

\* Between two store calls the env file of every directory shows the vault in memory, except where
\* the directory is newer than the last change of a secret or a failure cut the writing short.
EnvShowsVault ==
    io = NoIo => \A slug \in dirs \ behind : env[slug] = RenderPlaceholdersEnvForWorker(mem, slug)

\* What announcing promises: one placeholder for each server, the same in every answer as long
\* as state.json keeps it.
Told(st) == [a \in Ann |-> LET found == FindMcp(st, a)
                           IN  IF found = {} THEN NoToken ELSE st.rows[Earliest(found)].tok]

Book == INSTANCE AnswerBook WITH told <- Told(mem), kept <- Told(disk)

ImplementsAnswerBook == Book!Spec
=============================================================================
