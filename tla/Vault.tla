-------------------------------- MODULE Vault --------------------------------
(***************************************************************************)
(* The vault part of the store (store/store.go, store/mcp.go) with the     *)
(* files behind it: state.json, which save replaces with a temporary file  *)
(* and a rename, and one placeholders.env per worker directory, which      *)
(* every change of a secret rewrites (store/envfile.go).                   *)
(*                                                                         *)
(* A store call changes the memory first and saves while it still holds    *)
(* the store's lock.  io is the call that holds it; any of its writes may  *)
(* fail, which leaves the memory changed, and the gateway may die between  *)
(* any two of them.                                                        *)
(***************************************************************************)
EXTENDS Integers, FiniteSets

CONSTANTS
    Ann,        \* what workers announce: (worker, name, URL)
    NoAnn,
    Same,       \* ann -> those of the same worker with its name or its URL
    Base,       \* ann -> the placeholder named after its slug and name
    SlugOf,     \* ann -> the slug of its worker
    Slug,       \* worker directories
    Token,      \* placeholders
    NoToken,
    ImportKey,  \* the env key of an imported provider
    Slot,       \* concurrent calls of the two APIs
    NoSlot,
    MaxSecrets, \* bound: secrets ever created
    MaxRows,    \* bound: MCP rows ever created
    MaxLogins   \* bound: logins ever started

ASSUME VaultAssumption ==
    /\ NoAnn \notin Ann
    /\ Same \in [Ann -> SUBSET Ann]
    /\ \A a \in Ann : a \in Same[a]
    /\ \A a, b \in Ann : a \in Same[b] => b \in Same[a]
    /\ Base \in [Ann -> Token]
    /\ SlugOf \in [Ann -> Slug]
    /\ NoToken \notin Token /\ ImportKey \notin Token
    /\ NoSlot \notin Slot
    /\ MaxSecrets \in Nat /\ MaxRows \in Nat /\ MaxLogins \in Nat

SecretId == 1 .. MaxSecrets
RowId    == 1 .. MaxRows
Login    == 1 .. MaxLogins

\* A value is blank, the access token a login brought, or typed by the operator.
Blank == 0
Typed == MaxLogins + 1
Value == 0 .. MaxLogins + 1

\* SecretRec.  The env key of an MCP secret is made of the same slug and name as
\* its base placeholder and stands for it here.
Secret   == [tok : Token, key : Token \cup {ImportKey}, scope : SUBSET Slug, value : Value]
NoSecret == [tok |-> NoToken, key |-> ImportKey, scope |-> {}, value |-> Blank]

\* McpServerRec.  state and verifier are the number of the login they were drawn
\* for, 0 when empty; client is the number of the registration.
Row   == [ann : Ann, sid : SecretId, tok : Token,
          status : {"needs-auth", "ok", "revoked"}, endpoints : BOOLEAN,
          client : Nat, refresh : Nat, verifier : Nat, state : Nat]
NoRow == [tok |-> NoToken, state |-> 0]

\* Lists are functions of the position; an id is the position it was appended at.
State == [secrets : [SecretId -> Secret \cup {NoSecret}],
          rules   : SUBSET [sid : SecretId, tok : Token],
          rows    : [RowId -> Row \cup {NoRow}]]

Empty == [secrets |-> [i \in SecretId |-> NoSecret], rules |-> {},
          rows |-> [i \in RowId |-> NoRow]]

VARIABLES
    mem,    \* the store's state in memory
    tmp,    \* state.json.tmp: the states it may be read as, none when torn
    disk,   \* state.json
    dirs,   \* worker directories that exist
    env,    \* slug -> the (key, placeholder) lines of its placeholders.env
    io      \* the store call that holds the lock

files == <<tmp, disk, dirs, env>>

NoIo == [by |-> NoSlot, step |-> "free", secret |-> FALSE, left |-> {}]

-----------------------------------------------------------------------------
(* What the store's calls read and what they make of a state.              *)

Live(st)       == {i \in SecretId : st.secrets[i] # NoSecret}
Rows(st)       == {i \in RowId : st.rows[i] # NoRow}
Earliest(S)    == CHOOSE i \in S : \A j \in S : i <= j

FindMcp(st, a) == {i \in Rows(st) : st.rows[i].ann \in Same[a]}

PlaceholderTaken(st, t) ==
    \/ \E i \in Live(st) : st.secrets[i].tok = t
    \/ \E i \in Rows(st) : st.rows[i].tok = t

SecretByEnvKey(st, key) == {i \in Live(st) : st.secrets[i].key = key}

PutSecretAt(st, sid, sec) == [st EXCEPT !.secrets[sid] = sec]
PutRowAt(st, rid, row)    == [st EXCEPT !.rows[rid] = row]

\* Rules of the deleted secret's id go, rules with its placeholder stay.
WithoutSecret(st, sid) ==
    [st EXCEPT !.secrets[sid] = NoSecret, !.rules = {r \in @ : r.sid # sid}]

SyncRulesForSecret(st, sid, tok) ==
    [st EXCEPT !.rules = {r \in @ : r.tok # tok} \cup {[sid |-> sid, tok |-> tok]}]

\* Rules differ in their hosts as well: an element stands for the rules of all hosts.
HasRule(st, tok) == \E r \in st.rules : r.tok = tok
Unruled(st, after) == {t \in Token : HasRule(st, t) /\ ~HasRule(after, t)}
AddRule(st, sid, tok) == [st EXCEPT !.rules = @ \cup {[sid |-> sid, tok |-> tok]}]

SecretVisibleToWorker(sec, slug) == sec.scope = {} \/ slug \in sec.scope

\* The first visible secret of each key.
RenderPlaceholdersEnvForWorker(st, slug) ==
    LET seen == {i \in Live(st) : SecretVisibleToWorker(st.secrets[i], slug)}
    IN  {<<st.secrets[i].key, st.secrets[i].tok>> :
            i \in {j \in seen : \A k \in seen :
                        st.secrets[k].key = st.secrets[j].key => j <= k}}

-----------------------------------------------------------------------------
(* One store call: the change, then save, then the env files.              *)

\* Slot h takes the lock, when it is free, and changes the memory.
Change(h, st, secret) ==
    /\ io = NoIo
    /\ mem' = st
    /\ io' = [by |-> h, step |-> "write", secret |-> secret, left |-> {}]

WriteTmp ==
    /\ io.step = "write"
    /\ tmp' = {mem}
    /\ io' = [io EXCEPT !.step = "rename"]
    /\ UNCHANGED <<mem, disk, dirs, env>>

\* The rename ends save; a call that changed a secret goes on to the env files
\* of the directories there are now.
Rename ==
    /\ io.step = "rename"
    /\ disk' \in tmp
    /\ tmp' = {}
    /\ io' = [io EXCEPT !.step = "env", !.left = IF io.secret THEN dirs ELSE {}]
    /\ UNCHANGED <<mem, dirs, env>>

\* One env file, itself written to a temporary file and renamed.
WriteWorkerPlaceholdersEnv(slug) ==
    /\ io.step = "env" /\ slug \in io.left
    /\ env' = [env EXCEPT ![slug] = RenderPlaceholdersEnvForWorker(mem, slug)]
    /\ io' = [io EXCEPT !.left = @ \ {slug}]
    /\ UNCHANGED <<mem, tmp, disk, dirs>>

\* Everything is written: the call returns nil and the lock is free.
Saved == io.step = "env" /\ io.left = {} /\ io' = NoIo

\* A write or a rename fails: the rest is skipped and the call returns the error.
SaveFails ==
    /\ io.step \in {"write", "rename"} \/ io.left # {}
    /\ tmp' = IF io.step = "write" THEN {} ELSE tmp
    /\ io' = NoIo
    /\ UNCHANGED <<mem, disk, dirs, env>>

SaveStep ==
    \/ WriteTmp \/ Rename
    \/ \E slug \in Slug : WriteWorkerPlaceholdersEnv(slug)

\* piso up makes the directory of a project, with an env file of no lines: one step, at the
\* write of the file, though the gateway may have written it since it was looked for.
EnsureWorkerPlaceholdersEnv(slug) ==
    /\ slug \notin dirs
    /\ dirs' = dirs \cup {slug}
    /\ env' = [env EXCEPT ![slug] = {}]
    /\ UNCHANGED <<mem, tmp, disk, io>>

\* The gateway dies and comes back with what state.json holds; the env files
\* are not written again.
Reload ==
    /\ mem' = disk
    /\ io' = NoIo
    /\ tmp' = IF io.step = "write" THEN {} ELSE tmp
    /\ UNCHANGED <<disk, dirs, env>>

\* First start: there is no state.json, so load saves the empty state.
VaultInit ==
    /\ mem = Empty /\ tmp = {} /\ disk = Empty
    /\ dirs = {} /\ env = [slug \in Slug |-> {}]
    /\ io = NoIo

\* Types of the store's state and of the files.
VaultTypeOK ==
    /\ mem \in State /\ disk \in State
    /\ tmp \subseteq State
    /\ dirs \subseteq Slug
    /\ env \in [Slug -> SUBSET ((Token \cup {ImportKey}) \X Token)]
    /\ io \in [by : Slot \cup {NoSlot},
               step : {"free", "write", "rename", "env"},
               secret : BOOLEAN, left : SUBSET Slug]
=============================================================================
