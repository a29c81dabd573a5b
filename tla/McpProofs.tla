----------------------------- MODULE McpProofs -----------------------------
(***************************************************************************)
(* Proofs about McpBroker, for any number of announcements, slots, logins, *)
(* failures and crashes.  The inductive invariant has three layers: types  *)
(* with what each pc says about the call (TypeInv), rows, tokens and the   *)
(* copies the calls carry (MainInv), and the env files (EnvInv).           *)
(***************************************************************************)
EXTENDS McpBroker, WellFoundedInduction, TLAPS

\* What the pc of a call says about what it carries; busy: its store call holds the lock.
CallOK(c, busy) ==
    /\ c.pc \in {"mint", "upsert"} => c.op = "announce"
    /\ c.op = "announce" => c.ann \in Ann
    /\ c.pc \in {"addSecret", "syncRules", "upsert", "hasRule", "addRule", "setEnvKey"}
          => c.tok \in Token
    /\ c.pc \in {"syncRules", "upsert", "replace", "hasRule", "addRule", "setEnvKey"}
          => c.sid \in SecretId
    /\ c.pc = "addSecret" /\ busy => c.sid \in SecretId
    /\ c.pc = "replace" => /\ c.sec \in Secret
                           /\ c.op \in {"callback", "revoke", "put", "import"}
                           /\ c.op \in {"put", "import"} => c.tok \in Token
    /\ c.pc \in {"discover", "register", "start"} => c.op = "authorize"
    /\ c.pc = "exchange" => c.op = "callback"
    /\ c.pc \in {"load", "settle"} => c.op \in {"callback", "revoke"}
    /\ c.op \in {"authorize", "callback", "revoke"} => c.row \in Row /\ c.rid \in RowId
    /\ c.op = "callback" => c.login \in Login
    /\ c.pc = "start" /\ busy => c.login \in Login
    /\ c.pc = "discover" /\ busy => c.row.endpoints
    /\ c.pc = "register" => c.row.endpoints
    /\ c.pc = "register" /\ busy => c.row.client # 0
    /\ c.pc = "start" => c.row.endpoints /\ c.row.client # 0

\* The lock, and what is on the way to the disk.
IoOK ==
    /\ io = NoIo \/ (io.by \in Slot /\ io.step \in {"write", "rename", "env"})
    /\ io.step = "rename" => tmp = {mem}
    /\ io.step = "env" => disk = mem

TypeInv == BrokerTypeOK /\ IoOK /\ \A h \in Slot : CallOK(call[h], io.by = h)

-----------------------------------------------------------------------------
(* States.                                                                  *)

USE VaultAssumption, BrokerAssumption

\* What the store's calls make of a state is a state.
LEMMA StatesTyped ==
    ASSUME NEW st \in State
    PROVE  /\ \A i : \A sec \in Secret : PutSecretAt(st, i, sec) \in State
           /\ \A i : \A row \in Row : PutRowAt(st, i, row) \in State
           /\ \A i \in SecretId : WithoutSecret(st, i) \in State
           /\ \A i \in SecretId, t \in Token : /\ SyncRulesForSecret(st, i, t) \in State
                                              /\ AddRule(st, i, t) \in State
           /\ \A rest \in SUBSET st.rules : [st EXCEPT !.rules = rest] \in State
<1>1. ASSUME NEW i, NEW sec \in Secret PROVE PutSecretAt(st, i, sec) \in State
  BY DEF PutSecretAt, State
<1>2. ASSUME NEW i, NEW row \in Row PROVE PutRowAt(st, i, row) \in State
  BY DEF PutRowAt, State
<1>3. ASSUME NEW i \in SecretId PROVE WithoutSecret(st, i) \in State
  BY DEF WithoutSecret, State
<1>4. ASSUME NEW i \in SecretId, NEW t \in Token
      PROVE  SyncRulesForSecret(st, i, t) \in State /\ AddRule(st, i, t) \in State
  BY DEF SyncRulesForSecret, AddRule, State
<1>5. ASSUME NEW rest \in SUBSET st.rules PROVE [st EXCEPT !.rules = rest] \in State
  BY DEF State
<1> QED BY <1>1, <1>2, <1>3, <1>4, <1>5

\* Live secrets and rows are typed.
LEMMA EntriesTyped ==
    ASSUME NEW st \in State
    PROVE  /\ \A i \in Live(st) : i \in SecretId /\ st.secrets[i] \in Secret
           /\ \A i \in Rows(st) : i \in RowId /\ st.rows[i] \in Row
BY DEF Live, Rows, State

\* A set of positions that is not empty has a first one.
LEMMA EarliestIn ==
    ASSUME NEW S \in SUBSET Nat, S # {}
    PROVE  Earliest(S) \in S /\ \A j \in S : Earliest(S) <= j
<1>1. PICK x \in S : \A y \in S : ~ (<<y, x>> \in OpToRel(<, Nat))
  BY NatLessThanWellFounded, WFMin
<1>2. \A y \in S : x <= y
  <2> SUFFICES ASSUME NEW y \in S PROVE x <= y
    OBVIOUS
  <2>1. x \in Nat /\ y \in Nat
    OBVIOUS
  <2>2. ASSUME y < x PROVE <<y, x>> \in OpToRel(<, Nat)
    BY <2>1, <2>2 DEF OpToRel
  <2>3. ~(y < x)
    BY <1>1, <2>2
  <2> QED BY <2>1, <2>3
<1> QED BY <1>2 DEF Earliest

\* What FindMcp finds is a row of the state.
LEMMA FoundIn ==
    ASSUME NEW st \in State, NEW a, FindMcp(st, a) # {}
    PROVE  /\ Earliest(FindMcp(st, a)) \in FindMcp(st, a)
           /\ Earliest(FindMcp(st, a)) \in Rows(st)
           /\ \A j \in FindMcp(st, a) : Earliest(FindMcp(st, a)) <= j
<1>1. FindMcp(st, a) \in SUBSET Nat
  BY EntriesTyped DEF FindMcp, RowId, Rows
<1> QED BY <1>1, EarliestIn DEF FindMcp

-----------------------------------------------------------------------------
(* Calls.                                                                   *)

\* A slot that does nothing.
LEMMA IdleTyped == IdleCall \in Call /\ CallOK(IdleCall, FALSE) /\ CallOK(IdleCall, TRUE)
<1>1. IdleCall \in Call
  BY DEF IdleCall, Call, Pc
<1> QED BY <1>1 DEF IdleCall, CallOK

\* With the lock given back, less is known of a call.
LEMMA CallReleased == \A c : CallOK(c, TRUE) => CallOK(c, FALSE)
BY DEF CallOK

\* One call changes; the others keep what they have, and nobody but it gets the lock.
LEMMA GotoKeeps ==
    ASSUME TypeInv, NEW h \in Slot, NEW c \in Call, Goto(h, c), CallOK(c, io'.by = h),
           \A g \in Slot \ {h} : (io'.by = g) => (io.by = g)
    PROVE  call' \in [Slot -> Call] /\ \A g \in Slot : CallOK(call'[g], io'.by = g)
<1>1. call \in [Slot -> Call]
  BY DEF TypeInv, BrokerTypeOK
<1>2. call' \in [Slot -> Call] /\ \A g \in Slot : call'[g] = IF g = h THEN c ELSE call[g]
  BY <1>1 DEF Goto
<1>3. ASSUME NEW g \in Slot PROVE CallOK(call'[g], io'.by = g)
  <2>1. CASE g = h
    BY <2>1, <1>2
  <2>2. CASE g # h
    <3>1. CallOK(call[g], io.by = g)
      BY DEF TypeInv
    <3>2. CASE io'.by = g
      <4>1. io.by = g /\ (io.by = g) = TRUE /\ (io'.by = g) = TRUE
        BY <3>2, <2>2
      <4> QED BY <3>1, <4>1, <2>2, <1>2
    <3>3. CASE ~(io'.by = g)
      <4>1. CallOK(call[g], FALSE)
        BY <3>1 DEF CallOK
      <4>2. (io'.by = g) = FALSE
        BY <3>3
      <4> QED BY <4>1, <4>2, <2>2, <1>2
    <3> QED BY <3>2, <3>3
  <2> QED BY <2>1, <2>2
<1> QED BY <1>2, <1>3

\* A step that only reads.
LEMMA ReadKeeps ==
    ASSUME TypeInv, NEW h \in Slot, NEW c \in Call, Goto(h, c), CallOK(c, io.by = h),
           UNCHANGED <<mem, files, io, made, logins, behind, deleted>>,
           opened' \subseteq Login, redeemed' \subseteq Login, spent' \subseteq Login,
           answered' \subseteq Ann \X Token, calls' \in Nat, faults' \in Nat
    PROVE  TypeInv'
<1>1. call' \in [Slot -> Call] /\ \A g \in Slot : CallOK(call'[g], io'.by = g)
  <2>1. io' = io
    OBVIOUS
  <2> QED BY <2>1, GotoKeeps
<1>2. BrokerTypeOK'
  BY <1>1 DEF TypeInv, BrokerTypeOK, VaultTypeOK, files
<1>3. IoOK'
  BY DEF TypeInv, IoOK, files
<1> QED BY <1>1, <1>2, <1>3 DEF TypeInv

\* A new call that begins with a read.
LEMMA BeginKeeps ==
    ASSUME TypeInv, NEW h \in Slot, NEW c \in Call, Begin(h, c), CallOK(c, FALSE)
    PROVE  TypeInv'
<1>1. io.by # h
  BY DEF Begin, NoIo
<1>2. CallOK(c, io.by = h)
  <2>1. (io.by = h) = FALSE
    BY <1>1
  <2> QED BY <2>1
<1>3. /\ Goto(h, c)
      /\ UNCHANGED <<mem, files, io, made, logins, behind, deleted>>
      /\ opened' \subseteq Login /\ redeemed' \subseteq Login /\ spent' \subseteq Login
      /\ answered' \subseteq Ann \X Token /\ calls' \in Nat /\ faults' \in Nat
  BY DEF Begin, history, TypeInv, BrokerTypeOK
<1> QED BY <1>2, <1>3, ReadKeeps

\* A step of a call that takes the lock and changes the memory.
LEMMA StoreKeeps ==
    ASSUME TypeInv, NEW h \in Slot, NEW c \in Call, NEW st \in State, NEW secret \in BOOLEAN,
           Change(h, st, secret), Goto(h, c), CallOK(c, TRUE), UNCHANGED files,
           made' \in [secrets : 0 .. MaxSecrets, rows : 0 .. MaxRows, logins : 0 .. MaxLogins,
                      clients : Nat],
           logins' \in [Login -> [rid : 0 .. MaxRows, client : Nat]],
           deleted' \in [secrets : SUBSET SecretId, rules : SUBSET Token], calls' \in Nat,
           UNCHANGED <<opened, redeemed, spent, answered, behind, faults>>
    PROVE  TypeInv'
<1>1. io' \in [by : Slot \cup {NoSlot}, step : {"free", "write", "rename", "env"},
               secret : BOOLEAN, left : SUBSET Slug]
  BY DEF Change
<1>2. io'.by = h /\ io'.step = "write" /\ io.by = NoSlot
  BY DEF Change, NoIo
<1>3. call' \in [Slot -> Call] /\ \A g \in Slot : CallOK(call'[g], io'.by = g)
  <2>1. (io'.by = h) = TRUE
    BY <1>2
  <2>2. CallOK(c, io'.by = h)
    BY <2>1
  <2>3. \A g \in Slot \ {h} : (io'.by = g) => (io.by = g)
    BY <1>2
  <2> QED BY <2>2, <2>3, GotoKeeps
<1>4. VaultTypeOK'
  BY <1>1 DEF TypeInv, BrokerTypeOK, VaultTypeOK, files, Change
<1>5. BrokerTypeOK'
  BY <1>3, <1>4 DEF TypeInv, BrokerTypeOK
<1>6. IoOK'
  BY <1>2 DEF IoOK
<1> QED BY <1>3, <1>5, <1>6 DEF TypeInv

-----------------------------------------------------------------------------
(* Types.                                                                   *)

\* Nothing is stored and nothing is going on.
LEMMA TypeInit == Init => TypeInv
<1> SUFFICES ASSUME Init PROVE TypeInv
  OBVIOUS
<1>1. Empty \in State
  BY DEF Empty, State
<1>2. VaultTypeOK /\ IoOK
  BY <1>1 DEF Init, VaultInit, VaultTypeOK, NoIo, IoOK
<1>3. call \in [Slot -> Call] /\ \A h \in Slot : call[h] = IdleCall
  BY IdleTyped DEF Init
<1>4. made \in [secrets : 0 .. MaxSecrets, rows : 0 .. MaxRows, logins : 0 .. MaxLogins,
                clients : Nat]
         /\ logins \in [Login -> [rid : 0 .. MaxRows, client : Nat]]
  BY DEF Init, NoLogin
<1>5. BrokerTypeOK
  BY <1>2, <1>3, <1>4 DEF Init, BrokerTypeOK
<1>6. \A h \in Slot : CallOK(call[h], io.by = h)
  <2> SUFFICES ASSUME NEW h \in Slot PROVE CallOK(call[h], io.by = h)
    OBVIOUS
  <2>1. (io.by = h) = FALSE
    BY DEF Init, VaultInit, NoIo
  <2> QED BY <2>1, <1>3, IdleTyped
<1> QED BY <1>2, <1>5, <1>6 DEF TypeInv

\* The announcement up to the row.
LEMMA TypeAnnounce ==
    ASSUME TypeInv, NEW h \in Slot,
           \/ \E a \in Ann : Announce(h, a)
           \/ mintMCPPlaceholder(h) \/ AddSecret(h) \/ SyncRules(h) \/ UpsertMcpServer(h)
    PROVE  TypeInv'
<1>t. BrokerTypeOK /\ mem \in State /\ call[h] \in Call /\ CallOK(call[h], io.by = h)
  BY DEF TypeInv, BrokerTypeOK, VaultTypeOK
<1>1. ASSUME NEW a \in Ann, Announce(h, a) PROVE TypeInv'
  <2> DEFINE c == [IdleCall EXCEPT !.op = "announce", !.ann = a, !.pc = "mint"]
  <2>1. Begin(h, c)
    BY <1>1 DEF Announce
  <2>2. c \in Call
    BY <2>1, IdleTyped DEF Begin, Call, Pc
  <2>3. CallOK(c, FALSE)
    BY DEF CallOK, IdleCall
  <2> HIDE DEF c
  <2> QED BY <2>1, <2>2, <2>3, BeginKeeps
<1>2. CASE mintMCPPlaceholder(h)
  <2>1. PICK t \in Token : Goto(h, [call[h] EXCEPT !.pc = "addSecret", !.tok = t])
    BY <1>2, <1>t DEF mintMCPPlaceholder, Random, At, CallOK
  <2> DEFINE c == [call[h] EXCEPT !.pc = "addSecret", !.tok = t]
  <2>2. c \in Call
    BY <1>t DEF Call, Pc
  <2>3. CallOK(c, io.by = h)
    BY <1>2, <1>t DEF mintMCPPlaceholder, At, CallOK, Call, NoIo
  <2>4. Goto(h, c)
    BY <2>1
  <2> HIDE DEF c
  <2> QED BY <1>2, <1>t, <2>2, <2>3, <2>4, ReadKeeps
          DEF mintMCPPlaceholder, ReadOnly, history, BrokerTypeOK
<1>3. CASE AddSecret(h)
  <2> DEFINE sid == made.secrets + 1
             c == [call[h] EXCEPT !.sid = sid]
             st == PutSecretAt(mem, sid, NewSecret(call[h]))
  <2>1. sid \in SecretId /\ call[h].pc = "addSecret"
    BY <1>3, <1>t DEF AddSecret, At, BrokerTypeOK, SecretId
  <2>2. NewSecret(call[h]) \in Secret
    <3>1. call[h].tok \in Token /\ (call[h].op = "announce" => call[h].ann \in Ann)
      BY <1>t, <2>1 DEF CallOK
    <3>2. CASE call[h].op = "announce"
      BY <3>1, <3>2 DEF NewSecret, Secret, Value, Blank
    <3>3. CASE call[h].op # "announce"
      BY <3>1, <3>3 DEF NewSecret, Secret, Value, Typed
    <3> QED BY <3>2, <3>3
  <2>3. st \in State
    BY <1>t, <2>2, StatesTyped
  <2>4. c \in Call /\ CallOK(c, TRUE)
    BY <1>t, <2>1 DEF Call, CallOK, SecretId
  <2>5. made' \in [secrets : 0 .. MaxSecrets, rows : 0 .. MaxRows, logins : 0 .. MaxLogins,
                   clients : Nat]
    BY <1>3, <1>t, <2>1 DEF AddSecret, BrokerTypeOK, SecretId
  <2>6. StoreCall(h, c, st, TRUE) /\ UNCHANGED logins
    BY <1>3 DEF AddSecret
  <2> HIDE DEF sid, c, st
  <2> QED BY <1>t, <2>3, <2>4, <2>5, <2>6, StoreKeeps DEF StoreCall, BrokerTypeOK
<1>4. CASE SyncRules(h)
  <2> DEFINE st == SyncRulesForSecret(mem, call[h].sid, call[h].tok)
  <2>1. call[h].pc = "syncRules"
    BY <1>4 DEF SyncRules, At
  <2>2. call[h].sid \in SecretId /\ call[h].tok \in Token /\ CallOK(call[h], TRUE)
    BY <1>t, <2>1 DEF CallOK
  <2>3. st \in State
    BY <1>t, <2>2, StatesTyped
  <2>4. StoreCall(h, call[h], st, FALSE) /\ UNCHANGED <<made, logins>>
    BY <1>4 DEF SyncRules
  <2> HIDE DEF st
  <2> QED BY <1>t, <2>2, <2>3, <2>4, StoreKeeps DEF StoreCall, BrokerTypeOK
<1>5. CASE UpsertMcpServer(h)
  <2> DEFINE found == FindMcp(mem, call[h].ann)
  <2>1. call[h].pc = "upsert" /\ CallOK(call[h], TRUE)
    BY <1>5, <1>t DEF UpsertMcpServer, At, CallOK
  <2>2. CASE found = {}
    <3> DEFINE st == PutRowAt(mem, made.rows + 1, NewRow(call[h]))
    <3>1. NewRow(call[h]) \in Row
      BY <2>1 DEF CallOK, NewRow, Row
    <3>2. st \in State
      BY <1>t, <3>1, StatesTyped
    <3>3. /\ StoreCall(h, call[h], st, FALSE) /\ UNCHANGED logins
          /\ made.rows < MaxRows /\ made' = [made EXCEPT !.rows = @ + 1]
      BY <1>5, <2>2 DEF UpsertMcpServer
    <3>4. made' \in [secrets : 0 .. MaxSecrets, rows : 0 .. MaxRows, logins : 0 .. MaxLogins,
                     clients : Nat]
      BY <1>t, <3>3 DEF BrokerTypeOK
    <3> HIDE DEF st
    <3> QED BY <1>t, <2>1, <3>2, <3>3, <3>4, StoreKeeps DEF StoreCall, BrokerTypeOK
  <2>3. CASE found # {}
    <3> DEFINE c == [call[h] EXCEPT !.tok = mem.rows[Earliest(found)].tok]
    <3>1. mem.rows[Earliest(found)] \in Row
      BY <1>t, <2>3, FoundIn, EntriesTyped
    <3>2. mem.rows[Earliest(found)].tok \in Token
      BY <3>1 DEF Row
    <3>3. StoreCall(h, c, mem, FALSE) /\ UNCHANGED <<made, logins>>
      BY <1>5, <2>3 DEF UpsertMcpServer
    <3> HIDE DEF found
    <3>4. c \in Call /\ CallOK(c, TRUE)
      BY <1>t, <2>1, <3>2 DEF Call, CallOK
    <3> HIDE DEF c
    <3> QED BY <1>t, <3>3, <3>4, StoreKeeps DEF StoreCall, BrokerTypeOK
  <2> QED BY <2>2, <2>3
<1> QED BY <1>1, <1>2, <1>3, <1>4, <1>5

\* A call that writes back its copy of a row.
LEMMA RowWriteKeeps ==
    ASSUME TypeInv, NEW h \in Slot, NEW row \in Row, ReplaceMcpServer(h, row),
           CallOK([call[h] EXCEPT !.row = row], TRUE), UNCHANGED logins,
           made' \in [secrets : 0 .. MaxSecrets, rows : 0 .. MaxRows, logins : 0 .. MaxLogins,
                      clients : Nat]
    PROVE  TypeInv'
<1> DEFINE c == [call[h] EXCEPT !.row = row]
           st == PutRowAt(mem, call[h].rid, row)
<1>t. BrokerTypeOK /\ mem \in State /\ call[h] \in Call
  BY DEF TypeInv, BrokerTypeOK, VaultTypeOK
<1>1. c \in Call /\ CallOK(c, TRUE)
  BY <1>t DEF Call
<1>2. st \in State
  BY <1>t, StatesTyped
<1>3. StoreCall(h, c, st, FALSE)
  BY DEF ReplaceMcpServer
<1> HIDE DEF c, st
<1> QED BY <1>t, <1>1, <1>2, <1>3, StoreKeeps DEF StoreCall, BrokerTypeOK

\* An error ends the call.
LEMMA AbandonKeeps ==
    ASSUME TypeInv, NEW h \in Slot, Abandon(h)
    PROVE  TypeInv'
<1>1. CallOK(IdleCall, io.by = h)
  BY IdleTyped DEF CallOK
<1> QED BY <1>1, IdleTyped, ReadKeeps DEF Abandon, ReadOnly, history, TypeInv, BrokerTypeOK

\* The login up to the operator's browser.
LEMMA TypeLogin ==
    ASSUME TypeInv, NEW h \in Slot,
           \/ \E rid \in RowId : Authorize(h, rid)
           \/ discoverMCPOAuth(h) \/ registerMCPClient(h) \/ startMCPOAuth(h) \/ NetworkFails(h)
    PROVE  TypeInv'
<1>t. BrokerTypeOK /\ mem \in State /\ call[h] \in Call /\ CallOK(call[h], io.by = h)
  BY DEF TypeInv, BrokerTypeOK, VaultTypeOK
<1>1. ASSUME NEW rid \in RowId, Authorize(h, rid) PROVE TypeInv'
  <2> DEFINE row == mem.rows[rid]
             pc == IF ~row.endpoints THEN "discover"
                   ELSE IF row.client = 0 THEN "register" ELSE "start"
             c == [IdleCall EXCEPT !.op = "authorize", !.rid = rid, !.row = row, !.pc = pc]
  <2>1. row \in Row
    BY <1>1, <1>t, EntriesTyped DEF Authorize
  <2>2. Begin(h, c)
    BY <1>1 DEF Authorize
  <2>4. pc \in {"discover", "register", "start"} /\ (pc # "discover" => row.endpoints)
          /\ (pc = "start" => row.client # 0) /\ (pc = "register" => row.client = 0)
          /\ (pc = "discover" => ~row.endpoints)
    BY <2>1 DEF Row
  <2> HIDE DEF row, pc
  <2>3. c \in Call
    <3>1. "authorize" \in Ops
      BY <2>2 DEF Begin, IdleCall
    <3>2. pc \in Pc /\ rid \in 0 .. MaxRows
      BY <2>4 DEF Pc, RowId
    <3> QED BY <3>1, <3>2, <2>1, IdleTyped DEF Call
  <2>5. CallOK(c, FALSE)
    <3>2. c.op = "authorize" /\ c.rid = rid /\ c.row = row /\ c.pc = pc
      BY DEF IdleCall
    <3> HIDE DEF c
    <3> QED BY <3>2, <2>1, <2>4 DEF CallOK
  <2> HIDE DEF c
  <2> QED BY <2>2, <2>3, <2>5, BeginKeeps
<1>2. CASE discoverMCPOAuth(h)
  <2> DEFINE row == [call[h].row EXCEPT !.endpoints = TRUE]
  <2>1. call[h].pc = "discover" /\ call[h].op = "authorize" /\ call[h].row \in Row
    BY <1>2, <1>t DEF discoverMCPOAuth, At, CallOK
  <2>2. row \in Row /\ row.endpoints
    BY <2>1 DEF Row
  <2>3. ReplaceMcpServer(h, row) /\ UNCHANGED <<made, logins>>
    BY <1>2 DEF discoverMCPOAuth
  <2> HIDE DEF row
  <2>4. CallOK([call[h] EXCEPT !.row = row], TRUE)
    BY <2>1, <2>2, <1>t DEF CallOK, Call
  <2> QED BY <1>t, <2>2, <2>3, <2>4, RowWriteKeeps DEF BrokerTypeOK
<1>3. CASE registerMCPClient(h)
  <2> DEFINE row == [call[h].row EXCEPT !.client = made.clients + 1]
  <2>1. call[h].pc = "register" /\ call[h].op = "authorize" /\ call[h].row \in Row
           /\ call[h].row.endpoints
    BY <1>3, <1>t DEF registerMCPClient, At, CallOK
  <2>2. made.clients + 1 \in Nat /\ made.clients + 1 # 0
    BY <1>t DEF BrokerTypeOK
  <2>3. row \in Row /\ row.endpoints /\ row.client # 0
    BY <2>1, <2>2 DEF Row
  <2>4. ReplaceMcpServer(h, row) /\ UNCHANGED logins /\ made' = [made EXCEPT !.clients = @ + 1]
    BY <1>3 DEF registerMCPClient
  <2>5. made' \in [secrets : 0 .. MaxSecrets, rows : 0 .. MaxRows, logins : 0 .. MaxLogins,
                   clients : Nat]
    BY <2>4, <1>t DEF BrokerTypeOK
  <2> HIDE DEF row
  <2>6. CallOK([call[h] EXCEPT !.row = row], TRUE)
    BY <2>1, <2>3, <1>t DEF CallOK, Call
  <2> QED BY <1>t, <2>3, <2>4, <2>5, <2>6, RowWriteKeeps
<1>4. CASE startMCPOAuth(h)
  <2> DEFINE n == made.logins + 1
             row == [call[h].row EXCEPT !.verifier = n, !.state = n]
             c == [call[h] EXCEPT !.login = n]
             st == PutRowAt(mem, call[h].rid, row)
  <2>1. n \in Login /\ n \in Nat
    BY <1>4, <1>t DEF startMCPOAuth, BrokerTypeOK, Login
  <2>2. call[h].pc = "start" /\ call[h].op = "authorize" /\ call[h].row \in Row
           /\ call[h].rid \in RowId
    BY <1>4, <1>t DEF startMCPOAuth, At, CallOK
  <2>3. made' = [made EXCEPT !.logins = n] /\ UNCHANGED files /\ Change(h, st, FALSE) /\ Goto(h, c)
           /\ logins' = [logins EXCEPT ![n] = [rid |-> call[h].rid, client |-> call[h].row.client]]
           /\ UNCHANGED <<opened, redeemed, spent, answered, deleted, behind, calls, faults>>
    BY <1>4 DEF startMCPOAuth
  <2> HIDE DEF n
  <2>4. row \in Row
    BY <2>1, <2>2 DEF Row
  <2> HIDE DEF row
  <2>5. st \in State
    BY <1>t, <2>4, StatesTyped
  <2>6. c \in Call /\ CallOK(c, TRUE)
    BY <1>t, <2>1, <2>2 DEF Call, CallOK, Login
  <2>7. made' \in [secrets : 0 .. MaxSecrets, rows : 0 .. MaxRows, logins : 0 .. MaxLogins,
                   clients : Nat]
    <3>1. n \in 0 .. MaxLogins
      BY <2>1 DEF Login
    <3>2. made \in [secrets : 0 .. MaxSecrets, rows : 0 .. MaxRows, logins : 0 .. MaxLogins,
                    clients : Nat]
      BY <1>t DEF BrokerTypeOK
    <3> QED BY <3>1, <3>2, <2>3
  <2>8. logins' \in [Login -> [rid : 0 .. MaxRows, client : Nat]]
    <3>1. call[h].rid \in 0 .. MaxRows /\ call[h].row.client \in Nat
      BY <2>2 DEF Row, RowId
    <3>2. logins \in [Login -> [rid : 0 .. MaxRows, client : Nat]]
      BY <1>t DEF BrokerTypeOK
    <3> QED BY <3>1, <3>2, <2>3
  <2> HIDE DEF c, st
  <2> QED BY <1>t, <2>3, <2>5, <2>6, <2>7, <2>8, StoreKeeps DEF BrokerTypeOK
<1>5. CASE NetworkFails(h)
  BY <1>5, AbandonKeeps DEF NetworkFails
<1> QED BY <1>1, <1>2, <1>3, <1>4, <1>5

\* The callback.
LEMMA TypeCallback ==
    ASSUME TypeInv, NEW h \in Slot,
           \/ \E n \in Login : Callback(h, n)
           \/ exchangeMCPCode(h) \/ LoadSecret(h) \/ ReplaceSecret(h) \/ ReplaceMissing(h)
           \/ applyMCPTokens(h)
    PROVE  TypeInv'
<1>t. BrokerTypeOK /\ mem \in State /\ call[h] \in Call /\ CallOK(call[h], io.by = h)
  BY DEF TypeInv, BrokerTypeOK, VaultTypeOK
<1>1. ASSUME NEW n \in Login, Callback(h, n) PROVE TypeInv'
  <2> DEFINE found == {i \in Rows(mem) : mem.rows[i].state = n}
             rid == Earliest(found)
             row == mem.rows[rid]
             c == [IdleCall EXCEPT !.op = "callback", !.pc = "exchange", !.login = n,
                                   !.rid = rid, !.row = row]
  <2>1. found # {} /\ Begin(h, c)
    BY <1>1 DEF Callback
  <2>2. rid \in found
    <3>1. found \in SUBSET Nat
      BY DEF Rows, RowId
    <3> HIDE DEF found
    <3> QED BY <2>1, <3>1, EarliestIn
  <2>3. row \in Row /\ rid \in RowId
    BY <1>t, <2>2, EntriesTyped
  <2> HIDE DEF row, rid, found
  <2>4. c \in Call
    <3>1. "callback" \in Ops
      BY <2>1 DEF Begin, IdleCall
    <3>2. "exchange" \in Pc /\ rid \in 0 .. MaxRows /\ n \in 0 .. MaxLogins
      BY <2>3 DEF Pc, RowId, Login
    <3> QED BY <3>1, <3>2, <2>3, IdleTyped DEF Call
  <2>5. CallOK(c, FALSE)
    BY <2>3 DEF CallOK, IdleCall
  <2> HIDE DEF c
  <2> QED BY <2>1, <2>4, <2>5, BeginKeeps
<1>2. CASE exchangeMCPCode(h)
  <2> DEFINE c == [call[h] EXCEPT !.pc = "load"]
  <2>1. call[h].op = "callback" /\ call[h].login \in Login
    BY <1>2, <1>t DEF exchangeMCPCode, CallOK
  <2>2. c \in Call /\ CallOK(c, io.by = h)
    BY <1>t, <2>1 DEF Call, Pc, CallOK
  <2>3. Goto(h, c) /\ redeemed' = redeemed \cup {call[h].login}
    BY <1>2 DEF exchangeMCPCode
  <2> HIDE DEF c
  <2> QED BY <1>2, <1>t, <2>1, <2>2, <2>3, ReadKeeps DEF exchangeMCPCode, BrokerTypeOK
<1>3. CASE LoadSecret(h)
  <2> DEFINE sid == call[h].row.sid
             new == IF call[h].op = "callback" THEN call[h].login ELSE Blank
             sec == [mem.secrets[sid] EXCEPT !.value = new]
  <2>1. call[h].pc = "load" /\ call[h].op \in {"callback", "revoke"} /\ io = NoIo
           /\ call[h].row \in Row
    BY <1>3, <1>t DEF LoadSecret, At, CallOK
  <2>2. new \in Value
    BY <1>t, <2>1 DEF Call, Value, Blank
  <2>3. CASE sid \in Live(mem)
    <3> DEFINE c == [call[h] EXCEPT !.pc = "replace", !.sid = sid, !.sec = sec]
    <3>1. mem.secrets[sid] \in Secret /\ sid \in SecretId
      BY <2>3, <1>t, EntriesTyped
    <3>2. Goto(h, c)
      BY <1>3, <2>3 DEF LoadSecret
    <3> HIDE DEF new, sid
    <3>3. sec \in Secret
      BY <2>2, <3>1 DEF Secret
    <3> HIDE DEF sec
    <3>5. c \in Call
      <4>1. "replace" \in Pc /\ sid \in 0 .. MaxSecrets
        BY <3>1 DEF Pc, SecretId
      <4> QED BY <4>1, <1>t, <3>3 DEF Call
    <3>4. c \in Call /\ CallOK(c, io.by = h)
      BY <1>t, <2>1, <3>1, <3>3, <3>5 DEF Call, CallOK
    <3> HIDE DEF c
    <3> QED BY <1>3, <1>t, <3>2, <3>4, ReadKeeps DEF LoadSecret, ReadOnly, history, BrokerTypeOK
  <2>4. CASE sid \notin Live(mem) /\ call[h].op = "callback"
    BY <1>3, <2>4, AbandonKeeps DEF LoadSecret, Abandon
  <2>5. CASE sid \notin Live(mem) /\ call[h].op = "revoke"
    <3> DEFINE c == [call[h] EXCEPT !.pc = "settle"]
    <3>1. Goto(h, c)
      BY <1>3, <2>5 DEF LoadSecret
    <3>2. c \in Call /\ CallOK(c, io.by = h)
      BY <1>t, <2>1 DEF Call, Pc, CallOK
    <3> HIDE DEF c
    <3> QED BY <1>3, <1>t, <3>1, <3>2, ReadKeeps DEF LoadSecret, ReadOnly, history, BrokerTypeOK
  <2> QED BY <2>1, <2>3, <2>4, <2>5
<1>4. CASE ReplaceSecret(h)
  <2> DEFINE st == PutSecretAt(mem, call[h].sid, call[h].sec)
  <2>1. call[h].sec \in Secret /\ CallOK(call[h], TRUE)
    BY <1>4, <1>t DEF ReplaceSecret, At, CallOK
  <2>2. st \in State
    BY <1>t, <2>1, StatesTyped
  <2>3. StoreCall(h, call[h], st, TRUE) /\ UNCHANGED <<made, logins>>
    BY <1>4 DEF ReplaceSecret
  <2> HIDE DEF st
  <2> QED BY <1>t, <2>1, <2>2, <2>3, StoreKeeps DEF StoreCall, BrokerTypeOK
<1>5. CASE ReplaceMissing(h)
  BY <1>5, AbandonKeeps DEF ReplaceMissing
<1>6. CASE applyMCPTokens(h)
  <2>1. call[h].pc = "settle" /\ call[h].op = "callback" /\ call[h].row \in Row
           /\ call[h].login \in Login
    BY <1>6, <1>t DEF applyMCPTokens, At, CallOK
  <2>2. PICK r \in {call[h].row.refresh, call[h].login} :
           ReplaceMcpServer(h, [call[h].row EXCEPT !.refresh = r, !.verifier = 0, !.state = 0,
                                                   !.status = "ok"])
    BY <1>6 DEF applyMCPTokens
  <2> DEFINE row == [call[h].row EXCEPT !.refresh = r, !.verifier = 0, !.state = 0, !.status = "ok"]
  <2>3. r \in Nat
    BY <2>1 DEF Row, Login
  <2>4. row \in Row
    BY <2>1, <2>3 DEF Row
  <2>5. ReplaceMcpServer(h, row) /\ UNCHANGED <<made, logins>>
    BY <1>6, <2>2 DEF applyMCPTokens
  <2> HIDE DEF row
  <2>6. CallOK([call[h] EXCEPT !.row = row], TRUE)
    BY <2>1, <2>4, <1>t DEF CallOK, Call
  <2> QED BY <1>t, <2>4, <2>5, <2>6, RowWriteKeeps DEF BrokerTypeOK
<1> QED BY <1>1, <1>2, <1>3, <1>4, <1>5, <1>6

\* POST and DELETE /rules: a call whose only store call changes rules.
LEMMA RuleCallKeeps ==
    ASSUME TypeInv, NEW h \in Slot, NEW c, NEW st \in State, Change(h, st, FALSE),
           c = [IdleCall EXCEPT !.op = c.op, !.pc = "rule"], c.op \in {"postRule", "deleteRule"},
           BeginWith(h, c), UNCHANGED made,
           deleted' \in [secrets : SUBSET SecretId, rules : SUBSET Token]
    PROVE  TypeInv'
<1>t. BrokerTypeOK
  BY DEF TypeInv
<1>1. c \in Call
  <2>1. c.op \in Ops /\ "rule" \in Pc
    BY DEF BeginWith, Pc
  <2> QED BY <2>1, IdleTyped DEF Call
<1>2. CallOK(c, TRUE)
  BY DEF CallOK, IdleCall
<1>3. /\ Goto(h, c) /\ calls' \in Nat
      /\ UNCHANGED <<files, logins, opened, redeemed, spent, answered, behind, faults>>
  BY <1>t DEF BeginWith, BrokerTypeOK
<1>4. /\ logins' \in [Login -> [rid : 0 .. MaxRows, client : Nat]]
      /\ made' \in [secrets : 0 .. MaxSecrets, rows : 0 .. MaxRows, logins : 0 .. MaxLogins,
                     clients : Nat]
  BY <1>t, <1>3 DEF BrokerTypeOK
<1> QED BY <1>1, <1>2, <1>3, <1>4, StoreKeeps

\* The other calls that write secrets and rules.
LEMMA TypeOthers ==
    ASSUME TypeInv, NEW h \in Slot,
           \/ \E rid \in RowId : Revoke(h, rid)
           \/ handleRevokeMCP(h)
           \/ \E t \in Token : PostSecret(h, t)
           \/ \E sid \in SecretId : PutSecret(h, sid) \/ DeleteSecret(h, sid)
           \/ importPiKeys(h) \/ ImportHasRule(h) \/ AddRuleLast(h)
           \/ \E sid \in SecretId, t \in Token : PostRule(h, sid, t)
           \/ \E rule \in mem.rules : DeleteRule(h, rule)
           \/ \E t \in Token : resolveFailures(h, t)
           \/ SetEnvKey(h) \/ SetEnvKeyMissing(h)
    PROVE  TypeInv'
<1>t. BrokerTypeOK /\ mem \in State /\ call[h] \in Call /\ CallOK(call[h], io.by = h)
  BY DEF TypeInv, BrokerTypeOK, VaultTypeOK
<1>m. made \in [secrets : 0 .. MaxSecrets, rows : 0 .. MaxRows, logins : 0 .. MaxLogins,
                clients : Nat]
  BY <1>t DEF BrokerTypeOK
<1>1. ASSUME NEW rid \in RowId, Revoke(h, rid) PROVE TypeInv'
  <2> DEFINE row == mem.rows[rid]
             c == [IdleCall EXCEPT !.op = "revoke", !.pc = "load", !.rid = rid, !.row = row]
  <2>1. row \in Row
    BY <1>1, <1>t, EntriesTyped DEF Revoke
  <2>2. Begin(h, c)
    BY <1>1 DEF Revoke
  <2> HIDE DEF row
  <2>3. c \in Call
    <3>1. "revoke" \in Ops
      BY <2>2 DEF Begin, IdleCall
    <3>2. "load" \in Pc /\ rid \in 0 .. MaxRows
      BY DEF Pc, RowId
    <3> QED BY <3>1, <3>2, <2>1, IdleTyped DEF Call
  <2>4. CallOK(c, FALSE)
    BY <2>1 DEF CallOK, IdleCall
  <2> HIDE DEF c
  <2> QED BY <2>2, <2>3, <2>4, BeginKeeps
<1>2. CASE handleRevokeMCP(h)
  <2> DEFINE row == [call[h].row EXCEPT !.refresh = 0, !.verifier = 0, !.state = 0,
                                        !.status = "revoked"]
  <2>1. call[h].pc = "settle" /\ call[h].op = "revoke" /\ call[h].row \in Row
    BY <1>2, <1>t DEF handleRevokeMCP, At, CallOK
  <2>2. row \in Row
    BY <2>1 DEF Row
  <2>3. ReplaceMcpServer(h, row) /\ UNCHANGED <<made, logins>>
    BY <1>2 DEF handleRevokeMCP
  <2> HIDE DEF row
  <2>4. CallOK([call[h] EXCEPT !.row = row], TRUE)
    BY <2>1, <2>2, <1>t DEF CallOK, Call
  <2> QED BY <1>m, <1>t, <2>2, <2>3, <2>4, RowWriteKeeps DEF BrokerTypeOK
<1>3. ASSUME NEW t \in Token, PostSecret(h, t) PROVE TypeInv'
  <2> DEFINE sid == made.secrets + 1
             c == [IdleCall EXCEPT !.op = "post", !.pc = "addSecret", !.tok = t, !.sid = sid]
             st == PutSecretAt(mem, sid, NewSecret(c))
  <2>1. sid \in SecretId
    <3>1. made.secrets < MaxSecrets
      BY <1>3 DEF PostSecret
    <3> QED BY <3>1, <1>m DEF SecretId
  <2>2. /\ Change(h, st, TRUE) /\ BeginWith(h, c) /\ UNCHANGED deleted
        /\ made' = [made EXCEPT !.secrets = sid]
    BY <1>3 DEF PostSecret
  <2>3. made' \in [secrets : 0 .. MaxSecrets, rows : 0 .. MaxRows, logins : 0 .. MaxLogins,
                   clients : Nat]
    BY <2>1, <2>2, <1>m DEF SecretId
  <2> HIDE DEF sid
  <2>4. c \in Call
    <3>1. "post" \in Ops
      BY <2>2 DEF BeginWith, IdleCall
    <3>2. "addSecret" \in Pc /\ sid \in 0 .. MaxSecrets
      BY <2>1 DEF Pc, SecretId
    <3> QED BY <3>1, <3>2, IdleTyped DEF Call
  <2>5. CallOK(c, TRUE)
    BY <2>1 DEF CallOK, IdleCall
  <2>6. NewSecret(c) \in Secret
    <3>1. c.op = "post" /\ c.tok = t
      BY DEF IdleCall
    <3> HIDE DEF c
    <3> QED BY <3>1 DEF NewSecret, Secret, Value, Typed
  <2>7. st \in State
    BY <1>t, <2>6, StatesTyped
  <2> HIDE DEF c, st
  <2>8. /\ Goto(h, c) /\ calls' \in Nat
        /\ UNCHANGED <<files, logins, opened, redeemed, spent, answered, behind, faults>>
    BY <1>t, <2>2 DEF BeginWith, BrokerTypeOK
  <2>9. /\ logins' \in [Login -> [rid : 0 .. MaxRows, client : Nat]]
        /\ deleted' \in [secrets : SUBSET SecretId, rules : SUBSET Token]
    BY <1>t, <2>2, <2>8 DEF BrokerTypeOK
  <2> QED BY <2>2, <2>3, <2>4, <2>5, <2>7, <2>8, <2>9, StoreKeeps
<1>4. ASSUME NEW sid \in SecretId, PutSecret(h, sid) PROVE TypeInv'
  <2> DEFINE sec == mem.secrets[sid]
  <2>1. sec \in Secret
    BY <1>4, <1>t, EntriesTyped DEF PutSecret
  <2>2. PICK edit \in {[sec EXCEPT !.value = Typed], [sec EXCEPT !.key = ImportKey]} :
           Begin(h, [IdleCall EXCEPT !.op = "put", !.pc = "replace", !.sid = sid, !.tok = sec.tok,
                                     !.sec = edit])
    BY <1>4 DEF PutSecret
  <2> DEFINE c == [IdleCall EXCEPT !.op = "put", !.pc = "replace", !.sid = sid, !.tok = sec.tok,
                                   !.sec = edit]
  <2>3. Begin(h, c)
    BY <2>2
  <2> HIDE DEF sec
  <2>4. edit \in Secret /\ sec.tok \in Token
    BY <2>1 DEF Secret, Value, Typed
  <2>5. c \in Call
    <3>1. "put" \in Ops
      BY <2>3 DEF Begin, IdleCall
    <3>2. "replace" \in Pc /\ sid \in 0 .. MaxSecrets
      BY DEF Pc, SecretId
    <3> QED BY <3>1, <3>2, <2>4, IdleTyped DEF Call
  <2>6. CallOK(c, FALSE)
    BY <2>4 DEF CallOK, IdleCall
  <2> HIDE DEF c
  <2> QED BY <2>3, <2>5, <2>6, BeginKeeps
<1>5. ASSUME NEW sid \in SecretId, DeleteSecret(h, sid) PROVE TypeInv'
  <2> DEFINE c == [IdleCall EXCEPT !.op = "delete", !.pc = "delete"]
             st == WithoutSecret(mem, sid)
  <2>1. /\ Change(h, st, TRUE) /\ BeginWith(h, c)
        /\ deleted' = [secrets |-> deleted.secrets \cup {sid},
                       rules |-> deleted.rules \cup Unruled(mem, st)]
        /\ UNCHANGED made
    BY <1>5 DEF DeleteSecret, Delete
  <2>2. c \in Call
    <3>1. "delete" \in Ops
      BY <2>1 DEF BeginWith, IdleCall
    <3>2. "delete" \in Pc
      BY DEF Pc
    <3> QED BY <3>1, <3>2, IdleTyped DEF Call
  <2>3. CallOK(c, TRUE)
    BY DEF CallOK, IdleCall
  <2>4. st \in State
    BY <1>t, StatesTyped
  <2> HIDE DEF c, st
  <2>5. /\ Goto(h, c) /\ calls' \in Nat
        /\ UNCHANGED <<files, logins, opened, redeemed, spent, answered, behind, faults>>
    BY <1>t, <2>1 DEF BeginWith, BrokerTypeOK
  <2>6. /\ logins' \in [Login -> [rid : 0 .. MaxRows, client : Nat]]
        /\ deleted' \in [secrets : SUBSET SecretId, rules : SUBSET Token]
    BY <1>t, <2>1, <2>5 DEF BrokerTypeOK, Unruled
  <2>7. made' \in [secrets : 0 .. MaxSecrets, rows : 0 .. MaxRows, logins : 0 .. MaxLogins,
                   clients : Nat]
    BY <1>m, <2>1
  <2> QED BY <2>1, <2>2, <2>3, <2>4, <2>5, <2>6, <2>7, StoreKeeps
<1>6. CASE importPiKeys(h)
  <2> DEFINE found == SecretByEnvKey(mem, ImportKey)
             b == [IdleCall EXCEPT !.op = "import"]
  <2>1. CASE found = {}
    <3>1. PICK t \in Random : Begin(h, [b EXCEPT !.pc = "addSecret", !.tok = t])
      BY <1>6, <2>1 DEF importPiKeys
    <3> DEFINE c == [b EXCEPT !.pc = "addSecret", !.tok = t]
    <3>2. Begin(h, c) /\ t \in Token
      BY <3>1 DEF Random
    <3>3. c \in Call
      <4>1. "import" \in Ops
        BY <3>2 DEF Begin, IdleCall
      <4>2. "addSecret" \in Pc
        BY DEF Pc
      <4> QED BY <4>1, <4>2, <3>2, IdleTyped DEF Call
    <3>4. CallOK(c, FALSE)
      BY <3>2 DEF CallOK, IdleCall
    <3> HIDE DEF c
    <3> QED BY <3>2, <3>3, <3>4, BeginKeeps
  <2>2. CASE found # {}
    <3> DEFINE sid == Earliest(found)
               sec == mem.secrets[sid]
               new == [sec EXCEPT !.value = Typed]
               c == [b EXCEPT !.pc = "replace", !.sid = sid, !.tok = sec.tok, !.sec = new]
    <3>1. Begin(h, c)
      BY <1>6, <2>2 DEF importPiKeys
    <3>2. sid \in Live(mem)
      <4>1. found \in SUBSET Nat
        BY DEF SecretByEnvKey, Live, SecretId
      <4>2. sid \in found
        <5> HIDE DEF found
        <5> QED BY <2>2, <4>1, EarliestIn
      <4> QED BY <4>2 DEF SecretByEnvKey
    <3>3. sid \in SecretId /\ sec \in Secret
      BY <3>2, <1>t, EntriesTyped
    <3> HIDE DEF sid, sec
    <3>4. new \in Secret /\ sec.tok \in Token
      BY <3>3 DEF Secret, Value, Typed
    <3> HIDE DEF new
    <3>5. c \in Call
      <4>1. "import" \in Ops
        BY <3>1 DEF Begin, IdleCall
      <4>2. "replace" \in Pc /\ sid \in 0 .. MaxSecrets
        BY <3>3 DEF Pc, SecretId
      <4> QED BY <4>1, <4>2, <3>4, IdleTyped DEF Call
    <3>6. CallOK(c, FALSE)
      BY <3>3, <3>4 DEF CallOK, IdleCall
    <3> HIDE DEF c
    <3> QED BY <3>1, <3>5, <3>6, BeginKeeps
  <2> QED BY <2>1, <2>2
<1>7. CASE ImportHasRule(h)
  <2>1. CASE Goto(h, IdleCall)
    BY <1>7, <2>1, AbandonKeeps DEF ImportHasRule, Abandon
  <2>2. CASE Goto(h, [call[h] EXCEPT !.pc = "addRule"])
    <3> DEFINE c == [call[h] EXCEPT !.pc = "addRule"]
    <3>1. c \in Call
      <4>1. "addRule" \in Pc
        BY DEF Pc
      <4> QED BY <4>1, <1>t DEF Call
    <3>2. CallOK(c, io.by = h)
      BY <1>7, <1>t DEF ImportHasRule, At, CallOK, Call
    <3>3. Goto(h, c)
      BY <2>2
    <3> HIDE DEF c
    <3> QED BY <1>7, <1>t, <3>1, <3>2, <3>3, ReadKeeps
            DEF ImportHasRule, ReadOnly, history, BrokerTypeOK
  <2> QED BY <1>7, <2>1, <2>2 DEF ImportHasRule
<1>8. CASE AddRuleLast(h)
  <2> DEFINE st == AddRule(mem, call[h].sid, call[h].tok)
  <2>1. call[h].sid \in SecretId /\ call[h].tok \in Token /\ CallOK(call[h], TRUE)
    BY <1>8, <1>t DEF AddRuleLast, At, CallOK
  <2>2. st \in State
    BY <1>t, <2>1, StatesTyped
  <2>3. StoreCall(h, call[h], st, FALSE) /\ UNCHANGED <<made, logins>>
    BY <1>8 DEF AddRuleLast
  <2> HIDE DEF st
  <2> QED BY <1>m, <1>t, <2>1, <2>2, <2>3, StoreKeeps DEF StoreCall, BrokerTypeOK
<1>9. ASSUME NEW sid \in SecretId, NEW t \in Token, PostRule(h, sid, t) PROVE TypeInv'
  <2> DEFINE c == [IdleCall EXCEPT !.op = "postRule", !.pc = "rule"]
             st == AddRule(mem, sid, t)
  <2>1. /\ Change(h, st, FALSE) /\ BeginWith(h, c) /\ UNCHANGED <<made, deleted>>
    BY <1>9 DEF PostRule
  <2>2. st \in State
    BY <1>t, StatesTyped
  <2>3. c.op = "postRule" /\ c = [IdleCall EXCEPT !.op = c.op, !.pc = "rule"]
    BY DEF IdleCall
  <2> HIDE DEF c, st
  <2> QED BY <1>t, <2>1, <2>2, <2>3, RuleCallKeeps DEF BrokerTypeOK
<1>10. ASSUME NEW rule \in mem.rules, DeleteRule(h, rule) PROVE TypeInv'
  <2> DEFINE c == [IdleCall EXCEPT !.op = "deleteRule", !.pc = "rule"]
  <2>1. PICK rest \in {mem.rules, mem.rules \ {rule}} :
           /\ Change(h, [mem EXCEPT !.rules = rest], FALSE)
           /\ deleted' = [deleted EXCEPT !.rules = @ \cup Unruled(mem, [mem EXCEPT !.rules = rest])]
    BY <1>10 DEF DeleteRule
  <2>2. BeginWith(h, c) /\ UNCHANGED made
    BY <1>10 DEF DeleteRule
  <2> DEFINE st == [mem EXCEPT !.rules = rest]
  <2>3. st \in State
    BY <1>t, StatesTyped
  <2>4. c.op = "deleteRule" /\ c = [IdleCall EXCEPT !.op = c.op, !.pc = "rule"]
    BY DEF IdleCall
  <2>5. Change(h, st, FALSE) /\ deleted' = [deleted EXCEPT !.rules = @ \cup Unruled(mem, st)]
    BY <2>1
  <2> HIDE DEF c, st
  <2>6. deleted' \in [secrets : SUBSET SecretId, rules : SUBSET Token]
    BY <1>t, <2>5 DEF BrokerTypeOK, Unruled
  <2> QED BY <2>2, <2>3, <2>4, <2>5, <2>6, RuleCallKeeps
<1>11. ASSUME NEW t \in Token, resolveFailures(h, t) PROVE TypeInv'
  <2> DEFINE found == {i \in Live(mem) : mem.secrets[i].tok = t}
             b == [IdleCall EXCEPT !.op = "resolve", !.tok = t]
  <2>1. CASE found = {}
    <3> DEFINE c == [b EXCEPT !.pc = "addSecret"]
    <3>1. Begin(h, c)
      BY <1>11, <2>1 DEF resolveFailures
    <3>2. c \in Call
      <4>1. "resolve" \in Ops
        BY <3>1 DEF Begin, IdleCall
      <4>2. "addSecret" \in Pc
        BY DEF Pc
      <4> QED BY <4>1, <4>2, IdleTyped DEF Call
    <3>3. CallOK(c, FALSE)
      BY DEF CallOK, IdleCall
    <3> HIDE DEF c
    <3> QED BY <3>1, <3>2, <3>3, BeginKeeps
  <2>2. CASE found # {}
    <3> DEFINE sid == Earliest(found)
    <3>1. PICK pc \in {"addRule", "setEnvKey"} : Begin(h, [b EXCEPT !.pc = pc, !.sid = sid])
      BY <1>11, <2>2 DEF resolveFailures
    <3> DEFINE c == [b EXCEPT !.pc = pc, !.sid = sid]
    <3>2. Begin(h, c)
      BY <3>1
    <3>3. sid \in SecretId
      <4>1. found \in SUBSET Nat
        BY DEF Live, SecretId
      <4>2. sid \in found
        <5> HIDE DEF found
        <5> QED BY <2>2, <4>1, EarliestIn
      <4> QED BY <4>2 DEF Live
    <3> HIDE DEF sid, found
    <3>4. c \in Call
      <4>1. "resolve" \in Ops
        BY <3>2 DEF Begin, IdleCall
      <4>2. pc \in Pc /\ sid \in 0 .. MaxSecrets
        BY <3>3 DEF Pc, SecretId
      <4> QED BY <4>1, <4>2, IdleTyped DEF Call
    <3>5. CallOK(c, FALSE)
      BY <3>3 DEF CallOK, IdleCall
    <3> HIDE DEF c
    <3> QED BY <3>2, <3>4, <3>5, BeginKeeps
  <2> QED BY <2>1, <2>2
<1>12. CASE SetEnvKey(h)
  <2> DEFINE sec == [mem.secrets[call[h].sid] EXCEPT !.key = ImportKey]
             st == PutSecretAt(mem, call[h].sid, sec)
  <2>1. call[h].sid \in Live(mem) /\ CallOK(call[h], TRUE)
    BY <1>12, <1>t DEF SetEnvKey, At, CallOK
  <2>2. StoreCall(h, call[h], st, TRUE) /\ UNCHANGED <<made, logins>>
    BY <1>12 DEF SetEnvKey
  <2>3. sec \in Secret
    <3>1. mem.secrets[call[h].sid] \in Secret
      BY <1>t, <2>1, EntriesTyped
    <3> QED BY <3>1 DEF Secret
  <2> HIDE DEF sec
  <2>4. st \in State
    BY <1>t, <2>3, StatesTyped
  <2> HIDE DEF st
  <2> QED BY <1>m, <1>t, <2>1, <2>2, <2>4, StoreKeeps DEF StoreCall, BrokerTypeOK
<1>13. CASE SetEnvKeyMissing(h)
  BY <1>13, AbandonKeeps DEF SetEnvKeyMissing
<1> QED BY <1>1, <1>2, <1>3, <1>4, <1>5, <1>6, <1>7, <1>8, <1>9, <1>10, <1>11, <1>12, <1>13

\* What a worker's directory shows is lines of typed secrets.
LEMMA RenderTyped ==
    ASSUME NEW st \in State, NEW slug
    PROVE  RenderPlaceholdersEnvForWorker(st, slug) \subseteq (Token \cup {ImportKey}) \X Token
<1>1. \A i \in Live(st) : <<st.secrets[i].key, st.secrets[i].tok>>
                             \in (Token \cup {ImportKey}) \X Token
  BY EntriesTyped DEF Secret
<1> QED BY <1>1 DEF RenderPlaceholdersEnvForWorker

\* The call goes on after its store call has returned.
LEMMA AfterSaveOK ==
    ASSUME NEW c \in Call, CallOK(c, TRUE), AfterSave(c) # "idle"
    PROVE  /\ [c EXCEPT !.pc = AfterSave(c)] \in Call
           /\ CallOK([c EXCEPT !.pc = AfterSave(c)], FALSE)
<1> DEFINE d == [c EXCEPT !.pc = AfterSave(c)]
<1>1. AfterSave(c) \in Pc
  BY DEF AfterSave, Pc
<1>2. d \in Call
  BY <1>1 DEF Call
<1>3. /\ d.op = c.op /\ d.ann = c.ann /\ d.tok = c.tok /\ d.sid = c.sid /\ d.sec = c.sec
      /\ d.row = c.row /\ d.rid = c.rid /\ d.login = c.login /\ d.pc = AfterSave(c)
  BY DEF Call
<1> HIDE DEF d
<1>4. CallOK(d, FALSE)
  BY <1>3 DEF CallOK, AfterSave
<1> QED BY <1>2, <1>4 DEF d

\* The writes of the lock holder, up to the return.
LEMMA TypeSave == TypeInv /\ Save => TypeInv'
<1> SUFFICES ASSUME TypeInv, Save PROVE TypeInv'
  OBVIOUS
<1>t. BrokerTypeOK /\ VaultTypeOK /\ IoOK
  BY DEF TypeInv, BrokerTypeOK
<1>0. /\ SaveStep /\ behind' \subseteq behind
      /\ UNCHANGED <<call, made, logins, opened, redeemed, spent, answered, deleted, calls, faults>>
  BY DEF Save, history
<1>1. /\ mem' = mem /\ dirs' = dirs /\ io'.by = io.by
      /\ tmp' \subseteq State /\ disk' \in State
      /\ env' \in [Slug -> SUBSET ((Token \cup {ImportKey}) \X Token)]
      /\ io' \in [by : Slot \cup {NoSlot}, step : {"free", "write", "rename", "env"},
                  secret : BOOLEAN, left : SUBSET Slug]
      /\ io.by \in Slot /\ io'.step \in {"rename", "env"}
      /\ io'.step = "rename" => tmp' = {mem}
      /\ io'.step = "env" => disk' = mem
  <2>1. CASE WriteTmp
    BY <2>1, <1>t DEF WriteTmp, VaultTypeOK, IoOK, NoIo
  <2>2. CASE Rename
    <3>1. tmp = {mem} /\ io.by \in Slot /\ io.step = "rename"
      BY <2>2, <1>t DEF Rename, IoOK, NoIo
    <3> QED BY <2>2, <3>1, <1>t DEF Rename, VaultTypeOK
  <2>3. ASSUME NEW slug \in Slug, WriteWorkerPlaceholdersEnv(slug)
        PROVE  /\ mem' = mem /\ dirs' = dirs /\ tmp' = tmp /\ disk' = disk
               /\ env' \in [Slug -> SUBSET ((Token \cup {ImportKey}) \X Token)]
               /\ io' = [io EXCEPT !.left = @ \ {slug}] /\ io.step = "env"
    BY <2>3, <1>t, RenderTyped DEF WriteWorkerPlaceholdersEnv, VaultTypeOK
  <2>4. ASSUME NEW slug \in Slug, WriteWorkerPlaceholdersEnv(slug)
        PROVE  /\ io' \in [by : Slot \cup {NoSlot}, step : {"free", "write", "rename", "env"},
                           secret : BOOLEAN, left : SUBSET Slug]
               /\ io'.by = io.by /\ io'.step = "env" /\ io.by \in Slot
    BY <2>3, <2>4, <1>t DEF VaultTypeOK, IoOK, NoIo
  <2> QED BY <1>0, <1>t, <2>1, <2>2, <2>3, <2>4 DEF SaveStep, VaultTypeOK, IoOK
<1>2. VaultTypeOK'
  BY <1>1, <1>t DEF VaultTypeOK
<1>3. BrokerTypeOK'
  BY <1>0, <1>2, <1>t DEF BrokerTypeOK
<1>4. IoOK'
  BY <1>1 DEF IoOK
<1>5. \A h \in Slot : CallOK(call'[h], io'.by = h)
  BY <1>0, <1>1 DEF TypeInv
<1> QED BY <1>3, <1>4, <1>5 DEF TypeInv

\* The store call returns nil.
LEMMA TypeReturns == TypeInv /\ SaveReturns => TypeInv'
<1> SUFFICES ASSUME TypeInv, SaveReturns PROVE TypeInv'
  OBVIOUS
<1> DEFINE h == io.by
           c == call[h]
           d == IF AfterSave(c) = "idle" THEN IdleCall ELSE [c EXCEPT !.pc = AfterSave(c)]
<1>t. BrokerTypeOK /\ VaultTypeOK /\ IoOK
  BY DEF TypeInv, BrokerTypeOK
<1>1. io.step = "env" /\ io' = NoIo /\ h \in Slot
  BY <1>t DEF SaveReturns, Saved, IoOK, NoIo
<1>2. c \in Call /\ CallOK(c, TRUE)
  <2>1. c \in Call /\ CallOK(c, io.by = h)
    BY <1>1, <1>t DEF BrokerTypeOK, TypeInv
  <2> QED BY <2>1
<1>3. d \in Call /\ CallOK(d, FALSE)
  <2> HIDE DEF c
  <2> QED BY <1>2, AfterSaveOK, IdleTyped
<1>4. /\ Goto(h, d)
      /\ opened' = (IF c.pc = "start" THEN opened \cup {c.login} ELSE opened)
      /\ answered' = (IF c.pc = "upsert" THEN answered \cup {<<c.ann, c.tok>>} ELSE answered)
      /\ spent' = (IF c.pc = "settle" /\ c.op = "callback" THEN spent \cup {c.login} ELSE spent)
      /\ UNCHANGED <<mem, files, made, logins, redeemed, deleted, behind, calls, faults>>
  BY DEF SaveReturns
<1>5. opened' \subseteq Login /\ answered' \subseteq Ann \X Token /\ spent' \subseteq Login
  <2>1. c.pc = "start" => c.login \in Login
    BY <1>2 DEF CallOK
  <2>2. c.pc = "upsert" => c.ann \in Ann /\ c.tok \in Token
    BY <1>2 DEF CallOK
  <2>3. c.op = "callback" => c.login \in Login
    BY <1>2 DEF CallOK
  <2> HIDE DEF c
  <2> QED BY <1>4, <1>t, <2>1, <2>2, <2>3 DEF BrokerTypeOK
<1> HIDE DEF d, h, c
<1>6. call' \in [Slot -> Call] /\ \A g \in Slot : CallOK(call'[g], io'.by = g)
  <2>1. \A g \in Slot : (io'.by = g) = FALSE
    BY <1>1 DEF NoIo
  <2> QED BY <1>1, <1>3, <1>4, <2>1, GotoKeeps
<1>7. VaultTypeOK' /\ IoOK'
  <2>1. io' \in [by : Slot \cup {NoSlot}, step : {"free", "write", "rename", "env"},
                 secret : BOOLEAN, left : SUBSET Slug]
    BY <1>1 DEF NoIo
  <2> QED BY <1>1, <1>4, <1>t, <2>1 DEF VaultTypeOK, IoOK, files, NoIo
<1>8. BrokerTypeOK'
  BY <1>4, <1>5, <1>6, <1>7, <1>t DEF BrokerTypeOK
<1> QED BY <1>6, <1>7, <1>8 DEF TypeInv

\* A failed write, a crash, a new directory and an answer from a row there is.
LEMMA TypeFaults ==
    TypeInv /\ (SaveError \/ Crash \/ (\E slug \in Slug : Up(slug)) \/ \E a \in Ann : AnnounceAgain(a))
        => TypeInv'
<1> SUFFICES ASSUME TypeInv, SaveError \/ Crash \/ (\E slug \in Slug : Up(slug))
                                \/ \E a \in Ann : AnnounceAgain(a)
             PROVE  TypeInv'
  OBVIOUS
<1>t. BrokerTypeOK /\ VaultTypeOK /\ IoOK
  BY DEF TypeInv, BrokerTypeOK
<1>n. NoIo \in [by : Slot \cup {NoSlot}, step : {"free", "write", "rename", "env"},
                secret : BOOLEAN, left : SUBSET Slug]
  BY DEF NoIo
<1>1. CASE SaveError
  <2>1. /\ io' = NoIo /\ Goto(io.by, IdleCall) /\ io.by \in Slot /\ behind' \subseteq Slug
        /\ UNCHANGED <<mem, disk, dirs, env>> /\ tmp' \subseteq tmp
        /\ UNCHANGED <<made, logins, opened, redeemed, spent, answered, deleted, calls>>
        /\ faults' \in Nat
    BY <1>1, <1>t DEF SaveError, SaveFails, OneFault, IoOK, NoIo, VaultTypeOK, BrokerTypeOK, history
  <2>2. call' \in [Slot -> Call] /\ \A g \in Slot : CallOK(call'[g], io'.by = g)
    <3>1. \A g \in Slot : (io'.by = g) = FALSE
      BY <2>1 DEF NoIo
    <3> QED BY <2>1, <3>1, IdleTyped, GotoKeeps
  <2>3. VaultTypeOK' /\ IoOK'
    BY <2>1, <1>n, <1>t DEF VaultTypeOK, IoOK, NoIo
  <2>4. BrokerTypeOK'
    BY <2>1, <2>2, <2>3, <1>t DEF BrokerTypeOK
  <2> QED BY <2>2, <2>3, <2>4 DEF TypeInv
<1>2. CASE Crash
  <2>1. /\ io' = NoIo /\ mem' = disk /\ behind' \subseteq Slug
        /\ UNCHANGED <<disk, dirs, env>> /\ tmp' \subseteq tmp
        /\ UNCHANGED <<made, logins, opened, redeemed, spent, answered, deleted, calls>>
        /\ faults' \in Nat
    BY <1>2, <1>t DEF Crash, Reload, OneFault, VaultTypeOK, BrokerTypeOK, history
  <2>2. call' \in [Slot -> Call] /\ \A g \in Slot : CallOK(call'[g], io'.by = g)
    <3>1. \A g \in Slot : (io'.by = g) = FALSE
      BY <2>1 DEF NoIo
    <3>2. call' = [h \in Slot |-> IdleCall]
      BY <1>2 DEF Crash
    <3> QED BY <3>1, <3>2, IdleTyped
  <2>3. VaultTypeOK' /\ IoOK'
    BY <2>1, <1>n, <1>t DEF VaultTypeOK, IoOK, NoIo
  <2>4. BrokerTypeOK'
    BY <2>1, <2>2, <2>3, <1>t DEF BrokerTypeOK
  <2> QED BY <2>2, <2>3, <2>4 DEF TypeInv
<1>3. ASSUME NEW slug \in Slug, Up(slug) PROVE TypeInv'
  <2>1. /\ UNCHANGED <<mem, tmp, disk, io>> /\ behind' \subseteq Slug /\ dirs' \subseteq Slug
        /\ env' \in [Slug -> SUBSET ((Token \cup {ImportKey}) \X Token)]
        /\ UNCHANGED <<call, made, logins, opened, redeemed, spent, answered, deleted, calls, faults>>
    BY <1>3, <1>t DEF Up, EnsureWorkerPlaceholdersEnv, VaultTypeOK, BrokerTypeOK, history
  <2>2. VaultTypeOK' /\ IoOK'
    BY <2>1, <1>t DEF VaultTypeOK, IoOK
  <2>3. BrokerTypeOK'
    BY <2>1, <2>2, <1>t DEF BrokerTypeOK
  <2> QED BY <2>1, <2>2, <2>3 DEF TypeInv
<1>4. ASSUME NEW a \in Ann, AnnounceAgain(a) PROVE TypeInv'
  <2> DEFINE t == mem.rows[Earliest(FindMcp(mem, a))].tok
  <2>1. t \in Token
    <3>1. mem.rows[Earliest(FindMcp(mem, a))] \in Row
      BY <1>4, <1>t, FoundIn, EntriesTyped DEF AnnounceAgain, VaultTypeOK
    <3> QED BY <3>1 DEF Row
  <2>2. /\ answered' = answered \cup {<<a, t>>} /\ calls' = calls + 1
        /\ UNCHANGED <<mem, tmp, disk, dirs, env, io, call, made, logins, opened, redeemed, spent,
                       deleted, behind, faults>>
    BY <1>4 DEF AnnounceAgain, files
  <2> HIDE DEF t
  <2>3. VaultTypeOK' /\ IoOK'
    BY <2>2, <1>t DEF VaultTypeOK, IoOK
  <2>4. BrokerTypeOK'
    BY <2>1, <2>2, <2>3, <1>t DEF BrokerTypeOK
  <2> QED BY <2>2, <2>3, <2>4 DEF TypeInv
<1> QED BY <1>1, <1>2, <1>3, <1>4

\* Every step keeps the types.
LEMMA TypeStep == TypeInv /\ [Next]_vars => TypeInv'
<1> SUFFICES ASSUME TypeInv, [Next]_vars PROVE TypeInv'
  OBVIOUS
<1>1. CASE UNCHANGED vars
  BY <1>1 DEF vars, files, history, TypeInv, BrokerTypeOK, VaultTypeOK, IoOK
<1>2. ASSUME NEW h \in Slot, NewCall(h) \/ CallStep(h) PROVE TypeInv'
  BY <1>2, TypeAnnounce, TypeLogin, TypeCallback, TypeOthers, TypeFaults DEF NewCall, CallStep
<1>3. CASE Save \/ SaveReturns \/ SaveError \/ Crash \/ \E slug \in Slug : Up(slug)
  BY <1>3, TypeSave, TypeReturns, TypeFaults
<1> QED BY <1>1, <1>2, <1>3 DEF Next

\* Whatever calls, logins, failures and crashes interleave, every row names a secret and every
\* version of state.json is a whole state.
THEOREM BrokerTyped == Spec => []BrokerTypeOK
<1>1. TypeInv => BrokerTypeOK
  BY DEF TypeInv
<1> QED BY <1>1, TypeInit, TypeStep, PTL DEF Spec

-----------------------------------------------------------------------------
(* Rows, tokens and copies.  mk, lg, del and sp stand for made, logins,     *)
(* deleted and spent.                                                       *)

\* A row, in memory or in state.json.
RowOK(st, i, mk, lg, del, sp) ==
    LET row == st.rows[i] IN
    /\ i <= mk.rows
    /\ row.sid \in Live(st) \cup del.secrets
    /\ HasRule(st, row.tok) \/ row.tok \in del.rules
    /\ row.state # 0 => /\ row.endpoints /\ row.client # 0
                        /\ row.state <= mk.logins /\ row.state \in Login
                        /\ lg[row.state].rid = i
                        /\ row.state \notin sp

\* A value that is the token of login n is in the secret of the row of the login.
Belongs(st, lg, n, sid) ==
    n \in Login => lg[n].rid \in Rows(st) /\ st.rows[lg[n].rid].sid = sid

Unique(st) == \A i, j \in Rows(st) : i # j => st.rows[i].ann \notin Same[st.rows[j].ann]

StateOK(st, mk, lg, del, sp) ==
    /\ \A i \in Rows(st) : RowOK(st, i, mk, lg, del, sp)
    /\ Unique(st)
    /\ \A i \in Live(st) : Belongs(st, lg, st.secrets[i].value, i)

\* Row i of st is what row says of its announcement, secret and placeholder.
SameRow(st, i, row) ==
    /\ i \in Rows(st)
    /\ st.rows[i].ann = row.ann /\ st.rows[i].sid = row.sid /\ st.rows[i].tok = row.tok

\* What a call carries, against the memory.
CopyOK(c, busy, st, lg, del) ==
    /\ c.op \in {"authorize", "callback", "revoke"} => SameRow(st, c.rid, c.row)
    /\ c.pc \in {"discover", "register"} => c.row.state = 0
    /\ c.op = "callback" => lg[c.login].rid = c.rid
    /\ c.op = "callback" /\ c.pc = "settle" /\ busy => st.rows[c.rid].state = 0
    /\ c.pc = "replace" => Belongs(st, lg, c.sec.value, c.sid)
    /\ c.op = "announce" /\ c.pc \in {"syncRules", "upsert"} => c.sid \in Live(st) \cup del.secrets
    /\ c.op = "announce" /\ c.pc = "addSecret" /\ busy => c.sid \in Live(st) \cup del.secrets
    /\ c.pc = "syncRules" /\ busy => HasRule(st, c.tok)
    /\ c.pc = "upsert" /\ ~busy => HasRule(st, c.tok) \/ c.tok \in del.rules
    /\ c.pc = "upsert" /\ busy => FindMcp(st, c.ann) # {} /\ Told(st)[c.ann] = c.tok

LoginsOK(mk, lg, sp) ==
    /\ \A n \in Login : n > mk.logins => lg[n].rid = 0
    /\ \A n \in sp : n <= mk.logins

MainInv ==
    /\ StateOK(mem, made, logins, deleted, spent) /\ StateOK(disk, made, logins, deleted, spent)
    /\ \A h \in Slot : CopyOK(call[h], io.by = h, mem, logins, deleted)
    /\ LoginsOK(made, logins, spent)

\* st2 has the rows of st, and its secrets and ruled placeholders except those a DELETE took.
Kept(st, st2, del) ==
    /\ \A i \in Rows(st) : SameRow(st2, i, st.rows[i])
    /\ \A i \in Live(st) : i \in Live(st2) \cup del.secrets
    /\ \A t \in Token : HasRule(st, t) => HasRule(st2, t) \/ t \in del.rules

\* More was made, nothing that was begun is forgotten.
After(mk, lg, del, mk2, lg2, del2) ==
    /\ mk.rows <= mk2.rows /\ mk.logins <= mk2.logins
    /\ \A n \in Login : lg[n].rid # 0 => lg2[n].rid = lg[n].rid
    /\ del.secrets \subseteq del2.secrets /\ del.rules \subseteq del2.rules

Made == [secrets : 0 .. MaxSecrets, rows : 0 .. MaxRows, logins : 0 .. MaxLogins, clients : Nat]
Logins == [Login -> [rid : 0 .. MaxRows, client : Nat]]

\* A state that does not change stays right.
LEMMA StateLater ==
    ASSUME NEW st \in State, NEW mk \in Made, NEW lg \in Logins, NEW del, NEW sp,
           NEW mk2 \in Made, NEW lg2 \in Logins, NEW del2,
           StateOK(st, mk, lg, del, sp), After(mk, lg, del, mk2, lg2, del2)
    PROVE  StateOK(st, mk2, lg2, del2, sp)
<1>1. \A i \in Rows(st) : i \in RowId /\ i # 0 /\ i \in Nat /\ st.rows[i].state \in Nat
  BY EntriesTyped DEF RowId, Row
<1>2. ASSUME NEW i \in Rows(st) PROVE RowOK(st, i, mk2, lg2, del2, sp)
  <2>1. RowOK(st, i, mk, lg, del, sp)
    BY DEF StateOK
  <2>2. i <= mk2.rows
    BY <2>1, <1>1 DEF RowOK, After, Made
  <2>3. st.rows[i].state # 0 => st.rows[i].state <= mk2.logins
    BY <2>1, <1>1 DEF RowOK, After, Made
  <2>4. st.rows[i].state # 0 => lg2[st.rows[i].state].rid = i
    BY <2>1, <1>1 DEF RowOK, After
  <2> QED BY <2>1, <2>2, <2>3, <2>4 DEF RowOK, After
<1>3. ASSUME NEW i \in Live(st) PROVE Belongs(st, lg2, st.secrets[i].value, i)
  BY <1>1 DEF StateOK, Belongs, After
<1> QED BY <1>2, <1>3 DEF StateOK

\* What a call that waits carries stays right when the memory keeps its rows.
LEMMA CopyLater ==
    ASSUME NEW c \in Call, NEW st \in State, NEW st2 \in State, NEW mk, NEW mk2, NEW lg \in Logins, NEW lg2 \in Logins,
           NEW del, NEW del2, CallOK(c, FALSE), CopyOK(c, FALSE, st, lg, del),
           Kept(st, st2, del2), After(mk, lg, del, mk2, lg2, del2)
    PROVE  CopyOK(c, FALSE, st2, lg2, del2)
<1>1. \A i \in Rows(st) : i # 0
  BY EntriesTyped DEF RowId
<1>2. c.op \in {"authorize", "callback", "revoke"} => SameRow(st2, c.rid, c.row)
  BY DEF CopyOK, SameRow, Kept
<1>3. c.op = "callback" => lg2[c.login].rid = c.rid
  BY <1>1 DEF CopyOK, SameRow, CallOK, After
<1>4. c.pc = "replace" => Belongs(st2, lg2, c.sec.value, c.sid)
  BY <1>1 DEF CopyOK, Belongs, Kept, SameRow, After
<1>5. c.op = "announce" /\ c.pc \in {"syncRules", "upsert"}
         => c.sid \in Live(st2) \cup del2.secrets
  BY DEF CopyOK, Kept, After
<1>6. c.pc = "upsert" => HasRule(st2, c.tok) \/ c.tok \in del2.rules
  BY DEF CopyOK, CallOK, Kept, After
<1> QED BY <1>2, <1>3, <1>4, <1>5, <1>6 DEF CopyOK

\* A secret put in its place.
LEMMA PutSecretOK ==
    ASSUME NEW st \in State, NEW mk \in Made, NEW lg \in Logins, NEW del, NEW sp,
           StateOK(st, mk, lg, del, sp), NEW i \in SecretId, NEW sec \in Secret,
           Belongs(st, lg, sec.value, i)
    PROVE  /\ StateOK(PutSecretAt(st, i, sec), mk, lg, del, sp)
           /\ Kept(st, PutSecretAt(st, i, sec), del)
           /\ i \in Live(PutSecretAt(st, i, sec))
           /\ PutSecretAt(st, i, sec).rows = st.rows
<1> DEFINE st2 == PutSecretAt(st, i, sec)
<1>1. st2.rows = st.rows /\ st2.rules = st.rules
         /\ st2.secrets = [st.secrets EXCEPT ![i] = sec]
  BY DEF PutSecretAt, State
<1>2. sec # NoSecret
  BY DEF Secret, NoSecret
<1>3. \A j \in SecretId : st2.secrets[j] = IF j = i THEN sec ELSE st.secrets[j]
  BY <1>1 DEF State
<1> HIDE DEF st2
<1>4. Rows(st2) = Rows(st) /\ Live(st2) = Live(st) \cup {i}
  BY <1>1, <1>2, <1>3 DEF Rows, Live
<1>5. \A t : HasRule(st2, t) = HasRule(st, t)
  BY <1>1 DEF HasRule
<1>6. \A j \in Rows(st2) : RowOK(st2, j, mk, lg, del, sp)
  BY <1>1, <1>4, <1>5 DEF StateOK, RowOK
<1>7. Unique(st2)
  BY <1>1, <1>4 DEF StateOK, Unique
<1>8. \A j \in Live(st2) : Belongs(st2, lg, st2.secrets[j].value, j)
  BY <1>1, <1>3, <1>4 DEF StateOK, Belongs, Live
<1>9. Kept(st, st2, del)
  BY <1>1, <1>4, <1>5 DEF Kept, SameRow
<1> QED BY <1>1, <1>4, <1>6, <1>7, <1>8, <1>9 DEF StateOK, st2

\* Secrets and rules taken out, and what a DELETE took with them.
LEMMA DroppedOK ==
    ASSUME NEW st \in State, NEW mk \in Made, NEW lg \in Logins, NEW del, NEW del2, NEW sp,
           StateOK(st, mk, lg, del, sp), NEW st2 \in State, NEW gone \in SUBSET SecretId,
           st2.rows = st.rows, Live(st2) = Live(st) \ gone,
           \A i \in Live(st2) : st2.secrets[i] = st.secrets[i],
           del.secrets \cup gone \subseteq del2.secrets,
           del.rules \cup Unruled(st, st2) \subseteq del2.rules
    PROVE  StateOK(st2, mk, lg, del2, sp) /\ Kept(st, st2, del2)
<1>1. Rows(st2) = Rows(st) /\ Live(st2) = Live(st) \ gone
  BY DEF Rows
<1>2. \A t \in Token : HasRule(st, t) => HasRule(st2, t) \/ t \in del2.rules
  BY DEF Unruled
<1>3. \A j \in Rows(st) : st.rows[j].tok \in Token
  BY EntriesTyped DEF Row
<1>4. ASSUME NEW j \in Rows(st2) PROVE RowOK(st2, j, mk, lg, del2, sp)
  <2>1. RowOK(st, j, mk, lg, del, sp)
    BY <1>1 DEF StateOK
  <2>2. st2.rows[j].sid \in Live(st2) \cup del2.secrets
    BY <2>1, <1>1 DEF RowOK
  <2>3. HasRule(st2, st2.rows[j].tok) \/ st2.rows[j].tok \in del2.rules
    BY <2>1, <1>1, <1>2, <1>3 DEF RowOK
  <2> QED BY <2>1, <2>2, <2>3 DEF RowOK
<1>5. Unique(st2)
  BY <1>1 DEF StateOK, Unique
<1>6. \A j \in Live(st2) : Belongs(st2, lg, st2.secrets[j].value, j)
  BY <1>1 DEF StateOK, Belongs, Live
<1>7. Kept(st, st2, del2)
  BY <1>1, <1>2 DEF Kept, SameRow
<1> QED BY <1>4, <1>5, <1>6, <1>7 DEF StateOK

\* Rules written.
LEMMA RulesOK ==
    ASSUME NEW st \in State, NEW mk \in Made, NEW lg \in Logins, NEW del, NEW sp,
           StateOK(st, mk, lg, del, sp), NEW i \in SecretId, NEW t \in Token,
           NEW st2 \in {SyncRulesForSecret(st, i, t), AddRule(st, i, t)}
    PROVE  /\ StateOK(st2, mk, lg, del, sp) /\ Kept(st, st2, del) /\ HasRule(st2, t)
           /\ st2.rows = st.rows /\ st2.secrets = st.secrets
<1>1. st2.rows = st.rows /\ st2.secrets = st.secrets
  BY DEF SyncRulesForSecret, AddRule, State
<1>2. \A u : HasRule(st, u) \/ u = t => HasRule(st2, u)
  <2> DEFINE new == [sid |-> i, tok |-> t]
  <2>0. new.tok = t
    OBVIOUS
  <2> HIDE DEF new
  <2>1. CASE st2 = SyncRulesForSecret(st, i, t)
    <3>1. st2.rules = {r \in st.rules : r.tok # t} \cup {new}
      BY <2>1 DEF SyncRulesForSecret, State, new
    <3> QED BY <2>0, <3>1 DEF HasRule
  <2>2. CASE st2 = AddRule(st, i, t)
    <3>1. st2.rules = st.rules \cup {new}
      BY <2>2 DEF AddRule, State, new
    <3> QED BY <2>0, <3>1 DEF HasRule
  <2> QED BY <2>1, <2>2
<1>3. Rows(st2) = Rows(st) /\ Live(st2) = Live(st)
  BY <1>1 DEF Rows, Live
<1>4. \A j \in Rows(st2) : RowOK(st2, j, mk, lg, del, sp)
  BY <1>1, <1>2, <1>3 DEF StateOK, RowOK
<1>5. Unique(st2) /\ \A j \in Live(st2) : Belongs(st2, lg, st2.secrets[j].value, j)
  BY <1>1, <1>3 DEF StateOK, Unique, Belongs
<1>6. Kept(st, st2, del)
  BY <1>1, <1>2, <1>3 DEF Kept, SameRow
<1> QED BY <1>1, <1>2, <1>4, <1>5, <1>6 DEF StateOK

\* What putting a row in its place changes.
LEMMA PutRowParts ==
    ASSUME NEW st \in State, NEW i \in RowId, NEW row \in Row
    PROVE  /\ PutRowAt(st, i, row).secrets = st.secrets /\ PutRowAt(st, i, row).rules = st.rules
           /\ \A j \in RowId : PutRowAt(st, i, row).rows[j] = IF j = i THEN row ELSE st.rows[j]
           /\ Rows(PutRowAt(st, i, row)) = Rows(st) \cup {i}
           /\ Live(PutRowAt(st, i, row)) = Live(st)
           /\ \A t : HasRule(PutRowAt(st, i, row), t) = HasRule(st, t)
<1> DEFINE st2 == PutRowAt(st, i, row)
<1>1. st2.secrets = st.secrets /\ st2.rules = st.rules /\ st2.rows = [st.rows EXCEPT ![i] = row]
  BY DEF PutRowAt, State
<1>2. \A j \in RowId : st2.rows[j] = IF j = i THEN row ELSE st.rows[j]
  BY <1>1 DEF State
<1>3. row # NoRow
  BY DEF Row, NoRow
<1> HIDE DEF st2
<1>4. Rows(st2) = Rows(st) \cup {i} /\ Live(st2) = Live(st)
  BY <1>1, <1>2, <1>3 DEF Rows, Live
<1>5. \A t : HasRule(st2, t) = HasRule(st, t)
  BY <1>1 DEF HasRule
<1> QED BY <1>1, <1>2, <1>4, <1>5 DEF st2

\* A copy of a row written back, with an empty state or the state of a new login.
LEMMA PutRowOK ==
    ASSUME NEW st \in State, NEW mk \in Made, NEW lg \in Logins, NEW del, NEW sp,
           StateOK(st, mk, lg, del, sp), NEW i, NEW row \in Row, SameRow(st, i, row),
           row.state # 0 => /\ row.endpoints /\ row.client # 0
                            /\ row.state <= mk.logins /\ row.state \in Login
                            /\ lg[row.state].rid = i /\ row.state \notin sp
    PROVE  /\ StateOK(PutRowAt(st, i, row), mk, lg, del, sp)
           /\ Kept(st, PutRowAt(st, i, row), del)
           /\ PutRowAt(st, i, row).rows[i] = row
<1> DEFINE st2 == PutRowAt(st, i, row)
<1>0. i \in RowId /\ i \in Rows(st)
  BY EntriesTyped DEF SameRow
<1>1. /\ st2.secrets = st.secrets
      /\ \A j \in RowId : st2.rows[j] = IF j = i THEN row ELSE st.rows[j]
      /\ Rows(st2) = Rows(st) /\ Live(st2) = Live(st) /\ \A t : HasRule(st2, t) = HasRule(st, t)
  BY <1>0, PutRowParts
<1>2. \A j \in Rows(st) : j \in RowId
  BY EntriesTyped
<1> HIDE DEF st2
<1>3. \A j \in Rows(st) : SameRow(st2, j, st.rows[j])
  BY <1>0, <1>1, <1>2 DEF SameRow
<1>4. \A j \in Rows(st2) : RowOK(st2, j, mk, lg, del, sp)
  <2>1. RowOK(st2, i, mk, lg, del, sp)
    BY <1>0, <1>1, <1>3 DEF StateOK, RowOK, SameRow
  <2>2. ASSUME NEW j \in Rows(st2), j # i PROVE RowOK(st2, j, mk, lg, del, sp)
    <3>1. RowOK(st, j, mk, lg, del, sp)
      BY <1>1 DEF StateOK
    <3>2. st2.rows[j] = st.rows[j]
      BY <1>1, <1>2, <2>2
    <3> QED BY <1>1, <3>1, <3>2 DEF RowOK
  <2> QED BY <2>1, <2>2
<1>5. Unique(st2)
  BY <1>1, <1>3 DEF StateOK, Unique, SameRow
<1>6. ASSUME NEW j \in Live(st2) PROVE Belongs(st2, lg, st2.secrets[j].value, j)
  <2>1. Belongs(st, lg, st2.secrets[j].value, j)
    BY <1>1 DEF StateOK
  <2> QED BY <1>3, <2>1 DEF Belongs, SameRow
<1>7. Kept(st, st2, del)
  BY <1>1, <1>3 DEF Kept
<1> QED BY <1>0, <1>1, <1>4, <1>5, <1>6, <1>7 DEF StateOK, st2

\* A row for an announcement that has none.
LEMMA NewRowOK ==
    ASSUME NEW st \in State, NEW mk \in Made, NEW lg \in Logins, NEW del, NEW sp,
           StateOK(st, mk, lg, del, sp), NEW row \in Row, FindMcp(st, row.ann) = {},
           row.sid \in Live(st) \cup del.secrets,
           HasRule(st, row.tok) \/ row.tok \in del.rules, row.state = 0,
           NEW mk2 \in Made, mk2.rows = mk.rows + 1, mk2.logins = mk.logins
    PROVE  /\ StateOK(PutRowAt(st, mk.rows + 1, row), mk2, lg, del, sp)
           /\ Kept(st, PutRowAt(st, mk.rows + 1, row), del)
<1> DEFINE i == mk.rows + 1
           st2 == PutRowAt(st, i, row)
<1>0. i \in RowId /\ i \in Nat /\ i = mk2.rows /\ mk.rows \in Nat /\ mk.rows < i
  BY DEF Made, RowId
<1>1. /\ st2.secrets = st.secrets
      /\ \A j \in RowId : st2.rows[j] = IF j = i THEN row ELSE st.rows[j]
      /\ Rows(st2) = Rows(st) \cup {i} /\ Live(st2) = Live(st)
      /\ \A t : HasRule(st2, t) = HasRule(st, t)
  BY <1>0, PutRowParts
<1>2. \A j \in Rows(st) : j \in RowId /\ j # i /\ j <= mk2.rows /\ st.rows[j] \in Row
  <2> SUFFICES ASSUME NEW j \in Rows(st) PROVE j \in RowId /\ j # i /\ j <= mk2.rows /\ st.rows[j] \in Row
    OBVIOUS
  <2>1. j \in RowId /\ j \in Nat /\ st.rows[j] \in Row
    BY EntriesTyped DEF RowId
  <2>2. j <= mk.rows
    BY DEF StateOK, RowOK
  <2> HIDE DEF i
  <2> QED BY <2>1, <2>2, <1>0
<1> HIDE DEF st2, i
<1>3. \A j \in Rows(st) : SameRow(st2, j, st.rows[j]) /\ st2.rows[j] = st.rows[j]
  BY <1>1, <1>2 DEF SameRow
<1>4. \A j \in Rows(st2) : RowOK(st2, j, mk2, lg, del, sp)
  <2>1. RowOK(st2, i, mk2, lg, del, sp)
    BY <1>0, <1>1 DEF RowOK
  <2>2. ASSUME NEW j \in Rows(st) PROVE RowOK(st2, j, mk2, lg, del, sp)
    BY <1>1, <1>2, <1>3 DEF StateOK, RowOK
  <2> QED BY <1>1, <2>1, <2>2
<1>5. Unique(st2)
  <2>1. \A j \in Rows(st) : st.rows[j].ann \notin Same[row.ann] /\ row.ann \notin Same[st.rows[j].ann]
    BY <1>2 DEF FindMcp, Row
  <2>2. st2.rows[i] = row
    BY <1>0, <1>1
  <2> QED BY <1>1, <1>3, <2>1, <2>2 DEF StateOK, Unique
<1>6. \A j \in Live(st2) : Belongs(st2, lg, st2.secrets[j].value, j)
  BY <1>1, <1>3 DEF StateOK, Belongs
<1>7. Kept(st, st2, del)
  BY <1>1, <1>3 DEF Kept
<1> QED BY <1>4, <1>5, <1>6, <1>7 DEF StateOK, st2, i

\* Nothing is stored and nobody carries anything.
LEMMA MainInit == Init => MainInv
<1> SUFFICES ASSUME Init PROVE MainInv
  OBVIOUS
<1>1. Rows(Empty) = {} /\ Live(Empty) = {}
  BY DEF Rows, Live, Empty
<1>2. StateOK(Empty, made, logins, deleted, spent)
  BY <1>1 DEF StateOK, Unique
<1>3. \A h \in Slot : CopyOK(call[h], io.by = h, mem, logins, deleted)
  BY DEF Init, CopyOK, IdleCall
<1>4. LoginsOK(made, logins, spent)
  BY DEF Init, LoginsOK, NoLogin
<1> QED BY <1>2, <1>3, <1>4 DEF MainInv, Init, VaultInit

\* The type facts the steps below start from.
LEMMA MainTypes ==
    TypeInv => /\ mem \in State /\ disk \in State /\ made \in Made /\ logins \in Logins
               /\ call \in [Slot -> Call] /\ \A h \in Slot : CallOK(call[h], io.by = h)
BY DEF TypeInv, BrokerTypeOK, VaultTypeOK, Made, Logins

\* A step of a call that stores nothing.
LEMMA MainRead ==
    ASSUME TypeInv, MainInv, NEW h \in Slot, NEW c, Goto(h, c),
           CopyOK(c, io.by = h, mem, logins, deleted),
           UNCHANGED <<mem, disk, io, made, logins, deleted, spent>>
    PROVE  MainInv'
<1>1. \A g \in Slot : call'[g] = IF g = h THEN c ELSE call[g]
  BY MainTypes DEF Goto
<1>2. \A g \in Slot : CopyOK(call'[g], io'.by = g, mem', logins', deleted')
  BY <1>1 DEF MainInv
<1> QED BY <1>2 DEF MainInv

\* A new call that begins with a read.
LEMMA MainBegin ==
    ASSUME TypeInv, MainInv, NEW h \in Slot, NEW c, Begin(h, c),
           CopyOK(c, FALSE, mem, logins, deleted)
    PROVE  MainInv'
<1>1. (io.by = h) = FALSE
  BY DEF Begin, NoIo
<1>2. CopyOK(c, io.by = h, mem, logins, deleted)
  BY <1>1
<1> QED BY <1>2, MainRead DEF Begin, files, history

\* An idle slot carries nothing.
LEMMA IdleCopy == \A busy, st, lg, del : CopyOK(IdleCall, busy, st, lg, del)
BY DEF CopyOK, IdleCall

\* A call that ends with an error.
LEMMA MainAbandon ==
    ASSUME TypeInv, MainInv, NEW h \in Slot, Abandon(h)
    PROVE  MainInv'
BY IdleCopy, MainRead DEF Abandon, ReadOnly, files, history

\* A store call that keeps what the memory has.
LEMMA MainStore ==
    ASSUME TypeInv, MainInv, NEW h \in Slot, NEW c, NEW st \in State, NEW secret,
           Change(h, st, secret), Goto(h, c), UNCHANGED <<disk, spent>>,
           made' \in Made, logins' \in Logins,
           StateOK(st, made', logins', deleted', spent), Kept(mem, st, deleted'),
           After(made, logins, deleted, made', logins', deleted'),
           LoginsOK(made', logins', spent), CopyOK(c, TRUE, st, logins', deleted')
    PROVE  MainInv'
<1>1. \A g \in Slot : call'[g] = IF g = h THEN c ELSE call[g]
  BY MainTypes DEF Goto
<1>2. mem' = st /\ io'.by = h /\ io.by = NoSlot
  BY DEF Change, NoIo
<1>3. StateOK(disk, made', logins', deleted', spent)
  BY MainTypes, StateLater DEF MainInv
<1>4. ASSUME NEW g \in Slot PROVE CopyOK(call'[g], io'.by = g, mem', logins', deleted')
  <2>1. CASE g = h
    <3>1. (io'.by = g) = TRUE
      BY <2>1, <1>2
    <3> QED BY <2>1, <3>1, <1>1, <1>2
  <2>2. CASE g # h
    <3>1. (io'.by = g) = FALSE /\ (io.by = g) = FALSE
      BY <2>2, <1>2
    <3>2. CopyOK(call[g], io.by = g, mem, logins, deleted) /\ CallOK(call[g], io.by = g)
             /\ call[g] \in Call
      BY MainTypes DEF MainInv
    <3>3. CopyOK(call[g], FALSE, mem, logins, deleted) /\ CallOK(call[g], FALSE)
      BY <3>1, <3>2
    <3>4. CopyOK(call[g], FALSE, st, logins', deleted')
      BY <3>2, <3>3, MainTypes, CopyLater
    <3> QED BY <2>2, <3>1, <3>4, <1>1, <1>2
  <2> QED BY <2>1, <2>2
<1> QED BY <1>2, <1>3, <1>4 DEF MainInv

\* Nothing made and nothing deleted.
LEMMA AfterSame ==
    ASSUME TypeInv, UNCHANGED <<made, logins, deleted>>
    PROVE  /\ After(made, logins, deleted, made', logins', deleted')
           /\ made' \in Made /\ logins' \in Logins
BY MainTypes DEF After, Made

\* A call writes back its copy of a row.
LEMMA MainRowWrite ==
    ASSUME TypeInv, MainInv, NEW h \in Slot, NEW row \in Row, ReplaceMcpServer(h, row),
           call[h].op \in {"authorize", "callback", "revoke"}, io = NoIo,
           row.ann = call[h].row.ann, row.sid = call[h].row.sid, row.tok = call[h].row.tok,
           row.state = 0, made' \in Made, made'.rows = made.rows, made'.logins = made.logins,
           UNCHANGED logins, call[h].pc \notin {"replace", "syncRules", "addSecret", "upsert"}
    PROVE  MainInv'
<1> DEFINE c == [call[h] EXCEPT !.row = row]
           st == PutRowAt(mem, call[h].rid, row)
<1>1. call[h] \in Call /\ CopyOK(call[h], io.by = h, mem, logins, deleted) /\ mem \in State
         /\ CallOK(call[h], io.by = h) /\ made \in Made /\ logins \in Logins
  BY MainTypes DEF MainInv
<1>2. SameRow(mem, call[h].rid, row)
  BY <1>1 DEF CopyOK, SameRow
<1>3. StateOK(mem, made, logins, deleted, spent) /\ LoginsOK(made, logins, spent)
  BY DEF MainInv
<1>4. StateOK(st, made, logins, deleted, spent) /\ Kept(mem, st, deleted)
         /\ st.rows[call[h].rid] = row /\ st \in State
  BY <1>1, <1>2, <1>3, PutRowOK, StatesTyped
<1>5. StoreCall(h, c, st, FALSE)
  BY DEF ReplaceMcpServer
<1>6. c.op = call[h].op /\ c.pc = call[h].pc /\ c.rid = call[h].rid /\ c.login = call[h].login
         /\ c.row = row
  BY <1>1 DEF Call
<1> HIDE DEF st, c
<1>7. SameRow(st, c.rid, row)
  BY <1>2, <1>4, <1>6 DEF Kept, SameRow
<1>8. CopyOK(c, TRUE, st, logins, deleted)
  BY <1>1, <1>4, <1>6, <1>7 DEF CopyOK
<1>9. deleted' = deleted /\ spent' = spent /\ disk' = disk /\ Change(h, st, FALSE) /\ Goto(h, c)
  BY <1>5 DEF StoreCall, files
<1>10. StateOK(st, made', logins', deleted', spent) /\ LoginsOK(made', logins', spent)
         /\ After(made, logins, deleted, made', logins', deleted')
  <2>1. After(made, logins, deleted, made', logins', deleted')
    BY <1>1, <1>9 DEF After, Made
  <2>2. LoginsOK(made', logins', spent)
    BY <1>3 DEF LoginsOK
  <2> QED BY <1>1, <1>4, <1>9, <2>1, <2>2, StateLater
<1> QED BY <1>1, <1>4, <1>8, <1>9, <1>10, MainStore

\* A value that is no login's token may be anywhere.
LEMMA NotAToken == \A st, lg, sid : Belongs(st, lg, Blank, sid) /\ Belongs(st, lg, Typed, sid)
BY DEF Belongs, Blank, Typed, Login

\* The announcement up to the row.
LEMMA MainAnnounce ==
    ASSUME TypeInv, MainInv, NEW h \in Slot,
           \/ \E a \in Ann : Announce(h, a)
           \/ mintMCPPlaceholder(h) \/ AddSecret(h) \/ SyncRules(h) \/ UpsertMcpServer(h)
    PROVE  MainInv'
<1>t. call[h] \in Call /\ CopyOK(call[h], io.by = h, mem, logins, deleted) /\ mem \in State
         /\ CallOK(call[h], io.by = h) /\ made \in Made /\ logins \in Logins
  BY MainTypes DEF MainInv
<1>m. StateOK(mem, made, logins, deleted, spent) /\ LoginsOK(made, logins, spent)
  BY DEF MainInv
<1>1. ASSUME NEW a \in Ann, Announce(h, a) PROVE MainInv'
  <2> DEFINE c == [IdleCall EXCEPT !.op = "announce", !.ann = a, !.pc = "mint"]
  <2>1. Begin(h, c)
    BY <1>1 DEF Announce
  <2>2. CopyOK(c, FALSE, mem, logins, deleted)
    BY DEF CopyOK, IdleCall
  <2> HIDE DEF c
  <2> QED BY <2>1, <2>2, MainBegin
<1>2. CASE mintMCPPlaceholder(h)
  <2>1. PICK t \in Token : Goto(h, [call[h] EXCEPT !.pc = "addSecret", !.tok = t])
    BY <1>2, <1>t DEF mintMCPPlaceholder, Random, At, CallOK
  <2> DEFINE c == [call[h] EXCEPT !.pc = "addSecret", !.tok = t]
  <2>2. c.pc = "addSecret" /\ c.op = "announce" /\ (io.by = h) = FALSE
    BY <1>2, <1>t DEF mintMCPPlaceholder, At, CallOK, Call, NoIo
  <2>3. Goto(h, c)
    BY <2>1
  <2> HIDE DEF c
  <2>4. CopyOK(c, io.by = h, mem, logins, deleted)
    BY <2>2 DEF CopyOK
  <2> QED BY <1>2, <2>3, <2>4, MainRead DEF mintMCPPlaceholder, ReadOnly, history, files
<1>3. CASE AddSecret(h)
  <2> DEFINE sid == made.secrets + 1
             c == [call[h] EXCEPT !.sid = sid]
             sec == NewSecret(call[h])
             st == PutSecretAt(mem, sid, sec)
  <2>1. sid \in SecretId /\ call[h].pc = "addSecret" /\ made.secrets < MaxSecrets
    BY <1>3, <1>t DEF AddSecret, At, Made, SecretId
  <2>2. sec \in Secret /\ sec.value \in {Blank, Typed}
    <3>1. call[h].tok \in Token /\ (call[h].op = "announce" => call[h].ann \in Ann)
      BY <1>t, <2>1 DEF CallOK
    <3>2. CASE call[h].op = "announce"
      BY <3>1, <3>2 DEF NewSecret, Secret, Value, Blank
    <3>3. CASE call[h].op # "announce"
      BY <3>1, <3>3 DEF NewSecret, Secret, Value, Typed
    <3> QED BY <3>2, <3>3
  <2>3. StoreCall(h, c, st, TRUE) /\ UNCHANGED logins /\ made' = [made EXCEPT !.secrets = sid]
    BY <1>3 DEF AddSecret
  <2>4. made' \in Made /\ made'.rows = made.rows /\ made'.logins = made.logins
    BY <2>1, <2>3, <1>t DEF Made, SecretId
  <2>5. c.pc = "addSecret" /\ c.op = call[h].op /\ c.sid = sid /\ c.rid = call[h].rid
           /\ c.row = call[h].row /\ c.login = call[h].login
    BY <1>t, <2>1 DEF Call
  <2> HIDE DEF sid, c, sec
  <2>6. StateOK(st, made, logins, deleted, spent) /\ Kept(mem, st, deleted) /\ sid \in Live(st)
           /\ st \in State
    <3>1. Belongs(mem, logins, sec.value, sid)
      BY <2>2, NotAToken
    <3> QED BY <2>1, <2>2, <3>1, <1>t, <1>m, PutSecretOK, StatesTyped
  <2> HIDE DEF st
  <2>7. deleted' = deleted /\ spent' = spent /\ disk' = disk /\ Change(h, st, TRUE) /\ Goto(h, c)
    BY <2>3 DEF StoreCall, files
  <2>8. CopyOK(c, TRUE, st, logins, deleted)
    <3>1. c.op \in {"authorize", "callback", "revoke"} => SameRow(st, c.rid, c.row)
      BY <1>t, <2>5, <2>6 DEF CopyOK, Kept, SameRow
    <3>2. c.op = "callback" => logins[c.login].rid = c.rid
      BY <1>t, <2>5 DEF CopyOK
    <3> QED BY <2>5, <2>6, <3>1, <3>2 DEF CopyOK
  <2>9. After(made, logins, deleted, made', logins', deleted') /\ LoginsOK(made', logins', spent)
    BY <1>t, <1>m, <2>3, <2>4, <2>7 DEF After, LoginsOK, Made
  <2>10. StateOK(st, made', logins', deleted', spent)
    BY <1>t, <2>3, <2>4, <2>6, <2>7, <2>9, StateLater
  <2> QED BY <1>t, <2>3, <2>4, <2>6, <2>7, <2>8, <2>9, <2>10, MainStore
<1>4. CASE SyncRules(h)
  <2> DEFINE st == SyncRulesForSecret(mem, call[h].sid, call[h].tok)
  <2>1. call[h].pc = "syncRules"
    BY <1>4 DEF SyncRules, At
  <2>2. call[h].sid \in SecretId /\ call[h].tok \in Token
    BY <1>t, <2>1 DEF CallOK
  <2>3. StateOK(st, made, logins, deleted, spent) /\ Kept(mem, st, deleted) /\ st \in State
           /\ HasRule(st, call[h].tok)
    BY <1>t, <1>m, <2>2, RulesOK, StatesTyped
  <2>4. StoreCall(h, call[h], st, FALSE) /\ UNCHANGED <<made, logins>>
    BY <1>4 DEF SyncRules
  <2> HIDE DEF st
  <2>5. UNCHANGED <<deleted, spent, disk>> /\ Change(h, st, FALSE) /\ Goto(h, call[h])
    BY <2>4 DEF StoreCall, files
  <2>6. CopyOK(call[h], TRUE, st, logins, deleted)
    BY <1>t, <2>1, <2>3 DEF CopyOK, Kept, SameRow
  <2>7. After(made, logins, deleted, made', logins', deleted') /\ made' \in Made /\ logins' \in Logins
    BY <2>4, <2>5, AfterSame
  <2>8. LoginsOK(made', logins', spent)
    BY <1>m, <2>4
  <2> QED BY <2>3, <2>4, <2>5, <2>6, <2>7, <2>8, MainStore
<1>5. CASE UpsertMcpServer(h)
  <2> DEFINE found == FindMcp(mem, call[h].ann)
  <2>1. call[h].pc = "upsert" /\ call[h].op = "announce" /\ io = NoIo
    BY <1>5, <1>t DEF UpsertMcpServer, At, CallOK
  <2>2. /\ call[h].sid \in Live(mem) \cup deleted.secrets
        /\ HasRule(mem, call[h].tok) \/ call[h].tok \in deleted.rules
        /\ call[h].sid \in SecretId /\ call[h].tok \in Token /\ call[h].ann \in Ann
    BY <1>t, <2>1 DEF CopyOK, CallOK, NoIo
  <2>3. CASE found = {}
    <3> DEFINE row == NewRow(call[h])
               i == made.rows + 1
               st == PutRowAt(mem, i, row)
    <3>1. row \in Row /\ row.ann = call[h].ann /\ row.sid = call[h].sid /\ row.tok = call[h].tok
             /\ row.state = 0
      BY <2>2 DEF NewRow, Row
    <3>2. /\ StoreCall(h, call[h], st, FALSE) /\ UNCHANGED logins
          /\ made.rows < MaxRows /\ made' = [made EXCEPT !.rows = @ + 1]
      BY <1>5, <2>3 DEF UpsertMcpServer
    <3>3. made' \in Made /\ made'.rows = made.rows + 1 /\ made'.logins = made.logins
      BY <1>t, <3>2 DEF Made
    <3> HIDE DEF row
    <3>4. StateOK(st, made', logins, deleted, spent) /\ Kept(mem, st, deleted) /\ st \in State
      BY <1>t, <1>m, <2>2, <2>3, <3>1, <3>3, NewRowOK, StatesTyped
    <3>5. FindMcp(st, call[h].ann) = {i} /\ st.rows[i] = row
      <4>1. i \in RowId
        BY <3>2, <1>t DEF Made, RowId
      <4>2. Rows(st) = Rows(mem) \cup {i} /\ \A j \in RowId : st.rows[j] = IF j = i THEN row ELSE mem.rows[j]
        BY <4>1, <3>1, <1>t, PutRowParts
      <4>3. \A j \in Rows(mem) : j \in RowId
        BY <1>t, EntriesTyped
      <4> HIDE DEF st, i
      <4> QED BY <2>2, <2>3, <3>1, <4>1, <4>2, <4>3 DEF FindMcp
    <3>6. Told(st)[call[h].ann] = call[h].tok
      <4>1. i \in Nat
        BY <1>t DEF Made
      <4> HIDE DEF i
      <4>2. Earliest({i}) = i
        BY <4>1, EarliestIn
      <4> QED BY <2>2, <3>1, <3>5, <4>2 DEF Told
    <3> HIDE DEF st, i
    <3>7. UNCHANGED <<deleted, spent, disk>> /\ Change(h, st, FALSE) /\ Goto(h, call[h])
      BY <3>2 DEF StoreCall, files
    <3>8. CopyOK(call[h], TRUE, st, logins, deleted)
      <4>1. FindMcp(st, call[h].ann) # {}
        BY <3>5
      <4>2. call[h].sid \in Live(st) \cup deleted.secrets
        BY <2>2, <3>4 DEF Kept
      <4> QED BY <2>1, <3>6, <4>1, <4>2 DEF CopyOK
    <3>9. After(made, logins, deleted, made', logins', deleted') /\ LoginsOK(made', logins', spent)
      BY <1>t, <1>m, <3>2, <3>3, <3>7 DEF After, LoginsOK, Made
    <3> QED BY <1>t, <3>2, <3>3, <3>4, <3>7, <3>8, <3>9, MainStore
  <2>4. CASE found # {}
    <3> DEFINE t == mem.rows[Earliest(found)].tok
               c == [call[h] EXCEPT !.tok = t]
    <3>1. StoreCall(h, c, mem, FALSE) /\ UNCHANGED <<made, logins>>
      BY <1>5, <2>4 DEF UpsertMcpServer
    <3>2. c.pc = "upsert" /\ c.op = "announce" /\ c.ann = call[h].ann /\ c.tok = t
             /\ c.sid = call[h].sid
      BY <1>t, <2>1 DEF Call
    <3>3. Told(mem)[c.ann] = t /\ FindMcp(mem, c.ann) # {}
      BY <2>2, <2>4, <3>2 DEF Told
    <3> HIDE DEF c, t
    <3>4. CopyOK(c, TRUE, mem, logins, deleted)
      BY <2>2, <3>2, <3>3 DEF CopyOK
    <3>5. UNCHANGED <<deleted, spent, disk>> /\ Change(h, mem, FALSE) /\ Goto(h, c)
      BY <3>1 DEF StoreCall, files
    <3>6. Kept(mem, mem, deleted)
      BY DEF Kept, SameRow
    <3>7. After(made, logins, deleted, made', logins', deleted') /\ made' \in Made /\ logins' \in Logins
      BY <3>1, <3>5, AfterSame
    <3>8. StateOK(mem, made', logins', deleted', spent) /\ LoginsOK(made', logins', spent)
      BY <1>m, <3>1, <3>5
    <3> QED BY <1>t, <3>1, <3>4, <3>5, <3>6, <3>7, <3>8, MainStore
  <2> QED BY <2>3, <2>4
<1> QED BY <1>1, <1>2, <1>3, <1>4, <1>5

\* The login up to the operator's browser.
LEMMA MainLogin ==
    ASSUME TypeInv, MainInv, NEW h \in Slot,
           \/ \E rid \in RowId : Authorize(h, rid)
           \/ discoverMCPOAuth(h) \/ registerMCPClient(h) \/ startMCPOAuth(h) \/ NetworkFails(h)
    PROVE  MainInv'
<1>t. call[h] \in Call /\ CopyOK(call[h], io.by = h, mem, logins, deleted) /\ mem \in State
         /\ CallOK(call[h], io.by = h) /\ made \in Made /\ logins \in Logins
  BY MainTypes DEF MainInv
<1>m. StateOK(mem, made, logins, deleted, spent) /\ LoginsOK(made, logins, spent)
  BY DEF MainInv
<1>1. ASSUME NEW rid \in RowId, Authorize(h, rid) PROVE MainInv'
  <2> DEFINE row == mem.rows[rid]
             pc == IF ~row.endpoints THEN "discover"
                   ELSE IF row.client = 0 THEN "register" ELSE "start"
             c == [IdleCall EXCEPT !.op = "authorize", !.rid = rid, !.row = row, !.pc = pc]
  <2>1. Begin(h, c) /\ rid \in Rows(mem)
    BY <1>1 DEF Authorize
  <2>2. pc \in {"discover", "register", "start"}
           /\ (pc \in {"discover", "register"} => row.state = 0)
    BY <1>m, <2>1 DEF StateOK, RowOK
  <2>3. SameRow(mem, rid, row)
    BY <2>1 DEF SameRow
  <2> HIDE DEF row, pc
  <2>4. c.op = "authorize" /\ c.rid = rid /\ c.row = row /\ c.pc = pc
    BY DEF IdleCall
  <2> HIDE DEF c
  <2>5. CopyOK(c, FALSE, mem, logins, deleted)
    BY <2>2, <2>3, <2>4 DEF CopyOK
  <2> QED BY <2>1, <2>5, MainBegin
<1>2. CASE discoverMCPOAuth(h)
  <2> DEFINE row == [call[h].row EXCEPT !.endpoints = TRUE]
  <2>1. call[h].pc = "discover" /\ call[h].op = "authorize" /\ call[h].row \in Row /\ io = NoIo
    BY <1>2, <1>t DEF discoverMCPOAuth, At, CallOK
  <2>2. call[h].row.state = 0
    BY <1>t, <2>1 DEF CopyOK
  <2>3. row \in Row /\ row.ann = call[h].row.ann /\ row.sid = call[h].row.sid
           /\ row.tok = call[h].row.tok /\ row.state = 0
    BY <2>1, <2>2 DEF Row
  <2>4. ReplaceMcpServer(h, row) /\ UNCHANGED <<made, logins>>
    BY <1>2 DEF discoverMCPOAuth
  <2> HIDE DEF row
  <2> QED BY <1>t, <2>1, <2>3, <2>4, MainRowWrite
<1>3. CASE registerMCPClient(h)
  <2> DEFINE row == [call[h].row EXCEPT !.client = made.clients + 1]
  <2>1. call[h].pc = "register" /\ call[h].op = "authorize" /\ call[h].row \in Row /\ io = NoIo
    BY <1>3, <1>t DEF registerMCPClient, At, CallOK
  <2>2. call[h].row.state = 0 /\ made.clients + 1 \in Nat
    BY <1>t, <2>1 DEF CopyOK, Made
  <2>3. row \in Row /\ row.ann = call[h].row.ann /\ row.sid = call[h].row.sid
           /\ row.tok = call[h].row.tok /\ row.state = 0
    BY <2>1, <2>2 DEF Row
  <2>4. ReplaceMcpServer(h, row) /\ UNCHANGED logins /\ made' = [made EXCEPT !.clients = @ + 1]
    BY <1>3 DEF registerMCPClient
  <2>5. made' \in Made /\ made'.rows = made.rows /\ made'.logins = made.logins
    BY <1>t, <2>4 DEF Made
  <2> HIDE DEF row
  <2> QED BY <1>t, <2>1, <2>3, <2>4, <2>5, MainRowWrite
<1>4. CASE startMCPOAuth(h)
  <2> DEFINE n == made.logins + 1
             rid == call[h].rid
             new == [rid |-> rid, client |-> call[h].row.client]
             row == [call[h].row EXCEPT !.verifier = n, !.state = n]
             c == [call[h] EXCEPT !.login = n]
             st == PutRowAt(mem, rid, row)
  <2>1. n \in Login /\ n \in Nat /\ n # 0 /\ made.logins \in Nat /\ made.logins < n
    BY <1>4, <1>t DEF startMCPOAuth, Made, Login
  <2>2. call[h].pc = "start" /\ call[h].op = "authorize" /\ call[h].row \in Row /\ rid \in RowId
           /\ call[h].row.endpoints /\ call[h].row.client # 0
    BY <1>4, <1>t DEF startMCPOAuth, At, CallOK
  <2>3. made' = [made EXCEPT !.logins = n] /\ UNCHANGED <<disk, spent, deleted>>
           /\ Change(h, st, FALSE) /\ Goto(h, c) /\ logins' = [logins EXCEPT ![n] = new]
    BY <1>4 DEF startMCPOAuth, files
  <2> HIDE DEF n
  <2>4. made' \in Made /\ made'.rows = made.rows /\ made'.logins = n
    BY <1>t, <2>1, <2>3 DEF Made, Login
  <2>5. new.rid = rid /\ new \in [rid : 0 .. MaxRows, client : Nat]
    BY <2>2 DEF Row, RowId
  <2>6. row \in Row /\ row.ann = call[h].row.ann /\ row.sid = call[h].row.sid
           /\ row.tok = call[h].row.tok /\ row.state = n /\ row.endpoints /\ row.client # 0
    BY <2>1, <2>2 DEF Row
  <2>7. c.op = "authorize" /\ c.pc = "start" /\ c.rid = rid /\ c.row = call[h].row
    BY <1>t, <2>2 DEF Call
  <2> HIDE DEF new, row, c, rid
  <2>8. logins' \in Logins /\ logins'[n].rid = rid
           /\ \A k \in Login : k # n => logins'[k] = logins[k]
    BY <1>t, <2>1, <2>3, <2>5 DEF Logins
  <2>9. logins[n].rid = 0 /\ n \notin spent
    BY <1>m, <2>1 DEF LoginsOK
  <2>10. After(made, logins, deleted, made', logins', deleted')
    <3>1. made.rows <= made'.rows /\ made.logins <= made'.logins
      BY <1>t, <2>1, <2>4 DEF Made
    <3> QED BY <2>3, <2>8, <2>9, <3>1 DEF After
  <2>11. LoginsOK(made', logins', spent)
    <3>1. \A k \in Login : k > n => k > made.logins /\ k # n
      BY <2>1 DEF Login
    <3>2. \A k \in spent : k <= n
      <4>1. spent \subseteq Login
        BY DEF TypeInv, BrokerTypeOK
      <4> QED BY <4>1, <1>m, <2>1 DEF LoginsOK, Login
    <3> QED BY <1>m, <2>4, <2>8, <3>1, <3>2 DEF LoginsOK
  <2>12. StateOK(mem, made', logins', deleted, spent)
    BY <1>t, <1>m, <2>3, <2>4, <2>8, <2>10, StateLater
  <2>13. SameRow(mem, rid, row)
    BY <1>t, <2>2, <2>6 DEF CopyOK, SameRow, rid
  <2>14. StateOK(st, made', logins', deleted, spent) /\ Kept(mem, st, deleted) /\ st \in State
    BY <1>t, <2>1, <2>4, <2>6, <2>8, <2>9, <2>12, <2>13, PutRowOK, StatesTyped
  <2> HIDE DEF st
  <2>15. CopyOK(c, TRUE, st, logins', deleted)
    <3>1. SameRow(st, rid, call[h].row)
      BY <2>6, <2>13, <2>14 DEF Kept, SameRow
    <3> QED BY <2>7, <3>1 DEF CopyOK
  <2> QED BY <2>3, <2>4, <2>8, <2>10, <2>11, <2>14, <2>15, MainStore
<1>5. CASE NetworkFails(h)
  BY <1>5, MainAbandon DEF NetworkFails
<1> QED BY <1>1, <1>2, <1>3, <1>4, <1>5

\* A copy of a secret written back.
LEMMA MainReplaceSecret ==
    ASSUME TypeInv, MainInv, NEW h \in Slot, ReplaceSecret(h)
    PROVE  MainInv'
<1> DEFINE st == PutSecretAt(mem, call[h].sid, call[h].sec)
<1>t. call[h] \in Call /\ CopyOK(call[h], io.by = h, mem, logins, deleted) /\ mem \in State
         /\ CallOK(call[h], io.by = h) /\ made \in Made /\ logins \in Logins
  BY MainTypes DEF MainInv
<1>m. StateOK(mem, made, logins, deleted, spent) /\ LoginsOK(made, logins, spent)
  BY DEF MainInv
<1>1. call[h].pc = "replace"
  BY DEF ReplaceSecret, At
<1>2. call[h].sec \in Secret /\ call[h].sid \in SecretId
         /\ Belongs(mem, logins, call[h].sec.value, call[h].sid)
  BY <1>t, <1>1 DEF CallOK, CopyOK
<1>3. StateOK(st, made, logins, deleted, spent) /\ Kept(mem, st, deleted) /\ st \in State
         /\ st.rows = mem.rows
  BY <1>t, <1>m, <1>2, PutSecretOK, StatesTyped
<1>4. StoreCall(h, call[h], st, TRUE) /\ UNCHANGED <<made, logins>>
  BY DEF ReplaceSecret
<1> HIDE DEF st
<1>5. UNCHANGED <<deleted, spent, disk>> /\ Change(h, st, TRUE) /\ Goto(h, call[h])
  BY <1>4 DEF StoreCall, files
<1>6. CopyOK(call[h], TRUE, st, logins, deleted)
  <2>1. Belongs(st, logins, call[h].sec.value, call[h].sid)
    BY <1>2, <1>3 DEF Belongs, Kept, SameRow
  <2> QED BY <1>t, <1>1, <1>3, <2>1 DEF CopyOK, Kept, SameRow
<1>7. After(made, logins, deleted, made', logins', deleted') /\ made' \in Made /\ logins' \in Logins
  BY <1>4, <1>5, AfterSame
<1>8. StateOK(st, made', logins', deleted', spent) /\ LoginsOK(made', logins', spent)
  BY <1>m, <1>3, <1>4, <1>5
<1> QED BY <1>3, <1>4, <1>5, <1>6, <1>7, <1>8, MainStore

\* The callback.
LEMMA MainCallback ==
    ASSUME TypeInv, MainInv, NEW h \in Slot,
           \/ \E n \in Login : Callback(h, n)
           \/ exchangeMCPCode(h) \/ LoadSecret(h) \/ ReplaceSecret(h) \/ ReplaceMissing(h)
           \/ applyMCPTokens(h)
    PROVE  MainInv'
<1>t. call[h] \in Call /\ CopyOK(call[h], io.by = h, mem, logins, deleted) /\ mem \in State
         /\ CallOK(call[h], io.by = h) /\ made \in Made /\ logins \in Logins
  BY MainTypes DEF MainInv
<1>m. StateOK(mem, made, logins, deleted, spent) /\ LoginsOK(made, logins, spent)
  BY DEF MainInv
<1>1. ASSUME NEW n \in Login, Callback(h, n) PROVE MainInv'
  <2> DEFINE found == {i \in Rows(mem) : mem.rows[i].state = n}
             rid == Earliest(found)
             row == mem.rows[rid]
             c == [IdleCall EXCEPT !.op = "callback", !.pc = "exchange", !.login = n,
                                   !.rid = rid, !.row = row]
  <2>1. found # {} /\ Begin(h, c)
    BY <1>1 DEF Callback
  <2>2. rid \in found
    <3>1. found \in SUBSET Nat
      BY DEF Rows, RowId
    <3> HIDE DEF found
    <3> QED BY <2>1, <3>1, EarliestIn
  <2>3. rid \in Rows(mem) /\ row.state = n /\ n # 0
    BY <2>2 DEF Login
  <2>4. logins[n].rid = rid /\ SameRow(mem, rid, row)
    BY <1>m, <2>3 DEF StateOK, RowOK, SameRow
  <2> HIDE DEF row, rid, found
  <2>5. c.op = "callback" /\ c.pc = "exchange" /\ c.login = n /\ c.rid = rid /\ c.row = row
    BY DEF IdleCall
  <2> HIDE DEF c
  <2>6. CopyOK(c, FALSE, mem, logins, deleted)
    BY <2>4, <2>5 DEF CopyOK
  <2> QED BY <2>1, <2>6, MainBegin
<1>2. CASE exchangeMCPCode(h)
  <2> DEFINE c == [call[h] EXCEPT !.pc = "load"]
  <2>1. c.op = call[h].op /\ c.pc = "load" /\ c.rid = call[h].rid /\ c.row = call[h].row
           /\ c.login = call[h].login
    BY <1>t DEF Call
  <2>2. Goto(h, c) /\ UNCHANGED <<mem, disk, io, made, logins, deleted, spent>>
    BY <1>2 DEF exchangeMCPCode, files
  <2> HIDE DEF c
  <2>3. CopyOK(c, io.by = h, mem, logins, deleted)
    BY <1>t, <2>1 DEF CopyOK
  <2> QED BY <2>2, <2>3, MainRead
<1>3. CASE LoadSecret(h)
  <2> DEFINE sid == call[h].row.sid
             new == IF call[h].op = "callback" THEN call[h].login ELSE Blank
             sec == [mem.secrets[sid] EXCEPT !.value = new]
  <2>1. call[h].pc = "load" /\ call[h].op \in {"callback", "revoke"} /\ io = NoIo
           /\ call[h].row \in Row
    BY <1>3, <1>t DEF LoadSecret, At, CallOK
  <2>r. UNCHANGED <<mem, disk, io, made, logins, deleted, spent>>
    BY <1>3 DEF LoadSecret, ReadOnly, history, files
  <2>2. Belongs(mem, logins, new, sid)
    <3>1. CASE call[h].op = "callback"
      BY <3>1, <1>t DEF CopyOK, Belongs, SameRow
    <3>2. CASE call[h].op # "callback"
      BY <3>2, NotAToken
    <3> QED BY <3>1, <3>2
  <2>3. CASE sid \in Live(mem)
    <3> DEFINE c == [call[h] EXCEPT !.pc = "replace", !.sid = sid, !.sec = sec]
    <3>1. mem.secrets[sid] \in Secret
      BY <2>3, <1>t, EntriesTyped
    <3>2. Goto(h, c)
      BY <1>3, <2>3 DEF LoadSecret
    <3> HIDE DEF new, sid
    <3>3. sec.value = new
      BY <3>1 DEF Secret
    <3> HIDE DEF sec
    <3>4. c.op = call[h].op /\ c.pc = "replace" /\ c.rid = call[h].rid /\ c.row = call[h].row
             /\ c.login = call[h].login /\ c.sid = sid /\ c.sec = sec
      BY <1>t DEF Call
    <3> HIDE DEF c
    <3>5. CopyOK(c, io.by = h, mem, logins, deleted)
      BY <1>t, <2>1, <2>2, <3>3, <3>4 DEF CopyOK
    <3> QED BY <2>r, <3>2, <3>5, MainRead
  <2>4. CASE sid \notin Live(mem) /\ call[h].op = "callback"
    BY <1>3, <2>4, MainAbandon DEF LoadSecret, Abandon
  <2>5. CASE sid \notin Live(mem) /\ call[h].op = "revoke"
    <3> DEFINE c == [call[h] EXCEPT !.pc = "settle"]
    <3>1. Goto(h, c)
      BY <1>3, <2>5 DEF LoadSecret
    <3>2. c.op = "revoke" /\ c.pc = "settle" /\ c.rid = call[h].rid /\ c.row = call[h].row
      BY <1>t, <2>5 DEF Call
    <3> HIDE DEF c
    <3>3. CopyOK(c, io.by = h, mem, logins, deleted)
      BY <1>t, <2>5, <3>2 DEF CopyOK
    <3> QED BY <2>r, <3>1, <3>3, MainRead
  <2> QED BY <2>1, <2>3, <2>4, <2>5
<1>4. CASE ReplaceSecret(h)
  BY <1>4, MainReplaceSecret
<1>5. CASE ReplaceMissing(h)
  BY <1>5, MainAbandon DEF ReplaceMissing
<1>6. CASE applyMCPTokens(h)
  <2>1. call[h].pc = "settle" /\ call[h].op = "callback" /\ call[h].row \in Row
           /\ call[h].login \in Login /\ io = NoIo
    BY <1>6, <1>t DEF applyMCPTokens, At, CallOK
  <2>2. PICK r \in {call[h].row.refresh, call[h].login} :
           ReplaceMcpServer(h, [call[h].row EXCEPT !.refresh = r, !.verifier = 0, !.state = 0,
                                                   !.status = "ok"])
    BY <1>6 DEF applyMCPTokens
  <2> DEFINE row == [call[h].row EXCEPT !.refresh = r, !.verifier = 0, !.state = 0, !.status = "ok"]
  <2>3. r \in Nat
    BY <2>1 DEF Row, Login
  <2>4. row \in Row /\ row.ann = call[h].row.ann /\ row.sid = call[h].row.sid
           /\ row.tok = call[h].row.tok /\ row.state = 0
    BY <2>1, <2>3 DEF Row
  <2>5. ReplaceMcpServer(h, row) /\ UNCHANGED <<made, logins>>
    BY <1>6, <2>2 DEF applyMCPTokens
  <2> HIDE DEF row
  <2> QED BY <1>t, <2>1, <2>4, <2>5, MainRowWrite
<1> QED BY <1>1, <1>2, <1>3, <1>4, <1>5, <1>6

\* POST and DELETE /rules.
LEMMA MainRuleCall ==
    ASSUME TypeInv, MainInv, NEW h \in Slot, NEW c, NEW st \in State, Change(h, st, FALSE),
           BeginWith(h, c), c.op \in {"postRule", "deleteRule"}, c.pc = "rule", UNCHANGED made,
           StateOK(st, made, logins, deleted', spent), Kept(mem, st, deleted'),
           deleted.secrets \subseteq deleted'.secrets, deleted.rules \subseteq deleted'.rules
    PROVE  MainInv'
<1>t. made \in Made /\ logins \in Logins /\ LoginsOK(made, logins, spent)
  BY MainTypes DEF MainInv
<1>1. UNCHANGED <<disk, spent, logins>> /\ Goto(h, c)
  BY DEF BeginWith, files
<1>2. After(made, logins, deleted, made', logins', deleted')
  BY <1>t, <1>1 DEF After, Made
<1>3. CopyOK(c, TRUE, st, logins', deleted')
  BY DEF CopyOK
<1>4. LoginsOK(made', logins', spent) /\ made' \in Made /\ logins' \in Logins
         /\ StateOK(st, made', logins', deleted', spent)
  BY <1>t, <1>1
<1> QED BY <1>1, <1>2, <1>3, <1>4, MainStore

\* Revoke, the calls on secrets and rules, the import and the resolved entries.
LEMMA MainOthers ==
    ASSUME TypeInv, MainInv, NEW h \in Slot,
           \/ \E rid \in RowId : Revoke(h, rid)
           \/ handleRevokeMCP(h)
           \/ \E t \in Token : PostSecret(h, t)
           \/ \E sid \in SecretId : PutSecret(h, sid) \/ DeleteSecret(h, sid)
           \/ importPiKeys(h) \/ ImportHasRule(h) \/ AddRuleLast(h)
           \/ \E sid \in SecretId, t \in Token : PostRule(h, sid, t)
           \/ \E rule \in mem.rules : DeleteRule(h, rule)
           \/ \E t \in Token : resolveFailures(h, t)
           \/ SetEnvKey(h) \/ SetEnvKeyMissing(h)
    PROVE  MainInv'
<1>t. call[h] \in Call /\ CopyOK(call[h], io.by = h, mem, logins, deleted) /\ mem \in State
         /\ CallOK(call[h], io.by = h) /\ made \in Made /\ logins \in Logins
  BY MainTypes DEF MainInv
<1>m. StateOK(mem, made, logins, deleted, spent) /\ LoginsOK(made, logins, spent)
  BY DEF MainInv
<1>1. ASSUME NEW rid \in RowId, Revoke(h, rid) PROVE MainInv'
  <2> DEFINE row == mem.rows[rid]
             c == [IdleCall EXCEPT !.op = "revoke", !.pc = "load", !.rid = rid, !.row = row]
  <2>1. Begin(h, c) /\ SameRow(mem, rid, row)
    BY <1>1 DEF Revoke, SameRow
  <2> HIDE DEF row
  <2>2. c.op = "revoke" /\ c.pc = "load" /\ c.rid = rid /\ c.row = row
    BY DEF IdleCall
  <2> HIDE DEF c
  <2>3. CopyOK(c, FALSE, mem, logins, deleted)
    BY <2>1, <2>2 DEF CopyOK
  <2> QED BY <2>1, <2>3, MainBegin
<1>2. CASE handleRevokeMCP(h)
  <2> DEFINE row == [call[h].row EXCEPT !.refresh = 0, !.verifier = 0, !.state = 0,
                                        !.status = "revoked"]
  <2>1. call[h].pc = "settle" /\ call[h].op = "revoke" /\ call[h].row \in Row /\ io = NoIo
    BY <1>2, <1>t DEF handleRevokeMCP, At, CallOK
  <2>2. row \in Row /\ row.ann = call[h].row.ann /\ row.sid = call[h].row.sid
           /\ row.tok = call[h].row.tok /\ row.state = 0
    BY <2>1 DEF Row
  <2>3. ReplaceMcpServer(h, row) /\ UNCHANGED <<made, logins>>
    BY <1>2 DEF handleRevokeMCP
  <2> HIDE DEF row
  <2> QED BY <1>t, <2>1, <2>2, <2>3, MainRowWrite
<1>3. ASSUME NEW t \in Token, PostSecret(h, t) PROVE MainInv'
  <2> DEFINE sid == made.secrets + 1
             c == [IdleCall EXCEPT !.op = "post", !.pc = "addSecret", !.tok = t, !.sid = sid]
             sec == NewSecret(c)
             st == PutSecretAt(mem, sid, sec)
  <2>1. sid \in SecretId
    <3>1. made.secrets < MaxSecrets
      BY <1>3 DEF PostSecret
    <3> QED BY <3>1, <1>t DEF SecretId, Made
  <2>2. /\ Change(h, st, TRUE) /\ BeginWith(h, c) /\ UNCHANGED deleted
        /\ made' = [made EXCEPT !.secrets = sid]
    BY <1>3 DEF PostSecret
  <2>3. made' \in Made /\ made'.rows = made.rows /\ made'.logins = made.logins
    BY <2>1, <2>2, <1>t DEF SecretId, Made
  <2> HIDE DEF sid
  <2>4. c.op = "post" /\ c.pc = "addSecret" /\ c.tok = t
    BY DEF IdleCall
  <2> HIDE DEF c
  <2>5. sec \in Secret /\ sec.value = Typed
    BY <2>4 DEF NewSecret, Secret, Value, Typed
  <2> HIDE DEF sec
  <2>6. StateOK(st, made, logins, deleted, spent) /\ Kept(mem, st, deleted) /\ st \in State
    BY <1>t, <1>m, <2>1, <2>5, NotAToken, PutSecretOK, StatesTyped
  <2> HIDE DEF st
  <2>7. CopyOK(c, TRUE, st, logins, deleted)
    BY <2>4 DEF CopyOK
  <2>8. UNCHANGED <<disk, spent, logins>> /\ Goto(h, c)
    BY <2>2 DEF BeginWith, files
  <2>9. After(made, logins, deleted, made', logins', deleted') /\ LoginsOK(made', logins', spent)
    BY <1>t, <1>m, <2>2, <2>3, <2>8 DEF After, LoginsOK, Made
  <2>10. StateOK(st, made', logins', deleted', spent)
    BY <1>t, <2>2, <2>3, <2>6, <2>8, <2>9, StateLater
  <2> QED BY <1>t, <2>2, <2>3, <2>6, <2>7, <2>8, <2>9, <2>10, MainStore
<1>4. ASSUME NEW sid \in SecretId, PutSecret(h, sid) PROVE MainInv'
  <2> DEFINE sec == mem.secrets[sid]
  <2>1. sec \in Secret /\ sid \in Live(mem) /\ Belongs(mem, logins, sec.value, sid)
    BY <1>4, <1>t, <1>m, EntriesTyped DEF PutSecret, StateOK
  <2>2. PICK edit \in {[sec EXCEPT !.value = Typed], [sec EXCEPT !.key = ImportKey]} :
           Begin(h, [IdleCall EXCEPT !.op = "put", !.pc = "replace", !.sid = sid, !.tok = sec.tok,
                                     !.sec = edit])
    BY <1>4 DEF PutSecret
  <2> DEFINE c == [IdleCall EXCEPT !.op = "put", !.pc = "replace", !.sid = sid, !.tok = sec.tok,
                                   !.sec = edit]
  <2>3. Begin(h, c)
    BY <2>2
  <2> HIDE DEF sec
  <2>4. edit.value \in {Typed, sec.value}
    BY <2>1 DEF Secret
  <2>5. Belongs(mem, logins, edit.value, sid)
    BY <2>1, <2>4, NotAToken
  <2>6. c.op = "put" /\ c.pc = "replace" /\ c.sid = sid /\ c.sec = edit
    BY DEF IdleCall
  <2> HIDE DEF c
  <2>7. CopyOK(c, FALSE, mem, logins, deleted)
    BY <2>5, <2>6 DEF CopyOK
  <2> QED BY <2>3, <2>7, MainBegin
<1>5. ASSUME NEW sid \in SecretId, DeleteSecret(h, sid) PROVE MainInv'
  <2> DEFINE c == [IdleCall EXCEPT !.op = "delete", !.pc = "delete"]
             st == WithoutSecret(mem, sid)
  <2>1. /\ Change(h, st, TRUE) /\ BeginWith(h, c)
        /\ deleted' = [secrets |-> deleted.secrets \cup {sid},
                       rules |-> deleted.rules \cup Unruled(mem, st)]
        /\ UNCHANGED made
    BY <1>5 DEF DeleteSecret, Delete
  <2>2. c.op = "delete" /\ c.pc = "delete"
    BY DEF IdleCall
  <2>3. StateOK(st, made, logins, deleted', spent) /\ Kept(mem, st, deleted') /\ st \in State
    <3>1. st.rows = mem.rows /\ st.secrets = [mem.secrets EXCEPT ![sid] = NoSecret]
      BY <1>t DEF WithoutSecret, State
    <3>2. st \in State
      BY <1>t, StatesTyped
    <3> DEFINE gone == {sid}
    <3> HIDE DEF st
    <3>3. Live(st) = Live(mem) \ gone /\ \A i \in Live(st) : st.secrets[i] = mem.secrets[i]
      BY <1>t, <3>1 DEF State, Live
    <3>4. /\ deleted.secrets \cup gone \subseteq deleted'.secrets
          /\ deleted.rules \cup Unruled(mem, st) \subseteq deleted'.rules
      BY <2>1
    <3>5. gone \in SUBSET SecretId
      OBVIOUS
    <3>6. st.rows = mem.rows
      BY <3>1
    <3> HIDE DEF gone, c
    <3>7. StateOK(st, made, logins, deleted', spent) /\ Kept(mem, st, deleted')
      BY <1>t, <1>m, <3>2, <3>3, <3>4, <3>5, <3>6, DroppedOK
    <3> QED BY <3>2, <3>7
  <2> HIDE DEF c, st
  <2>4. UNCHANGED <<disk, spent, logins>> /\ Goto(h, c)
    BY <2>1 DEF BeginWith, files
  <2>5. After(made, logins, deleted, made', logins', deleted')
    BY <1>t, <2>1, <2>4 DEF After, Made
  <2>6. CopyOK(c, TRUE, st, logins', deleted')
    BY <2>2 DEF CopyOK
  <2>7. LoginsOK(made', logins', spent) /\ made' \in Made /\ logins' \in Logins
           /\ StateOK(st, made', logins', deleted', spent)
    BY <1>t, <1>m, <2>1, <2>3, <2>4
  <2> QED BY <2>1, <2>3, <2>4, <2>5, <2>6, <2>7, MainStore
<1>6. CASE importPiKeys(h)
  <2> DEFINE found == SecretByEnvKey(mem, ImportKey)
             b == [IdleCall EXCEPT !.op = "import"]
  <2>1. CASE found = {}
    <3>1. PICK t \in Random : Begin(h, [b EXCEPT !.pc = "addSecret", !.tok = t])
      BY <1>6, <2>1 DEF importPiKeys
    <3> DEFINE c == [b EXCEPT !.pc = "addSecret", !.tok = t]
    <3>2. c.op = "import" /\ c.pc = "addSecret"
      BY DEF IdleCall
    <3>3. Begin(h, c)
      BY <3>1
    <3> HIDE DEF c
    <3>4. CopyOK(c, FALSE, mem, logins, deleted)
      BY <3>2 DEF CopyOK
    <3> QED BY <3>3, <3>4, MainBegin
  <2>2. CASE found # {}
    <3> DEFINE sid == Earliest(found)
               sec == mem.secrets[sid]
               new == [sec EXCEPT !.value = Typed]
               c == [b EXCEPT !.pc = "replace", !.sid = sid, !.tok = sec.tok, !.sec = new]
    <3>1. Begin(h, c)
      BY <1>6, <2>2 DEF importPiKeys
    <3>2. sid \in Live(mem)
      <4>1. found \in SUBSET Nat
        BY DEF SecretByEnvKey, Live, SecretId
      <4>2. sid \in found
        <5> HIDE DEF found
        <5> QED BY <2>2, <4>1, EarliestIn
      <4> QED BY <4>2 DEF SecretByEnvKey
    <3>3. sec \in Secret
      BY <3>2, <1>t, EntriesTyped
    <3> HIDE DEF sid, sec
    <3>4. new.value = Typed
      BY <3>3 DEF Secret
    <3> HIDE DEF new
    <3>5. c.op = "import" /\ c.pc = "replace" /\ c.sid = sid /\ c.sec = new
      BY DEF IdleCall
    <3> HIDE DEF c
    <3>6. CopyOK(c, FALSE, mem, logins, deleted)
      BY <3>4, <3>5, NotAToken DEF CopyOK
    <3> QED BY <3>1, <3>6, MainBegin
  <2> QED BY <2>1, <2>2
<1>7. CASE ImportHasRule(h)
  <2>1. CASE Goto(h, IdleCall)
    BY <1>7, <2>1, MainAbandon DEF ImportHasRule, Abandon
  <2>2. CASE Goto(h, [call[h] EXCEPT !.pc = "addRule"])
    <3> DEFINE c == [call[h] EXCEPT !.pc = "addRule"]
    <3>1. c.pc = "addRule" /\ c.op = call[h].op /\ c.rid = call[h].rid /\ c.row = call[h].row
             /\ c.login = call[h].login
      BY <1>t DEF Call
    <3>2. Goto(h, c) /\ UNCHANGED <<mem, disk, io, made, logins, deleted, spent>>
      BY <1>7, <2>2 DEF ImportHasRule, ReadOnly, files, history
    <3> HIDE DEF c
    <3>3. CopyOK(c, io.by = h, mem, logins, deleted)
      BY <1>t, <3>1 DEF CopyOK
    <3> QED BY <3>2, <3>3, MainRead
  <2> QED BY <1>7, <2>1, <2>2 DEF ImportHasRule
<1>8. CASE AddRuleLast(h)
  <2> DEFINE st == AddRule(mem, call[h].sid, call[h].tok)
  <2>1. call[h].sid \in SecretId /\ call[h].tok \in Token /\ call[h].pc = "addRule"
    BY <1>8, <1>t DEF AddRuleLast, At, CallOK
  <2>2. st \in State /\ StateOK(st, made, logins, deleted, spent) /\ Kept(mem, st, deleted)
           /\ st.rows = mem.rows
    BY <1>t, <1>m, <2>1, StatesTyped, RulesOK
  <2>3. StoreCall(h, call[h], st, FALSE) /\ UNCHANGED <<made, logins>>
    BY <1>8 DEF AddRuleLast
  <2> HIDE DEF st
  <2>4. UNCHANGED <<deleted, spent, disk>> /\ Change(h, st, FALSE) /\ Goto(h, call[h])
    BY <2>3 DEF StoreCall, files
  <2>5. CopyOK(call[h], TRUE, st, logins, deleted)
    BY <1>t, <2>1, <2>2 DEF CopyOK, Kept, SameRow
  <2>6. After(made, logins, deleted, made', logins', deleted') /\ made' \in Made /\ logins' \in Logins
    BY <2>3, <2>4, AfterSame
  <2>7. StateOK(st, made', logins', deleted', spent) /\ LoginsOK(made', logins', spent)
    BY <1>m, <2>2, <2>3, <2>4
  <2> QED BY <2>2, <2>3, <2>4, <2>5, <2>6, <2>7, MainStore
<1>9. ASSUME NEW sid \in SecretId, NEW t \in Token, PostRule(h, sid, t) PROVE MainInv'
  <2> DEFINE c == [IdleCall EXCEPT !.op = "postRule", !.pc = "rule"]
             st == AddRule(mem, sid, t)
  <2>1. /\ Change(h, st, FALSE) /\ BeginWith(h, c) /\ UNCHANGED <<made, deleted>>
    BY <1>9 DEF PostRule
  <2>2. c.op = "postRule" /\ c.pc = "rule"
    BY DEF IdleCall
  <2>3. st \in State /\ StateOK(st, made, logins, deleted, spent) /\ Kept(mem, st, deleted)
    BY <1>t, <1>m, StatesTyped, RulesOK
  <2> HIDE DEF c, st
  <2>4. deleted.secrets \subseteq deleted'.secrets /\ deleted.rules \subseteq deleted'.rules
           /\ StateOK(st, made, logins, deleted', spent) /\ Kept(mem, st, deleted')
    BY <2>1, <2>3
  <2> QED BY <2>1, <2>2, <2>3, <2>4, MainRuleCall
<1>10. ASSUME NEW rule \in mem.rules, DeleteRule(h, rule) PROVE MainInv'
  <2> DEFINE c == [IdleCall EXCEPT !.op = "deleteRule", !.pc = "rule"]
  <2>1. PICK rest \in {mem.rules, mem.rules \ {rule}} :
           /\ Change(h, [mem EXCEPT !.rules = rest], FALSE)
           /\ deleted' = [deleted EXCEPT !.rules = @ \cup Unruled(mem, [mem EXCEPT !.rules = rest])]
    BY <1>10 DEF DeleteRule
  <2>2. BeginWith(h, c) /\ UNCHANGED made
    BY <1>10 DEF DeleteRule
  <2> DEFINE st == [mem EXCEPT !.rules = rest]
  <2>3. st \in State /\ st.rows = mem.rows /\ st.secrets = mem.secrets
    BY <1>t, StatesTyped DEF State
  <2>4. c.op = "deleteRule" /\ c.pc = "rule"
    BY DEF IdleCall
  <2>5. Change(h, st, FALSE) /\ deleted' = [deleted EXCEPT !.rules = @ \cup Unruled(mem, st)]
    BY <2>1
  <2> HIDE DEF c, st
  <2>6. deleted'.secrets = deleted.secrets /\ deleted'.rules = deleted.rules \cup Unruled(mem, st)
    BY <2>5 DEF TypeInv, BrokerTypeOK
  <2>7. StateOK(st, made, logins, deleted', spent) /\ Kept(mem, st, deleted')
    <3> DEFINE gone == {}
    <3>1. Live(st) = Live(mem) \ gone /\ \A i \in Live(st) : st.secrets[i] = mem.secrets[i]
      BY <2>3 DEF Live
    <3>2. /\ deleted.secrets \cup gone \subseteq deleted'.secrets
          /\ deleted.rules \cup Unruled(mem, st) \subseteq deleted'.rules
      BY <2>6
    <3>3. gone \in SUBSET SecretId
      OBVIOUS
    <3> HIDE DEF gone
    <3> QED BY <1>t, <1>m, <2>3, <3>1, <3>2, <3>3, DroppedOK
  <2>8. deleted.secrets \subseteq deleted'.secrets /\ deleted.rules \subseteq deleted'.rules
    BY <2>6
  <2> QED BY <2>2, <2>3, <2>4, <2>5, <2>7, <2>8, MainRuleCall
<1>11. ASSUME NEW t \in Token, resolveFailures(h, t) PROVE MainInv'
  <2> DEFINE found == {i \in Live(mem) : mem.secrets[i].tok = t}
             b == [IdleCall EXCEPT !.op = "resolve", !.tok = t]
  <2>1. ASSUME NEW c, Begin(h, c), c.op = "resolve",
               c.pc \in {"addSecret", "addRule", "setEnvKey"}
        PROVE  MainInv'
    <3>1. CopyOK(c, FALSE, mem, logins, deleted)
      BY <2>1 DEF CopyOK
    <3> QED BY <2>1, <3>1, MainBegin
  <2>2. CASE found = {}
    <3> DEFINE c == [b EXCEPT !.pc = "addSecret"]
    <3>1. Begin(h, c) /\ c.op = "resolve" /\ c.pc = "addSecret"
      BY <1>11, <2>2 DEF resolveFailures, IdleCall
    <3> HIDE DEF c
    <3> QED BY <2>1, <3>1
  <2>3. CASE found # {}
    <3> DEFINE sid == Earliest(found)
    <3>1. PICK pc \in {"addRule", "setEnvKey"} : Begin(h, [b EXCEPT !.pc = pc, !.sid = sid])
      BY <1>11, <2>3 DEF resolveFailures
    <3> DEFINE c == [b EXCEPT !.pc = pc, !.sid = sid]
    <3>2. Begin(h, c) /\ c.op = "resolve" /\ c.pc = pc
      BY <3>1 DEF IdleCall
    <3> HIDE DEF c
    <3> QED BY <2>1, <3>1, <3>2
  <2> QED BY <2>2, <2>3
<1>12. CASE SetEnvKey(h)
  <2> DEFINE sid == call[h].sid
             sec == [mem.secrets[sid] EXCEPT !.key = ImportKey]
             st == PutSecretAt(mem, sid, sec)
  <2>1. sid \in Live(mem) /\ call[h].pc = "setEnvKey"
    BY <1>12 DEF SetEnvKey, At
  <2>2. StoreCall(h, call[h], st, TRUE) /\ UNCHANGED <<made, logins>>
    BY <1>12 DEF SetEnvKey
  <2>3. mem.secrets[sid] \in Secret /\ sid \in SecretId
           /\ Belongs(mem, logins, mem.secrets[sid].value, sid)
    BY <1>t, <1>m, <2>1, EntriesTyped DEF StateOK
  <2> HIDE DEF sid
  <2>4. sec \in Secret /\ sec.value = mem.secrets[sid].value
    BY <2>3 DEF Secret
  <2> HIDE DEF sec
  <2>5. st \in State /\ StateOK(st, made, logins, deleted, spent) /\ Kept(mem, st, deleted)
           /\ st.rows = mem.rows
    BY <1>t, <1>m, <2>3, <2>4, StatesTyped, PutSecretOK
  <2> HIDE DEF st
  <2>6. UNCHANGED <<deleted, spent, disk>> /\ Change(h, st, TRUE) /\ Goto(h, call[h])
    BY <2>2 DEF StoreCall, files
  <2>7. CopyOK(call[h], TRUE, st, logins, deleted)
    BY <1>t, <2>1, <2>5 DEF CopyOK, Kept, SameRow
  <2>8. After(made, logins, deleted, made', logins', deleted') /\ made' \in Made /\ logins' \in Logins
    BY <2>2, <2>6, AfterSame
  <2>9. StateOK(st, made', logins', deleted', spent) /\ LoginsOK(made', logins', spent)
    BY <1>m, <2>2, <2>5, <2>6
  <2> QED BY <2>2, <2>5, <2>6, <2>7, <2>8, <2>9, MainStore
<1>13. CASE SetEnvKeyMissing(h)
  BY <1>13, MainAbandon DEF SetEnvKeyMissing
<1> QED BY <1>1, <1>2, <1>3, <1>4, <1>5, <1>6, <1>7, <1>8, <1>9, <1>10, <1>11, <1>12, <1>13

\* The writes of the lock holder: state.json takes over the memory.
LEMMA MainSave ==
    ASSUME TypeInv, MainInv, Save
    PROVE  MainInv'
<1>1. /\ SaveStep
      /\ UNCHANGED <<call, made, logins, spent, deleted>>
  BY DEF Save, history
<1>2. mem' = mem /\ io'.by = io.by /\ disk' \in {mem, disk}
  <2>1. io \in [by : Slot \cup {NoSlot}, step : {"free", "write", "rename", "env"},
                secret : BOOLEAN, left : SUBSET Slug]
    BY DEF TypeInv, BrokerTypeOK, VaultTypeOK
  <2>2. CASE WriteTmp
    BY <2>1, <2>2 DEF WriteTmp
  <2>3. CASE Rename
    <3>1. tmp = {mem}
      BY <2>3 DEF Rename, TypeInv, IoOK
    <3> QED BY <2>1, <2>3, <3>1 DEF Rename
  <2>4. ASSUME NEW slug \in Slug, WriteWorkerPlaceholdersEnv(slug)
        PROVE  mem' = mem /\ io'.by = io.by /\ disk' \in {mem, disk}
    BY <2>1, <2>4 DEF WriteWorkerPlaceholdersEnv
  <2> QED BY <1>1, <2>2, <2>3, <2>4 DEF SaveStep
<1> QED BY <1>1, <1>2 DEF MainInv

\* A handler goes on with what its store call left it.
LEMMA CopyAfterSave ==
    ASSUME NEW c \in Call, NEW st, NEW lg, NEW del, CopyOK(c, TRUE, st, lg, del), CallOK(c, TRUE),
           AfterSave(c) # "idle"
    PROVE  CopyOK([c EXCEPT !.pc = AfterSave(c)], FALSE, st, lg, del)
<1> DEFINE d == [c EXCEPT !.pc = AfterSave(c)]
<1>1. /\ d.op = c.op /\ d.ann = c.ann /\ d.tok = c.tok /\ d.sid = c.sid /\ d.sec = c.sec
      /\ d.row = c.row /\ d.rid = c.rid /\ d.login = c.login /\ d.pc = AfterSave(c)
  BY DEF Call
<1> HIDE DEF d
<1>2. AfterSave(c) = "register" => c.pc = "discover"
  BY DEF AfterSave
<1>3. AfterSave(c) # "discover" /\ AfterSave(c) # "replace"
  BY DEF AfterSave
<1>4. c.op = "announce" /\ AfterSave(c) \in {"syncRules", "upsert"} => c.pc \in {"addSecret", "syncRules"}
  BY DEF AfterSave
<1>5. AfterSave(c) = "upsert" => c.pc = "syncRules"
  BY DEF AfterSave
<1>6. CopyOK(d, FALSE, st, lg, del)
  BY <1>1, <1>2, <1>3, <1>4, <1>5 DEF CopyOK
<1> QED BY <1>6 DEF d

\* The store call returns nil.  The state of a login that completes is in no row: it was only
\* ever in the row the callback has just emptied.
LEMMA MainReturns ==
    ASSUME TypeInv, MainInv, SaveReturns
    PROVE  MainInv'
<1> DEFINE h == io.by
           c == call[h]
           d == IF AfterSave(c) = "idle" THEN IdleCall ELSE [c EXCEPT !.pc = AfterSave(c)]
<1>1. io.step = "env" /\ io' = NoIo /\ h \in Slot /\ disk = mem
  BY DEF SaveReturns, Saved, TypeInv, IoOK, NoIo
<1>2. c \in Call /\ CallOK(c, TRUE) /\ CopyOK(c, TRUE, mem, logins, deleted)
  <2>1. c \in Call /\ CallOK(c, io.by = h) /\ CopyOK(c, io.by = h, mem, logins, deleted)
    BY <1>1, MainTypes DEF MainInv
  <2> QED BY <2>1
<1>3. CopyOK(d, FALSE, mem, logins, deleted)
  <2> HIDE DEF c
  <2> QED BY <1>2, CopyAfterSave, IdleCopy
<1>4. /\ Goto(h, d)
      /\ spent' = (IF c.pc = "settle" /\ c.op = "callback" THEN spent \cup {c.login} ELSE spent)
      /\ UNCHANGED <<mem, disk, made, logins, deleted>>
  BY DEF SaveReturns, files
<1> HIDE DEF d, c, h
<1>5. StateOK(mem, made, logins, deleted, spent) /\ LoginsOK(made, logins, spent)
  BY DEF MainInv
<1>6. StateOK(mem, made, logins, deleted, spent') /\ LoginsOK(made, logins, spent')
  <2>1. CASE ~(c.pc = "settle" /\ c.op = "callback")
    BY <2>1, <1>4, <1>5
  <2>2. CASE c.pc = "settle" /\ c.op = "callback"
    <3> DEFINE n == c.login
    <3>1. n \in Login /\ logins[n].rid = c.rid /\ c.rid \in Rows(mem) /\ mem.rows[c.rid].state = 0
      BY <2>2, <1>2 DEF CopyOK, CallOK, SameRow
    <3>2. spent' = spent \cup {n}
      BY <2>2, <1>4
    <3> HIDE DEF n
    <3>3. n <= made.logins
      <4>1. c.rid # 0
        BY <3>1, MainTypes, EntriesTyped DEF RowId
      <4>2. n \in Nat /\ made.logins \in Nat
        BY <3>1, MainTypes DEF Login, Made
      <4> QED BY <3>1, <4>1, <4>2, <1>5 DEF LoginsOK
    <3>4. n # 0
      BY <3>1 DEF Login
    <3>5. ASSUME NEW i \in Rows(mem), RowOK(mem, i, made, logins, deleted, spent)
          PROVE  RowOK(mem, i, made, logins, deleted, spent')
      BY <3>1, <3>2, <3>4, <3>5 DEF RowOK
    <3> QED BY <1>5, <3>2, <3>3, <3>5 DEF StateOK, LoginsOK
  <2> QED BY <2>1, <2>2
<1>7. ASSUME NEW g \in Slot PROVE CopyOK(call'[g], io'.by = g, mem', logins', deleted')
  <2>1. (io'.by = g) = FALSE
    BY <1>1 DEF NoIo
  <2>2. call'[g] = IF g = h THEN d ELSE call[g]
    BY <1>4, MainTypes DEF Goto
  <2>3. CASE g = h
    BY <2>1, <2>2, <2>3, <1>3, <1>4
  <2>4. CASE g # h
    <3>1. (io.by = g) = FALSE
      BY <2>4 DEF h
    <3>2. CopyOK(call[g], io.by = g, mem, logins, deleted)
      BY DEF MainInv
    <3>3. CopyOK(call[g], FALSE, mem, logins, deleted)
      BY <3>1, <3>2
    <3> QED BY <2>1, <2>2, <2>4, <3>3, <1>4
  <2> QED BY <2>3, <2>4
<1> QED BY <1>1, <1>4, <1>6, <1>7 DEF MainInv

\* A failed write ends the call; a crash ends all and goes back to state.json.
LEMMA MainFaults ==
    ASSUME TypeInv, MainInv,
           SaveError \/ Crash \/ (\E slug \in Slug : Up(slug)) \/ \E a \in Ann : AnnounceAgain(a)
    PROVE  MainInv'
<1>1. CASE SaveError
  <2>1. /\ io' = NoIo /\ Goto(io.by, IdleCall)
        /\ UNCHANGED <<mem, disk, made, logins, spent, deleted>>
    BY <1>1 DEF SaveError, SaveFails, history
  <2>2. ASSUME NEW g \in Slot PROVE CopyOK(call'[g], io'.by = g, mem', logins', deleted')
    <3>1. (io'.by = g) = FALSE
      BY <2>1 DEF NoIo
    <3>2. call'[g] = IF g = io.by THEN IdleCall ELSE call[g]
      BY <2>1, MainTypes DEF Goto
    <3>3. CASE g = io.by
      BY <3>2, <3>3, IdleCopy
    <3>4. CASE g # io.by
      <4>1. (io.by = g) = FALSE
        BY <3>4
      <4>2. CopyOK(call[g], io.by = g, mem, logins, deleted)
        BY DEF MainInv
      <4>3. CopyOK(call[g], FALSE, mem, logins, deleted)
        BY <4>1, <4>2
      <4> QED BY <2>1, <3>1, <3>2, <3>4, <4>3
    <3> QED BY <3>3, <3>4
  <2> QED BY <2>1, <2>2 DEF MainInv
<1>2. CASE Crash
  <2>1. /\ mem' = disk /\ disk' = disk /\ UNCHANGED <<made, logins, spent, deleted>>
        /\ call' = [h \in Slot |-> IdleCall]
    BY <1>2 DEF Crash, Reload, history
  <2>2. \A g \in Slot : CopyOK(call'[g], io'.by = g, mem', logins', deleted')
    BY <2>1, IdleCopy
  <2> QED BY <2>1, <2>2 DEF MainInv
<1>3. ASSUME NEW slug \in Slug, Up(slug) PROVE MainInv'
  BY <1>3 DEF Up, EnsureWorkerPlaceholdersEnv, history, MainInv
<1>4. ASSUME NEW a \in Ann, AnnounceAgain(a) PROVE MainInv'
  BY <1>4 DEF AnnounceAgain, files, MainInv
<1> QED BY <1>1, <1>2, <1>3, <1>4

\* Every step keeps rows, tokens and copies right.
LEMMA MainStep == TypeInv /\ MainInv /\ [Next]_vars => MainInv'
<1> SUFFICES ASSUME TypeInv, MainInv, [Next]_vars PROVE MainInv'
  OBVIOUS
<1>1. CASE UNCHANGED vars
  BY <1>1 DEF vars, files, history, MainInv
<1>2. ASSUME NEW h \in Slot, NewCall(h) \/ CallStep(h) PROVE MainInv'
  BY <1>2, MainAnnounce, MainLogin, MainCallback, MainOthers, MainFaults DEF NewCall, CallStep
<1>3. CASE Save \/ SaveReturns \/ SaveError \/ Crash \/ \E slug \in Slug : Up(slug)
  BY <1>3, MainSave, MainReturns, MainFaults
<1> QED BY <1>1, <1>2, <1>3 DEF Next

\* The invariant the theorems below rest on.
THEOREM MainHolds == Spec => [](TypeInv /\ MainInv)
BY TypeInit, TypeStep, MainInit, MainStep, PTL DEF Spec

\* One row for each server, whatever announcements, failures and crashes interleave.
THEOREM RowsUniqueHolds == Spec => []RowsUnique
<1>1. MainInv => RowsUnique
  BY DEF MainInv, StateOK, Unique, RowsUnique
<1> QED BY <1>1, MainHolds, PTL

\* No row without its secret and a rule of its placeholder, in memory and in state.json, but for
\* what a DELETE of a secret or of a rule took.
THEOREM RowsWholeHolds == Spec => []RowsWhole
<1>1. MainInv => RowsWhole
  BY DEF MainInv, StateOK, RowOK, RowsWhole
<1> QED BY <1>1, MainHolds, PTL

\* The token of a login is in the secret of the row the login began with and in no other.
THEOREM TokenInItsSecretHolds == Spec => []TokenInItsSecret
<1>1. MainInv => TokenInItsSecret
  BY DEF MainInv, StateOK, Belongs, TokenInItsSecret
<1> QED BY <1>1, MainHolds, PTL

\* The state of a completed login never comes back into a row.
THEOREM SpentStateGoneHolds == Spec => []SpentStateGone
<1>1. TypeInv /\ MainInv => SpentStateGone
  <2> SUFFICES ASSUME TypeInv, MainInv, NEW st \in {mem, disk}, NEW i \in Rows(st),
                      st.rows[i].state \in spent
               PROVE  FALSE
    BY DEF SpentStateGone
  <2>1. st.rows[i].state # 0
    BY DEF TypeInv, BrokerTypeOK, Login
  <2>2. RowOK(st, i, made, logins, deleted, spent)
    BY DEF MainInv, StateOK
  <2> QED BY <2>1, <2>2 DEF RowOK
<1> QED BY <1>1, MainHolds, PTL

-----------------------------------------------------------------------------
(* The env files.                                                           *)

\* A changed secret is not in state.json yet.
Unsaved == io.secret /\ io.step \in {"write", "rename"}

Render(st, slug) == RenderPlaceholdersEnvForWorker(st, slug)

\* The file of a directory nothing left behind shows state.json until a changed secret is saved,
\* and the memory from the moment it is written again.
EnvInv ==
    /\ ~io.secret \/ io.step # "env" => io.left = {}
    /\ \A slug \in dirs \ behind :
          /\ Unsaved \/ mem.secrets = disk.secrets
          /\ Unsaved => env[slug] = Render(disk, slug)
          /\ Unsaved \/ slug \in io.left \/ env[slug] = Render(mem, slug)

\* An env file shows the secrets and nothing else.
LEMMA RenderSame ==
    \A st, st2, slug : st.secrets = st2.secrets => Render(st, slug) = Render(st2, slug)
BY DEF Render, RenderPlaceholdersEnvForWorker, Live

\* Steps that touch no secret and no file.
LEMMA EnvSame ==
    ASSUME EnvInv, UNCHANGED <<mem, disk, dirs, env, io, behind>>
    PROVE  EnvInv'
BY DEF EnvInv, Unsaved, Render

\* A store call says that a secret changes when one does.
LEMMA EnvStore ==
    ASSUME EnvInv, NEW h, NEW st, NEW secret \in BOOLEAN, Change(h, st, secret),
           secret \/ st.secrets = mem.secrets, UNCHANGED <<disk, dirs, env, behind>>
    PROVE  EnvInv'
<1>1. io = NoIo /\ mem' = st /\ io'.secret = secret /\ io'.step = "write" /\ io'.left = {}
  BY DEF Change
<1>2. io.secret = FALSE /\ io.left = {} /\ ~Unsaved
  BY <1>1 DEF NoIo, Unsaved
<1>3. Unsaved' <=> secret
  BY <1>1 DEF Unsaved
<1>4. ASSUME NEW slug \in dirs \ behind
      PROVE  /\ secret \/ st.secrets = disk.secrets
             /\ secret => env[slug] = Render(disk, slug)
             /\ secret \/ env[slug] = Render(st, slug)
  <2>1. mem.secrets = disk.secrets /\ env[slug] = Render(mem, slug)
    BY <1>2 DEF EnvInv
  <2> QED BY <2>1, RenderSame
<1>5. io'.left = {}
  BY <1>1
<1>6. \A slug \in dirs' \ behind' :
          /\ Unsaved' \/ mem'.secrets = disk'.secrets
          /\ Unsaved' => env'[slug] = Render(disk', slug)
          /\ Unsaved' \/ slug \in io'.left \/ env'[slug] = Render(mem', slug)
  BY <1>1, <1>3, <1>4
<1> QED BY <1>5, <1>6 DEF EnvInv, Render

\* Every store call.
LEMMA EnvCalls ==
    ASSUME TypeInv, MainInv, EnvInv, NEW h \in Slot, NewCall(h) \/ CallStep(h)
    PROVE  EnvInv'
<1>t. mem \in State /\ call[h] \in Call /\ CallOK(call[h], io.by = h)
  BY MainTypes
<1>1. ASSUME NEW c, NEW st, NEW secret \in BOOLEAN, StoreCall(h, c, st, secret),
             secret \/ st.secrets = mem.secrets
      PROVE  EnvInv'
  BY <1>1, EnvStore DEF StoreCall, files
<1>2. ASSUME NEW c, NEW st, NEW secret \in BOOLEAN, Change(h, st, secret), BeginWith(h, c),
             secret \/ st.secrets = mem.secrets
      PROVE  EnvInv'
  BY <1>2, EnvStore DEF BeginWith, files
<1>3. ASSUME NEW c, Begin(h, c) PROVE EnvInv'
  BY <1>3, EnvSame DEF Begin, files
<1>4. ASSUME ReadOnly PROVE EnvInv'
  BY <1>4, EnvSame DEF ReadOnly, files
<1>5. \A i, row : PutRowAt(mem, i, row).secrets = mem.secrets
  BY <1>t DEF PutRowAt, State
<1>6. \A i, t : /\ SyncRulesForSecret(mem, i, t).secrets = mem.secrets
                /\ AddRule(mem, i, t).secrets = mem.secrets
  BY <1>t DEF SyncRulesForSecret, AddRule, State
<1>7. CASE NewCall(h)
  <2>1. ASSUME NEW a \in Ann, Announce(h, a) \/ AnnounceAgain(a) PROVE EnvInv'
    BY <2>1, <1>3, EnvSame DEF Announce, AnnounceAgain, files
  <2>2. ASSUME NEW rid \in RowId, Authorize(h, rid) \/ Revoke(h, rid) PROVE EnvInv'
    BY <2>2, <1>3 DEF Authorize, Revoke
  <2>3. ASSUME NEW n \in Login, Callback(h, n) PROVE EnvInv'
    BY <2>3, <1>3 DEF Callback
  <2>4. ASSUME NEW t \in Token, PostSecret(h, t) PROVE EnvInv'
    BY <2>4, <1>2 DEF PostSecret
  <2>5. ASSUME NEW sid \in SecretId, PutSecret(h, sid) PROVE EnvInv'
    BY <2>5, <1>3 DEF PutSecret
  <2>6. ASSUME NEW sid \in SecretId, DeleteSecret(h, sid) PROVE EnvInv'
    BY <2>6, <1>2 DEF DeleteSecret, Delete
  <2>7. CASE importPiKeys(h)
    BY <2>7, <1>3 DEF importPiKeys
  <2>8. ASSUME NEW sid \in SecretId, NEW t \in Token, PostRule(h, sid, t) PROVE EnvInv'
    BY <2>8, <1>2, <1>6 DEF PostRule
  <2>9. ASSUME NEW rule \in mem.rules, DeleteRule(h, rule) PROVE EnvInv'
    <3>1. PICK rest : Change(h, [mem EXCEPT !.rules = rest], FALSE)
      BY <2>9 DEF DeleteRule
    <3>2. [mem EXCEPT !.rules = rest].secrets = mem.secrets
      BY <1>t DEF State
    <3> QED BY <2>9, <3>1, <3>2, <1>2 DEF DeleteRule
  <2>10. ASSUME NEW t \in Token, resolveFailures(h, t) PROVE EnvInv'
    BY <2>10, <1>3 DEF resolveFailures
  <2> QED BY <1>7, <2>1, <2>2, <2>3, <2>4, <2>5, <2>6, <2>7, <2>8, <2>9, <2>10 DEF NewCall
<1>8. CASE CallStep(h)
  <2>1. CASE mintMCPPlaceholder(h) \/ LoadSecret(h) \/ ImportHasRule(h)
    BY <2>1, <1>4 DEF mintMCPPlaceholder, LoadSecret, ImportHasRule
  <2>2. CASE NetworkFails(h) \/ ReplaceMissing(h) \/ SetEnvKeyMissing(h)
    BY <2>2, <1>4 DEF NetworkFails, ReplaceMissing, SetEnvKeyMissing, Abandon
  <2>3. CASE AddSecret(h)
    BY <2>3, <1>1 DEF AddSecret
  <2>4. CASE ReplaceSecret(h) \/ SetEnvKey(h)
    BY <2>4, <1>1 DEF ReplaceSecret, SetEnvKey
  <2>5. CASE SyncRules(h)
    BY <2>5, <1>1, <1>6 DEF SyncRules
  <2>6. CASE AddRuleLast(h)
    BY <2>6, <1>1, <1>6 DEF AddRuleLast
  <2>7. CASE UpsertMcpServer(h)
    <3>1. CASE FindMcp(mem, call[h].ann) = {}
      <4>1. StoreCall(h, call[h], PutRowAt(mem, made.rows + 1, NewRow(call[h])), FALSE)
        BY <2>7, <3>1 DEF UpsertMcpServer
      <4> QED BY <4>1, <1>1, <1>5
    <3>2. CASE FindMcp(mem, call[h].ann) # {}
      <4>1. StoreCall(h, [call[h] EXCEPT !.tok = mem.rows[Earliest(FindMcp(mem, call[h].ann))].tok],
                      mem, FALSE)
        BY <2>7, <3>2 DEF UpsertMcpServer
      <4> QED BY <4>1, <1>1
    <3> QED BY <3>1, <3>2
  <2>8. ASSUME NEW row, ReplaceMcpServer(h, row) PROVE EnvInv'
    <3> DEFINE c == [call[h] EXCEPT !.row = row]
               st == PutRowAt(mem, call[h].rid, row)
    <3>1. StoreCall(h, c, st, FALSE) /\ st.secrets = mem.secrets
      BY <2>8, <1>5 DEF ReplaceMcpServer
    <3> HIDE DEF c, st
    <3> QED BY <3>1, <1>1
  <2>9. CASE discoverMCPOAuth(h) \/ registerMCPClient(h) \/ applyMCPTokens(h) \/ handleRevokeMCP(h)
    BY <2>9, <2>8 DEF discoverMCPOAuth, registerMCPClient, applyMCPTokens, handleRevokeMCP
  <2>10. CASE startMCPOAuth(h)
    BY <2>10, <1>5, EnvStore DEF startMCPOAuth, files
  <2>11. CASE exchangeMCPCode(h)
    BY <2>11, EnvSame DEF exchangeMCPCode, files
  <2> QED BY <1>8, <2>1, <2>2, <2>3, <2>4, <2>5, <2>6, <2>7, <2>9, <2>10, <2>11 DEF CallStep
<1> QED BY <1>7, <1>8

\* The lock holder's writes and its return.
LEMMA EnvSave ==
    ASSUME TypeInv, EnvInv, Save \/ SaveReturns
    PROVE  EnvInv'
<1>t. /\ io \in [by : Slot \cup {NoSlot}, step : {"free", "write", "rename", "env"},
                 secret : BOOLEAN, left : SUBSET Slug]
      /\ env \in [Slug -> SUBSET ((Token \cup {ImportKey}) \X Token)]
      /\ dirs \subseteq Slug /\ IoOK
  BY DEF TypeInv, BrokerTypeOK, VaultTypeOK
<1>1. CASE Save /\ WriteTmp
  <2>1. /\ io.step = "write" /\ io'.step = "rename" /\ io'.secret = io.secret /\ io'.left = io.left
        /\ UNCHANGED <<mem, disk, dirs, env>>
    BY <1>1, <1>t DEF WriteTmp
  <2>2. io.left = {} /\ behind' = behind
    BY <1>1, <2>1 DEF EnvInv, Save
  <2>3. Unsaved' <=> Unsaved
    BY <2>1 DEF Unsaved
  <2> QED BY <2>1, <2>2, <2>3 DEF EnvInv, Render
<1>2. CASE Save /\ Rename
  <2>1. /\ io.step = "rename" /\ io'.step = "env" /\ io'.secret = io.secret
        /\ io'.left = (IF io.secret THEN dirs ELSE {})
        /\ UNCHANGED <<mem, dirs, env>>
    BY <1>2, <1>t DEF Rename
  <2>2. disk' = mem
    BY <1>2, <2>1, <1>t DEF Rename, IoOK
  <2>3. io.left = {} /\ behind' = behind
    BY <1>2, <2>1 DEF EnvInv, Save
  <2>4. ~Unsaved' /\ (Unsaved <=> io.secret)
    BY <2>1 DEF Unsaved
  <2>5. \A slug \in dirs \ behind : slug \in io'.left \/ env[slug] = Render(mem, slug)
    BY <2>1, <2>3, <2>4 DEF EnvInv
  <2>6. ~io'.secret => io'.left = {}
    BY <2>1
  <2> QED BY <2>1, <2>2, <2>3, <2>4, <2>5, <2>6 DEF EnvInv, Render
<1>3. ASSUME NEW s \in Slug, Save, WriteWorkerPlaceholdersEnv(s) PROVE EnvInv'
  <2>1. /\ io.step = "env" /\ io'.step = "env" /\ io'.secret = io.secret /\ s \in io.left
        /\ io'.left = io.left \ {s} /\ UNCHANGED <<mem, disk, dirs>>
    BY <1>3, <1>t DEF WriteWorkerPlaceholdersEnv
  <2>2. env'[s] = Render(mem, s) /\ \A slug \in Slug : slug # s => env'[slug] = env[slug]
    BY <1>3, <1>t DEF WriteWorkerPlaceholdersEnv, Render
  <2>3. behind' = behind \ {s}
    BY <1>3, <2>1 DEF Save
  <2>4. ~Unsaved' /\ ~Unsaved /\ disk = mem
    BY <2>1, <1>t DEF Unsaved, IoOK
  <2>5. \A slug \in dirs' \ behind' : slug \in io'.left \/ env'[slug] = Render(mem, slug)
    BY <1>t, <2>1, <2>2, <2>3, <2>4 DEF EnvInv
  <2>6. ~io'.secret => io'.left = {}
    BY <2>1 DEF EnvInv
  <2> QED BY <2>1, <2>4, <2>5, <2>6 DEF EnvInv, Render
<1>4. CASE SaveReturns
  <2>1. io.step = "env" /\ io.left = {} /\ io' = NoIo /\ UNCHANGED <<mem, disk, dirs, env, behind>>
    BY <1>4 DEF SaveReturns, Saved, files
  <2>2. ~Unsaved /\ ~Unsaved' /\ io'.left = {}
    BY <2>1 DEF Unsaved, NoIo
  <2> QED BY <2>1, <2>2 DEF EnvInv, Render
<1> QED BY <1>1, <1>2, <1>3, <1>4 DEF Save, SaveStep

\* What a failure, a crash or a late start cut short is behind.
LEMMA EnvFaults ==
    ASSUME TypeInv, EnvInv, SaveError \/ Crash \/ \E slug \in Slug : Up(slug)
    PROVE  EnvInv'
<1>t. /\ io \in [by : Slot \cup {NoSlot}, step : {"free", "write", "rename", "env"},
                 secret : BOOLEAN, left : SUBSET Slug]
      /\ env \in [Slug -> SUBSET ((Token \cup {ImportKey}) \X Token)]
      /\ dirs \subseteq Slug /\ IoOK
  BY DEF TypeInv, BrokerTypeOK, VaultTypeOK
<1>1. CASE SaveError
  <2>1. /\ io' = NoIo /\ UNCHANGED <<mem, disk, dirs, env>> /\ io.step \in {"write", "rename", "env"}
        /\ behind' = behind \cup (IF ~io.secret THEN {} ELSE IF io.step = "env" THEN io.left ELSE dirs)
    BY <1>1, <1>t DEF SaveError, SaveFails, IoOK, NoIo, EnvInv
  <2>2. ~Unsaved' /\ io'.left = {}
    BY <2>1 DEF Unsaved, NoIo
  <2>3. ASSUME NEW slug \in dirs \ behind'
        PROVE  mem.secrets = disk.secrets /\ env[slug] = Render(mem, slug)
    <3>1. slug \in dirs \ behind
      BY <2>1
    <3>2. ~Unsaved /\ slug \notin io.left
      BY <2>1, <2>3 DEF Unsaved, EnvInv
    <3> QED BY <3>1, <3>2 DEF EnvInv
  <2> QED BY <2>1, <2>2, <2>3 DEF EnvInv, Render
<1>2. CASE Crash
  <2>1. /\ io' = NoIo /\ mem' = disk /\ UNCHANGED <<disk, dirs, env>> /\ behind' = behind \cup io.left
    BY <1>2 DEF Crash, Reload
  <2>2. ~Unsaved' /\ io'.left = {}
    BY <2>1 DEF Unsaved, NoIo
  <2>3. ASSUME NEW slug \in dirs \ behind' PROVE env[slug] = Render(disk, slug)
    <3>1. slug \in dirs \ behind /\ slug \notin io.left
      BY <2>1
    <3> QED BY <3>1, RenderSame DEF EnvInv
  <2> QED BY <2>1, <2>2, <2>3 DEF EnvInv, Render
<1>3. ASSUME NEW s \in Slug, Up(s) PROVE EnvInv'
  <2>1. /\ s \notin dirs /\ dirs' = dirs \cup {s} /\ behind' = behind \cup {s}
        /\ UNCHANGED <<mem, disk, io>> /\ \A slug \in Slug : slug # s => env'[slug] = env[slug]
    BY <1>3, <1>t DEF Up, EnsureWorkerPlaceholdersEnv
  <2>2. \A slug \in dirs' \ behind' : slug \in dirs \ behind /\ env'[slug] = env[slug]
    BY <1>t, <2>1
  <2>3. Unsaved' <=> Unsaved
    BY <2>1 DEF Unsaved
  <2> QED BY <2>1, <2>2, <2>3 DEF EnvInv, Render
<1> QED BY <1>1, <1>2, <1>3

\* Between two store calls every env file that nothing cut short shows the vault.
THEOREM EnvShowsVaultHolds == Spec => []EnvShowsVault
<1>1. Init => EnvInv
  BY DEF Init, VaultInit, NoIo, EnvInv
<1>2. TypeInv /\ MainInv /\ EnvInv /\ [Next]_vars => EnvInv'
  <2> SUFFICES ASSUME TypeInv, MainInv, EnvInv, [Next]_vars PROVE EnvInv'
    OBVIOUS
  <2>1. CASE UNCHANGED vars
    BY <2>1, EnvSame DEF vars, files
  <2>2. ASSUME NEW h \in Slot, NewCall(h) \/ CallStep(h) PROVE EnvInv'
    BY <2>2, EnvCalls
  <2>3. CASE Save \/ SaveReturns \/ SaveError \/ Crash \/ \E slug \in Slug : Up(slug)
    BY <2>3, EnvSave, EnvFaults
  <2> QED BY <2>1, <2>2, <2>3 DEF Next
<1>3. EnvInv => EnvShowsVault
  BY DEF EnvInv, EnvShowsVault, Unsaved, NoIo, Render
<1> QED BY <1>1, <1>2, <1>3, MainHolds, PTL DEF Spec

-----------------------------------------------------------------------------
(* The broker keeps the answer book.                                        *)

\* The answer depends on the announcement and the placeholder of each row.
LEMMA ToldSame ==
    ASSUME NEW st \in State, NEW st2 \in State, Rows(st2) = Rows(st),
           \A i \in Rows(st) : st2.rows[i].ann = st.rows[i].ann /\ st2.rows[i].tok = st.rows[i].tok
    PROVE  Told(st2) = Told(st)
<1>1. \A a : FindMcp(st2, a) = FindMcp(st, a)
  BY DEF FindMcp
<1>2. ASSUME NEW a \in Ann, FindMcp(st, a) # {}
      PROVE  st2.rows[Earliest(FindMcp(st, a))].tok = st.rows[Earliest(FindMcp(st, a))].tok
  BY <1>2, FoundIn
<1> QED BY <1>1, <1>2 DEF Told

\* A copy written back over the row it was read from.
LEMMA ToldPutRow ==
    ASSUME NEW st \in State, NEW i, NEW row \in Row, SameRow(st, i, row)
    PROVE  Told(PutRowAt(st, i, row)) = Told(st)
<1> DEFINE st2 == PutRowAt(st, i, row)
<1>1. st2 \in State
  BY StatesTyped
<1>2. i \in RowId /\ i \in Rows(st)
  BY EntriesTyped DEF SameRow
<1>3. Rows(st2) = Rows(st) /\ \A j \in RowId : st2.rows[j] = IF j = i THEN row ELSE st.rows[j]
  <2>1. Rows(st2) = Rows(st) \cup {i} /\ \A j \in RowId : st2.rows[j] = IF j = i THEN row ELSE st.rows[j]
    BY <1>2, PutRowParts
  <2> QED BY <2>1, <1>2
<1> HIDE DEF st2
<1>4. \A j \in Rows(st) : st2.rows[j].ann = st.rows[j].ann /\ st2.rows[j].tok = st.rows[j].tok
  BY <1>3, EntriesTyped DEF SameRow
<1>5. Told(st2) = Told(st)
  BY <1>1, <1>3, <1>4, ToldSame
<1> QED BY <1>5 DEF st2

\* Secrets and rules do not change the answers.
LEMMA ToldOthers ==
    ASSUME NEW st \in State, NEW st2 \in State, st2.rows = st.rows
    PROVE  Told(st2) = Told(st)
BY ToldSame DEF Rows

\* A new row answers the announcements it is for that have no answer yet: it comes after all
\* others.
LEMMA ToldNewRow ==
    ASSUME NEW st \in State, NEW i \in RowId, \A j \in Rows(st) : j < i, NEW row \in Row
    PROVE  Told(PutRowAt(st, i, row)) =
             [a \in Ann |-> IF Told(st)[a] = NoToken /\ row.ann \in Same[a] THEN row.tok
                            ELSE Told(st)[a]]
<1> DEFINE st2 == PutRowAt(st, i, row)
<1>1. st2 \in State
  BY StatesTyped
<1>2. Rows(st2) = Rows(st) \cup {i} /\ \A j \in RowId : st2.rows[j] = IF j = i THEN row ELSE st.rows[j]
  BY PutRowParts
<1> HIDE DEF st2
<1>3. st2.rows[i] = row /\ \A j \in Rows(st) : j \in RowId /\ j \in Nat /\ j # i /\ st2.rows[j] = st.rows[j]
                                                 /\ st.rows[j] \in Row
  BY <1>2, EntriesTyped DEF RowId
<1>4. i \in Nat
  BY DEF RowId
<1>5. ASSUME NEW a \in Ann
      PROVE  Told(st2)[a] = IF Told(st)[a] = NoToken /\ row.ann \in Same[a] THEN row.tok
                            ELSE Told(st)[a]
  <2> DEFINE F == FindMcp(st, a)
             F2 == FindMcp(st2, a)
  <2>1. F2 = F \cup (IF row.ann \in Same[a] THEN {i} ELSE {})
    BY <1>2, <1>3 DEF FindMcp
  <2>2. F \subseteq Rows(st)
    BY DEF FindMcp
  <2>3. Told(st)[a] = (IF F = {} THEN NoToken ELSE st.rows[Earliest(F)].tok)
           /\ Told(st2)[a] = (IF F2 = {} THEN NoToken ELSE st2.rows[Earliest(F2)].tok)
    BY DEF Told
  <2>4. F # {} => Earliest(F) \in F /\ \A j \in F : Earliest(F) <= j
    BY FoundIn
  <2>5. F2 # {} => Earliest(F2) \in F2 /\ \A j \in F2 : Earliest(F2) <= j
    BY <1>1, FoundIn
  <2> HIDE DEF F, F2
  <2>6. CASE F = {}
    <3>1. CASE row.ann \in Same[a]
      <4>1. F2 = {i}
        BY <2>1, <2>6, <3>1
      <4>2. Earliest(F2) = i
        BY <4>1, <2>5
      <4> QED BY <2>3, <2>6, <3>1, <4>1, <4>2, <1>3
    <3>2. CASE row.ann \notin Same[a]
      BY <2>1, <2>3, <2>6, <3>2
    <3> QED BY <3>1, <3>2
  <2>7. CASE F # {}
    <3> DEFINE e == Earliest(F)
               e2 == Earliest(F2)
    <3>1. e \in F /\ e \in Rows(st) /\ \A j \in F : e <= j
      BY <2>2, <2>4, <2>7
    <3>2. e2 \in F2 /\ \A j \in F2 : e2 <= j
      BY <2>1, <2>5, <3>1
    <3> HIDE DEF e, e2
    <3>3. e2 <= e /\ e \in Nat /\ e < i
      BY <2>1, <3>1, <3>2, <1>3
    <3>4. e2 \in F
      <4>1. e2 # i
        BY <3>3, <1>4
      <4> QED BY <2>1, <3>2, <4>1
    <3>5. e2 = e
      <4>1. e <= e2 /\ e2 \in Nat
        BY <3>1, <3>4, <2>2, <1>3
      <4> QED BY <3>3, <4>1
    <3>6. st2.rows[e] = st.rows[e] /\ st.rows[e] \in Row
      BY <3>1, <1>3
    <3>7. st.rows[e].tok # NoToken
      BY <3>6 DEF Row
    <3>8. F2 # {}
      BY <3>2
    <3>9. Told(st)[a] = st.rows[e].tok /\ Told(st2)[a] = st.rows[e].tok
      BY <2>3, <2>7, <3>5, <3>6, <3>8 DEF e, e2
    <3> QED BY <3>7, <3>9
  <2> QED BY <2>6, <2>7
<1>6. Told(st2) = [a \in Ann |-> Told(st2)[a]]
  BY DEF Told
<1>7. Told(st2) = [a \in Ann |-> IF Told(st)[a] = NoToken /\ row.ann \in Same[a] THEN row.tok
                                ELSE Told(st)[a]]
  BY <1>5, <1>6
<1> QED BY <1>7 DEF st2

\* No answer is given and none changes.
LEMMA BookSame ==
    ASSUME Told(mem') = Told(mem), UNCHANGED <<disk, answered>>
    PROVE  [Book!Next]_(Book!book)
BY DEF Book!book, Told

\* An answer is the one in the book.
LEMMA BookAnswer ==
    ASSUME UNCHANGED <<mem, disk>>, NEW a \in Ann, Told(mem)[a] # NoToken,
           answered' = answered \cup {<<a, Told(mem)[a]>>}
    PROVE  [Book!Next]_(Book!book)
<1>1. Book!Answer
  BY DEF Book!Answer
<1> QED BY <1>1 DEF Book!Next

\* A call's step is a step of the answer book or none at all.
LEMMA BookCalls ==
    ASSUME TypeInv, MainInv, NEW h \in Slot, NewCall(h) \/ CallStep(h)
    PROVE  [Book!Next]_(Book!book)
<1>t. call[h] \in Call /\ CopyOK(call[h], io.by = h, mem, logins, deleted) /\ mem \in State
         /\ CallOK(call[h], io.by = h) /\ made \in Made /\ mem' \in State
  <2>1. mem' \in State
    BY TypeStep DEF Next, TypeInv, BrokerTypeOK, VaultTypeOK
  <2> QED BY <2>1, MainTypes DEF MainInv
<1> DEFINE Goal == [Book!Next]_(Book!book)
<1> SUFFICES Goal
  OBVIOUS
<1>1. ASSUME UNCHANGED <<mem, disk, answered>> PROVE Goal
  BY <1>1, BookSame
<1>2. ASSUME mem'.rows = mem.rows, UNCHANGED <<disk, answered>> PROVE Goal
  BY <1>2, <1>t, ToldOthers, BookSame
<1>3. ASSUME NEW row \in Row, SameRow(mem, call[h].rid, row), UNCHANGED <<disk, answered>>,
             mem' = PutRowAt(mem, call[h].rid, row)
      PROVE  Goal
  BY <1>3, <1>t, ToldPutRow, BookSame
<1> HIDE DEF Goal
<1>4. ASSUME NEW c, Begin(h, c) PROVE Goal
  BY <1>4, <1>1 DEF Begin, files, history
<1>5. ASSUME ReadOnly PROVE Goal
  BY <1>5, <1>1 DEF ReadOnly, files, history
<1>6. ASSUME NEW row \in Row, ReplaceMcpServer(h, row), row.ann = call[h].row.ann,
             row.sid = call[h].row.sid, row.tok = call[h].row.tok,
             call[h].op \in {"authorize", "callback", "revoke"}
      PROVE  Goal
  <2>1. SameRow(mem, call[h].rid, row)
    BY <1>6, <1>t DEF CopyOK, SameRow
  <2> QED BY <1>3, <1>6, <2>1 DEF ReplaceMcpServer, StoreCall, Change, files
<1>7. /\ \A i, sec : PutSecretAt(mem, i, sec).rows = mem.rows
      /\ \A i, t : /\ SyncRulesForSecret(mem, i, t).rows = mem.rows
                   /\ AddRule(mem, i, t).rows = mem.rows
      /\ \A i : WithoutSecret(mem, i).rows = mem.rows
  BY <1>t DEF PutSecretAt, SyncRulesForSecret, AddRule, WithoutSecret, State
<1>8. CASE NewCall(h)
  <2>1. ASSUME NEW a \in Ann, Announce(h, a) PROVE Goal
    BY <2>1, <1>4 DEF Announce
  <2>2. ASSUME NEW a \in Ann, AnnounceAgain(a) PROVE Goal
    <3> DEFINE found == FindMcp(mem, a)
    <3>1. found # {} /\ answered' = answered \cup {<<a, mem.rows[Earliest(found)].tok>>}
             /\ UNCHANGED <<mem, disk>>
      BY <2>2 DEF AnnounceAgain, files
    <3>2. mem.rows[Earliest(found)] \in Row
      BY <3>1, <1>t, FoundIn, EntriesTyped
    <3>3. Told(mem)[a] = mem.rows[Earliest(found)].tok
      BY <3>1 DEF Told
    <3>4. Told(mem)[a] # NoToken
      BY <3>2, <3>3 DEF Row
    <3> HIDE DEF found
    <3> QED BY <3>1, <3>3, <3>4, BookAnswer DEF Goal
  <2>3. ASSUME NEW rid \in RowId, Authorize(h, rid) \/ Revoke(h, rid) PROVE Goal
    BY <2>3, <1>4 DEF Authorize, Revoke
  <2>4. ASSUME NEW n \in Login, Callback(h, n) PROVE Goal
    BY <2>4, <1>4 DEF Callback
  <2>5. ASSUME NEW t \in Token, PostSecret(h, t) PROVE Goal
    BY <2>5, <1>2, <1>7 DEF PostSecret, Change, BeginWith, files
  <2>6. ASSUME NEW sid \in SecretId, PutSecret(h, sid) PROVE Goal
    BY <2>6, <1>4 DEF PutSecret
  <2>7. ASSUME NEW sid \in SecretId, DeleteSecret(h, sid) PROVE Goal
    BY <2>7, <1>2, <1>7 DEF DeleteSecret, Delete, Change, BeginWith, files
  <2>8. CASE importPiKeys(h)
    BY <2>8, <1>4 DEF importPiKeys
  <2>9. ASSUME NEW sid \in SecretId, NEW t \in Token, PostRule(h, sid, t) PROVE Goal
    BY <2>9, <1>2, <1>7 DEF PostRule, Change, BeginWith, files
  <2>10. ASSUME NEW rule \in mem.rules, DeleteRule(h, rule) PROVE Goal
    <3>1. PICK rest : Change(h, [mem EXCEPT !.rules = rest], FALSE)
      BY <2>10 DEF DeleteRule
    <3>2. [mem EXCEPT !.rules = rest].rows = mem.rows
      BY <1>t DEF State
    <3> QED BY <2>10, <3>1, <3>2, <1>2 DEF DeleteRule, Change, BeginWith, files
  <2>11. ASSUME NEW t \in Token, resolveFailures(h, t) PROVE Goal
    BY <2>11, <1>4 DEF resolveFailures
  <2> QED BY <1>8, <2>1, <2>2, <2>3, <2>4, <2>5, <2>6, <2>7, <2>8, <2>9, <2>10, <2>11
          DEF NewCall
<1>9. CASE CallStep(h)
  <2>1. CASE mintMCPPlaceholder(h) \/ LoadSecret(h) \/ ImportHasRule(h)
    BY <2>1, <1>5 DEF mintMCPPlaceholder, LoadSecret, ImportHasRule
  <2>2. CASE NetworkFails(h) \/ ReplaceMissing(h) \/ SetEnvKeyMissing(h)
    BY <2>2, <1>5 DEF NetworkFails, ReplaceMissing, SetEnvKeyMissing, Abandon
  <2>3. CASE AddSecret(h) \/ ReplaceSecret(h) \/ SetEnvKey(h)
    BY <2>3, <1>2, <1>7 DEF AddSecret, ReplaceSecret, SetEnvKey, StoreCall, Change, files
  <2>4. CASE SyncRules(h) \/ AddRuleLast(h)
    BY <2>4, <1>2, <1>7 DEF SyncRules, AddRuleLast, StoreCall, Change, files
  <2>5. CASE UpsertMcpServer(h)
    <3>1. call[h].pc = "upsert" /\ call[h].ann \in Ann /\ call[h].tok \in Token /\ call[h].sid \in SecretId
      BY <2>5, <1>t DEF UpsertMcpServer, At, CallOK
    <3>2. CASE FindMcp(mem, call[h].ann) # {}
      BY <2>5, <3>2, <1>1 DEF UpsertMcpServer, StoreCall, Change, files
    <3>3. CASE FindMcp(mem, call[h].ann) = {}
      <4> DEFINE i == made.rows + 1
                 row == NewRow(call[h])
                 A == {a \in Ann : Told(mem)[a] = NoToken /\ row.ann \in Same[a]}
      <4>1. mem' = PutRowAt(mem, i, row) /\ made.rows < MaxRows /\ UNCHANGED <<disk, answered>>
        BY <2>5, <3>3 DEF UpsertMcpServer, StoreCall, Change, files
      <4>2. row \in Row /\ row.tok \in Token
        BY <3>1 DEF NewRow, Row
      <4>3. i \in RowId /\ i \in Nat /\ made.rows \in Nat /\ made.rows < i
        BY <4>1, <1>t DEF Made, RowId
      <4>4. \A j \in Rows(mem) : j < i
        <5>1. \A j \in Rows(mem) : j <= made.rows /\ j \in Nat
          BY <1>t, EntriesTyped DEF MainInv, StateOK, RowOK, RowId
        <5> HIDE DEF i
        <5> QED BY <5>1, <4>3
      <4> HIDE DEF i, row
      <4>5. Told(mem') = [a \in Ann |-> IF Told(mem)[a] = NoToken /\ row.ann \in Same[a]
                                       THEN row.tok ELSE Told(mem)[a]]
        BY <4>1, <4>2, <4>3, <4>4, <1>t, ToldNewRow
      <4>6. Told(mem') = [a \in Ann |-> IF a \in A THEN row.tok ELSE Told(mem)[a]]
        BY <4>5
      <4>7. A \in SUBSET Ann /\ \A a \in A : Told(mem)[a] = NoToken
        OBVIOUS
      <4> HIDE DEF A
      <4>8. Told(disk') = Told(disk)
        BY <4>1
      <4>9. Book!Bind
        <5> DEFINE B(X, t) == /\ \A a \in X : Told(mem)[a] = NoToken
                              /\ Told(mem') = [a \in Ann |-> IF a \in X THEN t ELSE Told(mem)[a]]
        <5>1. B(A, row.tok)
          BY <4>6, <4>7
        <5>2. \E X \in SUBSET Ann, t \in Token : B(X, t)
          <6> HIDE DEF B
          <6> QED BY <4>2, <4>7, <5>1
        <5> QED BY <4>1, <4>8, <5>2 DEF Book!Bind
      <4> QED BY <4>9 DEF Goal, Book!Next
    <3> QED BY <3>2, <3>3
  <2>6. CASE discoverMCPOAuth(h)
    <3> DEFINE row == [call[h].row EXCEPT !.endpoints = TRUE]
    <3>1. call[h].op = "authorize" /\ call[h].row \in Row
      BY <2>6, <1>t DEF discoverMCPOAuth, At, CallOK
    <3>2. row \in Row /\ row.ann = call[h].row.ann /\ row.sid = call[h].row.sid
             /\ row.tok = call[h].row.tok
      BY <3>1 DEF Row
    <3>3. ReplaceMcpServer(h, row)
      BY <2>6 DEF discoverMCPOAuth
    <3> HIDE DEF row
    <3> QED BY <3>1, <3>2, <3>3, <1>6
  <2>7. CASE registerMCPClient(h)
    <3> DEFINE row == [call[h].row EXCEPT !.client = made.clients + 1]
    <3>1. call[h].op = "authorize" /\ call[h].row \in Row /\ made.clients + 1 \in Nat
      BY <2>7, <1>t DEF registerMCPClient, At, CallOK, Made
    <3>2. row \in Row /\ row.ann = call[h].row.ann /\ row.sid = call[h].row.sid
             /\ row.tok = call[h].row.tok
      BY <3>1 DEF Row
    <3>3. ReplaceMcpServer(h, row)
      BY <2>7 DEF registerMCPClient
    <3> HIDE DEF row
    <3> QED BY <3>1, <3>2, <3>3, <1>6
  <2>8. CASE startMCPOAuth(h)
    <3> DEFINE n == made.logins + 1
               row == [call[h].row EXCEPT !.verifier = n, !.state = n]
    <3>1. call[h].op = "authorize" /\ call[h].row \in Row /\ n \in Nat
      BY <2>8, <1>t DEF startMCPOAuth, At, CallOK, Made
    <3>2. Change(h, PutRowAt(mem, call[h].rid, row), FALSE) /\ UNCHANGED <<disk, answered>>
      BY <2>8 DEF startMCPOAuth, files
    <3> HIDE DEF n
    <3>3. row \in Row /\ row.ann = call[h].row.ann /\ row.sid = call[h].row.sid
             /\ row.tok = call[h].row.tok
      BY <3>1 DEF Row
    <3> HIDE DEF row
    <3>4. SameRow(mem, call[h].rid, row)
      BY <3>1, <3>3, <1>t DEF CopyOK, SameRow
    <3> QED BY <3>2, <3>3, <3>4, <1>3 DEF Change
  <2>9. CASE exchangeMCPCode(h)
    BY <2>9, <1>1 DEF exchangeMCPCode, files
  <2>10. CASE applyMCPTokens(h)
    <3>1. call[h].op = "callback" /\ call[h].row \in Row /\ call[h].login \in Login
      BY <2>10, <1>t DEF applyMCPTokens, At, CallOK
    <3>2. PICK r \in {call[h].row.refresh, call[h].login} :
             ReplaceMcpServer(h, [call[h].row EXCEPT !.refresh = r, !.verifier = 0, !.state = 0,
                                                     !.status = "ok"])
      BY <2>10 DEF applyMCPTokens
    <3> DEFINE row == [call[h].row EXCEPT !.refresh = r, !.verifier = 0, !.state = 0, !.status = "ok"]
    <3>3. r \in Nat
      BY <3>1 DEF Row, Login
    <3>4. row \in Row /\ row.ann = call[h].row.ann /\ row.sid = call[h].row.sid
             /\ row.tok = call[h].row.tok
      BY <3>1, <3>3 DEF Row
    <3>5. ReplaceMcpServer(h, row)
      BY <3>2
    <3> HIDE DEF row
    <3> QED BY <3>1, <3>4, <3>5, <1>6
  <2>11. CASE handleRevokeMCP(h)
    <3> DEFINE row == [call[h].row EXCEPT !.refresh = 0, !.verifier = 0, !.state = 0,
                                          !.status = "revoked"]
    <3>1. call[h].op = "revoke" /\ call[h].row \in Row
      BY <2>11, <1>t DEF handleRevokeMCP, At, CallOK
    <3>2. row \in Row /\ row.ann = call[h].row.ann /\ row.sid = call[h].row.sid
             /\ row.tok = call[h].row.tok
      BY <3>1 DEF Row
    <3>3. ReplaceMcpServer(h, row)
      BY <2>11 DEF handleRevokeMCP
    <3> HIDE DEF row
    <3> QED BY <3>1, <3>2, <3>3, <1>6
  <2> QED BY <1>9, <2>1, <2>2, <2>3, <2>4, <2>5, <2>6, <2>7, <2>8, <2>9, <2>10, <2>11 DEF CallStep
<1> QED BY <1>8, <1>9

\* The lock holder's writes, its return, failures and crashes.
LEMMA BookSave ==
    ASSUME TypeInv, MainInv,
           Save \/ SaveReturns \/ SaveError \/ Crash \/ \E slug \in Slug : Up(slug)
    PROVE  [Book!Next]_(Book!book)
<1>1. CASE Save /\ Rename
  <2>1. disk' = mem /\ mem' = mem /\ answered' = answered
    BY <1>1 DEF Save, Rename, TypeInv, IoOK, history
  <2>2. Book!Keep
    BY <2>1 DEF Book!Keep, Told
  <2> QED BY <2>2 DEF Book!Next
<1>2. CASE Save /\ ~Rename
  <2>1. UNCHANGED <<mem, disk, answered>>
    BY <1>2 DEF Save, SaveStep, WriteTmp, WriteWorkerPlaceholdersEnv, history
  <2> QED BY <2>1, BookSame
<1>3. CASE SaveReturns
  <2> DEFINE h == io.by
             c == call[h]
  <2>1. h \in Slot
    BY <1>3 DEF SaveReturns, Saved, TypeInv, IoOK, NoIo
  <2>2. CallOK(c, TRUE) /\ CopyOK(c, TRUE, mem, logins, deleted)
    <3>1. CallOK(c, io.by = h) /\ CopyOK(c, io.by = h, mem, logins, deleted)
      BY <2>1, MainTypes DEF MainInv
    <3> QED BY <3>1
  <2>3. UNCHANGED <<mem, disk>>
           /\ answered' = (IF c.pc = "upsert" THEN answered \cup {<<c.ann, c.tok>>} ELSE answered)
    BY <1>3 DEF SaveReturns, files
  <2> HIDE DEF c
  <2>4. CASE c.pc # "upsert"
    BY <2>3, <2>4, BookSame
  <2>5. CASE c.pc = "upsert"
    <3>1. c.ann \in Ann /\ c.tok \in Token /\ Told(mem)[c.ann] = c.tok
      BY <2>2, <2>5 DEF CallOK, CopyOK
    <3>2. Told(mem)[c.ann] # NoToken
      BY <3>1
    <3> QED BY <2>3, <2>5, <3>1, <3>2, BookAnswer
  <2> QED BY <2>4, <2>5
<1>4. CASE SaveError
  BY <1>4, BookSame DEF SaveError, SaveFails, history
<1>5. CASE Crash
  <2>1. mem' = disk /\ disk' = disk /\ answered' = answered
    BY <1>5 DEF Crash, Reload, history
  <2>2. Book!Restart
    BY <2>1 DEF Book!Restart, Told
  <2> QED BY <2>2 DEF Book!Next
<1>6. ASSUME NEW slug \in Slug, Up(slug) PROVE [Book!Next]_(Book!book)
  BY <1>6, BookSame DEF Up, EnsureWorkerPlaceholdersEnv, history
<1> QED BY <1>1, <1>2, <1>3, <1>4, <1>5, <1>6

\* The broker implements the answer book: every answer a worker gets is the placeholder its
\* announcement is bound to, and a binding is only lost to a crash that state.json did not
\* survive with it.
THEOREM BrokerKeepsBook == Spec => ImplementsAnswerBook
<1>1. Init => Book!Init
  <2> SUFFICES ASSUME Init PROVE Book!Init
    OBVIOUS
  <2>1. \A a : FindMcp(Empty, a) = {}
    BY DEF FindMcp, Rows, Empty
  <2>2. Told(Empty) = [a \in Ann |-> NoToken]
    BY <2>1 DEF Told
  <2> QED BY <2>2 DEF Init, VaultInit, Book!Init
<1>2. TypeInv /\ MainInv /\ [Next]_vars => [Book!Next]_(Book!book)
  <2> SUFFICES ASSUME TypeInv, MainInv, [Next]_vars PROVE [Book!Next]_(Book!book)
    OBVIOUS
  <2>1. CASE UNCHANGED vars
    BY <2>1, BookSame DEF vars, files, history
  <2>2. ASSUME NEW h \in Slot, NewCall(h) \/ CallStep(h) PROVE [Book!Next]_(Book!book)
    BY <2>2, BookCalls
  <2> QED BY <2>1, <2>2, BookSave DEF Next
<1> QED BY <1>1, <1>2, MainHolds, PTL DEF Spec, ImplementsAnswerBook, Book!Spec
=============================================================================
