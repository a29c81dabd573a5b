SPECIFICATION MCSpec
CONSTANTS
  h1 = h1  h2 = h2  t1 = t1  t2 = t2  v1 = v1  v2 = v2  p1 = p1  p2 = p2
  auth = auth  query = query  body = body  chat = chat  plain = plain  w1 = w1  w2 = w2  q1 = q1  q2 = q2
  Host = {h1, h2}
  InternalHost = {}
  RefusedHost = {}
  AnyHost = AnyHost
  Token = {t1}
  NoToken = NoToken
  Pattern = {p1}
  NoPattern = NoPattern
  Site = {auth, query, body, chat}
  ChatSite = {chat}
  Shape = {plain}
  Value = {v1}
  Blank = Blank
  UnknownWorker = UnknownWorker
  Worker = {w1, w2, UnknownWorker}
  Req = {q1}
  NoReq = NoReq
  Request <- OneRequest
  QuerySite = query
  BodySite = {body, chat}
  LongToken = {}
  k1 = k1  k2 = k2
  Handler = {k1}
  MaxLog = 1
  MaxSecrets = 4
  MaxCopies = 3
  MaxCalls = 1
  Loaded <- OthersOnly
  NewSecret = {}
  HostList <- ReplayHostList
  NewException = {}
  Start = {}
  EditException = {}
  EditRule = {}
  EntryList = {}
INVARIANT WorkerScopeHolds
CHECK_DEADLOCK FALSE
