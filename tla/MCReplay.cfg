SPECIFICATION MCSpec
CONSTANTS
  h1 = h1  h2 = h2  t1 = t1  t2 = t2  v1 = v1  v2 = v2  p1 = p1  p2 = p2
  auth = auth  query = query  body = body  chat = chat  plain = plain  w1 = w1  w2 = w2  q1 = q1  q2 = q2
  Host = {h1, h2}
  InternalHost = {h2}
  RefusedHost = {h2}
  AnyHost = AnyHost
  Token = {t1, t2}
  NoToken = NoToken
  Pattern = {p1, p2}
  NoPattern = NoPattern
  Site = {auth, query, body, chat}
  ChatSite = {chat}
  Shape = {plain}
  Value = {v1}
  Blank = Blank
  UnknownWorker = UnknownWorker
  Worker = {w1, w2, UnknownWorker}
  Req = {q1, q2}
  NoReq = NoReq
  Request <- ReplayRequest
  QuerySite = query
  BodySite = {body, chat}
  LongToken = {}
  k1 = k1  k2 = k2
  Handler = {k1, k2}
  MaxLog = 1
  MaxSecrets = 4
  MaxCopies = 3
  MaxCalls = 2
  Loaded <- ReplayLoaded
  NewSecret <- ReplayNewSecret
  HostList <- ReplayHostList
  NewException = {}
  Start <- MCStart
  EditException <- MCEditException
  EditRule <- MCEditRule
  EntryList <- ReplayEntries
SYMMETRY ReplaySymmetry
INVARIANTS TypeOK RingSound AutoReplayComplete
PROPERTIES RetryNeverRevived ImplementsRequestLog NothingStartsOver
  PassingStaysPassing PatternExceptionsKeepDecisions MentionsKeepSubstitutions
CHECK_DEADLOCK FALSE
