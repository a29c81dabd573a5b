SPECIFICATION MCSpec
CONSTANTS
    a1 = a1  a2 = a2  b1 = b1  s1 = s1  s2 = s2
    base1 = base1  base2 = base2  r1 = r1  r2 = r2  h1 = h1  h2 = h2
    Ann = {a1, a2}
    NoAnn = NoAnn
    Same <- MCSame
    Base <- MCBase
    SlugOf <- MCSlugOf
    Slug = {s1}
    Token = {base1, r1}
    NoToken = NoToken
    ImportKey = ImportKey
    Slot = {h1, h2}
    NoSlot = NoSlot
    Ops = {"announce", "authorize", "callback", "revoke", "post", "put", "delete", "import",
           "postRule", "deleteRule", "resolve"}
    MaxSecrets = 2
    MaxRows = 2
    MaxLogins = 1
    MaxCalls = 4
    MaxFaults = 1
SYMMETRY Symmetry
INVARIANTS BrokerTypeOK RowsUnique RowsWhole TokenInItsSecret SpentStateGone EnvShowsVault
PROPERTY ImplementsAnswerBook
CHECK_DEADLOCK FALSE
