SPECIFICATION Spec
CONSTANTS
    w1 = w1
    mon = mon
    Worker = {w1, w2}
    NoWorker = NoWorker
    Addr = {i1, i2, i3}
    NoAddr = NoAddr
    MaxTries = 3
    MaxRestarts = 1
    MaxCalls = 3
    Reporter = {w1, mon}
    Monitor = mon
    NoTarget = NoTarget
    Text = {"", "x"}
    Report <- SmallReport
    Time = {0, 1, 2}
    activeSpanGap = 1
    Get = {g1}
    Limit = {2, 3}
    LogLength = 3
INVARIANTS RegistryTypeOK NeverMistaken FeedTypeOK FeedIsNewest SpansAreRuns NothingRejudged
CHECK_DEADLOCK FALSE
PROPERTIES RecognisedStays SelfHeals
