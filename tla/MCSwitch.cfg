SPECIFICATION RegistrySpec
CONSTANTS
    Worker = {w1, w2}
    NoWorker = NoWorker
    Addr = {i1, i2, i3}
    NoAddr = NoAddr
    MaxTries = 3
    MaxRestarts = 1
    MaxCalls = 3
INVARIANT SwitchStaysOff
CHECK_DEADLOCK FALSE
