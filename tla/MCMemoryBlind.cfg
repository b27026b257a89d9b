CONSTANTS
    Backends = {b1, b2}
    Scopes = {s1}
    Names = {n1}
    Facts = {f1, f2}
    NoBackend = NoBackend
    MaxWrites = 3
    MaxUser = 0
SPECIFICATION MemorySpec
INVARIANT NoBlindOverwrite
CHECK_DEADLOCK FALSE
