CONSTANTS
    Sessions = {s1, s2}
    First = s1
    NoSession = NoSession
    NoPath = NoPath
    Names = {"a", "b"}
    Paths <- MCPaths
    Operations = {"remove", "rename", "chmod", "download", "edit", "compress", "mkdir"}
    Home <- MCHome
    Start <- MCStart
    Typed <- MCTyped
    Visited <- MCVisited
    MaxInputs = 4
    MaxCd = 1
    MaxFail = 1
    MaxMoves = 2
    MaxOps = 1
    MaxQueue = 1
SPECIFICATION MCSpec
INVARIANTS PaneIsSound
PROPERTIES StaleMovesNothing PaneSettles
CHECK_DEADLOCK FALSE
