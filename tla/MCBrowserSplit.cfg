CONSTANTS
    Sessions = {s1, s2}
    First = s1
    NoSession = NoSession
    NoPath = NoPath
    Names = {"a", "b"}
    Paths <- MCPaths
    Operations = {}
    Home <- MCHome
    Start <- MCStart
    Typed <- MCTyped
    Visited <- MCVisited
    MaxInputs = 3
    MaxCd = 0
    MaxFail = 0
    MaxOps = 0
    MaxQueue = 1
SPECIFICATION PromptSpec
PROPERTY PaneFollows
CHECK_DEADLOCK FALSE
