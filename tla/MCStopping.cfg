CONSTANTS
    Hosts = {h1}
    Callers = {c1, c2}
    Entries = {"submit"}
    MaxCalls = 1
    MaxRuns = 2
    MaxGrants = 1
    MaxCrashes = 0
    Wrapped = {"operate", "unknown_tool"}
    Observed = {"task", "write_todos"}
    Requests = {r1, r2}
    CallLimit = 3
    RequestLimit = 2
    BudgetLimit = 3
    MaxIterations = 4
    NoTool = NoTool
    NoRequest = NoRequest
    Streams = {"stdout", "stderr"}
    Nobody = Nobody
    MaxChunks = 2
    MaxPrefix = 2
SPECIFICATION MCSpec
INVARIANTS TurnIsBounded OutputIsFinal ExitIsKnown
PROPERTIES QuitEnds RunEnds CancelReturns
CHECK_DEADLOCK FALSE
