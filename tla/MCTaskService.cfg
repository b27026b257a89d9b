CONSTANTS
    h1 = h1
    h2 = h2
    c1 = c1
    c2 = c2
    Hosts = {h1, h2}
    Callers = {c1, c2}
    Entries = {"submit", "resume", "decide", "cancel"}
    MaxCalls = 2
    MaxRuns = 3
    MaxGrants = 2
    MaxCrashes = 1
    Scopes <- Safety
SPECIFICATION MCSpec
SYMMETRY Symmetry
INVARIANTS RunsAreOrderly ExecutionsAreAllowed CompletedIsVerified
CHECK_DEADLOCK FALSE
