CONSTANTS
    h1 = h1
    h2 = h2
    c1 = c1
    c2 = c2
    Hosts = {h1}
    Callers = {c1, c2}
    Entries = {"submit", "resume"}
    MaxCalls = 2
    MaxRuns = 2
    MaxGrants = 2
    MaxCrashes = 0
    Scopes <- ResumeRace
SPECIFICATION MCSpec
SYMMETRY Symmetry
INVARIANT CompletedIsVerified
CHECK_DEADLOCK FALSE
