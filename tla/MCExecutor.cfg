CONSTANTS
    h1 = h1
    Attempts = {a1, a2}
    Hosts = {h1}
    Requests <- MCRequests
    NoAttempt = NoAttempt
    NoRequest = NoRequest
    NoHost = NoHost
    MaxCrashes = 1
SPECIFICATION FairSpec
INVARIANTS TypeOK OncePerCall 
PROPERTIES RefinesLedger CallersReturn
CHECK_DEADLOCK FALSE
