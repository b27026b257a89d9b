CONSTANTS
    Hosts = {h1, h2}
    Callers = {c1, c2}
    NoHost = NoHost
    NoCaller = NoCaller
    MaxEdits = 1
    MaxDials = 3
    MaxDrops = 1
    Servers = {h1}
    Calls = {1, 2, 3}
    MaxAgents = 1
    MaxEvents = 2
    MaxSent = 2
SPECIFICATION MCSpec
INVARIANTS ClientsAreRight TerminalsAreOwned TunnelDelivers
PROPERTIES ConnectionsSettle  TunnelEnds
CHECK_DEADLOCK FALSE
