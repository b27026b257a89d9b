CONSTANTS
    Servers = {h1}
    Calls = {1, 2, 3}
    MaxAgents = 1
    MaxEvents = 1
SPECIFICATION WorkspaceSpec
INVARIANT FocusIsActive
CHECK_DEADLOCK FALSE
