CONSTANTS
    Backends = {b1, b2}
    Scopes = {"preferences", "host"}
    Names = {n1}
    Facts = {f1, f2}
    NoBackend = NoBackend
    MaxWrites = 3
    MaxUser = 2
    Writers = {editor, tool}
    Contents = {c1, c2}
    Absent = Absent
    Torn = Torn
    MaxForeign = 1
    Jobs = {desktop, agent}
    Agents = {agent}
    Blocks = {x, y}
    Zero = Zero
    NoFile = NoFile
    MaxLen = 2
    MaxMeddling = 1
    MaxTotal = 3
SPECIFICATION MCSpec
INVARIANTS MemoryIsKept ReplaceIsSafe SuccessIsVerified ForeignIsKept
PROPERTY OutdatedIsStopped
SYMMETRY Symmetry
CHECK_DEADLOCK FALSE
