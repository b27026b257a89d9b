CONSTANTS
    Tasks = {t1, t2}
    NoTask = NoTask
    Statuses = {"ready", "running"}
    FirstStatus = "ready"
    MaxEvents = 1
    MaxPuts = 1
    MaxSelects = 2
    MaxErrors = 1
    Streams <- OneTransfer
    Writers = {terminal}
    MaxWrites = 1
    Blocks = {x, y}
    None = None
    Files = 1
    MaxLen = 1
    MaxTries = 5
    MaxRetries = 1
    MaxRepeats = 1
    MaxFaults = 2
    KeyCap = 1
    MaxPending = 2
    MaxPaste = 2
    MaxInputs = 2
    MaxChunks = 1
    MaxSizes = 2
SPECIFICATION MCSpec
INVARIANTS ViewIsCurrent TerminalIsFaithful
PROPERTIES ViewNeverShrinks CommitIsShown ScreenIsLive CloseReleases RouterEnds BothEnd
CHECK_DEADLOCK FALSE
