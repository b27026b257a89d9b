CONSTANTS
    Streams <- AllStreams
    Writers = {view, assistant}
    MaxWrites = 2
    Blocks = {x, y}
    None = None
    Files = 2
    MaxLen = 2
    MaxTotal = 2
    MaxTries = 5
    MaxRetries = 1
    MaxRepeats = 1
    MaxFaults = 2
    Jobs = {j1, j2, j3}
    Base <- MCBase
    Irregular = {j3}
    Dirs = {d1, d2}
    Terminals = {t1}
    NoDir = NoDir
    NoTerminal = NoTerminal
    MaxBrowse = 1
    MaxForeign = 1
    MaxMeanwhile = 1
SPECIFICATION MCSpec
INVARIANTS RouterIsTransparent FilesArrive LandsAsAsked
PROPERTY NoSilentOverwrite
CHECK_DEADLOCK FALSE
