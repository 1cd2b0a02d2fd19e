\* An original machine, scaled-down lines and frames, every write at every moment,
\* under fair updates.
SPECIFICATION GamesSpec
CONSTANTS
    OamCycles = 2
    TransferCycles = 5
    HblankCycles = 3
    LineCycles = 10
    DrawAt = 2
    DrawAtFirst = 4
    VisibleLines = 3
    VblankLines = 3
    ResetDelay = 1
    EnableDelay = 4
    LyValues = 6
    Cgb = FALSE
    Steps = {1, 2}
    HdmaCosts = {0, 1}
    LycValues = {0, 2, 3}
    StatValues <- AllStat
    MaxStep = 2
    MaxHdma = 1
INVARIANTS
    LineInv
    SignalIsCurrent
PROPERTIES
    FrameSpec
    CoincidenceNotLost
    VblankRecurs
    ScreenComesOn
CHECK_DEADLOCK TRUE
