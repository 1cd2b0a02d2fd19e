\* Every tidy instruction sequence of either machine, speed switches included, in a
\* main loop that keeps running; every file and every failure of a start; every
\* sequence of the debugger's commands.
SPECIFICATION MCSpec
CONSTANTS
    Costs = {2}
    PollAt = 2
    Devices = {"VBLANK", "TIMER"}
    IeValues <- NoneOneTwo
    MaxEvents = 1
    Files <- HeaderFiles
    Counts = {0, 1, 2, 5, 9}
    Addresses = {0, 3, 4}
    MaxAddress = 3
    HalfInt = 8
    MaxRun = 7
INVARIANTS
    LoopInv
    RomLoaded
    StepsExact
PROPERTIES
    EIDelayed
    HaltEnds
    CloseEnds
