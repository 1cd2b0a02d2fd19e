\* Timers with batches shorter and longer than the low byte; an address space of 16
\* blocks with VRAM at 8 .. 11; three buffers of three samples; two emulators and a
\* connection, or one each without; one finger and the keys of two buttons.
SPECIFICATION MCSpec
\* Without a sound device the writer waits for ever.
CHECK_DEADLOCK FALSE
CONSTANTS
    Low = 4
    High = 4
    Tima = 4
    timer_frequencies_bits <- Bits
    Cycles = {1, 9}
    Values = {0, 3}
    Second = 10
    Div0 = 3
    VramStart = 8
    VramSize = 4
    Page = 2
    MaxBlocks = 3
    buf_size = 3
    buf_count = 3
    Counts = {1, 2, 4}
    Wrap = 10
    Bytes = {1, 2}
    Period = 2
    Ticks = {1}
    Keys = {"A", "UP"}
    Fingers = {1}
    Places <- Places1
    MaxEvents = 2
INVARIANTS
    LinkExact
    HeldExact
PROPERTIES
    TimerExact
    TransferExact
    QueueExact
    TransferEnds
    WriteReturns
    WaitEnds
    HoldsArrive
