\* Every opcode, arithmetic on pairs of bytes and calls under up to two interrupts;
\* every controller with registers of two bits and a save delay of one unit of time;
\* clocks of a few seconds a minute; addresses at the edges of the map.
SPECIFICATION MCSpec
\* A program ends.
CHECK_DEADLOCK FALSE
CONSTANTS
    Starts <- AllStarts
    Vectors = {64, 72}
    MaxInterrupts = 2
    Values = {0, 1}
    Delay = 1
    Carts <- AllCarts
    Bytes = {0, 1, 5, 10, 26}
    Mbc1Banks = 4
    Mbc2Banks = 4
    Mbc3Banks = 4
    Mbc5Banks = 4
    Mmm01Banks = 4
    ByteSize = 3
    Minute = 2
    Hour = 2
    Day = 2
    RamCounts = {0}
    NibbleSize = 2
    Field = 4
    DayLength = 3
    YearLength = 2
    Nibbles = 5
    Writes = {0, 1}
    Addrs = {32768, 53247, 53248, 61440, 65183, 65184}
    Data = {0, 1}
    Banks = {0, 2, 7}
INVARIANTS
    ArithmeticExact
    BcdExact
    MappingExact
    SavedWhenOff
    MapExact
PROPERTIES
    TicksAgree
    CallsTransparent
    ClockExact
