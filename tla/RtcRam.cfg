\* A clock beside four banks of RAM: violated.
SPECIFICATION RtcSpec
CONSTANTS
    ByteSize = 3
    Minute = 2
    Hour = 2
    Day = 2
    RamCounts = {4}
    NibbleSize = 2
    Field = 4
    DayLength = 3
    YearLength = 2
    Nibbles = 5
    Writes = {0, 1}
INVARIANT
    ClockSparesRam
