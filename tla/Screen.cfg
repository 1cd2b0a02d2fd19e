\* Four sprites, every sequence of OAM writes and rows; a row of six pixels under every
\* choice of the game; palettes of one colour; three platforms' menus over directories
\* longer and shorter than the screen; frames of up to nine ticks of a clock to 16.
SPECIFICATION MCSpec
\* The menu ends, and the clock has a bound.
CHECK_DEADLOCK FALSE
CONSTANTS
    MAX_SPRITES = 4
    Xs = {0, 1}
    Limit = 2
    Tile = 2
    MapTiles = 4
    HalfSet = 4
    Width = 6
    Height = 4
    Row = 1
    RowLimit = 2
    TileNo <- No
    Attributes <- At
    Colour <- Col
    Lcdcs <- LcdcValues
    Scrolls <- ScrollValues
    Windows <- WindowValues
    Lists <- SpriteLists
    PaletteBytes = 2
    PaletteData = {0, 3}
    Tree <- Tree1
    Busy <- Busy1
    Homes <- Homes1
    Screens <- Screens1
    TextHeight = 24
    Points = {"UP", "DOWN", "A", "corner", "none"}
    Second = 5
    Rates = {7, 10}
    Tick = 2
    SleepFrom = 4
    Spare = 1
    Word = 65536
    MaxClock = 16
    MaxFrame = 9
INVARIANTS
    PaletteExact
    MenuExact
PROPERTIES
    OrderExact
    RowExact
    PacingExact
    UpdateEnds
