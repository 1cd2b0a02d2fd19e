\* A game that saves again within the delay, for ever: violated.
SPECIFICATION CartridgeSpec
CONSTANTS
    Values = {0, 1}
    Delay = 1
    Carts <- SaveCarts
    Bytes = {0, 10}
    Mbc1Banks = 4
    Mbc2Banks = 4
    Mbc3Banks = 4
    Mbc5Banks = 4
    Mmm01Banks = 4
INVARIANT
    SavedInTime
