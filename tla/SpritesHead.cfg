\* The head after the first sprite has moved back: violated.
SPECIFICATION Spec
CONSTANTS
    MAX_SPRITES = 3
    Xs = {0, 1}
    Limit = 1
INVARIANT
    HeadIsFirst
