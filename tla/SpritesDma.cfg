\* OAM DMA moves a sprite and leaves its priority: violated.
SPECIFICATION OamSpec
CONSTANTS
    MAX_SPRITES = 2
    Xs = {0, 1}
    Limit = 1
    Cgb = FALSE
    CgbFeatures = FALSE
INVARIANT
    PrioritiesFollowOam
