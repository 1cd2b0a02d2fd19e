\* A key pressed while stopped: violated.
SPECIFICATION FairSpec
CONSTANTS
    Costs = {2}
    PollAt = 2
    Devices = {"TIMER"}
    IeValues = {{}, {"TIMER"}}
    MaxEvents = 1
PROPERTY
    KeyEndsStop
