\* One oscillator at a time, frames of three clocks; one voice in a buffer of four
\* samples; 800 clocks of the noise, which repeats within them in the narrow width.
SPECIFICATION MCSpec
\* The count of the noise's clocks is bounded.
CHECK_DEADLOCK FALSE
CONSTANTS
    FramePeriod = 2
    MaxCycles = 3
    Spent = {1, 3}
    SquareLength = 2
    WaveLength = 3
    LowSize = 2
    HighSize = 2
    MaxVolume = 1
    Slow = 2
    Tick = 2
    WaveDelay = 1
    NoiseDelay = 1
    NoisePeriod = 2
    MaxDelay = 3
    DutySteps = 2
    WaveSteps = 2
    NoiseSteps = 2
    DividerSize = 8
    Untriggered = 3
    Played <- OneVoice
    Sweeps <- MCSweeps
    Lengths <- MCLengths
    Envelopes <- MCEnvelopes
    Lows <- MCLows
    Highs <- MCHighs
    Voices = {v1}
    Amps = {0, 1}
    Volumes = {1, 2}
    FrameClocks = 2
    Factor = 2
    Accuracy = 3
    Width = 1
    Extra = 1
    Size = 3
    Pairs = 2
    Seeds <- MCSeeds
    MaxCount = 800
INVARIANTS
    ChipExact
    RunsAsClocked
    MixExact
    MixFits
    JumpsAgree
