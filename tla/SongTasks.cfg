SPECIFICATION Spec
CONSTANTS
    Songs = 3
    Chunks = 2
    Delay1 = 2
    Delay2 = 5
    Increment = 1
    Nominal = 2
INVARIANTS
    MusicFollowsButtons
    FrequencySettles
PROPERTIES
    SkipStartsSong
