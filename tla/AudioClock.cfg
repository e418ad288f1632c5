SPECIFICATION Spec
CONSTANTS
    Modulus = 32
    Default = 11
    Step = 4
    Apart = 12
INVARIANTS
    EveryEdgeOnePulse
    NeverOverruns
