SPECIFICATION Spec
CONSTANTS
    Half = 4
    Latency = 4
    Service = 7
INVARIANTS
    IncrementFollowsBit
PROPERTIES
    NoTornWord
