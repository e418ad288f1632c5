SPECIFICATION Spec
CONSTANTS
    W1 = W1
    W2 = W2
    R1 = R1
    a = a
    b = b
    Writers = {W1, W2}
    Readers = {R1}
    Nil = Nil
    Bytes = {a, b}
    BufLen = 3
    FifoDepth = 2
    Threshold = 0
    Timeout = 2
    Programs <- MCPrograms
INVARIANTS
    RingsFaithful
    InterruptsArmed
PROPERTIES
    WriteReturns
