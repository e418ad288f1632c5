SPECIFICATION Spec
CONSTANTS
    T1 = T1
    T2 = T2
    T3 = T3
    E1 = E1
    E2 = E2
    M1 = M1
    Tasks = {T1, T2, T3}
    Events = {E1, E2}
    Messages = {Token, M1}
    Token = Token
    Nil = Nil
    Idle = Idle
    Reserved = Reserved
    Available = Available
    Lowest = 5
    FirstPrio <- MCFirstPrio
    Capacity <- MCCapacity
    MaxDelay = 2
    MaxNesting = 1
    Scenarios <- ChangesPriorities
INVARIANTS
    WaitListTruthful
