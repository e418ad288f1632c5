SPECIFICATION Spec
CONSTANTS
  LastWord = 2
  WordBytes = 4
  MaxWait = 2
  MaxLatency = 3
  PulseGap = 18
INVARIANTS
  TypeOK
  RequestAccepted
  NoPulseMissed
PROPERTIES
  FreshSample
  WordArrives
  ImplementsStream
