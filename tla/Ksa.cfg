SPECIFICATION Spec
CONSTANTS
  NumCores = 2
  KeyBound = 5
  KeyWrap = 16
INVARIANTS
  TypeOK
  NoKeySkipped
  FailSound
  DisplaySound
  DisjointShares
PROPERTIES
  AllStop
  KeyFound
  CoresImplement
