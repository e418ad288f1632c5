SPECIFICATION Spec
CONSTANTS
  Depth = 4
  MsgLen = 2
  Xor <- MCXor
  ValidChars = {1}
  KeyBound = 57
  FirstKey = 3
  Step = 7
  Messages <- MCMessages
  PowerUp = 0
  MaxResets = 0
INVARIANT Initialised
