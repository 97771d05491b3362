\* A header overtakes a later one.
CONSTANTS
  SeqMod = 8
  AckHistory = 2
  MaxLag = 2
  MaxSilence = 4
  MaxSent = 5
  MaxReplies = 3
  NetCap = 2
SPECIFICATION Spec
INVARIANTS NoFalseAck
CHECK_DEADLOCK FALSE
