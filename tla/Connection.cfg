\* Packets are lost, repeated and overtake each other, within the window.
CONSTANTS
  SeqMod = 8
  AckHistory = 3
  MaxLag = 3
  MaxSilence = 4
  MaxSent = 9
  MaxReplies = 2
  NetCap = 2
SPECIFICATION Spec
INVARIANTS HeardTruly AcceptsUnheard NoFalseAckInOrder
CHECK_DEADLOCK FALSE
