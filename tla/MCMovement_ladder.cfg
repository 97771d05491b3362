\* Two faces, one direction of the stick, every timer scaled down in its order.
CONSTANTS
  Face = {A, B}
  NoFace = NoFace
  Stick = {left}
  Centred = Centred
  JumpBufferTicks = 2
  CoyoteTicks = 1
  CoyoteCap = 2
  MaxAirJumps = 1
  BoostCooldown = 2
  LurchEnd = 3
  WallrunTicks = 2
  JumpRise = 3
  LesserRise = 2
SPECIFICATION Spec
SYMMETRY Faces
INVARIANTS AirJumpOnce
