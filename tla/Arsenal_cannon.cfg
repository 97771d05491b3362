\* A robot that unites in the middle of a reload.
CONSTANTS
  Robots = 2
  Mag = 2
  Spare = 1
  ReloadTicks = 1
  ReloadEmptyTicks = 2
  CarbineCooldown = 0
  CannonCooldown = 1
  GrenadesPerLife = 1
  MaxGrenades = 1
  FuseTicks = 2
  BannerTicks = 1
SPECIFICATION Spec
INVARIANTS CannonNeverDry
