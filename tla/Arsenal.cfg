\* One against one, two grenades for one slot of the pool.
CONSTANTS
  Robots = 2
  Mag = 2
  Spare = 1
  ReloadTicks = 1
  ReloadEmptyTicks = 2
  CarbineCooldown = 2
  CannonCooldown = 1
  GrenadesPerLife = 1
  MaxGrenades = 1
  FuseTicks = 2
  BannerTicks = 1
SPECIFICATION Spec
INVARIANTS TypeOK RoundsAccounted Cadence
PROPERTIES GrenadesPaidFor TimersRunOut
