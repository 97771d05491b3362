SPECIFICATION Spec
CONSTANTS
  MaxPlayers = 3
  RobotHealth = 2
  MechHealth = 2
  Armour = 55
  Damage = {1, 3}
  RespawnTicks = 1
  RebuildTicks = 2
  WinKills = 1
  BannerTicks = 1
PROPERTIES FightingStops
