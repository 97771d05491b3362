SPECIFICATION FairSpec
CONSTANTS
  MaxPlayers = 3
  RobotHealth = 3
  MechHealth = 3
  Armour = 55
  Damage = {2}
  RespawnTicks = 1
  RebuildTicks = 2
  WinKills = 2
  BannerTicks = 1
INVARIANTS RobotsConsistent WinnerEarned
PROPERTIES KillsAreLosses DecidedOnce MatchGoesOn
