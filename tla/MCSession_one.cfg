\* One client, a match that ends on the way, a network that does anything.
CONSTANTS
  MaxPlayers = 1
  Client = {0}
  History = 2
  ServerHumans = 1
  ClientHumans <- AsServer
  ClientSlot <- OwnSlot
  Body <- MCBody
  FreshBody <- MCFreshBody
  Step <- MCStep
  Result <- MCResult
  Over <- MCOver
  Fits <- MCFits
  MatchTicks = 3
  MaxTick = 3
  MaxIssued = 4
  NetCap = 2
SPECIFICATION Spec
INVARIANTS TypeOK Decodable Authoritative 
PROPERTIES RewindsPastTheRing InputsAdvance ImplementsView
CHECK_DEADLOCK FALSE
