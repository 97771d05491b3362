\* Three addresses for two slots, and one alone; the counters wrap, and what is sent
\* later may come first.
CONSTANTS
  SeqMod = 4
  AckHistory = 1
  Address = {a, b, c}
  Nobody = nobody
  MaxClients = 2
  History = 2
  MaxSent = 6
  MaxSnapshots = 5
  MaxTick = 4
  MaxSilence = 2
  MaxLag = 2
  NetCap = 2
  CrowdSent = 4
  CrowdSnapshots = 3
  CrowdTick = 1
SYMMETRY AddressSymmetry
SPECIFICATION MCSpec
INVARIANTS SlotTableSound DrivenByItsClient NothingNewHeldBack
PROPERTIES SlotsKept
CHECK_DEADLOCK FALSE
