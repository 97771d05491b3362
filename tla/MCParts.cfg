\* One part after another; the constants of those without any here are in the module.
CONSTANTS
  Parts = {"scene", "renderer", "memory", "pool", "level", "bot", "importer", "session"}
  None = None
  AnyArea = AnyArea
  Frames = 3
  Area = {1, 2}
  Captures = 1
  Capacity = 3
  MaxGen = 2
  MaxBoxes = 3
  MaxNodes = 2
  MaxWrites = 5
  BlockSize = 4
  MaxBlocks = 2
  MaxBuffers = 3
  MaxTextures = 1
  Sizes = {1, 3}
  Aligns = {2}
  Tlases = 1
  NodeCount = 4
  SceneFrames = 2
  Rivals = 2
  MaxInstances = 3
  MaxDraws = 3
  Submeshes = 2
  HighestClip = 1
  Respawn = 2
  CorpseTicks = 0
  BlastTicks = 1
  MaxTicks = 2
  RigNodes = 3
  MaxMaterials = 2
  MaxImages = 1
  MaxClips = 1
SPECIFICATION Spec
INVARIANTS
  PartsTypeOK NothingReusedInFlight CaptureIsTheFrame MemoryIsItsOwn HandlesResolve
  OneMap HopIsShortest  SceneIsTheWorlds
PROPERTIES EventuallySynced PartsGoOn
CHECK_DEADLOCK FALSE
