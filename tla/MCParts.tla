------------------------------- MODULE MCParts -------------------------------
(***************************************************************************)
(* The parts that share no state, on small instances: each is a module of  *)
(* its own, and a behaviour of this one is a behaviour of one of them,     *)
(* `part', with every other part at rest.  Next to each other they would   *)
(* only multiply each other's states.  A variable of a name that two parts *)
(* have is the one's or the other's.                                       *)
(***************************************************************************)
EXTENDS Integers, Sequences

CONSTANTS
  None, AnyArea,
  Parts,                    \* the names of those to run
  Frames, Area, Captures,                                                \* Renderer
  Capacity, MaxGen,                                                      \* Pool
  MaxBoxes, MaxNodes, MaxWrites,                                         \* Level
  BlockSize, MaxBlocks, MaxBuffers, MaxTextures, Sizes, Aligns,          \* Memory
  Tlases,                   \* Memory: one for each of its own frames in flight
  NodeCount,                                                             \* Bot
  SceneFrames, Rivals, MaxInstances, MaxDraws, Submeshes, HighestClip,   \* Scene
  Respawn, CorpseTicks, BlastTicks, MaxTicks,
  RigNodes, MaxMaterials, MaxImages, MaxClips                            \* Importer

VARIABLES
  part,
  surface, window, screen, counter, slices, frame, capture,              \* Renderer
  types, blocks, owned, shadow, depth, staging,                          \* Memory
  slots, gens, nextFree, freeHead, len, issued,                          \* Pool
  file, saving, source, level, drawn, known, first, held,                \* Level
  links, me, goal, parent, head, hop, cmd,                               \* Bot
  loaded, rt, joint, slot, blasts, wentOff, records, matrices, skinned, attach,
  picture,                                                               \* Scene
  at, buckets, remap, next, before, skel, verts, indices, disk, model, sample, \* Importer
  history, latest, latestTick, clientBaseline, predicted, confirmed,
  confirmedTick, ring, rewound, upstream, downstream, past,              \* Session
  scene, queue, pc, textures, clips, world, commands                     \* of two parts or more

-----------------------------------------------------------------------------
(* The instances.                                                          *)

Renderer == INSTANCE Renderer

Memory == INSTANCE Memory WITH Frames <- Tlases

Pool == INSTANCE Pool WITH Null <- None

Level == INSTANCE Level

Bot == INSTANCE Bot WITH Nodes <- 1 .. NodeCount

Scene == INSTANCE Scene WITH Frames <- SceneFrames, Others <- 1 .. Rivals

Importer == INSTANCE Importer WITH Nodes <- 1 .. RigNodes

\* One player, and a simulation in which a body is the commands that made it.
\* The packet holds what two ticks change, and not what three do.
Given     == [{0} -> 0 .. 6]
Body      == UNION {[1 .. n -> Given] : n \in 0 .. 3}
Step(body, given) == IF Len(body) = 3 THEN body ELSE Append(body, given)
Result(body) == Len(body)
Over(body)   == FALSE
Fits(baseline, current) == current.tick - baseline.tick <= 2
Session == INSTANCE Session WITH
  MaxPlayers <- 1, Client <- {0}, History <- 2, ServerHumans <- 1,
  ClientHumans <- [c \in {0} |-> 1], ClientSlot <- [c \in {0} |-> 0],
  FreshBody <- <<>>, MaxTick <- 3, MaxIssued <- 3, NetCap <- 1

\* Some frames in flight, areas of windows that are shown, and values that are
\* nothing else.
ASSUME PartsAssumption ==
  /\ Frames \in Nat \ {0} /\ Area \subseteq Nat \ {0} /\ AnyArea \notin Nat
  /\ Captures \in Nat
  /\ Capacity \in Nat /\ MaxGen \in Nat
  /\ MaxBoxes \in Nat /\ MaxNodes \in Nat /\ MaxWrites \in Nat \ {0}
  /\ BlockSize \in Nat /\ Tlases \in Nat \ {0}
  /\ MaxBlocks \in Nat /\ MaxBuffers \in Nat /\ MaxTextures \in Nat
  /\ Sizes \subseteq Nat \ {0} /\ Aligns \subseteq Nat \ {0}
  /\ SceneFrames \in Nat \ {0}
  /\ MaxInstances \in Nat /\ Rivals \in 1 .. MaxInstances - 1
  /\ MaxDraws \in Nat \ {0, 1} /\ Submeshes \in Nat \ {0} /\ HighestClip \in Nat
  /\ Respawn \in Nat /\ CorpseTicks \in Nat /\ BlastTicks \in Nat /\ MaxTicks \in Nat
  /\ NodeCount \in Nat \ {0} /\ RigNodes \in Nat \ {0}
  /\ MaxMaterials \in Nat /\ MaxImages \in Nat /\ MaxClips \in Nat
  /\ None \notin Nat \cup Renderer!Frame \cup Renderer!Shot
  /\ None \notin Pool!Value \cup Memory!Piece
  /\ None \notin [parents : UNION {[0 .. n - 1 -> Int] : n \in 1 .. RigNodes}, root : Nat]
  /\ None \notin [of : {"old", "new", "torn"}, n : Nat]

-----------------------------------------------------------------------------
(* A part, and the others at rest.                                         *)

Init ==
  /\ part \in Parts
  /\ IF part = "renderer" THEN Renderer!Init
     ELSE /\ surface = None /\ window = None /\ screen = None /\ counter = None
          /\ slices = None /\ frame = None /\ capture = None
  /\ IF part = "memory" THEN Memory!Init
     ELSE /\ types = None /\ blocks = None /\ owned = None /\ shadow = None
          /\ depth = None /\ staging = None
  /\ IF part = "pool" THEN Pool!Init
     ELSE /\ slots = None /\ gens = None /\ nextFree = None /\ freeHead = None
          /\ len = None /\ issued = None
  /\ IF part = "level" THEN Level!Init
     ELSE /\ file = None /\ saving = None /\ source = None /\ level = None
          /\ drawn = None /\ known = None /\ first = None /\ held = None
  /\ IF part = "bot" THEN Bot!Init
     ELSE /\ links = None /\ me = None /\ goal = None /\ parent = None
          /\ head = None /\ hop = None /\ cmd = None
  /\ IF part = "scene" THEN Scene!Init
     ELSE /\ loaded = None /\ rt = None /\ joint = None /\ slot = None
          /\ blasts = None /\ wentOff = None /\ records = None
          /\ matrices = None /\ skinned = None /\ attach = None /\ picture = None
  /\ IF part = "importer" THEN Importer!Init
     ELSE /\ at = None /\ buckets = None /\ remap = None /\ next = None
          /\ before = None /\ skel = None /\ verts = None /\ indices = None
          /\ disk = None /\ model = None /\ sample = None
  /\ IF part = "session" THEN Session!Init
     ELSE /\ history = None /\ latest = None /\ latestTick = None
          /\ clientBaseline = None /\ predicted = None /\ confirmed = None
          /\ confirmedTick = None /\ ring = None /\ rewound = None
          /\ upstream = None /\ downstream = None /\ past = None
  /\ IF part \in {"renderer", "importer"} THEN TRUE ELSE scene = None
  /\ IF part \in {"renderer", "bot"} THEN TRUE ELSE queue = None
  /\ IF part \in {"level", "bot", "importer"} THEN TRUE ELSE pc = None
  /\ IF part \in {"memory", "importer"} THEN TRUE ELSE textures = None
  /\ IF part \in {"scene", "importer"} THEN TRUE ELSE clips = None
  /\ IF part \in {"scene", "session"} THEN TRUE ELSE world = None
  /\ IF part \in {"scene", "session"} THEN TRUE ELSE commands = None

Next ==
  /\ UNCHANGED part
  /\ IF part = "renderer" THEN Renderer!Next
     ELSE UNCHANGED <<surface, window, screen, counter, slices, frame, capture>>
  /\ IF part = "memory" THEN Memory!Next
     ELSE UNCHANGED <<types, blocks, owned, shadow, depth, staging>>
  /\ IF part = "pool" THEN Pool!Next
     ELSE UNCHANGED <<slots, gens, nextFree, freeHead, len, issued>>
  /\ IF part = "level" THEN Level!Next
     ELSE UNCHANGED <<file, saving, source, level, drawn, known, first, held>>
  /\ IF part = "bot" THEN Bot!Next
     ELSE UNCHANGED <<links, me, goal, parent, head, hop, cmd>>
  /\ IF part = "scene" THEN Scene!Next
     ELSE UNCHANGED <<loaded, rt, joint, slot, blasts, wentOff, records, matrices,
                      skinned, attach, picture>>
  /\ IF part = "importer" THEN Importer!Next
     ELSE UNCHANGED <<at, buckets, remap, next, before, skel, verts, indices, disk,
                      model, sample>>
  /\ IF part = "session" THEN Session!Next
     ELSE UNCHANGED <<history, latest, latestTick, clientBaseline, predicted, confirmed,
                      confirmedTick, ring, rewound, upstream, downstream, past>>
  /\ IF part \in {"renderer", "importer"} THEN TRUE ELSE UNCHANGED scene
  /\ IF part \in {"renderer", "bot"} THEN TRUE ELSE UNCHANGED queue
  /\ IF part \in {"level", "bot", "importer"} THEN TRUE ELSE UNCHANGED pc
  /\ IF part \in {"memory", "importer"} THEN TRUE ELSE UNCHANGED textures
  /\ IF part \in {"scene", "importer"} THEN TRUE ELSE UNCHANGED clips
  /\ IF part \in {"scene", "session"} THEN TRUE ELSE UNCHANGED world
  /\ IF part \in {"scene", "session"} THEN TRUE ELSE UNCHANGED commands

vars == <<part, surface, window, screen, counter, slices, frame, capture, types,
          blocks, owned, shadow, depth, staging, slots, gens, nextFree, freeHead, len,
          issued, file, saving, source, level, drawn, known, first, held, links, me,
          goal, parent, head, hop, cmd, loaded, rt, joint, slot, blasts,
          wentOff, records, matrices, skinned, attach, picture, at, buckets, remap, next,
          before, skel, verts, indices, disk, model, sample, history, latest, latestTick,
          clientBaseline, predicted, confirmed, confirmedTick, ring, rewound, upstream,
          downstream, past, scene, queue, pc, textures, clips, world, commands>>

\* Each part's own fairness, while it is the part that runs.
RendererVars == Renderer!vars
LevelVars    == Level!vars
SessionVars  == Session!vars
Fairness ==
  /\ WF_RendererVars(part = "renderer" /\ Renderer!Loop)
  /\ WF_RendererVars(part = "renderer" /\ Renderer!Finish)
  /\ WF_RendererVars(part = "renderer" /\ Renderer!Pump)
  /\ WF_LevelVars(part = "level" /\ Level!Program)
  /\ WF_LevelVars(part = "level" /\ Level!EndSave)
  /\ WF_SessionVars(part = "session" /\ Session!Tick)
  /\ SF_SessionVars(part = "session" /\ Session!Delivered(0))
  /\ SF_SessionVars(part = "session" /\ Session!Synced(0))

Spec == Init /\ [][Next]_vars /\ Fairness

-----------------------------------------------------------------------------
(* What each part promises, while it is the part that runs.                *)

\* Every variable of the part that runs stays within its type, and every queue and
\* table within its bound.
PartsTypeOK ==
  /\ part = "renderer" => Renderer!TypeOK
  /\ part = "memory"   => Memory!TypeOK
  /\ part = "pool"     => Pool!TypeOK
  /\ part = "level"    => Level!TypeOK
  /\ part = "bot"      => Bot!TypeOK
  /\ part = "scene"    => Scene!TypeOK
  /\ part = "importer" => Importer!TypeOK

\* Nothing a frame in flight uses is rewritten or destroyed before the GPU is done
\* with it, whatever resize, early return or reload came between (gpu_frame.cpp:26-34).
NothingReusedInFlight == part = "renderer" => Renderer!NothingReusedInFlight

\* A capture that landed is the frame that was shown, whole and at its size, whatever
\* was resized between its request and its read-back (gpu_frame.cpp:103-104, 207-228).
CaptureIsTheFrame == part = "renderer" => Renderer!CaptureIsTheFrame

\* No two resources in use share memory, each lies aligned within its block, and
\* what the CPU writes to is mapped (gpu_alloc.cpp:41-93).
MemoryIsItsOwn == part = "memory" => Memory!MemoryIsItsOwn

\* A handle gets what it was given for until that is removed, and null ever after
\* (pool.h:66-105).
HandlesResolve == part = "pool" => Pool!HandlesResolve

\* What is played, walked and drawn comes from one text, the last good one that was
\* read (sim_level.cpp:60-68, 168-188; main.cpp:412-421).
OneMap == part = "level" => Level!OneMap

\* The search finds a shortest way, queues no node twice, and gives up only where
\* there is no way (sim_nav.cpp:98-123).
HopIsShortest == part = "bot" => Bot!HopIsShortest

\* A frame shows its own world, in poses of its own tick, whatever earlier ones left in
\* its slot and in the others (render_scene.cpp:174-300).
SceneIsTheWorlds == part = "scene" => Scene!FrameIsOfItsWorld

\* An imported model has every region filled by the right primitives, its joints
\* after their parents, and is loaded as it was saved (asset_import.cpp:131-309,
\* asset_skin.cpp:39-132, um_import.cpp:56-105).
ImportIsFaithful ==
  part = "importer" =>
    Importer!RegionsAreFilled /\ Importer!ParentsComeFirst /\ Importer!LoadsItsOwn

\* Frames go on once a window has settled and has views, every slot in its turn.
FramesGoOn ==
  <>[](part = "renderer" /\ Renderer!Settled)
    => \A s \in 0 .. Frames - 1 : []<>(part = "renderer" /\ Renderer!Drawing(s))

\* A good map that is saved and left alone comes to be played and drawn.
MapIsFollowed ==
  \A text \in {Level!Open, Level!Walled} :
    <>[](part = "level" /\ Level!Saved(text))
      => <>[](part = "level" /\ Level!Follows(Level!LevelOf(text)))

\* Neither comes to a stop, whatever was resized, skipped, cut short or forgotten on
\* the way (gpu_frame.cpp:15-98, main.cpp:409-421).
PartsGoOn == FramesGoOn /\ MapIsFollowed

\* A client the server has heard of comes to hold the server's world, whatever is
\* lost on the way, unless from some point on no snapshot for it fits the packet
\* (session.cpp:53-84, 110-169).
EventuallySynced ==
  (part = "session" /\ Session!Heard(0))
    ~> \/ [](part = "session" /\ Session!InSync(0))
       \/ [](part = "session" /\ Session!Unsendable(0))
=============================================================================
