-------------------------------- MODULE Memory --------------------------------
(***************************************************************************)
(* Device memory: the bump allocator of gpu_alloc.cpp under everything     *)
(* that takes memory from it, buffers, textures, the shadow map, the depth *)
(* buffer that every resize makes anew, acceleration structures, and the   *)
(* staging buffers of the uploads.  Resources are destroyed, their memory  *)
(* is kept till shutdown.  An assertion or a panic of the code ends the    *)
(* program: the operation that runs into one is not taken.                 *)
(***************************************************************************)
EXTENDS Integers, Sequences, SequencesExt

CONSTANTS
  BlockSize,     \* BLOCK_SIZE
  MaxBlocks,     \* MAX_BLOCKS
  MaxBuffers,    \* MAX_OWNED_BUFFERS
  MaxTextures,   \* MAX_OWNED_TEXTURES
  Frames,        \* FRAMES_IN_FLIGHT
  Sizes,         \* the sizes asked for
  Aligns,        \* the alignments a driver asks for, powers of two
  None

VARIABLES
  types,       \* the machine's memory types in order: the properties of each, and
               \* what its driver lets lie there, by its bit in a memoryTypeBits
  blocks,      \* blocks_
  owned,       \* owned_buffers_
  textures,    \* owned_images_
  shadow,      \* shadow_image_
  depth,       \* depth_image_
  staging      \* auxiliary: where the last upload was written from

vars == <<types, blocks, owned, textures, shadow, depth, staging>>
images == <<textures, shadow, depth>>

\* Discrete, unified, with a window into device memory, and with a type of its own
\* for images.  Vulkan has a type for whatever it lets be created.
Both == {"buffer", "image"}
Machines == {<<{"local"} \cup Both, {"visible"} \cup Both>>,
             <<{"local", "visible"} \cup Both>>,
             <<{"local"} \cup Both, {"visible"} \cup Both, {"local", "visible"} \cup Both>>,
             <<{"local", "image"}, {"visible"} \cup Both, {"local", "visible", "buffer"}>>}

Request(size, align, props) == [size |-> size, align |-> align, props |-> props]
Host(size)          == Request(size, 1, {"visible", "buffer"})
Local(size, align)  == Request(size, align, {"local", "buffer"})
Image(size, align)  == Request(size, align, {"local", "image"})

\* find_memory_type: the first that the resource may lie in and that has what is asked
\* for; none is a panic.
FindMemoryType(props) ==
  SelectInSeq(types, LAMBDA kind : props \subseteq kind)

UpTo(n, align) == ((n + align - 1) \div align) * align
Fits(b, type, req) == b.type = type /\ UpTo(b.used, req.align) + req.size <= b.size

\* A new block is mapped by what its type can do, not by what is asked of it now.
MappedOnRequest(type, req) == "visible" \in req.props     \* mutant
Mapped(type, req) == "visible" \in types[type]

NewBlock(type, req) ==
  [type |-> type, size |-> IF req.size > BlockSize THEN req.size ELSE BlockSize,
   used |-> 0, mapped |-> Mapped(type, req)]

\* Allocator::allocate: from the first block of the type with room, or a new one.
Allocate(given, req) ==
  LET bs    == given.blocks
      type  == FindMemoryType(req.props)
      first == SelectInSeq(bs, LAMBDA b : Fits(b, type, req))
      i     == IF first # 0 THEN first ELSE Len(bs) + 1
      b     == IF first # 0 THEN bs[i] ELSE NewBlock(type, req)
      from  == UpTo(b.used, req.align)
      after == [b EXCEPT !.used = from + req.size]
  IN  [blocks |-> IF first # 0 THEN [bs EXCEPT ![i] = after] ELSE Append(bs, after),
       ranges |-> Append(given.ranges,
                    [block |-> i, from |-> from, to |-> from + req.size,
                     align |-> req.align, host |-> "visible" \in req.props,
                     mapped |-> b.mapped])]

Piece == [block : Nat, from : Nat, to : Nat, align : Nat \ {0}, host : BOOLEAN,
          mapped : BOOLEAN]

\* create_buffer and the like, one after the other.
Given(reqs) ==
  LET given[k \in 0 .. Len(reqs)] ==
        IF k = 0 THEN [blocks |-> blocks, ranges |-> <<>>]
        ELSE Allocate(given[k - 1], reqs[k])
  IN  given[Len(reqs)]

Take(reqs) ==
  /\ blocks' = Given(reqs).blocks
  /\ Len(blocks') <= MaxBlocks
  /\ UNCHANGED types

\* Another n owned buffers, the last ones taken.
Own(ranges) ==
  /\ owned' = owned \o ranges
  /\ Len(owned') <= MaxBuffers

-----------------------------------------------------------------------------
(* The operations of the renderer.                                         *)

Init ==
  /\ types \in Machines
  /\ blocks = <<>> /\ owned = <<>> /\ textures = <<>>
  /\ shadow = None /\ depth = None /\ staging = None

CreateDeviceBuffer(size, align) ==
  LET reqs == <<Host(size), Local(size, align)>>
  IN  /\ Take(reqs)
      /\ staging' = Given(reqs).ranges[1]
      /\ Own(<<Given(reqs).ranges[2]>>)
      /\ UNCHANGED images

CreateGpuBuffer(size, align) ==
  LET reqs == <<Local(size, align)>>
  IN  /\ Take(reqs)
      /\ Own(Given(reqs).ranges)
      /\ UNCHANGED <<images, staging>>

CreateMappedBuffer(size) ==
  LET reqs == <<Host(size)>>
  IN  /\ Take(reqs)
      /\ Own(Given(reqs).ranges)
      /\ UNCHANGED <<images, staging>>

\* A reload of the map: a staged copy into a buffer that is there already.
UpdateDeviceBuffer(size) ==
  LET reqs == <<Host(size)>>
  IN  /\ owned # <<>>
      /\ Take(reqs)
      /\ staging' = Given(reqs).ranges[1]
      /\ UNCHANGED <<owned, images>>

CreateTexture(size, align) ==
  LET reqs == <<Host(size), Image(size, align)>>
  IN  /\ Take(reqs)
      /\ staging' = Given(reqs).ranges[1]
      /\ textures' = Append(textures, Given(reqs).ranges[2])
      /\ Len(textures') <= MaxTextures
      /\ UNCHANGED <<owned, shadow, depth>>

CreateShadowMap(size, align) ==
  LET reqs == <<Image(size, align)>>
  IN  /\ shadow = None
      /\ Take(reqs)
      /\ shadow' = Given(reqs).ranges[1]
      /\ UNCHANGED <<owned, textures, depth, staging>>

\* recreate_swapchain: the depth buffer goes, and comes back if there is an area.
DestroyDepth ==
  /\ depth # None
  /\ depth' = None
  /\ UNCHANGED <<types, blocks, owned, textures, shadow, staging>>

CreateDepth(size, align) ==
  LET reqs == <<Image(size, align)>>
  IN  /\ Take(reqs)
      /\ depth' = Given(reqs).ranges[1]
      /\ UNCHANGED <<owned, textures, shadow, staging>>

\* A bottom-level structure: its storage and its scratch.
CreateBlas(size, align) ==
  LET reqs == <<Local(size, align), Local(1, align)>>
  IN  /\ owned # <<>>
      /\ Take(reqs)
      /\ Own(Given(reqs).ranges)
      /\ UNCHANGED <<images, staging>>

\* The top-level ones: the instances of all frames, then storage and scratch of each.
CreateTlas(size, align) ==
  LET each == [i \in 1 .. 2 * Frames |-> Local(IF i % 2 = 1 THEN size ELSE 1, align)]
      reqs == <<Host(Frames)>> \o each
  IN  /\ Take(reqs)
      /\ Own(Given(reqs).ranges)
      /\ UNCHANGED <<images, staging>>

\* Allocator::shutdown, after the resources are gone.
Shutdown ==
  /\ blocks # <<>>
  /\ blocks' = <<>> /\ owned' = <<>> /\ textures' = <<>>
  /\ shadow' = None /\ depth' = None /\ staging' = None
  /\ UNCHANGED types

Next ==
  \/ \E size \in Sizes, align \in Aligns :
       \/ CreateDeviceBuffer(size, align)
       \/ CreateGpuBuffer(size, align) \/ CreateTexture(size, align)
       \/ CreateShadowMap(size, align) \/ CreateDepth(size, align)
       \/ CreateBlas(size, align) \/ CreateTlas(size, align)
  \/ \E size \in Sizes : CreateMappedBuffer(size) \/ UpdateDeviceBuffer(size)
  \/ DestroyDepth \/ Shutdown

Spec == Init /\ [][Next]_vars

-----------------------------------------------------------------------------
(* Properties.                                                             *)

\* All that has memory, by what it is.
One(r) == IF r = None THEN <<>> ELSE <<r>>
InUse  == [owned |-> owned, textures |-> textures, shadow |-> One(shadow),
           depth |-> One(depth), staging |-> One(staging)]

Apart(a, b) == a.block = b.block => a.to <= b.from \/ b.to <= a.from
LiesWell(a) == /\ a.block \in DOMAIN blocks /\ a.to <= blocks[a.block].used
               /\ a.from % a.align = 0
               /\ a.host => a.mapped

TypeOK ==
  /\ types \in Machines
  /\ Len(blocks) <= MaxBlocks
  /\ \A i \in DOMAIN blocks : blocks[i].used \in 1 .. blocks[i].size
  /\ owned \in Seq(Piece) /\ Len(owned) <= MaxBuffers
  /\ textures \in Seq(Piece) /\ Len(textures) <= MaxTextures
  /\ {shadow, depth, staging} \subseteq Piece \cup {None}

\* Whatever was created, resized, reloaded and destroyed before, on every kind of
\* machine: nothing in use shares memory with anything else in use, staging
\* included; each resource lies within its block, aligned; and what the CPU
\* writes to is mapped, also in a block first opened for the GPU alone
\* (gpu_alloc.cpp:41-57, 79-89).
MemoryIsItsOwn ==
  /\ \A u, v \in DOMAIN InUse : \A i \in DOMAIN InUse[u], j \in DOMAIN InUse[v] :
       <<u, i>> # <<v, j>> => Apart(InUse[u][i], InUse[v][j])
  /\ \A u \in DOMAIN InUse : \A i \in DOMAIN InUse[u] : LiesWell(InUse[u][i])
=============================================================================
