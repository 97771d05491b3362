------------------------------- MODULE Importer -------------------------------
(***************************************************************************)
(* A model on its way from a glTF file to the renderer: import_gltf of     *)
(* asset_import.cpp and asset_skin.cpp, primitive by primitive and joint   *)
(* by joint; um_import.cpp, which writes the result file by file and may   *)
(* fail at each; model_load and skinned_model_load, which take whatever    *)
(* files they find under the name; and the sampling of a clip.             *)
(*                                                                         *)
(* A vertex is the primitive and the number it had there.  A node's place  *)
(* is left out, a texture's pixels too.  Under the name there may be the   *)
(* files of an older model.                                                *)
(***************************************************************************)
EXTENDS Integers, Sequences, SequencesExt, FiniteSets

CONSTANTS
  Nodes,          \* the nodes a rig is made of, 1 .. n
  MaxMaterials,   \* MAX_MATERIALS
  MaxImages,      \* MAX_IMAGES
  MaxClips,       \* MAX_CLIPS
  None            \* no material, no joint, no file, not written yet

VARIABLES
  scene,          \* the glTF file
  pc, at,         \* the stage of the import, and how far it got in it
  buckets,        \* Buckets
  remap, next, before,  \* gltf_to_engine, and the pass that assigns it
  skel,           \* the skeleton's parents and root, None without one
  verts, indices, \* what the Writer wrote
  textures, clips,
  disk,           \* the files under the name
  model,          \* what the renderer loaded
  sample          \* the keys a pose was sampled from

geometry == <<buckets, verts, indices>>
rig      == <<remap, next, before, skel>>
vars == <<scene, pc, at, geometry, rig, textures, clips, disk, model, sample>>

-----------------------------------------------------------------------------
(* The files an artist may hand in: every rig with a plain mesh, and meshes *)
(* of up to three primitives with no rig or a plain one.                    *)

Prim == [material: {None, "steel", "paint"}, verts: {1, 2}, index: {None, <<0, 0, 1>>}, joint: {None, 0}]
Prims == {p \in Prim : (p.index # None => p.verts = 2) /\ (p.joint = None => p.verts = 2)}
Plain == [material |-> "steel", verts |-> 2, index |-> None, joint |-> 0]
Motley == <<Plain, [Plain EXCEPT !.material = "glass"], [Plain EXCEPT !.material = "paint"]>>

\* engine_parent_of: the nearest joint above a node, by its number in the skin.
Most == Cardinality(Nodes)
Ancestors(r, n) ==
  LET up[k \in 0 .. Most] ==      \* the k nodes above n, fewer if there are fewer
        IF k = 0 THEN <<n>>
        ELSE LET s == up[k - 1]
             IN  IF Len(s) < k \/ r.parent[s[k]] = 0 THEN s ELSE Append(s, r.parent[s[k]])
  IN  Tail(up[Most])
JointAbove(r, n) ==
  LET up   == Ancestors(r, n)
      hits == SelectInSeq(up, LAMBDA x : x \in Range(r.joints))
  IN  IF hits = 0 THEN None ELSE CHOOSE g \in DOMAIN r.joints : r.joints[g] = up[hits]
\* The walk to it comes to an end.
Ends(r, n) == JointAbove(r, n) # None \/ Len(Ancestors(r, n)) < Most

Orders == UNION {{s \in [1 .. k -> Nodes] : \A i, j \in 1 .. k : i # j => s[i] # s[j]} :
                   k \in 1 .. Cardinality(Nodes)}
Rigs   == {r \in [parent: [Nodes -> Nodes \cup {0}], joints: Orders] :
             \A g \in DOMAIN r.joints : Ends(r, r.joints[g])}
OneBone == [parent |-> [n \in Nodes |-> 0], joints |-> <<1>>]

\* A channel of an animation moves one node, with the times of its keys; or it is one
\* that is passed over, a cubic spline or one without a target.
Channel(n, t) == [node |-> n, read |-> TRUE, times |-> t]
Spline(n, t)  == [node |-> n, read |-> FALSE, times |-> t]
Some       == <<<<Channel(1, <<0, 2>>)>>>>
Many       == <<<<Spline(1, <<4>>), Channel(2, <<0, 1>>), Channel(1, <<0, 3>>)>>,
                <<Spline(1, <<0, 2>>)>>>>
Scenes ==
  {[prims |-> p, rig |-> r, animations |-> <<>>] :
     p \in {<<a>> : a \in Prims} \cup {<<a, b>> : a, b \in Prims} \cup {SubSeq(Motley, 1, n) : n \in 2 .. 3},
     r \in {None, OneBone}}
  \cup {[prims |-> <<Plain>>, rig |-> OneBone, animations |-> a] : a \in {Some, Many}}
  \cup {[prims |-> <<Plain>>, rig |-> r, animations |-> Many] : r \in Rigs}
-----------------------------------------------------------------------------
(* import_gltf.                                                            *)

Joints    == scene.rig.joints
HasSkin   == skel # None
IndexOf(p) == IF p.index = None THEN [i \in 1 .. p.verts |-> i - 1] ELSE p.index
BucketOf(p) == SelectInSeq(buckets, LAMBDA b : b.material = p.material)
Bucket(m) == [material |-> m, verts |-> 0, count |-> 0, offset |-> 0, cursor |-> 0,
              texture |-> None]
Old(k) == [of |-> "old", n |-> k]
New(k) == [of |-> "new", n |-> k]
Torn   == [of |-> "torn", n |-> 0]   \* what a write that came to no end leaves
Empty == [mesh |-> None, textures |-> <<>>, skel |-> None, skin |-> None, clips |-> <<>>]
\* What stands under the name; only the files meet it, so the stranger rigs find nothing.
OldModel ==
  {Empty, [mesh |-> Old(0), textures |-> <<Old(1), Old(2)>>, skel |-> Old(1),
           skin |-> Old(1), clips |-> <<Old(1), Old(2)>>]}

Init ==
  /\ scene \in Scenes
  /\ disk \in IF scene.rig \in {None, OneBone} THEN OldModel ELSE {Empty}
  /\ pc = "count" /\ at = 1
  /\ buckets = <<>> /\ verts = <<>> /\ indices = <<>>
  /\ remap = <<>> /\ next = 0 /\ before = 0 /\ skel = None
  /\ textures = <<>> /\ clips = <<>>
  /\ model = None /\ sample = None

Refuse == pc' = "refused" /\ UNCHANGED <<at, geometry, rig, textures, clips, disk, model, sample>>

\* count_node: what each material takes.
Count ==
  /\ pc = "count" /\ at <= Len(scene.prims)
  /\ LET p == scene.prims[at]
         b == BucketOf(p)
         room == IF b = 0 THEN Append(buckets, Bucket(p.material)) ELSE buckets
         i == IF b = 0 THEN Len(room) ELSE b
     IN  IF Len(room) > MaxMaterials THEN Refuse
         ELSE /\ buckets' = [room EXCEPT ![i].verts = @ + p.verts,
                                         ![i].count = @ + Len(IndexOf(p))]
              /\ at' = at + 1
              /\ UNCHANGED <<pc, verts, indices, rig, textures, clips, disk, model, sample>>
  /\ UNCHANGED scene

\* The regions of the index pool, one after the other.
Laid ==
  [i \in DOMAIN buckets |->
     [buckets[i] EXCEPT !.offset =
        LET sum[k \in 0 .. Len(buckets)] == IF k = 0 THEN 0 ELSE sum[k - 1] + buckets[k].count
        IN  sum[i - 1]]]
Layout ==
  /\ pc = "count" /\ at > Len(scene.prims)
  /\ buckets' = Laid
  /\ indices' = [k \in 1 .. Laid[Len(Laid)].offset + Laid[Len(Laid)].count |-> None]
  /\ pc' = IF scene.rig = None THEN "append" ELSE "skeleton"
  /\ at' = 1
  /\ remap' = IF scene.rig = None THEN <<>> ELSE [g \in DOMAIN Joints |-> None]
  /\ UNCHANGED <<scene, verts, next, before, skel, textures, clips, disk, model, sample>>

\* import_skeleton: a joint of a pass over them, taken once its parent was.
EagerReady(g) == TRUE               \* mutant: in the order of the file
Ready(g) ==
  LET up == JointAbove(scene.rig, Joints[g]) IN up = None \/ remap[up] # None
Assign ==
  /\ pc = "skeleton" /\ at <= Len(Joints) /\ next < Len(Joints)
  /\ IF remap[at] = None /\ Ready(at)
     THEN remap' = [remap EXCEPT ![at] = next] /\ next' = next + 1
     ELSE UNCHANGED <<remap, next>>
  /\ at' = at + 1
  /\ UNCHANGED <<scene, pc, geometry, before, skel, textures, clips, disk, model, sample>>

\* A pass that took none is a cycle: the model is imported without its rig.
Pass ==
  /\ pc = "skeleton" /\ at > Len(Joints) /\ next < Len(Joints)
  /\ IF next = before THEN pc' = "append" ELSE UNCHANGED pc
  /\ at' = 1 /\ before' = next
  /\ UNCHANGED <<scene, geometry, remap, next, skel, textures, clips, disk, model, sample>>

Parents ==
  [e \in 0 .. Len(Joints) - 1 |->
     LET g  == CHOOSE x \in DOMAIN Joints : remap[x] = e
         up == JointAbove(scene.rig, Joints[g])
     IN  IF up = None THEN -1 ELSE remap[up]]
Skeleton ==
  /\ pc = "skeleton" /\ next = Len(Joints)
  /\ LET roots == SelectInSeq(remap, LAMBDA e : Parents[e] < 0)
     IN  skel' = [parents |-> Parents, root |-> IF roots = 0 THEN 0
                                                 ELSE scene.rig.parent[Joints[roots]]]
  /\ pc' = "append" /\ at' = 1
  /\ UNCHANGED <<scene, geometry, remap, next, before, textures, clips, disk, model, sample>>

\* append_node: a primitive's vertices at the end, its indices into its region.
SkinOf(p) == IF ~HasSkin THEN None ELSE IF p.joint = None THEN 0 ELSE remap[p.joint + 1]
Append1 ==
  /\ pc = "append" /\ at <= Len(scene.prims)
  /\ LET p   == scene.prims[at]
         b   == BucketOf(p)
         ixs == IndexOf(p)
         to  == buckets[b].offset + buckets[b].cursor
     IN  /\ verts' = verts \o [i \in 1 .. p.verts |->
                                 [prim |-> at, i |-> i - 1, joint |-> SkinOf(p)]]
         /\ indices' = [k \in DOMAIN indices |->
                          IF k - to \in DOMAIN ixs THEN Len(verts) + ixs[k - to] ELSE indices[k]]
         /\ buckets' = [buckets EXCEPT ![b].cursor = @ + Len(ixs)]
  /\ at' = at + 1
  /\ UNCHANGED <<scene, pc, rig, textures, clips, disk, model, sample>>

\* import_clips: a track for each channel that can be read and moves a joint; the clip
\* lasts as long as the longest of them.
Tracks(a) ==
  {[joint |-> remap[SelectInSeq(Joints, LAMBDA x : x = a[i].node)], times |-> a[i].times] :
     i \in {i \in DOMAIN a : a[i].read /\ a[i].node \in Range(Joints)}}
LastKey(times)   == times[Len(times)]
Duration(tracks) == Max({0} \cup {LastKey(track.times) : track \in tracks})
Clips ==
  [c \in 1 .. (IF Len(scene.animations) < MaxClips THEN Len(scene.animations) ELSE MaxClips) |->
     LET tracks == Tracks(scene.animations[c])
     IN  [tracks |-> tracks, duration |-> Duration(tracks)]]

\* Each image once, as many as there is room for, those that can be read.
Image(m) == CASE m = None -> None [] m = "steel" -> "metal" [] m = "glass" -> "metal"
              [] OTHER -> "colour"
Textures ==
  /\ pc = "append" /\ at > Len(scene.prims)
  /\ \E readable \in SUBSET {"metal", "colour"} :
       LET load[i \in 0 .. Len(buckets)] ==
             IF i = 0 THEN <<>>
             ELSE LET image == Image(buckets[i].material)
                  IN  IF image \in readable \ Range(load[i - 1]) /\ Len(load[i - 1]) < MaxImages
                      THEN Append(load[i - 1], image) ELSE load[i - 1]
           all == load[Len(buckets)]
       IN  /\ textures' = all
           /\ buckets' = [i \in DOMAIN buckets |->
                [buckets[i] EXCEPT !.texture =
                   LET t == SelectInSeq(all, LAMBDA x : x = Image(buckets[i].material))
                   IN  IF t = 0 THEN None ELSE t]]
  /\ clips' = IF HasSkin THEN Clips ELSE <<>>
  /\ pc' = "save" /\ at' = 1
  /\ UNCHANGED <<scene, verts, indices, rig, disk, model, sample>>

-----------------------------------------------------------------------------
(* um_import, and the loaders.                                             *)

\* The files in the order they are written.
Files ==
  <<"mesh">> \o [t \in DOMAIN textures |-> "texture"]
  \o (IF HasSkin THEN <<"skel", "skin">> \o [c \in DOMAIN clips |-> "clip"] ELSE <<>>)
Put(s, k, x) == IF k <= Len(s) THEN [s EXCEPT ![k] = x] ELSE Append(s, x)
\* The disk with the i-th of them written, to its end or not.
Stored(i, whole) ==
  LET file == Files[i]
      c    == i - 3 - Len(textures)
      x(k) == IF whole THEN New(k) ELSE Torn
  IN  CASE file = "mesh"    -> [disk EXCEPT !.mesh = x(0)]
        [] file = "texture" -> [disk EXCEPT !.textures = Put(@, i - 1, x(i - 1))]
        [] file = "skel"    -> [disk EXCEPT !.skel = x(1)]
        [] file = "skin"    -> [disk EXCEPT !.skin = x(1)]
        [] file = "clip"    -> [disk EXCEPT !.clips = Put(@, c, x(c))]

\* A file that cannot be opened, or not written to its end, ends the import.
Save ==
  /\ pc = "save" /\ at <= Len(Files)
  /\ \/ disk' = Stored(at, TRUE) /\ at' = at + 1 /\ UNCHANGED pc
     \/ disk' \in {disk, Stored(at, FALSE)} /\ pc' = "failed" /\ UNCHANGED at
  /\ UNCHANGED <<scene, geometry, rig, textures, clips, model, sample>>

\* The loaders refuse a file whose length is not what its header says.
Whole(f)   == f \notin {None, Torn}
Leading(s) == LET bad == SelectInSeq(s, LAMBDA f : ~Whole(f))
              IN  IF bad = 0 THEN s ELSE SubSeq(s, 1, bad - 1)

\* skinned_model_load: textures and clips up to the first that is missing or torn; a
\* rig if both its files are good; nothing without a mesh.
HasRig(d) == Whole(d.skel) /\ Whole(d.skin)
Loaded(d) ==
  IF ~Whole(d.mesh) THEN None
  ELSE [mesh |-> d.mesh, textures |-> Leading(d.textures),
        skel |-> IF HasRig(d) THEN d.skel ELSE None, skin |-> IF HasRig(d) THEN d.skin ELSE None,
        clips |-> IF HasRig(d) THEN Leading(d.clips) ELSE <<>>]
Load ==
  /\ (pc = "save" /\ at > Len(Files)) \/ pc = "failed"
  /\ model' = Loaded(disk)
  /\ pc' = IF pc = "failed" THEN "mixed" ELSE "loaded"
  /\ UNCHANGED <<scene, at, geometry, rig, textures, clips, disk, sample>>

\* sample_clip: the keys a track gives at a time, which wraps at the clip's end and so
\* may be past its own.
KeyBefore(times, t) ==
  LET past == {k \in 1 .. Len(times) - 1 : times[k + 1] <= t}
  IN  1 + Cardinality(past)
Wrapped(duration, t) == IF duration > 0 THEN t % duration ELSE t
Play ==
  /\ pc = "loaded" /\ model.clips # <<>> /\ sample = None
  /\ \E c \in DOMAIN clips, t \in 0 .. 3 : \E track \in clips[c].tracks :
       LET times == track.times
           now   == Wrapped(clips[c].duration, t)
           k     == KeyBefore(times, now)
           blend == k < Len(times) /\ now > times[k]
       IN  sample' = [times |-> times, now |-> now, from |-> k,
                       to |-> IF blend THEN k + 1 ELSE k]
  /\ UNCHANGED <<scene, pc, at, geometry, rig, textures, clips, disk, model>>

Next ==
  \/ Count \/ Layout \/ Assign \/ Pass \/ Skeleton \/ Append1 \/ Textures
  \/ Save \/ Load \/ Play
Spec == Init /\ [][Next]_vars

-----------------------------------------------------------------------------
TypeOK ==
  /\ pc \in {"count", "refused", "skeleton", "append", "save", "failed", "mixed", "loaded"}
  /\ Len(buckets) <= MaxMaterials /\ Len(textures) <= MaxImages
  /\ next \in 0 .. Most /\ before \in 0 .. next

Written == pc \in {"save", "failed", "mixed", "loaded"}

\* What the region of a material is to hold of the first i primitives: the indices of
\* those that are of it, in their order.
Wanted(m) ==
  LET want[i \in 0 .. Len(scene.prims)] ==
        IF i = 0 THEN <<>>
        ELSE LET p == scene.prims[i]
             IN  IF p.material # m THEN want[i - 1]
                 ELSE want[i - 1] \o [k \in DOMAIN IndexOf(p) |-> <<i, IndexOf(p)[k]>>]
  IN  want

\* Every region of the index pool was filled to its end, by the primitives of its
\* material and in their order, each index with a vertex of the primitive it is of
\* (asset_import.cpp:270-305, 131-198).
RegionsAreFilled ==
  Written => \A b \in DOMAIN buckets :
    LET got == [k \in 1 .. buckets[b].count |->
                  LET v == indices[buckets[b].offset + k]
                  IN  IF v = None THEN <<>> ELSE <<verts[v + 1].prim, verts[v + 1].i>>]
    IN  /\ buckets[b].cursor = buckets[b].count
        /\ got = Wanted(buckets[b].material)[Len(scene.prims)]

\* However the file orders its joints, and whatever other nodes stand between them:
\* each has a number of its own, its parent's comes before it and is its nearest
\* joint's above; no vertex is bound to a joint there is not; and a rig is given up
\* only where some joints are all above one another (asset_skin.cpp:39-132).
ParentsComeFirst ==
  /\ HasSkin =>
       /\ Range(remap) = 0 .. Len(Joints) - 1
       /\ \A g \in DOMAIN Joints :
            LET up == JointAbove(scene.rig, Joints[g])
            IN  skel.parents[remap[g]] = IF up = None THEN -1 ELSE remap[up]
       /\ \A e \in DOMAIN skel.parents : skel.parents[e] < e
       /\ \A v \in DOMAIN verts : verts[v].joint \in DOMAIN skel.parents
  /\ (Written /\ scene.rig # None /\ ~HasSkin) =>
       \E S \in (SUBSET DOMAIN Joints) \ {{}} :
         \A g \in S : JointAbove(scene.rig, Joints[g]) \in S

\* A model loaded after an import that came to its end is that import's, whatever was
\* there before; it may have more textures and clips than it uses.  A pose is made of
\* keys on either side of its time, or of the last one of a track that ends before its
\* clip does (um_import.cpp:56-105, anim_sample.cpp:23-105).
LoadsItsOwn ==
  pc = "loaded" =>
    /\ model.mesh = New(0)
    /\ \A b \in DOMAIN buckets :
         buckets[b].texture # None =>
           model.textures[buckets[b].texture] = New(buckets[b].texture)
    /\ HasSkin => model.skel = New(1) /\ model.skin = New(1)
                  /\ \A c \in DOMAIN clips : model.clips[c] = New(c)
    /\ sample # None =>
         /\ sample.to \in DOMAIN sample.times
         /\ sample.from # sample.to => sample.now <= sample.times[sample.to]
         /\ sample.from # 1 => sample.times[sample.from] <= sample.now
         /\ \A k \in DOMAIN sample.times :
              sample.times[k] <= sample.now => k <= sample.from
=============================================================================
