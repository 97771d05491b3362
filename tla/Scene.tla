-------------------------------- MODULE Scene --------------------------------
(***************************************************************************)
(* One frame after another of render_scene.cpp, render_queue.cpp and       *)
(* render_model.cpp: the world's robots, chassis and grenades become draw  *)
(* records, a compute pass turns the records that are in sight into        *)
(* commands counted by the GPU, another skins the robots, and the draws    *)
(* follow the counters.  Records, commands, counters, matrices and skinned *)
(* vertices are slices of their buffers, one for each frame slot, and keep *)
(* what an earlier frame left there.  The slots are drawn to in turn; when *)
(* one may be is Renderer's.                                               *)
(*                                                                         *)
(* A pose is the tick it was sampled at.  Places, colours and cameras are  *)
(* left out; what the world does between two ticks is Match's.             *)
(***************************************************************************)
EXTENDS Integers, Sequences, FiniteSets

CONSTANTS
  Frames,        \* frames in flight, a slot for each
  Others,        \* the players this one sees: 1 .. MAX_PLAYERS - 1
  MaxInstances,  \* the trooper model's max_instances
  MaxDraws,      \* MAX_MODEL_DRAWS
  Submeshes,     \* submesh_count of the trooper
  HighestClip,   \* the highest clip the trooper rig names
  Respawn,       \* ticks a robot is dead
  CorpseTicks,   \* of which its body shows for so many
  BlastTicks,    \* BLAST_FX_TICKS
  MaxTicks,      \* bound: ticks of the run
  None

Slot    == 0 .. Frames - 1
Players == {0} \cup Others
Passes  == {"camera", "shadow"}
FirstPerson == {"gun", "viewmodel", "tracer_vm", "hitmarker"}
Models  == FirstPerson \cup
           {"trooper", "bot_gun", "mech", "grenade", "blast", "tracer", "overlay"}

VARIABLES
  loaded, clips, rt,   \* the models found, the trooper's clips, ray tracing
  slot,                \* frame.slot of the frame to come
  joint,               \* attach_joint >= 0: the rig has the joint weapons hang off
  world,               \* curr
  blasts,              \* blasts_: the tick a grenade went off, if any
  wentOff,             \* auxiliary: when the grenade last did
  records,             \* records_mapped: what each record of a slot shows
  commands,            \* commands and counts of a slot: what its culls appended
  matrices, skinned,   \* the slices of the trooper's instances, in each slot
  attach,              \* attach_world
  picture              \* auxiliary: what was drawn of this world, and what casts a shadow

vars == <<loaded, clips, rt, joint, slot, world, blasts, wentOff, records, commands, matrices,
          skinned, attach, picture>>
gpu  == <<records, commands, matrices, skinned, attach>>

Tick == 0 .. MaxTicks
Body == [alive: BOOLEAN, wait: 0 .. Respawn]
World == [tick: Tick, body: [Players -> Body], pilot: Players \cup {None}, mech: BOOLEAN,
          grenade: BOOLEAN, shot: Players \cup {None}]

Alive(w) == {i \in Players : w.body[i].alive}
Merged(w, i) == w.mech /\ w.pilot = i
Rigged == clips > HighestClip

-----------------------------------------------------------------------------
(* A tick of the world, and what the scene notes of it.                    *)

HastyAged(b) ==              \* mutant: the wait of the living is counted down as well
  IF b.alive \/ b.wait > 1 THEN [b EXCEPT !.wait = @ - 1] ELSE [alive |-> TRUE, wait |-> 0]
Aged(b) == IF b.alive \/ b.wait > 1 THEN [b EXCEPT !.wait = IF b.alive THEN 0 ELSE @ - 1]
           ELSE [alive |-> TRUE, wait |-> 0]
Dead    == [alive |-> FALSE, wait |-> Respawn]

\* A step of the simulation, as far as a frame can tell: the dead wait, and one thing
\* happens: one is shot, somebody gets in or out of the chassis, its end or its return, a
\* grenade is thrown or goes off.
Aging(w) == [w EXCEPT !.tick = @ + 1, !.body = [i \in Players |-> Aged(w.body[i])],
                      !.shot = None]
After(w) ==
  LET v == Aging(w) IN
  {v, [v EXCEPT !.grenade = ~@], [v EXCEPT !.mech = ~@, !.pilot = None]}
  \cup {[v EXCEPT !.body[i] = Dead, !.pilot = IF @ = i THEN None ELSE @,
                  !.shot = IF i = 0 THEN 1 ELSE 0] : i \in Alive(w)}
  \cup {[v EXCEPT !.pilot = IF @ = i THEN None ELSE i] :
          i \in {p \in Alive(w) : w.mech /\ w.pilot \in {p, None}}}

\* The match starts anew, and the tick goes on (init_match): what flew is gone.
Fresh(tick) ==
  [tick |-> tick, body |-> [i \in Players |-> [alive |-> TRUE, wait |-> 0]],
   pilot |-> None, mech |-> TRUE, grenade |-> FALSE, shot |-> None]

NoteEvents(before, after) ==
  IF before.grenade /\ ~after.grenade THEN after.tick ELSE blasts

Noted ==
  /\ blasts' = NoteEvents(world, world')
  /\ picture' = None
  /\ UNCHANGED <<loaded, clips, rt, joint, slot, gpu>>

Step ==
  /\ world.tick < MaxTicks
  /\ world' \in After(world)
  /\ Noted
  /\ wentOff' = IF world.grenade /\ ~world'.grenade THEN world'.tick ELSE wentOff

Rematch ==
  /\ world.tick < MaxTicks
  /\ world' = Fresh(world.tick + 1)
  /\ Noted
  /\ UNCHANGED wentOff

-----------------------------------------------------------------------------
(* queue_frame: the records of a frame.                                    *)

Fireball(w) == blasts # None /\ w.tick - blasts < BlastTicks
\* Whose body shows, dead or alive: one in the chassis does not.
Posed(w) ==
  {i \in Others : ~Merged(w, i) /\
     (w.body[i].alive \/ (Rigged /\ Respawn - w.body[i].wait <= CorpseTicks))}

\* skinned_model_animate: the matrices of a slice and the joint the weapon hangs off.
CanAnimate(i) == "trooper" \in loaded /\ clips > 0 /\ i < MaxInstances
Animated(w) == IF Rigged THEN {i \in Posed(w) : CanAnimate(i)} ELSE {}
NewAttach(w) ==
  [i \in Others |-> IF joint /\ i \in Animated(w) THEN w.tick ELSE attach[i]]
\* skinned_model_attach: without the joint, the origin.
Hand(w, i) == IF joint THEN NewAttach(w)[i] ELSE None

\* hud_queue: the lines of text, a record for each, and the tints of the screen.
Hud(w) ==
  LET me == w.body[0]
      merged == Merged(w, 0)
  IN  <<"score", "health", "kills">>
      \o (IF me.alive /\ ~merged THEN <<"ammo", "grenades">> ELSE <<>>)
      \o (IF merged THEN <<"core">> ELSE <<>>)
      \o (IF me.alive /\ w.mech /\ w.pilot = None THEN <<"union">> ELSE <<>>)
      \o (IF ~me.alive THEN <<"shroud", "respawn">> ELSE <<>>)

Robot(i) == [robot |-> i, thing |-> "robot"]
Thing(t) == [robot |-> 0, thing |-> t]
Show(what) == [of |-> what, hand |-> None]
If(p, t)   == IF p THEN <<Show(Thing(t))>> ELSE <<>>
\* A set of numbers, the least first.
InOrder(S) ==
  [k \in 1 .. Cardinality(S) |-> CHOOSE x \in S : Cardinality({y \in S : y <= x}) = k]
\* Robots and what hangs off them; then what there is in the arena, the shots that are
\* fresh, what the player holds in front of the eye, and the text.
Bodies(w) == InOrder({i \in Posed(w) : Rigged => i < MaxInstances})
Armed(w)  == InOrder({i \in Posed(w) : Rigged /\ w.body[i].alive})
Wanted(w) ==
  [trooper   |-> [k \in 1 .. Len(Bodies(w)) * Submeshes |->
                    Show(Robot(Bodies(w)[(k - 1) \div Submeshes + 1]))],
   bot_gun   |-> [k \in DOMAIN Armed(w) |->
                    [of |-> Robot(Armed(w)[k]), hand |-> Hand(w, Armed(w)[k])]],
   mech      |-> If(w.mech /\ w.pilot # 0, "mech"),
   grenade   |-> If(w.grenade, "grenade"),
   blast     |-> If(Fireball(w), "blast"),
   tracer    |-> If(w.shot \in Others /\ w.body[w.shot].alive, "shot"),
   tracer_vm |-> If(w.shot = 0 /\ w.body[0].alive, "shot"),
   hitmarker |-> If(w.shot = 0, "hit"),
   gun       |-> If(TRUE, "gun"),
   viewmodel |-> If(TRUE, "hands"),
   overlay   |-> [k \in DOMAIN Hud(w) |-> Show(Thing(Hud(w)[k]))]]

\* queue_records: a model that is full drops the rest; one not loaded takes nothing.
Queued(w) ==
  LET all == Wanted(w)
      fit(q) == [k \in DOMAIN q \cap (1 .. MaxDraws) |-> q[k]]
  IN  [m \in Models |-> IF m \in loaded THEN fit(all[m]) ELSE <<>>]

-----------------------------------------------------------------------------
(* draw: the passes over the records, in the order the GPU runs them.      *)

Region == Models \X Passes
\* The commands of a region: its counter, and how often each record stands below it.
Nothing == [count |-> 0, times |-> [k \in 1 .. MaxDraws |-> 0]]
\* atomicAdd appends in no order that is defined, so none is kept.
Appended(b, S) ==
  [count |-> b.count + Cardinality(S),
   times |-> [k \in 1 .. MaxDraws |-> b.times[k] + IF k \in S THEN 1 ELSE 0]]
Survivors(b) == {k \in 1 .. MaxDraws : b.times[k] > 0}

\* The counters of the slot back to nothing, of every model loaded ...
WrongFilled(c) ==      \* mutant: those of the first slot instead
  [r \in Region |-> IF r[1] \in loaded /\ slot = 0 THEN Nothing ELSE c[r]]
Filled(c) ==
  [r \in Region |-> IF r[1] \in loaded THEN Nothing ELSE c[r]]
\* ... and model_cull, pass by pass; the gun is culled a second time, with planes
\* that keep everything.  `hidden' is out of the camera's sight.
Framed == {"gun", "trooper", "bot_gun", "mech", "grenade", "blast"}
Kept(q, hidden) == {k \in DOMAIN q : q[k].of \notin hidden}
Culled(b, q, hidden, m, pass) ==
  CASE pass = "camera" /\ m = "gun"   -> Appended(Appended(b, Kept(q, hidden)), Kept(q, {}))
    [] pass = "camera" /\ m # "gun"   -> Appended(b, Kept(q, IF m \in Framed THEN hidden ELSE {}))
    [] pass = "shadow" /\ m \in {"trooper", "bot_gun", "mech"} -> Appended(b, Kept(q, {}))
    [] OTHER -> b

\* skinned_model_skin, of the robots that were posed, with the matrices there are.
Skinned(w, mats, old) ==
  [i \in Others |-> IF i \in Posed(w) /\ CanAnimate(i) THEN mats[i] ELSE old[i]]

\* The instances of a ray traced sun, or the casters of its shadow map.
Casters(w, cmds, recs) ==
  IF rt THEN (IF "mech" \in loaded /\ w.mech /\ w.pilot # 0 THEN {Thing("mech")} ELSE {})
             \cup (IF "trooper" \in loaded THEN {Robot(i) : i \in Alive(w) \ {0}} ELSE {})
  ELSE UNION {{recs[m][k].of : k \in Survivors(cmds[<<m, "shadow">>])} :
                m \in {"trooper", "mech"}}

\* What the commands of a record show: how often they do, what the record names, and the
\* vertices it points to.
Shown(m, n, rec, skins) ==
  [times |-> n, of |-> rec.of, hand |-> rec.hand,
   pose |-> IF m = "trooper" /\ Rigged THEN skins[rec.of.robot] ELSE None]

Draw ==
  \E hidden \in {{}, {Robot(i) : i \in Others}}, q \in {Queued(world)} :
    LET recs == [m \in Models |->
                   [k \in 1 .. MaxDraws |-> IF k \in DOMAIN q[m] THEN q[m][k]
                                           ELSE records[slot][m][k]]]
        base == Filled(commands[slot])
        cmds == [r \in Region |-> Culled(base[r], q[r[1]], hidden, r[1], r[2])]
        mats == [i \in Others |-> IF i \in Animated(world) THEN world.tick
                                  ELSE matrices[slot][i]]
        skin == Skinned(world, mats, skinned[slot])
    IN  /\ slot' = (slot + 1) % Frames
        /\ records' = [records EXCEPT ![slot] = recs]
        /\ commands' = [commands EXCEPT ![slot] = cmds]
        /\ attach' = NewAttach(world)
        /\ matrices' = [matrices EXCEPT ![slot] = mats]
        /\ skinned' = [skinned EXCEPT ![slot] = skin]
        /\ picture' =
             [hidden |-> hidden, casters |-> Casters(world, cmds, recs),
              drawn |-> [m \in Models |->
                 LET todo == cmds[<<m, "camera">>]
                 IN  IF q[m] = <<>> THEN <<>>
                     ELSE [k \in Survivors(todo) |->
                             Shown(m, todo.times[k], recs[m][k], skin)]]]
        /\ UNCHANGED <<loaded, clips, rt, joint, world, blasts, wentOff>>

Blank == [of |-> Thing("none"), hand |-> None]
Init ==
  /\ loaded \in {Models, Models \ {"trooper", "mech"}}
  /\ clips \in IF "trooper" \in loaded THEN 0 .. HighestClip + 1 ELSE {0}
  /\ rt \in BOOLEAN /\ slot = 0
  /\ joint \in IF "trooper" \in loaded THEN BOOLEAN ELSE {FALSE}
  /\ world = Fresh(0)
  /\ blasts = None /\ wentOff = None
  /\ records = [s \in Slot |-> [m \in Models |-> [k \in 1 .. MaxDraws |-> Blank]]]
  /\ commands = [s \in Slot |-> [r \in Region |-> Nothing]]
  /\ matrices = [s \in Slot |-> [i \in Others |-> None]]
  /\ skinned = matrices
  /\ attach = [i \in Others |-> None]
  /\ picture = None

Next == Step \/ Rematch \/ Draw
Spec == Init /\ [][Next]_vars

-----------------------------------------------------------------------------
(* Properties.                                                             *)

TypeOK ==
  /\ world \in World
  /\ slot \in Slot /\ blasts \in Tick \cup {None} /\ wentOff \in Tick \cup {None}
  /\ \A s \in Slot : \A r \in Region :
       commands[s][r] \in [count : Nat, times : [1 .. MaxDraws -> Nat]]
  /\ matrices \in [Slot -> [Others -> Tick \cup {None}]]
  /\ skinned \in [Slot -> [Others -> Tick \cup {None}]]
  /\ attach \in [Others -> Tick \cup {None}]

\* Whatever an earlier frame left in the slot: no counter runs past its region; what
\* is drawn is what this world queued and the camera sees, once (the gun, which is culled
\* twice, aside); a robot is drawn, and its weapon held, in the pose of this very tick, if the rig has
\* the joint; and everyone alive who shows casts a shadow, however the sun is drawn
\* (render_scene.cpp:174-241, render_queue.cpp:216-252).
FrameIsOfItsWorld ==
  picture # None =>
    LET q       == Queued(world)
        seen(m) == {k \in DOMAIN q[m] : q[m][k].of \notin picture.hidden
                                         \/ m \notin Framed}
    IN  /\ \A s \in Slot : \A r \in Region : commands[s][r].count <= MaxDraws
        /\ \A m \in Models \ {"gun"} :
             /\ DOMAIN picture.drawn[m] = seen(m)
             /\ \A k \in seen(m) : /\ picture.drawn[m][k].times = 1
                                   /\ picture.drawn[m][k].of = q[m][k].of
        /\ Rigged => \A k \in DOMAIN picture.drawn["trooper"] :
                       picture.drawn["trooper"][k].pose = world.tick
        /\ Rigged /\ joint => \A k \in DOMAIN picture.drawn["bot_gun"] :
                                picture.drawn["bot_gun"][k].hand = world.tick
        /\ \A i \in Alive(world) \ {0} :
             (\E k \in DOMAIN q["trooper"] : q["trooper"][k].of = Robot(i))
               => Robot(i) \in picture.casters

\* A fireball shows for a while after a grenade went off, and then no more.  The code
\* takes every grenade that is gone for one that went off (render_scene.cpp:57-71), and
\* one that a rematch clears away is gone too (sim.cpp:96).
FireballsAreExplosions ==
  Fireball(world) => wentOff # None /\ world.tick - wentOff < BlastTicks
=============================================================================
