# TLA+ models of unionized_mech

The program is a multiplayer shooter in C++20: a deterministic simulation at 60 ticks a
second, an authoritative server and predicting clients over UDP, and a Vulkan renderer. Five
against five, robots on foot; one of them at a time may unite with a chassis in the middle of
the arena. Every process is single-threaded. What is hard about it is not threads but time:
two ends that are never at the same tick and agree through packets that are lost, repeated and
reordered; counters that wrap; rings that are reused; state kept in two places and changed by
several functions in one tick; a GPU that is three frames behind.

Line numbers are those of this repository's files; `PROJECT.json` maps each definition to the
lines it stands for.

## The system

| component | state | operations | how it interacts |
|---|---|---|---|
| `net` Connection (`net_connection.cpp`) | next sequence, newest heard and its window, newest acknowledged and its window | `next_header`, `on_received`, `acked` | one per peer on the server, one on the client; a header on every packet |
| `net` delta (`net_delta.cpp`) | none | `delta_encode`, `delta_decode` | snapshots are deltas against a world both ends hold |
| `net` Socket (`net_socket.cpp`) | a handle | `send`, `receive`, non-blocking | drained by the two poll loops |
| `session` Server (`session.cpp`) | world, ring of the last 32 worlds, newest command, tick and reported baseline of each slot | `start`, `on_input`, `tick`, `write_snapshot` | one `tick` of the server loop: poll, tick, broadcast |
| `session` Client (`session.cpp`) | predicted world, ring of commands, confirmed world and its tick, ring of confirmed worlds | `start`, `predict`, `on_snapshot` | one tick of the client loop: send, poll |
| `session` ServerHost, ClientLink (`link.cpp`) | peers by slot, a Connection each | `open`, `poll`, `broadcast`, `send`, `slot_for` | join Socket, Connection and session |
| `sim` match rules (`sim.cpp`, `sim_mech.cpp`, `sim_combat.cpp`, `sim_grenade.cpp`) | robots, the chassis, grenades, score, banner | `simulate` = movement, `step_union`, banner or (`step_grenades`, `resolve_combat`, score) | called by server, client prediction and replay |
| `sim` movement (`sim_move.cpp`, `sim_collide.cpp`) | position, velocity, timers of jumps, slides and wall runs | `step_character` | first step of `simulate` |
| `sim` bots and navigation (`sim_bot.cpp`, `sim_nav.cpp`) | the waypoint graph | `bot_think`, `nav_build_links`, `nav_next_hop` | give commands for slots that are not human |
| `sim` level, tapes (`sim_level.cpp`, `sim_tape.cpp`) | the active level | `load_level`, `tape_save`, `tape_load` | reloaded by the main loop when the file changes |
| main loops (`main.cpp`), `FixedTimestep` (`sim.cpp`) | an accumulator of time | `advance`, `alpha` | ticks per frame |
| `core` | Pool: slots, generations, free list; Arena, Array, parsing | `insert`, `get`, `remove` | everywhere |
| `gpu` frames (`gpu_frame.cpp`, `gpu_renderer.cpp`) | swapchain and its views, three frame slots, a timeline, a capture | `begin_frame`, `end_frame`, `recreate_swapchain`, `request_capture` | once a loop; the GPU finishes later, the window system resizes |
| `gpu` memory (`gpu_alloc.cpp`, `gpu_resources.cpp`, `gpu_textures.cpp`, `gpu_rt.cpp`) | blocks of device memory, the resources in them | `allocate`, `create_*`, `update_device_buffer` | called by the renderer, the scene and the models |
| `render` (`render_scene.cpp`, `render_queue.cpp`, `render_model.cpp`) | records, counters, matrices and skinned vertices of each frame slot; fireballs | `note_events`, `draw`, `reload_level`, `maybe_reload` | reads two worlds, fills one frame |
| `asset`, `anim`, `um_import` | files by the model's name | `import_gltf`, the savers, the loaders, `sample_clip` | the tool writes, the renderer loads |
| `platform` | window, mixer | `pump`, `capture_input` | before each frame, at each tick |

What makes each correct:

* **Connection**: a packet is taken in once, whatever the order; the window and the
  acknowledgements say what happened, across wraps.
* **Session**: both ends decode against the same world; a client holds only worlds the server
  had and never takes an older one; its prediction is exactly its own commands on top of what it
  was told; inputs only move forward while its clock does; after any loss it catches up.
* **Match rules**: exactly one robot is merged when the chassis has a pilot; a loss is scored
  once for the right side; the result stands; the dead return and banners come down.
* **Arsenal** (ammunition, reload, grenades): rounds are conserved, no cooldown is dodged, no
  reload is for nothing, a grenade's slot is paid for and freed once.
* **Movement**: a press buys one jump, a ledge's grace none that a jump has used, a face of a
  wall one run; timers stay within their bounds.
* **Navigation**: the hop lies on a shortest path, and a route is found when there is one.
* **Level**: a reload that fails changes nothing; geometry, graph and picture are of one map,
  and the last save is picked up.
* **Pool**: a stale handle resolves to null, the free list neither loses nor repeats a slot.
* **Frames**: nothing is reused while the GPU may still use it; a capture is the frame that was
  shown; frames go on after any resize. That what is drawn on is there is what the code does not
  always see to (`renderer_views`).
* **Memory**: no two resources share bytes; what the CPU writes to is mapped.
* **Scene**: a frame shows its own world, whatever an earlier one left in its slot.
* **Importer**: every index points at its own primitive's vertices, every joint comes after its
  parent, and what is loaded is what was imported.

The hazards of the code, each at its line and with the properties aimed at it, are in
`PROJECT.json`.

## What is modelled

### Session (`Session.tla`, `MCSession.tla`, `SnapshotView.tla`)

The core of the system: `session.cpp` with the network between its two halves. One action for
each operation: `Tick` (`Server::tick`), `OnInput` (`ServerHost::poll` and `Server::on_input`,
which either accepts or ignores), `WriteSnapshot` (`Server::write_snapshot` for one peer of
`broadcast`), `Predict` (`Client::predict` and the send after it), `OnSnapshot`
(`ClientLink::poll` and `Client::on_snapshot`, which adopts or rejects). The server loop runs
poll, tick and broadcast in that order and the client loop send and poll; the model lets the
actions interleave freely, so it covers those orders, and clocks that drift.

*Worlds.* A delta is made of 32-bit words, and a world has those that matter: `tick`, `seed`,
`body`, and `match`, the word that `end_ticks`, `winner` and `humans` share (`sim.h:202-207`),
here the result and the number of humans. The body is opaque: a constant operator `Step`
advances it from the commands, as `simulate` is pure; `Result` reads the result off it, and
`Over` says that its banner ends in this tick. Then the simulation starts a fresh match with the
tick and a shifted seed put back and `humans` back at its default of 1, as `sim.cpp:93-98` does. A
delta is the set of words that differ with their new values (`DeltaEncode`), laid over whatever
baseline the receiver chose (`DeltaDecode`): two ends that diff against different worlds really
do end up with a mixture of the two, and the number of humans travels whenever the result has
changed, and only then. In TLC's instance (`MCStep`) a body is the sequence of the commands that
made it, so that two worlds are equal only if the same commands made them; a match lasts
`MatchTicks` ticks, the last of them with its result decided.

*The packet.* `write_snapshot` returns 0, and nothing is sent, while the delta is larger than the
packet (`session.cpp:76-81`). Whether it is, is a constant operator of the two worlds, `Fits`.

*Commands* are named by the tick they were predicted for; 0 is the empty command. A client whose
clock was set back predicts ticks it has predicted before, with what is pressed now, so a command
that may be such a one has a name of its own (`Issued`). A slot at or past `humans` is driven by
a bot, a function of the body (`Driven`).

*The replay* runs from the snapshot's tick to the prediction's, `header.last_input` is not read,
and a tick whose command has left the ring is skipped without a step (`session.cpp:153-156`), so a
client more than `History` ticks ahead of a snapshot ends short of its own clock, and is set
back to there (`ReplayCount`).

*The network.* Each direction of each client is a set of datagrams in flight. A send loses the
datagram, or adds it, evicting another when the bound `NetCap` is reached; a receive may leave
it in flight, so it comes again. The Connection in front of the handlers removes some of the
copies; every choice it can make is one of this network's, so what holds here holds with it.

*Auxiliary*: `past`, every world the server has had, and `rewound`, whether a client's clock was
ever set back.

`SnapshotView` says what the layer promises with none of its machinery: the server lives
through a sequence of worlds, and a client now and then comes to hold a later one of them. The
refinement maps its variables to `world.tick`, `past`, `confirmedTick` and `confirmed`.

### Connection (`Connection.tla`, `Window.tla`)

Two ends of `net_connection.cpp` over a network as above. `Window` holds its wrapping
arithmetic, which `Link` uses too: numbers are modulo the constant `SeqMod`, a window word is
the set of its bits, and a packet carries its unwrapped number for
the properties' use. `OnReceived` learns the acknowledgements first and judges the packet's
own number after, as the code does, and a packet that is refused still teaches its
acknowledgements.

### Link (`Link.tla`, `MCLink.tla`)

`link.cpp`: how the server finds a datagram's slot by its sender's address, and the two filters
on each path, the Connection's window and the tick of the session's handler behind it. The
handlers are reduced to those ticks; what they do with what passes is Session's. `ServerPoll`
is one turn of `ServerHost::poll` (`Input` for a packet of ours, nothing for any other),
`ServerTick`, `Broadcast` one peer of `ServerHost::broadcast`, `ClientSend`, `ClientPoll` one
turn of `ClientLink::poll`; `Stray` is anything else that reaches the server's port. A
connection's end is here only what filters and numbers: its acknowledgements do not matter to
the link, which never reads them. Of the session's replay there is where it leaves the client's clock
(`Repredicted`): a snapshot too far behind sets it back, and the ticks that follow are issued
again in packets with new numbers. `rewound` is auxiliary.

### Match (`Match.tla`)

One tick of `simulate` as the sequence of its steps: the chassis's rebuild, one turn of
`step_union` for each slot, then the banner, or the grenades, one turn of combat for each slot,
the respawns and the score. `phase` and `turn` say which step is next, so that a property holds
at every point of a tick and not only between ticks. `Pilot` (a merged robot crushes, may
eject), `Walk` (anyone else, may unite), `Detonate` (one target of one grenade), `Hit` and `NoHit`,
`Score` (with the respawns), `Banner` and `Rematch`.

Geometry and ammunition are left to choice: who is near the chassis, whom it rolls over, whom a
shot or a blast reaches. A grenade's owner may be anyone, dead or alive: it was thrown some
ticks ago. The branches of `step_union` that free a pilot who is no longer merged
(`sim_mech.cpp:118` and `132`) are in the model; `UnionConsistent` says that they are never
needed.

### Arsenal (`Arsenal.tla`)

What a robot fights with, in the same tick cut differently: `Walk` (`step_character` of all who
are on foot, which ages their cooldowns), `Union` for each robot in turn (the pilot `Drives`, is
aged there, and may crush and leave; another `Boards`), `Banner` and `Rematch`, `Throw` for each
robot, `Fly` for each slot of the grenade pool, `Shoot` for each robot (the ammunition step, then
the shot) and `Respawn`. Who dies, who returns and when a match is decided is left to choice here
and checked in Match; so is what a robot presses. A pilot's weapon is the cannon, which carries no
rounds, so its ammunition step is skipped and a reload begun on foot stands still.

`fired` (rounds since armed) and `owed` (ticks yet to wait for the last shot) are
auxiliary; every tick takes one from `owed`, whoever in the code ages the cooldown, or does not.

### Movement (`Movement.tla`, `MCMovement.tla`)

`step_character`, with what the collision and the wall probe feed it, as one action, `Walk`,
built of the function's stages in its order: the buffer and the coyote time, slide and boost,
the wall and its run, the climb, which of four jumps is made, the momentum redirect, the move
and what state it leaves. `Board`, `Ride` and `Leave` are what the union does to a walker,
`Die` and `Respawn` what combat does.

Positions and speeds are left to choice (`Surroundings`): which face is in reach, whether the
robot is fast enough for a slide or a wall run, what the hull meets. Of the vertical speed,
`rise` is kept: the ticks the robot will go on rising. Whether a coyote jump is allowed, whether
a hull can land or bump, and what a jump does to a fall all turn on its sign. `h` is auxiliary:
what the properties remember of earlier ticks, and whether a tick's jump, run, boost or redirect
was one of those they forbid.

### The parts (`MCParts.tla` and the modules it instantiates)

Seven modules share nothing with each other in the program, and are small: their instances are
checked by one run, but for the scene's, which has one of its own. A behaviour of `MCParts` is a behaviour of one of them (`part`), with all
others at rest; it also has the smallest session, for its liveness.

**Renderer.** The frame loop of `gpu_frame.cpp` and `gpu_renderer.cpp` with the scene drawn in
it: `BeginFrame` (recreate when the window's size and the swapchain's differ, wait for the
slot's last frame, acquire or skip), `Draw`, `EndFrame` (submit, present, a capture read back),
`RequestCapture`, `ReloadLevel`, `MaybeReload`. The GPU finishes its oldest frame when it likes
(`Finish`); the window system resizes, minimises and restores (`Resize`), and the loop hears of
it at its next `Pump`. Acquire and present may answer success, suboptimal or out of date as far
as the state allows. Everything that a frame in flight uses and the CPU may rewrite or destroy
carries an edition, a bit that flips when it is rewritten; a submitted frame remembers the
editions it was recorded with. A swapchain that could not be
made anew, for a window with no area, stays with its size and without its views; whether the driver
says out of date of it is left to choice unless the surface is of that very size, when nothing
makes it.

**Memory.** The bump allocator and every caller of it: `CreateDeviceBuffer` and
`UpdateDeviceBuffer` with their staging buffers, `CreateGpuBuffer`, `CreateMappedBuffer`,
`CreateTexture`, the shadow map, the depth buffer that each resize destroys and makes again,
the two levels of acceleration structures, and the shutdown. A machine's memory types are in
order, each with its properties and with what its driver lets lie there, buffers or images
(`memoryTypeBits`); `FindMemoryType` takes the first that suits. Four machines: discrete, unified,
one with a window into device memory, one with a type for images alone. A resource is a range of a block. An assertion of the code ends the program: the
operation that runs into one is not taken.

**Pool.** `core/pool.h`: slots, generations, the free list threaded through `next_free_`.
`issued` is auxiliary: what each handle was given for.

**Level.** The map file, an editor who writes it in two steps (`BeginSave` leaves it empty or
cut anywhere, `EndSave` whole), `load_level` with its error paths (unknown word, cut line, too
many boxes), the graph it builds, the geometry built from it, and the two places of `main.cpp`
that load: at the start, and when the file's time has changed. Reading, parsing and noting the
time are steps of their own.

**Bot.** `bot_think`'s choice between an enemy in sight and one to hunt, and `nav_next_hop`: its
breadth-first search a node at a time (`Expand`), then the way back along the parents, a node at a
time too (`Back`, `hop` is where it is). Who is in sight, which node is nearest to the bot after a
tick's walk, and which to its quarry, are any they may be: it walks centimetres a tick, may turn
back half-way, and may hunt another at the next tick.

**Scene.** `Scene::note_events` and the ticks of the main loop, a rematch among them, then
`Scene::draw`: which records `queue_frame` queues of each model and in what pose, the clear of the
counters, the cull, the skinning, both passes' draws. Records, commands, counters, matrices and
skinned vertices are a slice for each frame slot, and keep what that slot's last frame left there;
the slots are drawn to in turn, and `Renderer` says when one may be. A cull appends in no order
that is defined (`atomicAdd`), so a region is how often each record stands in it. A pose is the
tick it was sampled at. Models may be missing, the trooper may have too few clips or no joint to
hang a weapon off, ray tracing may be there or not.

**Importer.** `import_gltf` by stages (count, lay out, append a primitive, number the joints
pass by pass, textures and clips), `um_import`, which writes file by file and may fail at each,
the two loaders, which take what they find under the name up to the first file that is missing
or torn, and the choice of keys in `sample_clip`. A write that fails leaves the old file or a
torn one. A clip has a track for each channel of its animation that can be read (a cubic spline and
a channel without a target are passed over) and lasts as long as the longest; a time wraps at the
clip's length, so it may lie past the last key of a shorter track. Over every rig of `RigNodes` nodes, in any order, cyclic ones included, and meshes of
up to three primitives that share materials or not; under the name there may be an older
model's files, for all but the stranger rigs.

## The runs

| run | module | properties | shows |
|---|---|---|---|
| `session_one` | MCSession | TypeOK, Decodable, Authoritative, PredictionIsReplay, RewindsPastTheRing, InputsAdvance, ImplementsView | one client, a match that is decided and restarts on the way |
| `connection` | Connection | HeardTruly, AcceptsUnheard, NoFalseAckInOrder | windows and acknowledgements across wraps |
| `connection_falseack` (violation) | Connection | NoFalseAck | an older header's bits land in the wrong place |
| `link` | MCLink | SlotTableSound, DrivenByItsClient, NothingNewHeldBack, SlotsKept | three addresses want two slots; one alone, over wraps and overtaking |
| `match` | Match | RobotsConsistent, WinnerEarned, KillsAreLosses, DecidedOnce, MatchGoesOn | whole matches, rematches included |
| `match_banner` (violation) | Match | FightingStops | crush kills during the banner |
| `arsenal` | Arsenal | TypeOK, RoundsAccounted, Cadence, GrenadesPaidFor, TimersRunOut | rounds, cooldowns, grenades and reloads |
| `arsenal_cannon` (violation) | Arsenal | CannonNeverDry | a reload left over blocks the cannon |
| `movement` | MCMovement | TypeOK, ForgivenOnce, FacesAreFair, PaidSparingly | a robot on foot over floors, walls and ledges anywhere |
| `movement_ladder` (violation) | MCMovement | AirJumpOnce | a wall left for a tick gives the air jump back |
| `parts` | MCParts | PartsTypeOK, NothingReusedInFlight, CaptureIsTheFrame, MemoryIsItsOwn, HandlesResolve, OneMap, HopIsShortest, ImportIsFaithful, SceneIsTheWorlds, EventuallySynced, PartsGoOn | the parts above, and the session's liveness |
| `renderer_views` (violation) | Renderer | DrawnOnLiveViews | minimised and shown again at its old size |

Five more configurations show where the code and its own documentation part, each by one
property that TLC finds violated; they are run by hand ([below](#what-the-models-found)).

| configuration | module | property | shows |
|---|---|---|---|
| `MCSession_rewind.cfg` | MCSession | PredictionNeverRewinds | a late snapshot sets the predicted clock back |
| `MCSession_replay.cfg` | MCSession | UnconsumedAreReplayed | a command the server had not consumed is not replayed |
| `MCSession_shipped.cfg` | MCSession | Authoritative | the numbers of humans `main.cpp` uses |
| `MCLink_reissue.cfg` | MCLink | NewestDrives | a client that was set back is not listened to |
| `Scene_fireballs.cfg` | Scene | FireballsAreExplosions | a rematch clears a grenade in flight |

Some properties are conjunctions of named ones, stated apart where they are defined:
`HeardTruly` is Connection's `TypeOK` and `WindowTruth`; `SlotTableSound` is Link's `TypeOK`,
`SlotsGivenOnce` and `SlotsForPlayers`; `RobotsConsistent` is Match's `TypeOK`, `UnionConsistent`
and `Vitality`; `MatchGoesOn` is `EveryoneReturns`, `ChassisReturns` and `BannerEnds`;
`FacesAreFair` is `FaceOwesOneRun` and `NoRatchet`. Those of `MCParts` are each part's own,
guarded by `part`.

Each property of a passing run has a mutant of the code's definitions, in the module beside the
definition it mutates, under which TLC finds it violated.

### Bounds, and why they are enough

* **Session.** `History = 2` (32 in the code) with clocks up to 4 and one client: a ring slot is reused after two ticks, so every case in which a baseline, a
  confirmed world or a command has been overwritten happens, twice over. Clients never meet
  but in the commands of one tick, so one is enough; the proofs are for any number.
  `NetCap` is 2 datagrams in flight per direction, the least that lets one overtake another.
  `MaxIssued = 4` with a server's clock of 3, so a client may be further ahead of a snapshot than
  its ring of commands reaches, is set back, and issues ticks again. `MatchTicks = 3` decides a
  match and restarts it where clients have confirmed worlds of both matches. Every delta fits
  (`MCFits`); the session of `parts` has one that does not. The violations by hand need no more.
* **Connection.** `SeqMod = 8` for 2^16 and a window of 3 bits for 32; the client sends 9
  packets, so its counter wraps and the wrapped number meets its first use. `MaxLag = 3`: a
  packet with more than three newer ones sent after it counts as lost; `MaxSilence = 4`: an
  end sends at most half the range beyond what it knows was heard. Both are the limits below
  which 16-bit numbers are unambiguous; in the game they are 32 packets and 32768.
* **Link.** `MCLink` has two settings. Three addresses for two slots, so one is turned away; four
  inputs and three snapshots in all, a clock of 1: every address is heard, and one of them twice.
  And one address alone: six inputs and five snapshots with `SeqMod = 4`, so either counter wraps;
  a clock of 4 with `History = 2`, so that several snapshots carry one tick, several ticks pass
  between two, and the client may be set back. In both two datagrams are in flight on each path, so
  that one overtakes another. `MaxLag` and `MaxSilence` as for Connection. Addresses are
  symmetric: the code compares them and never orders them.
* **Match.** Three robots, one against two; health 3 and hits of 2, so a death overshoots zero;
  a chassis of 3, where armour rounds 1.1 up to 2; a respawn of 1 tick, a rebuild of 2, two
  kills to win, a banner of 1 tick. Every order of death, wreck, win and rematch is reached, and
  both teams' reaching the score in one tick. The violation uses one kill to win.
* **Arsenal.** One robot against one, a magazine of 2 with 1 spare, so a reload may be partial or
  from dry; one grenade each for one slot; a fuse of 2, so a grenade outlives a tick; reloads of 1
  and 2 ticks. Cooldowns of 2 and 1, so that either weapon's may be carried to the other and is
  under way for more than a tick.
* **Movement.** Two faces, the least for leaving one and taking another, interchangeable; one
  direction of the stick and its rest; every timer at the least value that keeps the order of
  the code's (a coyote time shorter than a jump rises, a run shorter than two contacts, a cap
  above the coyote time).
* **Renderer.** Three frames in flight, as in the code; two areas and none; one capture.
  Sizes matter only by being equal, larger or nothing.
* **Memory.** Blocks of 4 units, so that 1 and 3 fit together and 3 and 3 do not, with an
  alignment of 2 that leaves gaps, two blocks so that they run out; one frame, three buffers and
  one texture. **Pool.** Three slots given back twice.
* **Level.** Two good maps that differ in boxes, spawn, nodes and links, one too crowded and one
  garbled; the file is written five times, so a save may be seen in the middle twice.
* **Bot.** Every graph on four nodes, so all smaller ones too, beside nodes without a link (a ring
  with a detour needs four), from every node to every node, again and again.
* **Scene.** Two slots, the least that have another's leavings to be confused with; two others
  (`Rivals`); two submeshes, so that a model's commands are counted per submesh, and room for
  three draws, so that the trooper's second instance overflows the commands; three ticks, with a
  death of two and a fireball of one. `Scene_fireballs.cfg` needs one slot and one other.
  **Importer.** Rigs of three nodes; two materials of three that may come; one image, one clip,
  whose tracks end at different times.
* **The session of `parts`.** `MaxTick = 3`, one datagram in flight each way, so that liveness
  is not bought by the size of the network. A delta over more than two ticks does not fit
  (`Fits`), so a client that is heard of late may be one whose cold start never fits. In the game
  a packet of 1200 bytes takes some 280 of the world's 394 words.

### Fairness

* `EventuallySynced` (in `parts`) assumes weak fairness of `Tick` (the server loop runs for ever,
  `main.cpp:167`) and, for each client, strong fairness of a snapshot's being sent and reaching
  the network, and of a snapshot's being received when one that is adopted is in flight: a
  network that loses some datagrams but not, for ever, all of them; broadcast writes one every
  tick that fits. One that does not fit is not sent, and the fairness asks nothing of it: the
  property is that a client the server has heard of either comes to hold the server's last world
  and keeps it, or that from some point on no snapshot for it fits (`Unsendable`), which is what
  `write_snapshot` does with a cold start or a stale baseline that is too far away. No fairness of
  inputs is assumed: if no later report of a baseline ever reaches the server, snapshots against
  the one it has, or against the cold-start world, synchronise the client while they fit.
* `match` and `arsenal` assume weak fairness of the next step only: the loop calls `simulate`
  for ever and a tick is finite. It is finite in Match because every hit takes health, in Arsenal because
  every step has its turn once.
* `parts` assumes, each while its part runs: weak fairness of the frame loop, of the GPU's
  finishing what it was given and of the loop's hearing of the window's size (`main.cpp:309-350`
  runs for ever); of the program's steps and of an editor's ending a save it began. A
  window that settles with views to draw on, and a map that is left alone, are hypotheses of the
  properties, not fairness. Nothing is claimed of a bot's arriving.

## What is proved

Each proof module extends the module it is about, and holds for every value of the constants
that the module's named assumptions allow (TLC evaluates those on each run); a theorem that
needs more says so in its `ASSUME`. The inductive invariants were found with TLC, on
the instance of their module's run, before they were proved; what one says there is (the list
of `PoolIInv`, the levels of `BotIInv`) TLC looked for among the sequences and functions the
instance has room for.

`Arithmetic.tla` is what the others share. From the library's well-foundedness of the naturals
it proves induction for sets (`SetInduction`), that a nonempty set of naturals has a least member
(`LeastExists`) and that primitive recursion defines a function (`RecursionExists`), as the library's own induction theorems take an operator and no installed
prover instantiates one; from these, what the proofs need of `%`: two numbers of one slot
of a ring are a ring apart (`ModGap`), and two numbers less than half a range apart are
ordered, and their distance found, from their remainders alone (`WrappedOrder`, `WrappedGap`).

### Session

`SessionProofs.tla`, checked by TLAPS for every number of players and clients, every ring size,
every `Step`, `Result`, `Over` and `Fits`, and every network capacity:

| theorem | states | assuming |
|---|---|---|
| `TypeCorrect` | `Spec => []TypeOK` | |
| `DecodableAlways` | `Spec => []Decodable` | |
| `AuthoritativeAlways` | `Spec => []Authoritative` | `HumansAgree` |
| `Refinement` | `Spec => ImplementsView` | `HumansAgree` |
| `RewindsPastTheRingAlways` | `Spec => RewindsPastTheRing` | |
| `InputsAdvanceAlways` | `Spec => InputsAdvance` | |
| `PredictionIsReplayAlways` | `Spec => []PredictionIsReplay` | |

All use the constants' assumptions of `Session.tla` (`SessionAssumption`, `StepAssumption`),
which TLC evaluates on each run.

The argument. `Authoritative` alone is not inductive: that a decoded world is right depends on
what the server's ring held when the snapshot was written, on what the client's ring holds when
it arrives, and on both being the same world. `IInv` (in `Session.tla`) says so in five parts:

* `PastInv`: the slot of each of the last `History` ticks in the server's ring holds that
  tick's world;
* `ClientInv`: whatever is in a client's ring is what the server had at that tick, `humans`
  apart, and the newest tick is in it;
* `UpInv`: any baseline that was ever reported, in flight or at the server, is still in the
  client's ring, or the client has confirmed a tick a whole ring later (`HeldBy`);
* `DownInv`: a snapshot in flight is the delta from a world its client held, less than a ring
  before, to a world the server had;
* `TypeOK`.

The step that matters is `AdoptIInv`: adopting tick *t* frees the slot of *t mod History*. A
baseline *b* of that slot is a whole ring older (`ModGap`), so the client has by then confirmed
a tick a ring after *b*, and a snapshot in flight against *b* is no longer news. That is
`Decodable`, and it needs no agreement on the number of humans, because `Decoded` shows that
a delta restores tick, seed, result and body whatever the receiver thinks of `humans`. With
`HumansAgree` that number is constant everywhere (`HumansInv`), and `Agree` becomes equality.

`HumansAgree` is a real hypothesis: both ends started with the same number of humans, and
either no match restarts or the number is 1, what a restart resets it to. `MCSession_shipped.cfg`
shows what happens without it.

`RewindsPastTheRing` says the whole of what happens to a clock that is too far ahead: only a
snapshot more than `History` ticks behind sets it back, and then to `History` ticks after the
snapshot, because the ticks the replay skips are exactly those it does not advance.

That nothing undoes a slot's command (`InputsAdvance`) is claimed of a client whose clock was never
set back, and needs two facts about datagrams that arrive in any order: no command is later than
such a client's clock (`ClockInv`), and of two of its commands the later reports no older a
baseline (`OrderInv`). So the test on the tick alone also orders the commands and the baselines.
A client that was set back has no such order, and `MCLink_reissue.cfg` shows what comes of it.

The replay is a recursive function; `Rolled` is the same function of a ring, a world and the tick
it starts from, and `ReplayType` gives its tick and type by `RecursionExists` and
`SetInduction`. `PredictionIsReplay` compares two rings: a prediction writes the slot of one
tick, which by `ModGap` is none of those replayed since the last snapshot (`RingWrite`), so the old
worlds of the replay stand (`RolledAgree`) and the new command adds one (`RolledOn`); an
adopted snapshot starts a replay of its own (`ReplayAdopt`). The invariant `ReplayInv` adds that
the confirmed tick is never ahead of the prediction. A clock that was set back changes nothing in
this: the replay is of the ticks the ring still has.

### Arsenal

`ArsenalProofs.tla`, for any number of robots, any magazine, cooldowns, pool and fuse, from
`ArsenalAssumption` alone: `ArsenalTypeCorrect` (`Spec => []TypeOK`), `RoundsAccountedAlways`,
`CadenceAlways` and `GrenadesPaidForAlways`. The invariant is the conjunction of the first three and of
`AwaitsItsTurn`, which says whose cooldown has yet to age in the union under way: the pilot's
whose turn has not come, and nobody else's. So a robot is aged by the walk or by its own turn, and
`owed`, which knows of neither, agrees at every point of a tick. The types need the accounts: that
a shot leaves no fewer than no rounds is its guard, that a reload leaves no negative spares and
no overfull magazine is `TakenFits`; and a reload under way keeps something to load because
only its own end spends the spares, and while it runs nobody fires (`ShootIInv`). A throw takes
the least free slot, which is free because a nonempty set of naturals has a least one (`LeastExists`).

### Connection

`ConnectionProofs.tla`, for every range of the counter, every length of window below half of it,
and every network that `WindowAssumption` and the bounds `MaxSilence` and `MaxLag` of
`Connection.tla` describe:

| theorem | states | assuming |
|---|---|---|
| `HeardTrulyAlways` | `Spec => []HeardTruly` | |
| `AcceptsUnheardAlways` | `Spec => []AcceptsUnheard` | `MaxLag <= AckHistory` |
| `NoFalseAckInOrderAlways` | `Spec => []NoFalseAckInOrder` | |

The code compares numbers modulo 2^16 and the properties speak of packets, so the invariant
says of which packet each stored number is the remainder (`Hearing`, `Counters`, `AckTruth`,
`Claims`) and that any two that are compared stand for packets less than half a range apart.
The last is not a fact about one end: a packet in flight is close to what its receiver last
heard because its sender stops `MaxSilence` ahead of what it knows to be heard, and what it
knows is behind what was heard. `LaterTellsMore` (a later packet acknowledges no less) is what
carries an acknowledgement from the packet to the sender in order. `HeardTruly` leaves out the
oldest bit of the window, and `Complete` does: a jump of exactly `AckHistory` clears it.

### Link

`LinkProofs.tla`, for any number of addresses and slots, with strangers sending:
`SlotTableSoundAlways`, `DrivenByItsClientAlways`, `NothingNewHeldBackAlways`, and the action
property `SlotsKeptAlways`. The invariant has a part for each slot and one for each address.
`SlotFollows`: its owner's commands alone have come to it, its newest command is that of its
newest datagram, and its owner is within half a range of it. `ClientFollows`: on each path the
snapshots are ordered alike by number and by tick, and the commands are while their client's clock
was never set back. That is why the window and the tick filter agree, and so why nothing new is
held back.

### Match

`MatchProofs.tla`, for any number of robots, any healths, damages, armour, delays and score to
win: `RobotsConsistentAlways`, `WinnerEarnedAlways`, and the action properties
`KillsAreLossesAlways` and `DecidedOnceAlways`. `RobotsConsistent` is inductive action by action,
`TypeOK` and all. For the result, `Decided` says at which points of a tick a team may have the
kills to win and no winner yet: only after the chassis' turn and before the score, as `step_union`
and the combat score and `simulate` looks once, at the end. A score is a sum over the slots; the
lemmas on `TeamTotal` (nobody's, one robot's more, two robots' more) are proved from the folds'
definition by `SetInduction`.

### Movement

`MovementProofs.tla`, for any faces and any durations that `MovementAssumption` orders as the
code's constants are: `MovementTypeCorrect`, `ForgivenOnceAlways`, `FacesAreFairAlways`,
`PaidSparinglyAlways`. The properties speak of a history the controller cannot see, so
the invariant says what each of its fields tells of it: the buffer and the age of a press
fill `JUMP_BUFFER_TICKS` between them, as do a slide's cooldown and the age of its burst, and the lurch
counts a jump's age (`AgesAgree`); while a jump rises, the coyote time runs out before the rise
does (`JumpOutlastsGrace`), which is why the grace of a ledge forgives no second jump; the
run timer is the latched face's, and a face that a jump has spent has no run left and no more
air jumps than one support gives (`LatchKeepsTheRun`). `AirJumpOnce`, which
`movement_ladder` refutes, asks the last of every face, spent or not.

### The parts

`PartsProofs.tla` proves all nine invariants of the two runs of `MCParts`, for every value of its constants that
`PartsAssumption` allows (the run's values are in `MCParts.cfg`). An invariant over a part's own
steps holds of `MCParts` while that part runs (`RendererRuns`, `PoolRuns`).

* *Renderer*: `NothingReusedInFlightAlways` and `CaptureIsTheFrameAlways`, for any number of
  frames in flight and any window sizes, assuming that at most one capture is asked for
  (`main.cpp:345` asks for one); with two the second fails (see "What the models found"). The
  queue of the GPU holds the last frames begun, their slots counted down from the current one
  (`SlotsInTurn`); so a slot whose fence has been waited for is in no frame in flight, and nothing
  that one uses has changed (`Untouched`). Both hold of frames on views that are gone, too: what
  `renderer_views` shows is no reuse.
* *Level*: `OneMapAlways`, for any constants. A map read whole replaces all that came from an
  earlier one (`InstalledWhole`), and until one was, nothing plays.
* *Pool*: `HandlesResolveAlways`, for any capacity and bound on generations. Some sequence `L`
  runs along `next_free_` from the head to the end, through each slot that is free and no
  other, none twice (`Chain`); an insert takes its head, a removal gives it a new one.
  Generations only grow, so a handle fits its slot just while it is good for something (`HandlesFit`). That
  the property's own walk of the list, a recursive function, finds that sequence is
  `FreeIsTheChain`, by `SetInduction`.
* *Memory*: `MemoryIsItsOwnAlways`, for any size of block, sizes, alignments, bounds and number of
  frames. Blocks are filled and never emptied (`Grown`), are mapped if their type can be
  (`BlocksFit`), and what is in use lies below where its block is filled to (`Lies`, `Held`). An
  allocation takes from there on (`Beyond`, `AllocateStep`), so it is apart from all that was
  there (`BeyondApart`); several in a row are apart from each other (`Handed`, `GivenIs`, by
  `SetInduction`). What an operation leaves in use is what it keeps and what it was given, no
  range twice (`Sourced`, `Placed`), whichever of the ways to take memory it goes (`TakesFor`).
* *Bot*: `HopIsShortestAlways`, for any number of waypoints and any graph on them. While it
  searches and on its way back there are levels, a number for each node met (`Searched`): the
  start's is 0, a parent's one less than its child's, the queue's never fall and span two at most,
  and every neighbour of a node already taken was met. So a level is how far the node is from the
  start (`Nearest`, `NoNearer`), and a search that has come to its end has met all that can be
  reached (`AllMet`). The way back goes down one level at a time (`OnTheWay`), so at level 1 it is
  one link from the start and the goal is one nearer (`ArriveIsNearer`).
* *Scene*: `SceneIsTheWorldsAlways`, for any number of frame slots, robots, instances, draws,
  submeshes and clips, assuming that each robot has a slice (`Rivals < MaxInstances`, as
  `render_scene_setup.cpp:80` sees to), and that the gun's two draws fit (`MaxDraws` at least
  2). A member of a set stands in its list at its rank (`Rank`, `OrderFits`), so what a cull keeps
  is what is in sight, once (`KeptFits`). The counters of a model that is loaded start from
  nothing, and one that is not has none in any slot (`IdleFits`), so a frame's commands are its own
  (`CulledFits`) and name records it has written. Who is animated does not hang on the joints
  (`QueuedKept`), so the weapons hang off the joints of this tick, or off the origin of a rig
  that has none.
* *Importer*: `ImportIsFaithfulAlways`, for rigs of any number of nodes and any bounds on
  materials, images and clips; the meshes and animations are those of `Scenes`.
  `JointsIInv` says that the joints numbered so far have the numbers up to `next`, each after its
  parent (`Numbered`), and that one a pass went by waits for its parent, so a pass that takes
  none has found a circle (`AllWaitInACircle`). `RegionsIInv` compares each
  material's count and cursor with what its region is to hold of the first primitives (`Wanted`,
  `Counted`, `Filled`); the regions are laid one after the other (`LaidIs`), so no primitive writes
  into another's. `FilesIInv` says which files are already this import's (`Saved`), so a load
  after the last takes them all. A time is wrapped at the length of the clip, the latest key of its
  tracks (`ClipFits`, `TracksFit`), and a track plays the keys on either side of it, or its last.
* *Types*: `PartsTypeOKAlways`, under the one assumption of the Renderer's, says of what the
  invariants above leave open that it stays within its type or its bound: the boxes that are
  installed are no more than were counted (`InstalledFits`), a tick makes a world of a
  world (`AfterFits`, which needs somebody to shoot: `Rivals` at least 1), commands name records
  (`DrawTypes`).

### Not proved

* *Liveness* (`MatchGoesOn`, `TimersRunOut`, `EventuallySynced`, `PartsGoOn`) is beyond the
  prover and stays with TLC.

Every invariant and every safety property of the passing runs has its theorem. The proofs are of
the models: that a definition is its source's, and that the bounds in the guards (`MaxTick`,
`MaxIssued`, `MaxLag` and the like) leave out nothing but what this page says they do, is for the
reader to compare.

## What the models found

* **The two ends of a shipped session disagree** (`MCSession_shipped.cfg`). The server opens with ten
  humans, the client with one, and slot 0 for every client; `session.h:94` says that both must
  match. `World::humans` shares a 32-bit word with the banner's countdown and the winner, and a
  delta has the words that changed: until a match is decided a client's confirmed world has the
  number wrong, and predicts bots in the slots of people.
* **The prediction moves backwards** (`MCSession_rewind.cfg`). `session.cpp:165` says never; a snapshot
  more than `HISTORY` ticks behind the client skips the ticks in between, and line 167 takes the
  shorter clock. Half a second of latency does it.
* **... and the client is not listened to** (`MCLink_reissue.cfg`). It then sends new packets with ticks
  it has used before; the server takes the packets and ignores the commands, the newest among them
  (`session.cpp:38`), until the clock is where it was. `session.h:62-63` says that only the newest
  matters.
* **The replay does not ask what was consumed** (`MCSession_replay.cfg`). `session.h:106-107` and
  `session.cpp:146-148` say that every command after `last_input` is replayed; the loop starts at
  the tick after the snapshot's, and the client never reads `last_input`. The two are the same only
  while the server consumes a command at the tick it was predicted for. With the client's clock
  behind, commands the server has yet to see are left out of the prediction; with it ahead, some
  the server has run on already are in it twice. `PredictionIsReplay` is of the replay as the code
  has it.
* **False acknowledgements** (`connection_falseack`). `net_connection.cpp:95` ORs in the bits
  of an older header without shifting them to the newer one's position.
* **The fighting does not stop** (`match_banner`). `step_union` runs before the test of the
  winner.
* **The cannon runs dry** (`arsenal_cannon`). A reload counts down only for a weapon that carries
  rounds, but blocks any (`sim_combat.cpp:177` and `197`): a robot that unites in the middle of
  one cannot fire until it leaves.

* **A wall is still a ladder** (`movement_ladder`). `sim_tests_move.cpp:243` says that contact
  gives the air jump back once. Crouching lets go of the wall, so a press with crouch held takes
  the air jump; the next tick catches the same face, whose run is not spent, and
  `sim_move.cpp:311` gives the air jump back. On alternate ticks this climbs one face for the
  105 ticks of its run; the simulation itself, driven this way, rises 24.7 m.

* **A valid frame without views** (`renderer_views`). Minimised and shown again at the same size,
  the swapchain is not made anew: `gpu_renderer.cpp:88` returns after the views are destroyed,
  and `gpu_frame.cpp:16` compares sizes only. Unless the driver says out of date by itself, the
  frame that `begin_frame` calls valid is drawn on views that are gone.
* **Fireballs out of nothing** (`Scene_fireballs.cfg`). `note_events` takes every grenade that is gone
  for one that went off; a rematch clears those in flight (`sim.cpp:96`).

A limit that a property carries instead of a finding: a jump of exactly `ACK_HISTORY` clears
the window, so a copy just that late may be taken in twice (`net_connection.cpp:27`; excluded
by `MaxLag`, and exempted in `WindowTruth`).

* *Session.* A cold start, or a baseline that has aged, may be too far away for its delta to fit,
  and then nothing is sent, each tick anew (`session.cpp:76-81`), as `EventuallySynced` says.
* *Renderer.* The read-back buffer is allocated once, for the size of the first
  capture (`gpu_frame.cpp:213`): with two captures and a larger window between, `CaptureIsTheFrame`
  fails; the program asks for one.
* *Memory.* Nothing is ever freed, so each resize takes another depth buffer until the blocks
  run out, and the staging buffer of every level reload stays.
* *Pool.* After 2^32 reuses of a slot an old handle resolves again; `MaxGen` bounds it.
* *Level.* At the start the map is loaded before its time is noted (`main.cpp:257-276`), so a
  save between the two is missed until the next; `Saved` excludes exactly it. Two saves within
  the file system's granule of time count as one.
* *Scene.* The gun is culled twice into the same counters and drawn twice
  (`render_scene.cpp:203-208`). A rig with fewer clips than it names is drawn with whatever matrices there are.
* *Importer.* Files of an older model of the same name that this import does not write stay and
  are loaded, and so are those of an import that failed half-way, a new mesh with an old skin
  included; `write_entire_file` does not look at what `fclose` says, so a file that a full disk cut
  short may count as written (`core/file.cpp:41`); a cyclic rig is imported without its rig, silently; a vertex whose joint is unset
  is bound to joint 0.
* *Movement.* Timers stand still in the chassis; a robot that ejects keeps the `on_ground` the
  chassis last had, so it may make a ground jump in mid-air; bumping one's head within the
  coyote time allows a second jump.
* *Timestep.* After a stall the accumulator keeps what the cap on ticks left over, so `alpha` may
  be 1 and more (`sim.cpp:140`).

## The plan

All that was planned is modelled, checked and, but for liveness, proved. What would be worth
adding next: the import over meshes of any length, whose primitives are now those of a
fixed list, and a server process that restarts, once the code does something about it.

## Not modelled

* **Continuous quantities**: floating-point physics, ray casts, aim, matrices, interpolation,
  bounding boxes, synthesised sound. Where control depends on them it is left to choice.
* **Straight-line Vulkan**: instance, device, pipelines, descriptors, barriers within a frame,
  and the teardown of the renderer.
* **Formats**: the bytes of packets, models, clips, tapes and images. A truncated delta is refused
  by a caller that drops it; `Socket`'s errors read as an empty queue, which the networks of
  Session and Link cover as delay.
* **A server process that restarts**: the code has nothing for it, and nothing to state.
* **The accumulator** of `FixedTimestep`, the mixer's voices, the glyphs and shapes of the
  overlay, `headless` and `gpu_probe`.
* In Bot: where the bot and its quarry are between two nodes, walls, drops and the press for a
  reload. So whether a bot that decides anew at each tick (`sim_bot.cpp:145`) arrives, or turns
  back and forth between two hops, is not answered: it depends on that geometry alone.
* In Memory: the granularity a driver may ask for between buffers and images of one block, which
  the allocator does not look at.

## Running it

    tlc -config MCSession_one.cfg MCSession
    tlc -config Connection.cfg Connection
    tlc -config MCLink.cfg MCLink
    tlc -config Match.cfg Match
    tlc -config Arsenal.cfg Arsenal
    tlc -config MCMovement.cfg MCMovement
    tlc -config MCParts.cfg MCParts
    tlapm Arithmetic.tla
    tlapm SessionProofs.tla
    tlapm ConnectionProofs.tla
    tlapm LinkProofs.tla
    tlapm MatchProofs.tla
    tlapm ArsenalProofs.tla
    tlapm MovementProofs.tla
    tlapm PartsProofs.tla

A run whose system stops at a bound has `CHECK_DEADLOCK FALSE` (Session stops at `MaxTick`,
Connection and Link at `MaxSent`, the parts at their bounds; the violations of those modules too); Match, Arsenal and Movement never
stop and are checked for deadlock.
