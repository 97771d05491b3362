------------------------------ MODULE Movement ------------------------------
(***************************************************************************)
(* The character controller, step_character of sim_move.cpp with           *)
(* move_and_slide of sim_collide.cpp and find_wall of sim_level.cpp: what  *)
(* the presses of one player do to the timers and latches of one robot,    *)
(* tick after tick, on the floor, in the air, on a wall, in the chassis    *)
(* and through a death.                                                    *)
(*                                                                         *)
(* Positions and speeds are left to choice: which face is in reach,        *)
(* whether the robot moves fast enough for a slide or a wall run, what the *)
(* hull meets.  Of the vertical speed `rise' is kept: the ticks the robot  *)
(* will go on rising, 0 once it does not rise.                             *)
(***************************************************************************)
EXTENDS Integers

CONSTANTS
  Face,             \* the outward normals a wall can have
  NoFace,           \* no wall: the latch's zero
  Stick,            \* the directions the stick can ask for
  Centred,          \* the stick at rest
  JumpBufferTicks,  \* JUMP_BUFFER_TICKS
  CoyoteTicks,      \* COYOTE_TICKS
  CoyoteCap,        \* where coyote_ticks saturates, 250
  MaxAirJumps,      \* MAX_AIR_JUMPS
  BoostCooldown,    \* SLIDE_BOOST_COOLDOWN
  LurchEnd,         \* LURCH_END_TICKS
  WallrunTicks,     \* WALLRUN_MAX_TICKS
  JumpRise,         \* the ticks a jump of JUMP_VELOCITY rises: 27
  LesserRise        \* those of a wall jump, a climb or the hatch: 12 to 23

ASSUME MovementAssumption ==
  /\ NoFace \notin Face /\ Centred \notin Stick
  /\ JumpBufferTicks \in Nat \ {0} /\ CoyoteTicks \in Nat \ {0}
  /\ CoyoteCap \in Nat /\ CoyoteCap > CoyoteTicks
  /\ MaxAirJumps \in Nat /\ BoostCooldown \in Nat \ {0}
  /\ LurchEnd \in Nat /\ LurchEnd > 1
  /\ WallrunTicks \in Nat \ {0}
  /\ LesserRise \in Nat /\ LesserRise > CoyoteTicks
  /\ JumpRise \in Nat /\ JumpRise > LesserRise

VARIABLES
  c,     \* the Character
  h      \* what the checks remember of the ticks before, see Recorded

vars == <<c, h>>

MoveState == {"Ground", "Slide", "Air", "Wallrun", "Climb"}

Character ==
  [alive: BOOLEAN, merged: BOOLEAN, onGround: BOOLEAN, state: MoveState,
   rise: 0 .. JumpRise, jumpWasDown: BOOLEAN, jumpBuffer: 0 .. JumpBufferTicks,
   coyote: 0 .. CoyoteCap, airJumps: 0 .. MaxAirJumps,
   slideCooldown: 0 .. BoostCooldown, lurch: 0 .. LurchEnd,
   lastMove: Stick \cup {Centred},
   wallTicks: 0 .. WallrunTicks + 1, latch: Face \cup {NoFace}]

\* Character{}, what a spawn hands out.
Fresh ==
  [alive |-> TRUE, merged |-> FALSE, onGround |-> FALSE, state |-> "Air",
   rise |-> 0, jumpWasDown |-> FALSE, jumpBuffer |-> 0, coyote |-> 0,
   airJumps |-> 0, slideCooldown |-> 0, lurch |-> 0, lastMove |-> Centred,
   wallTicks |-> 0, latch |-> NoFace]

InputCmd == [jump: BOOLEAN, crouch: BOOLEAN, move: Stick \cup {Centred}]

\* What the level and the velocity make of a tick, where they matter: the face
\* find_wall reports, its top within CLIMB_REACH of a stick that pushes at it,
\* enough speed along it, enough for a slide, a wall run so young that gravity
\* does not slow the rise yet, and what the hull meets.
Surroundings(p, cmd) ==
  LET walls == IF p.onGround THEN {NoFace} ELSE Face \cup {NoFace}
      yes(P) == IF P THEN BOOLEAN ELSE {FALSE}
  IN  UNION {[wall: {wall}, ledge: yes(wall # NoFace /\ cmd.jump /\ cmd.move # Centred),
              along: yes(wall # NoFace /\ ~cmd.crouch), fast: yes(p.onGround /\ cmd.crouch),
              float: yes(wall # NoFace /\ ~cmd.crouch /\ p.rise > 0), hull: {"clear", "vault", "land", "bump", "wedge"}]
             : wall \in walls}

-----------------------------------------------------------------------------
(* The stages of step_character, in its order.                             *)

Down(n) == IF n > 0 THEN n - 1 ELSE 0

Pressed(p, cmd) == cmd.jump /\ ~p.jumpWasDown

\* Forgiveness: a press is good for a while, and so is the edge of a ledge.
Buffer(p, cmd) == IF Pressed(p, cmd) THEN JumpBufferTicks ELSE Down(p.jumpBuffer)
Unsaturated(p) == IF p.onGround THEN 0 ELSE p.coyote + 1   \* mutant: wraps in time
Coyote(p) ==
  CASE p.onGround              -> 0
    [] p.coyote < CoyoteCap    -> p.coyote + 1
    [] OTHER                   -> CoyoteCap

Sliding(p, cmd, w) == p.onGround /\ cmd.crouch /\ w.fast

\* The burst of a slide's entry, rate-limited.
UnlimitedBoost(p, cmd, w) ==                               \* mutant: no limit
  Sliding(p, cmd, w) /\ p.state # "Slide"
Boosted(p, cmd, w) ==
  Sliding(p, cmd, w) /\ p.state # "Slide" /\ Down(p.slideCooldown) = 0
Cooldown(p, cmd, w) ==
  IF Boosted(p, cmd, w) THEN BoostCooldown ELSE Down(p.slideCooldown)

\* The face the run timer belongs to, and the timer: a face that is not the
\* latched one is a fresh run.
WallFound(p, w)   == ~p.onGround /\ w.wall # NoFace
Takes(p, cmd, w)  == WallFound(p, w) /\ ~cmd.crouch
Latched(p, cmd, w) == IF Takes(p, cmd, w) THEN w.wall ELSE p.latch
ForgetfulRun(p, cmd, w) ==                 \* mutant: losing contact refunds it
  IF ~Takes(p, cmd, w) \/ w.wall # p.latch THEN 0 ELSE p.wallTicks
RunSoFar(p, cmd, w) ==
  IF Takes(p, cmd, w) /\ w.wall # p.latch THEN 0 ELSE p.wallTicks
Wallrunning(p, cmd, w) ==
  Takes(p, cmd, w) /\ RunSoFar(p, cmd, w) < WallrunTicks /\ w.along

Climbing(p, cmd, w) ==
  WallFound(p, w) /\ ~Wallrunning(p, cmd, w) /\ cmd.jump /\ w.ledge

CoyoteOk(p) == Coyote(p) <= CoyoteTicks /\ p.rise = 0

\* Which jump this tick makes, if any.
Jump(p, cmd, w) ==
  CASE p.onGround ->
         IF cmd.jump \/ Buffer(p, cmd) > 0 THEN "ground" ELSE "none"
    [] ~p.onGround /\ Wallrunning(p, cmd, w) ->
         IF Pressed(p, cmd) THEN "wall" ELSE "none"
    [] ~p.onGround /\ ~Wallrunning(p, cmd, w) /\ Climbing(p, cmd, w) -> "none"
    [] OTHER ->
         CASE ~Pressed(p, cmd)  -> "none"
           [] Pressed(p, cmd) /\ CoyoteOk(p) -> "coyote"
           [] Pressed(p, cmd) /\ ~CoyoteOk(p) /\ p.airJumps > 0 -> "air"
           [] OTHER -> "none"

KeptBuffer(p, cmd, w) ==                   \* mutant: an air jump keeps the press
  IF Jump(p, cmd, w) \in {"ground", "wall", "coyote"} THEN 0 ELSE Buffer(p, cmd)
BufferLeft(p, cmd, w) == IF Jump(p, cmd, w) # "none" THEN 0 ELSE Buffer(p, cmd)

AirJumpsLeft(p, cmd, w) ==
  CASE p.onGround \/ Wallrunning(p, cmd, w) \/ Climbing(p, cmd, w) -> MaxAirJumps
    [] OTHER -> IF Jump(p, cmd, w) = "air" THEN p.airJumps - 1 ELSE p.airJumps

\* Launching off a face spends it outright.
RunSpent(p, cmd, w) ==
  IF Jump(p, cmd, w) = "wall" THEN WallrunTicks ELSE RunSoFar(p, cmd, w)

\* The rise left after gravity, a climb and a jump.
Launched(p, cmd, w) ==
  LET falling == IF Wallrunning(p, cmd, w) /\ w.float THEN p.rise ELSE Down(p.rise)
  IN  CASE Jump(p, cmd, w) \in {"ground", "coyote", "air"} -> JumpRise
        [] Jump(p, cmd, w) = "wall"   -> LesserRise
        [] Jump(p, cmd, w) = "none" /\ Climbing(p, cmd, w) -> LesserRise
        [] OTHER                      -> falling

Lurch(p, cmd, w) ==
  CASE Jump(p, cmd, w) # "none" -> 1
    [] Jump(p, cmd, w) = "none" /\ p.lurch > 0 /\ p.lurch < LurchEnd -> p.lurch + 1
    [] OTHER -> 0
\* lurch_strength is zero at the end of the window already.
Redirects(p, cmd, w) ==
  /\ Lurch(p, cmd, w) \in 1 .. LurchEnd - 1
  /\ cmd.move # Centred /\ cmd.move # p.lastMove

-----------------------------------------------------------------------------
(* move_and_slide: what the hull may meet with this rise, and what is left *)
(* of it.  A vault raises the robot over a ledge; a box above stops it; a  *)
(* box or the floor below lands it; a hull between two boxes meets both.   *)

Meets(rise, w) ==
  CASE w.hull = "land" -> rise = 0
    [] w.hull \in {"bump", "wedge"} -> rise > 0
    [] OTHER -> TRUE
LandsOn(w) == w.hull \in {"land", "wedge"}
RiseLeft(rise, w, vault) ==
  CASE w.hull = "vault" -> IF rise < vault THEN vault ELSE rise
    [] w.hull = "clear" -> rise
    [] OTHER            -> 0

-----------------------------------------------------------------------------
(* The end of step_character: the Character it leaves.                     *)

StateAfter(p, cmd, w, fast) ==
  CASE LandsOn(w) -> IF cmd.crouch /\ fast THEN "Slide" ELSE "Ground"
    [] ~LandsOn(w) /\ Wallrunning(p, cmd, w) -> "Wallrun"
    [] ~LandsOn(w) /\ ~Wallrunning(p, cmd, w) /\ Climbing(p, cmd, w) -> "Climb"
    [] OTHER -> "Air"

Stepped(p, cmd, w, vault, fast) ==
  [p EXCEPT
     !.onGround = LandsOn(w),
     !.state = StateAfter(p, cmd, w, fast),
     !.rise = RiseLeft(Launched(p, cmd, w), w, vault),
     !.jumpWasDown = cmd.jump,
     !.jumpBuffer = BufferLeft(p, cmd, w),
     !.coyote = Coyote(p),
     !.airJumps = AirJumpsLeft(p, cmd, w),
     !.slideCooldown = Cooldown(p, cmd, w),
     !.lurch = IF LandsOn(w) THEN 0 ELSE Lurch(p, cmd, w),
     !.lastMove = cmd.move,
     !.wallTicks = CASE LandsOn(w) -> 0
                     [] ~LandsOn(w) /\ Wallrunning(p, cmd, w) -> RunSpent(p, cmd, w) + 1
                     [] OTHER -> RunSpent(p, cmd, w),
     !.latch = IF LandsOn(w) THEN NoFace ELSE Latched(p, cmd, w)]

\* A run that outlives its tick: landing in the same tick ends it.
RunsOn(p, cmd, w) == Wallrunning(p, cmd, w) /\ ~LandsOn(w)

-----------------------------------------------------------------------------
(* What the checks remember, of the ticks step_character ran: the face     *)
(* last taken since the floor, the ticks run on it, the face a jump spent, *)
(* the air jumps since the last support, the age of the last press no jump *)
(* has answered, whether this flight began with a jump and met a ceiling,  *)
(* the ticks since the last burst and since the last jump, and the verdict *)
(* on this tick's jump, run, burst and redirect.                           *)

Unheard ==
  [face |-> NoFace, stint |-> 0, spent |-> NoFace, lifts |-> 0,
   press |-> JumpBufferTicks, jumped |-> FALSE, bumped |-> FALSE,
   burst |-> BoostCooldown, since |-> LurchEnd, wrong |-> {}]

Older(n, cap) == IF n < cap THEN n + 1 ELSE cap

Recorded(p, cmd, w) ==
  LET jump  == Jump(p, cmd, w)
      other == Takes(p, cmd, w) /\ w.wall # h.face
      runs  == RunsOn(p, cmd, w)
      press == IF Pressed(p, cmd) THEN 0 ELSE Older(h.press, JumpBufferTicks)
      since == IF jump # "none" THEN 0 ELSE Older(h.since, LurchEnd)
      burst == Older(h.burst, BoostCooldown)
      spent == IF other THEN NoFace ELSE h.spent
      held  == IF p.onGround \/ other \/ Climbing(p, cmd, w) \/ jump = "wall"
                 THEN 0 ELSE h.lifts
  IN  [face  |-> IF LandsOn(w) THEN NoFace ELSE IF other THEN w.wall ELSE h.face,
       stint |-> IF LandsOn(w) THEN 0
                 ELSE (IF other THEN 0 ELSE h.stint) + (IF runs THEN 1 ELSE 0),
       spent |-> IF LandsOn(w) THEN NoFace ELSE IF jump = "wall" THEN w.wall ELSE spent,
       lifts |-> IF LandsOn(w) THEN 0 ELSE held + (IF jump = "air" THEN 1 ELSE 0),
       press |-> IF jump # "none" THEN JumpBufferTicks ELSE press,
       jumped |-> ~LandsOn(w) /\ (jump # "none" \/ (h.jumped /\ ~p.onGround)),
       bumped |-> ~LandsOn(w) /\ (w.hull = "bump" \/ (h.bumped /\ ~p.onGround)),
       burst |-> IF Boosted(p, cmd, w) THEN 0 ELSE burst,
       since |-> IF LandsOn(w) THEN LurchEnd ELSE since,
       wrong |-> {x \in {"press", "coyote", "run", "burst", "lurch"} :
                    \/ x = "press"  /\ jump = "ground" /\ ~cmd.jump /\ press = JumpBufferTicks
                    \/ x = "coyote" /\ jump = "coyote" /\ h.jumped /\ ~h.bumped
                    \/ x = "run"    /\ runs /\ w.wall = spent
                    \/ x = "burst"  /\ Boosted(p, cmd, w) /\ burst < BoostCooldown
                    \/ x = "lurch"  /\ Redirects(p, cmd, w) /\ since > LurchEnd - 2}]

-----------------------------------------------------------------------------
(* Actions.                                                                *)

Init == c = Fresh /\ h = Unheard

\* One tick on foot.
Walk ==
  /\ c.alive /\ ~c.merged
  /\ \E cmd \in InputCmd : \E w \in Surroundings(c, cmd) :
       /\ Meets(Launched(c, cmd, w), w)
       /\ \E vault \in IF w.hull = "vault" THEN 1 .. JumpRise ELSE {1},
             fast \in IF LandsOn(w) /\ cmd.crouch THEN BOOLEAN ELSE {FALSE} :
            c' = Stepped(c, cmd, w, vault, fast)
       /\ h' = Recorded(c, cmd, w)

\* step_union: the robot's processes move into the chassis ...
Board ==
  /\ c.alive /\ ~c.merged
  /\ c' = [c EXCEPT !.merged = TRUE, !.rise = 0]
  /\ h' = [h EXCEPT !.jumped = FALSE, !.bumped = FALSE, !.wrong = {}]

\* ... which carries the robot along, its timers still as it left them ...
Ride ==
  /\ c.alive /\ c.merged
  /\ \E g \in BOOLEAN, r \in 0 .. LesserRise :
       c' = [c EXCEPT !.onGround = g, !.rise = r]
  /\ h' = h

\* ... until it pops out of the hatch, or the chassis goes from under it.
Leave ==
  /\ c.alive /\ c.merged
  /\ \E r \in {c.rise, LesserRise} : c' = [c EXCEPT !.merged = FALSE, !.rise = r]
  /\ h' = h

Die ==
  /\ c.alive
  /\ c' = [c EXCEPT !.alive = FALSE, !.merged = FALSE]
  /\ h' = [h EXCEPT !.wrong = {}]

Respawn ==
  /\ ~c.alive
  /\ c' = Fresh
  /\ h' = Unheard

Next == Walk \/ Board \/ Ride \/ Leave \/ Die \/ Respawn
Spec == Init /\ [][Next]_vars

-----------------------------------------------------------------------------
(* Properties.                                                             *)

\* Every field of the controller stays in its range.
TypeOK == c \in Character

\* Forgiveness: a jump that the button does not hold answers a press of the
\* last JUMP_BUFFER_TICKS that no jump has answered yet, and the grace of a
\* ledge never turns a jump that still rises into a second one
\* (sim_move.cpp:128-135, 302).
ForgivenOnce == "press" \notin h.wrong /\ "coyote" \notin h.wrong

\* A face owes one run of WALLRUN_MAX_TICKS, however often contact is lost, and
\* none once a jump has left it, until the floor or another face
\* (sim_move.cpp:219-228, 323-329).
FaceOwesOneRun == h.stint <= WallrunTicks /\ "run" \notin h.wrong

\* After a wall jump one air jump is left, until the floor, another face or a
\* climb gives it back (sim_move.cpp:311-313).
NoRatchet == h.spent # NoFace => h.lifts <= MaxAirJumps

\* Neither the run nor the jumps a face has to give are given again while the robot
\* keeps to that face.
FacesAreFair == FaceOwesOneRun /\ NoRatchet

\* Two bursts of slide speed are SLIDE_BOOST_COOLDOWN ticks apart, and momentum
\* is redirected only in the window a jump opened and no landing has closed
\* (sim_move.cpp:193-197, 402).
PaidSparingly == "burst" \notin h.wrong /\ "lurch" \notin h.wrong

\* "Touching a wall gives the air jump back once, not once per tick of contact"
\* (tests/sim_tests_move.cpp:243): between two supports, whatever the contact
\* with one face, the air jump is there once.
AirJumpOnce == h.lifts <= MaxAirJumps
=============================================================================
