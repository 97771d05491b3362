--------------------------- MODULE MovementProofs ---------------------------
(***************************************************************************)
(* Movement's invariants, for any faces and any durations that stand in    *)
(* the order MovementAssumption gives them.                                *)
(*                                                                         *)
(* Each of the four says that what the history remembers never contradicts *)
(* what a tick does, and the controller cannot see the history.  So the    *)
(* inductive invariant says, timer by timer, what the controller's own     *)
(* field tells of it: the age of a press from the buffer, of a burst from  *)
(* the cooldown, of a jump from the lurch, the run and the jumps a face    *)
(* still owes from the run timer and the latch.                            *)
(***************************************************************************)
EXTENDS Movement, TLAPS

Verdict == {"press", "coyote", "run", "burst", "lurch"}

\* What the checks remember keeps its type.
History ==
  [face: Face \cup {NoFace}, stint: Nat, spent: Face \cup {NoFace}, lifts: Nat,
   press: 0 .. JumpBufferTicks, jumped: BOOLEAN, bumped: BOOLEAN,
   burst: 0 .. BoostCooldown, since: 0 .. LurchEnd, wrong: SUBSET Verdict]

\* The buffer and the age of the press it holds fill JUMP_BUFFER_TICKS between
\* them, and so do the cooldown and the age of the burst.
AgesAgree ==
  /\ h.press + c.jumpBuffer = JumpBufferTicks
  /\ h.burst + c.slideCooldown = BoostCooldown
  /\ c.lurch > 0 => h.since = c.lurch - 1

\* A jump rises for longer than the grace of a ledge lasts, unless a ceiling
\* stopped it or the chassis took the robot in.
JumpOutlastsGrace ==
  /\ h.jumped /\ ~h.bumped => c.coyote + c.rise > CoyoteTicks
  /\ c.merged => ~h.jumped

\* The run timer is of the latched face, and a face a jump has spent has no run
\* left in it and, between them, no more air jumps than one support gives.
LatchKeepsTheRun ==
  /\ h.face = c.latch
  /\ h.stint <= c.wallTicks /\ h.stint <= WallrunTicks
  /\ h.spent # NoFace =>
       /\ h.spent = c.latch
       /\ c.wallTicks >= WallrunTicks
       /\ h.lifts + c.airJumps <= MaxAirJumps

Relations == AgesAgree /\ JumpOutlastsGrace /\ LatchKeepsTheRun

IInv == TypeOK /\ h \in History /\ Relations /\ h.wrong = {}

-----------------------------------------------------------------------------
(* The stages of a tick.                                                   *)

\* What find_wall reports is a face or none, and the hull meets one of five
\* things.
LEMMA SurroundingsType ==
  ASSUME NEW p, NEW cmd, NEW w \in Surroundings(p, cmd)
  PROVE  /\ w.wall \in Face \cup {NoFace}
         /\ w.hull \in {"clear", "vault", "land", "bump", "wedge"}
<1> DEFINE walls == IF p.onGround THEN {NoFace} ELSE Face \cup {NoFace}
           yes(P) == IF P THEN BOOLEAN ELSE {FALSE}
           Within(wall) ==
             [wall: {wall}, ledge: yes(wall # NoFace /\ cmd.jump /\ cmd.move # Centred),
              along: yes(wall # NoFace /\ ~cmd.crouch), fast: yes(p.onGround /\ cmd.crouch),
              float: yes(wall # NoFace /\ ~cmd.crouch /\ p.rise > 0),
              hull: {"clear", "vault", "land", "bump", "wedge"}]
<1>1. w \in UNION {Within(wall) : wall \in walls}
  BY DEF Surroundings
<1>2. \A wall : w \in Within(wall) =>
        w.wall = wall /\ w.hull \in {"clear", "vault", "land", "bump", "wedge"}
  OBVIOUS
<1>3. walls \subseteq Face \cup {NoFace}
  OBVIOUS
<1> HIDE DEF Within, walls
<1> QED  BY <1>1, <1>2, <1>3

\* What each jump says of the tick that makes it (sim_move.cpp:288-331).
LEMMA JumpKinds ==
  ASSUME NEW p \in Character, NEW cmd \in InputCmd, NEW w
  PROVE  /\ Jump(p, cmd, w) \in {"none", "ground", "wall", "coyote", "air"}
         /\ Jump(p, cmd, w) = "ground" => p.onGround /\ (cmd.jump \/ Buffer(p, cmd) > 0)
         /\ Jump(p, cmd, w) = "wall" => ~p.onGround /\ Wallrunning(p, cmd, w)
         /\ Jump(p, cmd, w) = "coyote" => ~p.onGround /\ CoyoteOk(p)
         /\ Jump(p, cmd, w) = "air" => /\ ~p.onGround /\ p.airJumps > 0
                                       /\ ~Wallrunning(p, cmd, w) /\ ~Climbing(p, cmd, w)
<1>1. CASE p.onGround
  BY <1>1 DEF Jump
<1>2. CASE ~p.onGround /\ Wallrunning(p, cmd, w)
  BY <1>2 DEF Jump
<1>3. CASE ~p.onGround /\ ~Wallrunning(p, cmd, w) /\ Climbing(p, cmd, w)
  BY <1>3 DEF Jump
<1>4. CASE ~p.onGround /\ ~Wallrunning(p, cmd, w) /\ ~Climbing(p, cmd, w)
  <2>1. Jump(p, cmd, w) =
          CASE ~Pressed(p, cmd)  -> "none"
            [] Pressed(p, cmd) /\ CoyoteOk(p) -> "coyote"
            [] Pressed(p, cmd) /\ ~CoyoteOk(p) /\ p.airJumps > 0 -> "air"
            [] OTHER -> "none"
    BY <1>4 DEF Jump
  <2> QED  BY <1>4, <2>1
<1> QED  BY <1>1, <1>2, <1>3, <1>4

\* The timers of a tick keep their ranges.
LEMMA StagesType ==
  ASSUME NEW p \in Character, NEW cmd \in InputCmd, NEW w \in Surroundings(p, cmd)
  PROVE  /\ Buffer(p, cmd) \in 0 .. JumpBufferTicks
         /\ BufferLeft(p, cmd, w) \in 0 .. JumpBufferTicks
         /\ Coyote(p) \in 0 .. CoyoteCap
         /\ AirJumpsLeft(p, cmd, w) \in 0 .. MaxAirJumps
         /\ Cooldown(p, cmd, w) \in 0 .. BoostCooldown
         /\ Lurch(p, cmd, w) \in 0 .. LurchEnd
         /\ Latched(p, cmd, w) \in Face \cup {NoFace}
         /\ RunSoFar(p, cmd, w) \in 0 .. WallrunTicks + 1
         /\ RunSpent(p, cmd, w) \in 0 .. WallrunTicks + 1
         /\ Launched(p, cmd, w) \in 0 .. JumpRise
<1> USE MovementAssumption, JumpKinds, SurroundingsType
<1>1. Buffer(p, cmd) \in 0 .. JumpBufferTicks
  BY DEF Buffer, Down, Character
<1>2. BufferLeft(p, cmd, w) \in 0 .. JumpBufferTicks
  BY <1>1 DEF BufferLeft
<1>3. Coyote(p) \in 0 .. CoyoteCap
  BY DEF Coyote, Character
<1>4. AirJumpsLeft(p, cmd, w) \in 0 .. MaxAirJumps
  BY DEF AirJumpsLeft, Character
<1>5. Cooldown(p, cmd, w) \in 0 .. BoostCooldown
  BY DEF Cooldown, Down, Character
<1>6. Lurch(p, cmd, w) \in 0 .. LurchEnd
  BY DEF Lurch, Character
<1>7. Latched(p, cmd, w) \in Face \cup {NoFace}
  BY DEF Latched, Character
<1>8. RunSoFar(p, cmd, w) \in 0 .. WallrunTicks + 1
  BY DEF RunSoFar, Character
<1>9. RunSpent(p, cmd, w) \in 0 .. WallrunTicks + 1
  BY <1>8 DEF RunSpent
<1>10. Launched(p, cmd, w) \in 0 .. JumpRise
  BY DEF Launched, Down, Character
<1> QED  BY <1>1, <1>2, <1>3, <1>4, <1>5, <1>6, <1>7, <1>8, <1>9, <1>10

\* A run starts with time left on the timer, and spends it all when it jumps off.
LEMMA RunTimer ==
  ASSUME NEW p \in Character, NEW cmd \in InputCmd, NEW w \in Surroundings(p, cmd)
  PROVE  /\ Wallrunning(p, cmd, w) =>
              /\ Takes(p, cmd, w) /\ w.wall \in Face
              /\ RunSoFar(p, cmd, w) < WallrunTicks
         /\ RunSpent(p, cmd, w) = IF Jump(p, cmd, w) = "wall" THEN WallrunTicks
                                  ELSE RunSoFar(p, cmd, w)
         /\ RunSoFar(p, cmd, w) = IF Takes(p, cmd, w) /\ w.wall # p.latch THEN 0
                                  ELSE p.wallTicks
         /\ Latched(p, cmd, w) = IF Takes(p, cmd, w) THEN w.wall ELSE p.latch
BY SurroundingsType DEF Wallrunning, RunSpent, RunSoFar, Latched, Takes, WallFound

-----------------------------------------------------------------------------
(* A tick on foot.                                                         *)

\* The fields a tick leaves.
LEMMA SteppedFields ==
  ASSUME NEW p \in Character, NEW cmd, NEW w, NEW vault, NEW fast,
         NEW q, q = Stepped(p, cmd, w, vault, fast)
  PROVE  /\ q.alive = p.alive /\ q.merged = p.merged
         /\ q.onGround = LandsOn(w) /\ q.state = StateAfter(p, cmd, w, fast)
         /\ q.rise = RiseLeft(Launched(p, cmd, w), w, vault)
         /\ q.jumpWasDown = cmd.jump /\ q.jumpBuffer = BufferLeft(p, cmd, w)
         /\ q.coyote = Coyote(p) /\ q.airJumps = AirJumpsLeft(p, cmd, w)
         /\ q.slideCooldown = Cooldown(p, cmd, w)
         /\ q.lurch = IF LandsOn(w) THEN 0 ELSE Lurch(p, cmd, w)
         /\ q.lastMove = cmd.move
         /\ q.wallTicks = IF LandsOn(w) THEN 0
                          ELSE IF Wallrunning(p, cmd, w) THEN RunSpent(p, cmd, w) + 1
                          ELSE RunSpent(p, cmd, w)
         /\ q.latch = IF LandsOn(w) THEN NoFace ELSE Latched(p, cmd, w)
<1> DEFINE ticks == CASE LandsOn(w) -> 0
                     [] ~LandsOn(w) /\ Wallrunning(p, cmd, w) -> RunSpent(p, cmd, w) + 1
                     [] OTHER -> RunSpent(p, cmd, w)
<1>1. ticks = IF LandsOn(w) THEN 0
              ELSE IF Wallrunning(p, cmd, w) THEN RunSpent(p, cmd, w) + 1
              ELSE RunSpent(p, cmd, w)
  OBVIOUS
<1>2. q = [p EXCEPT
     !.onGround = LandsOn(w),
     !.state = StateAfter(p, cmd, w, fast),
     !.rise = RiseLeft(Launched(p, cmd, w), w, vault),
     !.jumpWasDown = cmd.jump,
     !.jumpBuffer = BufferLeft(p, cmd, w),
     !.coyote = Coyote(p),
     !.airJumps = AirJumpsLeft(p, cmd, w),
     !.slideCooldown = Cooldown(p, cmd, w),
     !.lurch = IF LandsOn(w) THEN 0 ELSE Lurch(p, cmd, w),
     !.lastMove = cmd.move,
     !.wallTicks = ticks,
     !.latch = IF LandsOn(w) THEN NoFace ELSE Latched(p, cmd, w)]
  BY DEF Stepped
<1> HIDE DEF ticks
<1> QED  BY <1>1, <1>2 DEF Character

\* A tick leaves a Character.
LEMMA SteppedType ==
  ASSUME NEW p \in Character, NEW cmd \in InputCmd, NEW w \in Surroundings(p, cmd),
         NEW vault \in 1 .. JumpRise, NEW fast \in BOOLEAN
  PROVE  Stepped(p, cmd, w, vault, fast) \in Character
<1> DEFINE on == LandsOn(w)
           state == StateAfter(p, cmd, w, fast)
           rise == RiseLeft(Launched(p, cmd, w), w, vault)
           lurch == IF LandsOn(w) THEN 0 ELSE Lurch(p, cmd, w)
           ticks == CASE LandsOn(w) -> 0
                     [] ~LandsOn(w) /\ Wallrunning(p, cmd, w) -> RunSpent(p, cmd, w) + 1
                     [] OTHER -> RunSpent(p, cmd, w)
           latch == IF LandsOn(w) THEN NoFace ELSE Latched(p, cmd, w)
<1> USE MovementAssumption
<1>1. on \in BOOLEAN
  BY DEF LandsOn
<1>2. state \in MoveState
  BY DEF StateAfter, MoveState
<1>3. rise \in 0 .. JumpRise
  BY StagesType DEF RiseLeft
<1>4. ticks \in 0 .. WallrunTicks + 1
  BY StagesType, RunTimer
<1>5. lurch \in 0 .. LurchEnd /\ latch \in Face \cup {NoFace}
  BY StagesType
<1>6. cmd.jump \in BOOLEAN /\ cmd.move \in Stick \cup {Centred}
  BY DEF InputCmd
<1>7. Stepped(p, cmd, w, vault, fast) =
        [p EXCEPT !.onGround = on, !.state = state, !.rise = rise,
           !.jumpWasDown = cmd.jump, !.jumpBuffer = BufferLeft(p, cmd, w),
           !.coyote = Coyote(p), !.airJumps = AirJumpsLeft(p, cmd, w),
           !.slideCooldown = Cooldown(p, cmd, w), !.lurch = lurch,
           !.lastMove = cmd.move, !.wallTicks = ticks, !.latch = latch]
  BY DEF Stepped
<1> HIDE DEF on, state, rise, lurch, ticks, latch
<1> DEFINE buffer == BufferLeft(p, cmd, w)
           coyote == Coyote(p)
           air == AirJumpsLeft(p, cmd, w)
           cooldown == Cooldown(p, cmd, w)
<1> HIDE DEF buffer, coyote, air, cooldown
<1>8. buffer \in 0 .. JumpBufferTicks /\ coyote \in 0 .. CoyoteCap
      /\ air \in 0 .. MaxAirJumps /\ cooldown \in 0 .. BoostCooldown
  BY StagesType DEF buffer, coyote, air, cooldown
<1>9. [p EXCEPT !.onGround = on, !.state = state, !.rise = rise,
           !.jumpWasDown = cmd.jump, !.jumpBuffer = buffer,
           !.coyote = coyote, !.airJumps = air,
           !.slideCooldown = cooldown, !.lurch = lurch,
           !.lastMove = cmd.move, !.wallTicks = ticks, !.latch = latch] \in Character
  BY <1>1, <1>2, <1>3, <1>4, <1>5, <1>6, <1>8, ZenonT(60) DEF Character
<1> QED  BY <1>7, <1>9 DEF buffer, coyote, air, cooldown

-----------------------------------------------------------------------------
(* What the checks remember of a tick on foot.                             *)

\* The age of a press, of a burst and of a jump go on agreeing with the
\* timers, and none of the three verdicts they decide can fall.
LEMMA WalkAges ==
  ASSUME TypeOK, h \in History, AgesAgree,
         NEW cmd \in InputCmd, NEW w \in Surroundings(c, cmd),
         NEW vault, NEW fast,
         c' = Stepped(c, cmd, w, vault, fast), h' = Recorded(c, cmd, w)
  PROVE  /\ AgesAgree'
         /\ h'.press \in 0 .. JumpBufferTicks /\ h'.burst \in 0 .. BoostCooldown
         /\ h'.since \in 0 .. LurchEnd
         /\ {"press", "burst", "lurch"} \cap h'.wrong = {}
<1> USE MovementAssumption
<1>0. c \in Character /\ cmd.jump \in BOOLEAN
  BY DEF TypeOK, InputCmd
<1> DEFINE jump == Jump(c, cmd, w)
           press == IF Pressed(c, cmd) THEN 0 ELSE Older(h.press, JumpBufferTicks)
           since == IF jump # "none" THEN 0 ELSE Older(h.since, LurchEnd)
           burst == Older(h.burst, BoostCooldown)
<1>1. /\ h'.press = IF jump # "none" THEN JumpBufferTicks ELSE press
      /\ h'.burst = IF Boosted(c, cmd, w) THEN 0 ELSE burst
      /\ h'.since = IF LandsOn(w) THEN LurchEnd ELSE since
  BY DEF Recorded
<1>2. /\ "press" \in h'.wrong =>
           jump = "ground" /\ ~cmd.jump /\ press = JumpBufferTicks
      /\ "burst" \in h'.wrong => Boosted(c, cmd, w) /\ burst < BoostCooldown
      /\ "lurch" \in h'.wrong => Redirects(c, cmd, w) /\ since > LurchEnd - 2
  BY DEF Recorded
<1>3. /\ c'.jumpBuffer = BufferLeft(c, cmd, w)
      /\ c'.slideCooldown = Cooldown(c, cmd, w)
      /\ c'.lurch = IF LandsOn(w) THEN 0 ELSE Lurch(c, cmd, w)
  BY <1>0, SteppedFields
<1>4. /\ h.press \in 0 .. JumpBufferTicks /\ h.burst \in 0 .. BoostCooldown
      /\ h.since \in 0 .. LurchEnd
  BY DEF History
<1>5. /\ c.jumpBuffer \in 0 .. JumpBufferTicks /\ c.slideCooldown \in 0 .. BoostCooldown
      /\ c.lurch \in 0 .. LurchEnd
  BY <1>0 DEF Character
<1>6. press + Buffer(c, cmd) = JumpBufferTicks /\ press \in 0 .. JumpBufferTicks
  BY <1>4, <1>5 DEF AgesAgree, Older, Buffer, Down
<1>7. h'.press \in 0 .. JumpBufferTicks /\ h'.press + c'.jumpBuffer = JumpBufferTicks
  <2> HIDE DEF press
  <2> QED  BY <1>1, <1>3, <1>6 DEF BufferLeft
<1>8. burst \in 0 .. BoostCooldown /\ burst + Down(c.slideCooldown) = BoostCooldown
  BY <1>4, <1>5 DEF AgesAgree, Older, Down
<1>9. h'.burst \in 0 .. BoostCooldown /\ h'.burst + c'.slideCooldown = BoostCooldown
  <2> HIDE DEF burst
  <2> QED  BY <1>1, <1>3, <1>8 DEF Cooldown
<1>10. since \in 0 .. LurchEnd /\ (Lurch(c, cmd, w) > 0 => since = Lurch(c, cmd, w) - 1)
  BY <1>4, <1>5 DEF AgesAgree, Older, Lurch
<1>11. h'.since \in 0 .. LurchEnd /\ (c'.lurch > 0 => h'.since = c'.lurch - 1)
  <2> HIDE DEF since
  <2> QED  BY <1>1, <1>3, <1>10
<1>12. "press" \notin h'.wrong
  <2>1. jump = "ground" /\ ~cmd.jump => Buffer(c, cmd) > 0
    BY <1>0, JumpKinds
  <2>2. Buffer(c, cmd) \in 0 .. JumpBufferTicks
    BY <1>0, StagesType
  <2> HIDE DEF press
  <2> QED  BY <1>2, <1>6, <2>1, <2>2
<1>13. "burst" \notin h'.wrong
  <2> HIDE DEF burst
  <2> QED  BY <1>2, <1>8 DEF Boosted
<1>14. "lurch" \notin h'.wrong
  <2> HIDE DEF since
  <2> QED  BY <1>2, <1>10 DEF Redirects
<1> QED  BY <1>7, <1>9, <1>11, <1>12, <1>13, <1>14 DEF AgesAgree

\* A jump goes on outlasting the grace, so the grace answers no press in a
\* flight that a jump began.
LEMMA WalkGrace ==
  ASSUME TypeOK, h \in History, JumpOutlastsGrace, ~c.merged,
         NEW cmd \in InputCmd, NEW w \in Surroundings(c, cmd),
         NEW vault \in 1 .. JumpRise, NEW fast,
         c' = Stepped(c, cmd, w, vault, fast), h' = Recorded(c, cmd, w)
  PROVE  /\ JumpOutlastsGrace'
         /\ h'.jumped \in BOOLEAN /\ h'.bumped \in BOOLEAN
         /\ "coyote" \notin h'.wrong
<1> USE MovementAssumption
<1>0. c \in Character
  BY DEF TypeOK
<1> DEFINE jump == Jump(c, cmd, w)
<1>1. /\ h'.jumped = (~LandsOn(w) /\ (jump # "none" \/ (h.jumped /\ ~c.onGround)))
      /\ h'.bumped = (~LandsOn(w) /\ (w.hull = "bump" \/ (h.bumped /\ ~c.onGround)))
      /\ "coyote" \in h'.wrong => jump = "coyote" /\ h.jumped /\ ~h.bumped
  BY DEF Recorded
<1>2. /\ c'.coyote = Coyote(c) /\ c'.rise = RiseLeft(Launched(c, cmd, w), w, vault)
      /\ c'.merged = c.merged
  BY <1>0, SteppedFields
<1>3. /\ c.coyote \in 0 .. CoyoteCap /\ c.rise \in 0 .. JumpRise
      /\ c.onGround \in BOOLEAN /\ c.merged \in BOOLEAN
  BY <1>0 DEF Character
<1>4. h.jumped \in BOOLEAN /\ h.bumped \in BOOLEAN
  BY DEF History
<1>5. Launched(c, cmd, w) \in 0 .. JumpRise /\ Coyote(c) \in 0 .. CoyoteCap
  BY <1>0, StagesType
<1>6. ~LandsOn(w) /\ w.hull # "bump" => c'.rise >= Launched(c, cmd, w)
  BY <1>2, <1>5, SurroundingsType DEF RiseLeft, LandsOn
<1>7. ASSUME h'.jumped, ~h'.bumped
      PROVE  Coyote(c) + Launched(c, cmd, w) > CoyoteTicks
  <2>1. CASE jump # "none"
    <3>1. Launched(c, cmd, w) \in {JumpRise, LesserRise}
      BY <1>0, <2>1, JumpKinds DEF Launched
    <3> QED  BY <3>1, <1>5
  <2>2. CASE jump = "none"
    <3>1. h.jumped /\ ~h.bumped /\ ~c.onGround
      BY <1>1, <1>7, <2>2
    <3>2. c.coyote + c.rise > CoyoteTicks
      BY <3>1 DEF JumpOutlastsGrace
    <3>3. Launched(c, cmd, w) >= Down(c.rise) \/ Launched(c, cmd, w) = LesserRise
      BY <1>3, <2>2 DEF Launched, Down
    <3>4. Coyote(c) = IF c.coyote < CoyoteCap THEN c.coyote + 1 ELSE CoyoteCap
      BY <3>1 DEF Coyote
    <3> QED  BY <3>2, <3>3, <3>4, <1>3, <1>5 DEF Down
  <2> QED  BY <2>1, <2>2
<1>8. ASSUME h'.jumped, ~h'.bumped  PROVE  c'.coyote + c'.rise > CoyoteTicks
  <2>1. ~LandsOn(w) /\ w.hull # "bump"
    BY <1>1, <1>8
  <2>2. c'.rise \in 0 .. JumpRise
    BY <1>2, <1>5 DEF RiseLeft
  <2> QED  BY <1>2, <1>5, <1>6, <1>7, <1>8, <2>1, <2>2
<1>9. "coyote" \notin h'.wrong
  <2> SUFFICES ASSUME jump = "coyote", h.jumped, ~h.bumped PROVE FALSE
    BY <1>1
  <2>1. ~c.onGround /\ Coyote(c) <= CoyoteTicks /\ c.rise = 0
    BY <1>0, JumpKinds DEF CoyoteOk
  <2>2. c.coyote + c.rise > CoyoteTicks
    BY DEF JumpOutlastsGrace
  <2>3. Coyote(c) = IF c.coyote < CoyoteCap THEN c.coyote + 1 ELSE CoyoteCap
    BY <2>1 DEF Coyote
  <2> QED  BY <2>1, <2>2, <2>3, <1>3
<1>10. h'.jumped \in BOOLEAN /\ h'.bumped \in BOOLEAN
  BY <1>1, Zenon
<1> QED  BY <1>2, <1>8, <1>9, <1>10 DEF JumpOutlastsGrace

\* A face gets no second run, and no more air jumps once a jump has spent it.
LEMMA WalkRun ==
  ASSUME TypeOK, h \in History, LatchKeepsTheRun,
         NEW cmd \in InputCmd, NEW w \in Surroundings(c, cmd),
         NEW vault, NEW fast,
         c' = Stepped(c, cmd, w, vault, fast), h' = Recorded(c, cmd, w)
  PROVE  /\ LatchKeepsTheRun'
         /\ h'.face \in Face \cup {NoFace} /\ h'.spent \in Face \cup {NoFace}
         /\ h'.stint \in Nat /\ h'.lifts \in Nat
         /\ "run" \notin h'.wrong
<1> USE MovementAssumption
<1>0. c \in Character
  BY DEF TypeOK
<1> DEFINE jump == Jump(c, cmd, w)
           other == Takes(c, cmd, w) /\ w.wall # h.face
           runs == RunsOn(c, cmd, w)
           spent == IF other THEN NoFace ELSE h.spent
           held == IF c.onGround \/ other \/ Climbing(c, cmd, w) \/ jump = "wall"
                     THEN 0 ELSE h.lifts
<1>1. /\ h'.face = IF LandsOn(w) THEN NoFace ELSE IF other THEN w.wall ELSE h.face
      /\ h'.stint = IF LandsOn(w) THEN 0
                    ELSE (IF other THEN 0 ELSE h.stint) + (IF runs THEN 1 ELSE 0)
      /\ h'.spent = IF LandsOn(w) THEN NoFace ELSE IF jump = "wall" THEN w.wall ELSE spent
      /\ h'.lifts = IF LandsOn(w) THEN 0 ELSE held + (IF jump = "air" THEN 1 ELSE 0)
      /\ "run" \in h'.wrong => runs /\ w.wall = spent
  BY DEF Recorded
<1>2. /\ c'.latch = IF LandsOn(w) THEN NoFace ELSE Latched(c, cmd, w)
      /\ c'.wallTicks = IF LandsOn(w) THEN 0
                        ELSE IF Wallrunning(c, cmd, w) THEN RunSpent(c, cmd, w) + 1
                        ELSE RunSpent(c, cmd, w)
      /\ c'.airJumps = AirJumpsLeft(c, cmd, w)
  BY <1>0, SteppedFields
<1>3. /\ h.face \in Face \cup {NoFace} /\ h.spent \in Face \cup {NoFace}
      /\ h.stint \in Nat /\ h.lifts \in Nat
  BY DEF History
<1>4. c.airJumps \in 0 .. MaxAirJumps /\ c.wallTicks \in 0 .. WallrunTicks + 1
  BY <1>0 DEF Character
<1>5. runs <=> Wallrunning(c, cmd, w) /\ ~LandsOn(w)
  BY DEF RunsOn
<1>6. h.face = c.latch
  BY DEF LatchKeepsTheRun
\* The face and its run.
<1>7. /\ RunSoFar(c, cmd, w) = IF other THEN 0 ELSE c.wallTicks
      /\ Latched(c, cmd, w) = IF other THEN w.wall ELSE c.latch
      /\ other => w.wall \in Face
      /\ Wallrunning(c, cmd, w) => /\ Takes(c, cmd, w) /\ w.wall \in Face
                                   /\ RunSoFar(c, cmd, w) < WallrunTicks
  BY <1>0, <1>6, RunTimer, SurroundingsType DEF Takes, WallFound
<1>8. RunSpent(c, cmd, w) = IF jump = "wall" THEN WallrunTicks ELSE RunSoFar(c, cmd, w)
  BY DEF RunSpent
<1>9. jump = "wall" => Wallrunning(c, cmd, w)
  BY <1>0, JumpKinds
<1>10. w.wall \in Face \cup {NoFace}
  BY SurroundingsType
<1>11. h'.face = c'.latch /\ h'.face \in Face \cup {NoFace}
  BY <1>1, <1>2, <1>3, <1>6, <1>7
<1>12. h.stint <= c.wallTicks /\ h.stint <= WallrunTicks
  BY DEF LatchKeepsTheRun
<1>13. h'.stint \in Nat /\ h'.stint <= c'.wallTicks /\ h'.stint <= WallrunTicks
  <2> HIDE DEF other, jump, runs
  <2> QED  BY <1>1, <1>2, <1>3, <1>4, <1>5, <1>7, <1>8, <1>9, <1>12
\* A spent face.
<1>14. h.spent # NoFace =>
         /\ h.spent = c.latch /\ c.wallTicks >= WallrunTicks
         /\ h.lifts + c.airJumps <= MaxAirJumps
  BY DEF LatchKeepsTheRun
<1>15. spent # NoFace => ~Wallrunning(c, cmd, w)
  <2> HIDE DEF jump, runs
  <2> QED  BY <1>4, <1>7, <1>14
<1>16. "run" \notin h'.wrong
  BY <1>1, <1>5, <1>7, <1>15
<1>17. h'.spent \in Face \cup {NoFace}
  <2> HIDE DEF other, jump
  <2> QED  BY <1>1, <1>3, <1>10
<1>18. h'.spent # NoFace => h'.spent = c'.latch /\ c'.wallTicks >= WallrunTicks
  <2> HIDE DEF jump, runs
  <2> QED  BY <1>1, <1>2, <1>3, <1>4, <1>6, <1>7, <1>8, <1>9, <1>14
<1>19. held \in Nat /\ h'.lifts \in Nat
  <2> HIDE DEF other, jump
  <2> QED  BY <1>1, <1>3
<1>20. ASSUME h'.spent # NoFace
       PROVE  h'.lifts + c'.airJumps <= MaxAirJumps
  <2>1. ~LandsOn(w)
    BY <1>1, <1>20
  <2>2. CASE jump = "wall"
    <3>1. h'.lifts = 0
      BY <1>1, <2>1, <2>2
    <3>2. c'.airJumps = MaxAirJumps
      BY <1>2, <1>9, <2>2 DEF AirJumpsLeft
    <3> QED  BY <3>1, <3>2
  <2>3. CASE jump # "wall"
    <3>1. spent # NoFace /\ ~other /\ h.spent # NoFace
      BY <1>1, <1>20, <2>1, <2>3
    <3>2. ~Wallrunning(c, cmd, w)
      BY <1>15, <3>1
    <3>3. CASE c.onGround \/ Climbing(c, cmd, w)
      <4>1. jump # "air" /\ held = 0
        BY <1>0, <3>3, JumpKinds
      <4>2. c'.airJumps = MaxAirJumps
        BY <1>2, <3>3 DEF AirJumpsLeft
      <4> QED  BY <1>1, <2>1, <4>1, <4>2
    <3>4. CASE ~c.onGround /\ ~Climbing(c, cmd, w)
      <4>1. held = h.lifts
        BY <2>3, <3>1, <3>4
      <4>2. c'.airJumps = IF jump = "air" THEN c.airJumps - 1 ELSE c.airJumps
        BY <1>2, <3>2, <3>4 DEF AirJumpsLeft
      <4>3. h'.lifts = h.lifts + (IF jump = "air" THEN 1 ELSE 0)
        BY <1>1, <2>1, <4>1
      <4> HIDE DEF jump
      <4> QED  BY <1>3, <1>4, <1>14, <3>1, <4>2, <4>3
    <3> QED  BY <3>3, <3>4
  <2> QED  BY <2>2, <2>3
<1> QED  BY <1>11, <1>13, <1>16, <1>17, <1>18, <1>19, <1>20 DEF LatchKeepsTheRun

-----------------------------------------------------------------------------
(* The invariant, and what it implies.                                     *)

LEMMA InitIInv == Init => IInv
<1> SUFFICES ASSUME Init PROVE IInv
  OBVIOUS
<1> USE MovementAssumption DEF Init
<1>1. TypeOK
  BY DEF TypeOK, Fresh, Character, MoveState
<1>2. h \in History /\ h.wrong = {}
  BY DEF Unheard, History
<1>3. Relations
  BY DEF Relations, AgesAgree, JumpOutlastsGrace, LatchKeepsTheRun, Fresh, Unheard
<1> QED  BY <1>1, <1>2, <1>3 DEF IInv

LEMMA WalkIInv == IInv /\ Walk => IInv'
<1> SUFFICES ASSUME IInv, Walk PROVE IInv'
  OBVIOUS
<1>1. TypeOK /\ h \in History /\ AgesAgree /\ JumpOutlastsGrace /\ LatchKeepsTheRun
  BY DEF IInv, Relations
<1>2. PICK cmd \in InputCmd : \E w \in Surroundings(c, cmd) :
        /\ \E vault \in IF w.hull = "vault" THEN 1 .. JumpRise ELSE {1},
              fast \in IF LandsOn(w) /\ cmd.crouch THEN BOOLEAN ELSE {FALSE} :
             c' = Stepped(c, cmd, w, vault, fast)
        /\ h' = Recorded(c, cmd, w)
  BY DEF Walk
<1>3. PICK w \in Surroundings(c, cmd) :
        /\ \E vault \in IF w.hull = "vault" THEN 1 .. JumpRise ELSE {1},
              fast \in IF LandsOn(w) /\ cmd.crouch THEN BOOLEAN ELSE {FALSE} :
             c' = Stepped(c, cmd, w, vault, fast)
        /\ h' = Recorded(c, cmd, w)
  BY <1>2
<1>4. PICK vault \in IF w.hull = "vault" THEN 1 .. JumpRise ELSE {1},
           fast \in IF LandsOn(w) /\ cmd.crouch THEN BOOLEAN ELSE {FALSE} :
        c' = Stepped(c, cmd, w, vault, fast)
  BY <1>3
<1>5. vault \in 1 .. JumpRise
  BY <1>4, MovementAssumption
<1>6. fast \in BOOLEAN
  BY <1>4, Zenon
<1>7. vault \in 1 .. JumpRise /\ fast \in BOOLEAN /\ c' = Stepped(c, cmd, w, vault, fast)
  BY <1>4, <1>5, <1>6
<1>8. ~c.merged /\ c \in Character
  BY <1>1 DEF Walk, TypeOK
<1>9. TypeOK'
  BY <1>3, <1>7, <1>8, SteppedType DEF TypeOK
<1>10. /\ AgesAgree' /\ {"press", "burst", "lurch"} \cap h'.wrong = {}
      /\ h'.press \in 0 .. JumpBufferTicks /\ h'.burst \in 0 .. BoostCooldown
      /\ h'.since \in 0 .. LurchEnd
  BY <1>1, <1>3, <1>7, WalkAges
<1>11. /\ JumpOutlastsGrace' /\ "coyote" \notin h'.wrong
      /\ h'.jumped \in BOOLEAN /\ h'.bumped \in BOOLEAN
  BY <1>1, <1>3, <1>7, <1>8, WalkGrace
<1>12. /\ LatchKeepsTheRun' /\ "run" \notin h'.wrong
      /\ h'.face \in Face \cup {NoFace} /\ h'.spent \in Face \cup {NoFace}
      /\ h'.stint \in Nat /\ h'.lifts \in Nat
  BY <1>1, <1>3, <1>7, WalkRun
<1>13. h'.wrong \subseteq Verdict
  BY <1>3 DEF Recorded, Verdict
<1>14. h'.wrong = {}
  BY <1>10, <1>11, <1>12, <1>13 DEF Verdict
<1>15. h' = [face |-> h'.face, stint |-> h'.stint, spent |-> h'.spent,
             lifts |-> h'.lifts, press |-> h'.press, jumped |-> h'.jumped,
             bumped |-> h'.bumped, burst |-> h'.burst, since |-> h'.since,
             wrong |-> h'.wrong]
  BY <1>3 DEF Recorded
<1>16. (h \in History)'
  BY <1>10, <1>11, <1>12, <1>13, <1>15 DEF History
<1> QED  BY <1>9, <1>10, <1>11, <1>12, <1>14, <1>16 DEF IInv, Relations

LEMMA OtherIInv == IInv /\ (Board \/ Ride \/ Leave \/ Die \/ Respawn) => IInv'
<1> SUFFICES ASSUME IInv, Board \/ Ride \/ Leave \/ Die \/ Respawn PROVE IInv'
  OBVIOUS
<1> USE MovementAssumption DEF IInv, TypeOK, Relations
<1>1. CASE Board
  <2>1. 0 \in 0 .. JumpRise
    OBVIOUS
  <2>2. c' \in Character /\ h' \in History
    BY <1>1, <2>1, Zenon DEF Board, Character, History
  <2>3. Relations' /\ h'.wrong = {}
    BY <1>1 DEF Board, Character, History, AgesAgree, JumpOutlastsGrace, LatchKeepsTheRun
  <2> QED  BY <2>2, <2>3
<1>2. CASE Ride
  <2>1. PICK g \in BOOLEAN, r \in 0 .. LesserRise :
          c' = [c EXCEPT !.onGround = g, !.rise = r] /\ h' = h
    BY <1>2 DEF Ride
  <2>2. r \in 0 .. JumpRise
    OBVIOUS
  <2>3. c' \in Character
    BY <2>1, <2>2, Zenon DEF Character
  <2>4. Relations'
    BY <1>2 DEF Ride, Character, History, AgesAgree, JumpOutlastsGrace, LatchKeepsTheRun
  <2> QED  BY <2>1, <2>3, <2>4
<1>3. CASE Leave
  <2>1. PICK r \in {c.rise, LesserRise} :
          c' = [c EXCEPT !.merged = FALSE, !.rise = r] /\ h' = h
    BY <1>3 DEF Leave
  <2>2. r \in 0 .. JumpRise
    BY DEF Character
  <2>3. c' \in Character
    BY <2>1, <2>2, Zenon DEF Character
  <2>4. Relations'
    BY <1>3 DEF Leave, Character, History, AgesAgree, JumpOutlastsGrace, LatchKeepsTheRun
  <2> QED  BY <2>1, <2>3, <2>4
<1>4. CASE Die
  <2>1. c' \in Character /\ h' \in History
    BY <1>4, Zenon DEF Die, Character, History
  <2>2. Relations' /\ h'.wrong = {}
    BY <1>4 DEF Die, Character, History, AgesAgree, JumpOutlastsGrace, LatchKeepsTheRun
  <2> QED  BY <2>1, <2>2
<1>5. CASE Respawn
  <2>1. Init'
    BY <1>5 DEF Respawn, Init
  <2>2. c' = Fresh /\ h' = Unheard
    BY <1>5 DEF Respawn
  <2>3. c' \in Character
    BY <2>2 DEF Fresh, Character, MoveState
  <2>4. h' \in History /\ h'.wrong = {}
    BY <2>2 DEF Unheard, History
  <2>5. Relations'
    BY <2>2 DEF AgesAgree, JumpOutlastsGrace, LatchKeepsTheRun, Fresh, Unheard
  <2> QED  BY <2>3, <2>4, <2>5
<1> QED  BY <1>1, <1>2, <1>3, <1>4, <1>5

LEMMA AlwaysIInv == Spec => []IInv
<1>1. IInv /\ [Next]_vars => IInv'
  <2> SUFFICES ASSUME IInv, [Next]_vars PROVE IInv'
    OBVIOUS
  <2>1. CASE Next
    BY <2>1, WalkIInv, OtherIInv DEF Next
  <2>2. CASE UNCHANGED vars
    BY <2>2 DEF vars, IInv, TypeOK, Relations, AgesAgree, JumpOutlastsGrace,
                LatchKeepsTheRun
  <2> QED  BY <2>1, <2>2
<1> QED  BY InitIInv, <1>1, PTL DEF Spec

\* Every field of the controller stays in its range, whatever the presses, the
\* level and the deaths (Character of sim.h, step_character of sim_move.cpp).
THEOREM MovementTypeCorrect == Spec => []TypeOK
<1>1. IInv => TypeOK
  BY DEF IInv
<1> QED  BY AlwaysIInv, <1>1, PTL

\* A jump the button does not hold answers a press young enough and not yet
\* answered, and the grace of a ledge never turns one jump into two
\* (sim_move.cpp:128-135, 302).
THEOREM ForgivenOnceAlways == Spec => []ForgivenOnce
<1>1. IInv => ForgivenOnce
  BY DEF IInv, ForgivenOnce
<1> QED  BY AlwaysIInv, <1>1, PTL

\* A face gives one run, however often contact is lost, and none once a jump has
\* left it; a jump that leaves it is followed by no more air jumps than one
\* support gives (sim_move.cpp:219-228, 311-313, 323-329).
THEOREM FacesAreFairAlways == Spec => []FacesAreFair
<1>1. IInv => FacesAreFair
  <2> SUFFICES ASSUME IInv PROVE FacesAreFair
    OBVIOUS
  <2>1. c.airJumps \in 0 .. MaxAirJumps /\ h.lifts \in Nat
    BY DEF IInv, TypeOK, Character, History
  <2>2. FaceOwesOneRun
    BY DEF IInv, Relations, LatchKeepsTheRun, FaceOwesOneRun
  <2>3. NoRatchet
    BY <2>1, MovementAssumption DEF IInv, Relations, LatchKeepsTheRun, NoRatchet
  <2> QED  BY <2>2, <2>3 DEF FacesAreFair
<1> QED  BY AlwaysIInv, <1>1, PTL

\* Two bursts of slide speed are a cooldown apart, and momentum is redirected
\* only within the window a jump opened (sim_move.cpp:193-197, 402).
THEOREM PaidSparinglyAlways == Spec => []PaidSparingly
<1>1. IInv => PaidSparingly
  BY DEF IInv, PaidSparingly
<1> QED  BY AlwaysIInv, <1>1, PTL
=============================================================================
