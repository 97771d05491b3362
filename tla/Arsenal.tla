------------------------------ MODULE Arsenal ------------------------------
(***************************************************************************)
(* What a robot fights with: its rounds, its reload, its cooldown and its  *)
(* grenades, through unions with the chassis, deaths, respawns and         *)
(* rematches (sim_combat.cpp, sim_grenade.cpp, with the timers that        *)
(* sim_move.cpp and sim_mech.cpp age).                                     *)
(*                                                                         *)
(* Who dies, who returns and when a match is decided is Match's; here it   *)
(* is left to choice.  What a robot presses is an input of its turn.       *)
(***************************************************************************)
EXTENDS Integers, FiniteSets

CONSTANTS
  Robots,                     \* MAX_PLAYERS
  Mag, Spare,                 \* the carbine's rounds, in the magazine and spare
  ReloadTicks,                \* ... its reload
  ReloadEmptyTicks,           \* ... and its reload from dry
  CarbineCooldown,
  CannonCooldown,
  GrenadesPerLife,
  MaxGrenades,                \* slots of the pool
  FuseTicks,
  BannerTicks                 \* 600

ASSUME ArsenalAssumption ==
  /\ Robots \in Nat \ {0}
  /\ Mag \in Nat \ {0} /\ Spare \in Nat
  /\ ReloadTicks \in Nat \ {0} /\ ReloadEmptyTicks \in Nat \ {0}
  /\ CarbineCooldown \in Nat /\ CannonCooldown \in Nat
  /\ GrenadesPerLife \in Nat /\ MaxGrenades \in Nat \ {0}
  /\ FuseTicks \in Nat \ {0} /\ BannerTicks \in Nat

Robot    == 0 .. Robots - 1
Team(i)  == IF i < Robots \div 2 THEN 0 ELSE 1
PoolSlot == 0 .. MaxGrenades - 1
Nobody   == -1                 \* NO_PILOT, and the owner of a free slot
Playing  == -1                 \* no winner yet

VARIABLES
  phase,           \* the step of `simulate' that comes next
  turn,            \* the robot, or the grenade, whose turn it is in that step
  alive,
  merged,          \* the pilot, or Nobody: Character::merged and Mech::pilot are one
                   \* (Match!UnionConsistent)
  ammo, reserve, reload, cooldown, grenades,
  reloadDown, grenadeDown,
  pool,            \* World::grenades: owner and fuse
  banner,          \* Playing, or World::end_ticks
  fired,           \* auxiliary: rounds each has fired since it was armed
  owed             \* auxiliary: ticks each has yet to wait for its last shot; every
                   \* tick counts, whoever ages what

clockVars == <<phase, turn, banner>>
gunVars   == <<ammo, reserve, reload, cooldown, reloadDown, fired, owed>>
vars == <<clockVars, alive, merged, gunVars, grenades, grenadeDown, pool>>

Free == [owner |-> Nobody, fuse |-> 0]

Enemies(i) == {j \in Robot : alive[j] /\ Team(j) # Team(i)}

-----------------------------------------------------------------------------
(* `rearm' of the robots in S, within Character{}.                         *)

Armed(S) ==
  /\ ammo'        = [i \in Robot |-> IF i \in S THEN Mag ELSE ammo[i]]
  /\ reserve'     = [i \in Robot |-> IF i \in S THEN Spare ELSE reserve[i]]
  /\ reload'      = [i \in Robot |-> IF i \in S THEN 0 ELSE reload[i]]
  /\ cooldown'    = [i \in Robot |-> IF i \in S THEN 0 ELSE cooldown[i]]
  /\ grenades'    = [i \in Robot |-> IF i \in S THEN GrenadesPerLife ELSE grenades[i]]
  /\ reloadDown'  = [i \in Robot |-> i \notin S /\ reloadDown[i]]
  /\ grenadeDown' = [i \in Robot |-> i \notin S /\ grenadeDown[i]]
  /\ alive'       = [i \in Robot |-> i \in S \/ alive[i]]
  /\ fired'       = [i \in Robot |-> IF i \in S THEN 0 ELSE fired[i]]
  /\ owed'        = [i \in Robot |-> IF i \in S THEN 0 ELSE owed[i]]

Init ==
  /\ phase = "walk" /\ turn = 0 /\ banner = Playing
  /\ alive = [i \in Robot |-> TRUE]
  /\ merged = Nobody
  /\ ammo = [i \in Robot |-> Mag] /\ reserve = [i \in Robot |-> Spare]
  /\ reload = [i \in Robot |-> 0] /\ cooldown = [i \in Robot |-> 0]
  /\ grenades = [i \in Robot |-> GrenadesPerLife]
  /\ reloadDown = [i \in Robot |-> FALSE] /\ grenadeDown = [i \in Robot |-> FALSE]
  /\ pool = [s \in PoolSlot |-> Free]
  /\ fired = [i \in Robot |-> 0] /\ owed = [i \in Robot |-> 0]

-----------------------------------------------------------------------------
(* Movement and the union.                                                 *)

Less(n) == IF n > 0 THEN n - 1 ELSE 0

\* step_character, of all who are alive and on foot.
Walk ==
  /\ phase = "walk"
  /\ cooldown' = [i \in Robot |-> IF alive[i] /\ merged # i THEN Less(cooldown[i]) ELSE cooldown[i]]
  /\ owed' = [i \in Robot |-> Less(owed[i])]
  /\ phase' = "union" /\ turn' = 0
  /\ UNCHANGED <<banner, alive, merged, ammo, reserve, reload, reloadDown, fired, grenades,
                 grenadeDown, pool>>

\* The next turn of a loop of n turns, or the step after it.
NextTurn(n, next) ==
  IF turn + 1 < n THEN turn' = turn + 1 /\ UNCHANGED phase
                       ELSE turn' = 0 /\ phase' = next

\* The pilot's turn of step_union: it is aged there, moves the chassis, which may
\* crush enemies, and may leave it.
Drives(i) ==
  /\ alive[i] /\ merged = i
  /\ cooldown' = [cooldown EXCEPT ![i] = Less(@)]
  /\ \E crushed \in SUBSET Enemies(i) : alive' = [j \in Robot |-> alive[j] /\ j \notin crushed]
  /\ merged' \in {i, Nobody}

\* Mutant: who takes the chassis is aged with the pilots, a second time in its tick.
HastyBoards(i) ==
  /\ alive[i] /\ merged = Nobody /\ merged' = i
  /\ cooldown' = [cooldown EXCEPT ![i] = Less(@)]
  /\ UNCHANGED alive

\* The turn of somebody who takes the chassis.
Boards(i) ==
  /\ alive[i] /\ merged = Nobody /\ merged' = i
  /\ UNCHANGED <<alive, cooldown>>

\* A robot's turn of step_union.
Union ==
  /\ phase = "union"
  /\ \/ Drives(turn)
     \/ Boards(turn)
     \/ ~(alive[turn] /\ merged = turn) /\ UNCHANGED <<alive, merged, cooldown>>
  /\ NextTurn(Robots, IF banner = Playing THEN "throw" ELSE "banner")
  /\ UNCHANGED <<banner, ammo, reserve, reload, reloadDown, fired, owed, grenades, grenadeDown, pool>>

Banner ==
  /\ phase = "banner" /\ banner > 0
  /\ banner' = banner - 1
  /\ phase' = "walk"
  /\ UNCHANGED <<turn, alive, merged, gunVars, grenades, grenadeDown, pool>>

\* init_match
Rematch ==
  /\ phase = "banner" /\ banner = 0
  /\ Armed(Robot)
  /\ merged' = Nobody
  /\ pool' = [s \in PoolSlot |-> Free]
  /\ banner' = Playing
  /\ phase' = "walk"
  /\ UNCHANGED turn

-----------------------------------------------------------------------------
(* step_grenades.                                                          *)

Flying == {s \in PoolSlot : pool[s] # Free}
FreeSlots == PoolSlot \ Flying
Least(S) == CHOOSE s \in S : \A r \in S : s <= r

\* Mutant: a full pool gives its first slot away.
EvictingThrows(i, down) ==
  IF down /\ ~grenadeDown[i] /\ alive[i] /\ merged # i /\ grenades[i] > 0
  THEN /\ pool' = [pool EXCEPT ![IF FreeSlots = {} THEN 0 ELSE Least(FreeSlots)] =
                     [owner |-> i, fuse |-> FuseTicks]]
       /\ grenades' = [grenades EXCEPT ![i] = @ - 1]
  ELSE UNCHANGED <<pool, grenades>>

\* A fresh press; a full sky drops the throw.
Throws(i, down) ==
  IF down /\ ~grenadeDown[i] /\ alive[i] /\ merged # i /\ grenades[i] > 0 /\ FreeSlots # {}
  THEN /\ pool' = [pool EXCEPT ![Least(FreeSlots)] = [owner |-> i, fuse |-> FuseTicks]]
       /\ grenades' = [grenades EXCEPT ![i] = @ - 1]
  ELSE UNCHANGED <<pool, grenades>>

Throw ==
  /\ phase = "throw"
  /\ \E down \in BOOLEAN :
       /\ Throws(turn, down)
       /\ grenadeDown' = [grenadeDown EXCEPT ![turn] = down]
  /\ NextTurn(Robots, "fly")
  /\ UNCHANGED <<banner, alive, merged, gunVars>>

Burnt(g) ==
  IF g = Free \/ g.fuse = 1 THEN Free ELSE [g EXCEPT !.fuse = @ - 1]

\* A hit kills its target, or not; the pilot survives a wreck of the chassis.
Hurt(S) ==
  \E hit \in SUBSET S :
    /\ alive' = [i \in Robot |-> alive[i] /\ (i \notin hit \/ merged = i)]
    /\ merged' = IF merged \in hit THEN Nobody ELSE merged

Fly ==
  /\ phase = "fly"
  /\ pool' = [pool EXCEPT ![turn] = Burnt(@)]
  /\ IF pool[turn].fuse = 1 THEN Hurt(Enemies(pool[turn].owner)) ELSE UNCHANGED <<alive, merged>>
  /\ NextTurn(MaxGrenades, "shoot")
  /\ UNCHANGED <<banner, gunVars, grenades, grenadeDown>>

-----------------------------------------------------------------------------
(* resolve_combat.                                                         *)

OnFoot(i) == merged # i
Pressed(i, down) == down /\ ~reloadDown[i]

\* Mutant: the magazine is filled whatever is left.
WishfulTaken(i) == Mag - ammo[i]

\* What a reload that ends moves from the spares to the magazine.
Taken(i) == IF Mag - ammo[i] < reserve[i] THEN Mag - ammo[i] ELSE reserve[i]

Reloading(i) == alive[i] /\ OnFoot(i) /\ reload[i] > 0
Loaded(i)    == Reloading(i) /\ reload[i] = 1

\* Mutant: a reload begins with nothing to load.
IdleBegins(i, fire, down) ==
  alive[i] /\ OnFoot(i) /\ reload[i] = 0 /\ (Pressed(i, down) \/ (fire /\ ammo[i] = 0))

Begins(i, fire, down) ==
  /\ alive[i] /\ OnFoot(i) /\ reload[i] = 0
  /\ reserve[i] > 0 /\ ammo[i] < Mag
  /\ Pressed(i, down) \/ (fire /\ ammo[i] = 0)

RoundsIn(i)  == IF Loaded(i) THEN ammo[i] + Taken(i) ELSE ammo[i]

\* Mutant: only a reload from dry runs.
StuckReloadOf(i, fire, down) ==
  IF Begins(i, fire, down)
  THEN IF ammo[i] = 0 THEN ReloadEmptyTicks ELSE ReloadTicks
  ELSE IF Reloading(i) /\ ammo[i] > 0 THEN reload[i] - 1 ELSE reload[i]

ReloadOf(i, fire, down) ==
  IF Begins(i, fire, down)
  THEN IF ammo[i] = 0 THEN ReloadEmptyTicks ELSE ReloadTicks
  ELSE IF Reloading(i) THEN reload[i] - 1 ELSE reload[i]

\* After the ammunition step of the same turn.
Fires(i, fire, down) ==
  /\ fire /\ alive[i] /\ cooldown[i] = 0
  /\ ReloadOf(i, fire, down) = 0
  /\ OnFoot(i) => RoundsIn(i) > 0

Shoot ==
  /\ phase = "shoot"
  /\ \E fire, down \in BOOLEAN :
       LET shot == Fires(turn, fire, down)
           wait == IF OnFoot(turn) THEN CarbineCooldown ELSE CannonCooldown
           cost == IF shot /\ OnFoot(turn) THEN 1 ELSE 0
       IN /\ reloadDown' = [reloadDown EXCEPT ![turn] = down]
          /\ reload' = [reload EXCEPT ![turn] = ReloadOf(turn, fire, down)]
          /\ ammo' = [ammo EXCEPT ![turn] = RoundsIn(turn) - cost]
          /\ reserve' = [reserve EXCEPT ![turn] = IF Loaded(turn) THEN @ - Taken(turn) ELSE @]
          /\ cooldown' = [cooldown EXCEPT ![turn] = IF shot THEN wait ELSE @]
          /\ owed' = [owed EXCEPT ![turn] = IF shot THEN wait ELSE @]
          /\ fired' = [fired EXCEPT ![turn] = @ + cost]
          /\ IF shot THEN \E hit \in {{}} \cup {{j} : j \in Enemies(turn)} : Hurt(hit)
             ELSE UNCHANGED <<alive, merged>>
  /\ NextTurn(Robots, "respawn")
  /\ UNCHANGED <<banner, grenades, grenadeDown, pool>>

\* The dead whose time has come return armed, and the match may be decided.
Respawn ==
  /\ phase = "respawn"
  /\ \E back \in SUBSET {i \in Robot : ~alive[i]} : Armed(back)
  /\ banner' \in {Playing, BannerTicks}
  /\ phase' = "walk"
  /\ UNCHANGED <<turn, merged, pool>>

Next == Walk \/ Union \/ Banner \/ Rematch \/ Throw \/ Fly \/ Shoot \/ Respawn

\* The loop calls `simulate' for ever.
Spec == Init /\ [][Next]_vars /\ WF_vars(Next)

-----------------------------------------------------------------------------
(* What the arsenal promises.                                              *)

Loading == 0 .. ReloadTicks \cup 0 .. ReloadEmptyTicks
Cooling == 0 .. CarbineCooldown \cup 0 .. CannonCooldown
Grenade == {Free} \cup [owner : Robot, fuse : 1 .. FuseTicks]

TypeOK ==
  /\ phase \in {"walk", "union", "banner", "throw", "fly", "shoot", "respawn"}
  /\ turn \in IF phase = "fly" THEN PoolSlot ELSE Robot
  /\ alive \in [Robot -> BOOLEAN]
  /\ merged \in Robot \cup {Nobody}
  /\ ammo \in [Robot -> 0 .. Mag] /\ reserve \in [Robot -> 0 .. Spare]
  /\ reload \in [Robot -> Loading]
  /\ cooldown \in [Robot -> Cooling]
  /\ grenades \in [Robot -> 0 .. GrenadesPerLife]
  /\ reloadDown \in [Robot -> BOOLEAN] /\ grenadeDown \in [Robot -> BOOLEAN]
  /\ pool \in [PoolSlot -> Grenade]
  /\ banner \in Playing .. BannerTicks
  /\ fired \in [Robot -> 0 .. Mag + Spare]
  /\ owed \in [Robot -> Cooling]

\* Every round is in the magazine, spare or fired, through reloads, unions, deaths
\* and matches; and a reload under way has a round to load and room for it, so
\* nobody is kept from firing for nothing.
RoundsAccounted ==
  \A i \in Robot :
    /\ ammo[i] + reserve[i] + fired[i] = Mag + Spare
    /\ reload[i] > 0 => reserve[i] > 0 /\ ammo[i] < Mag

\* A robot's cooldown is what its last shot still owes, tick for tick, whatever it
\* fired and whatever it did meanwhile.  Two functions age it, step_character on foot
\* (sim.cpp:82) and step_union in the chassis (sim_mech.cpp:155), and the chassis
\* changes hands between them and among the turns of the second: once a robot's turn
\* is over, one of them alone has aged it.
Cadence == \A i \in Robot : alive[i] /\ ~(phase = "union" /\ turn <= i) => cooldown[i] = owed[i]

\* A slot of the pool is given only while free, to a grenade its thrower pays for;
\* it is freed by its fuse alone, or with the match.
Thrown(s)  == \E i \in Robot : /\ pool'[s] = [owner |-> i, fuse |-> FuseTicks]
                               /\ grenades' = [grenades EXCEPT ![i] = @ - 1]
Counted(s) == pool[s].fuse > 1 /\ pool'[s] = [pool[s] EXCEPT !.fuse = @ - 1]
GrenadesPaidFor ==
  [][\A s \in PoolSlot :
       \/ pool'[s] = pool[s]
       \/ pool[s] = Free /\ Thrown(s)
       \/ pool[s] # Free /\ (Counted(s) \/ (pool[s].fuse = 1 /\ pool'[s] = Free))
       \/ banner = 0 /\ pool'[s] = Free]_vars

\* What has begun ends: a grenade frees its slot, and a reload ends unless its
\* robot dies or unites first.  Banners and rematches come in between.
TimersRunOut ==
  /\ \A s \in PoolSlot : (pool[s] # Free) ~> (pool[s] = Free)
  /\ \A i \in Robot : (reload[i] > 0) ~> (reload[i] = 0 \/ ~alive[i] \/ merged = i)

\* "Chassis cannon. Slow and heavy, flat damage at any range, never dry."
\* (sim_combat.cpp:20): a pilot whose cooldown is over can fire.
CannonNeverDry ==
  phase = "shoot" /\ merged = turn /\ cooldown[turn] = 0 => Fires(turn, TRUE, FALSE)
=============================================================================
