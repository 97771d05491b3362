--------------------------- MODULE ArsenalProofs ---------------------------
(***************************************************************************)
(* Arsenal, for any number of robots, any magazine, any cadence, any pool  *)
(* and any fuse: no round is lost or made, and a cooldown is what the last *)
(* shot owes.                                                              *)
(*                                                                         *)
(* That fired counts what the magazine and the spares have lost bounds it, *)
(* and a reload under way has a round to load because nothing but its own  *)
(* end spends the spares.  In the middle of the union a cooldown need not  *)
(* be what is owed: the invariant says by how much it may differ, which    *)
(* depends on who holds the chassis when a robot's turn comes.  From the   *)
(* types, and from a set of slots having a least one, no grenade takes the *)
(* slot of another.                                                        *)
(***************************************************************************)
EXTENDS Arsenal, Arithmetic

\* What awaits its turn in the union: who holds the chassis has not been aged yet.
AwaitsItsTurn ==
  phase = "union" =>
    \A i \in Robot : alive[i] /\ turn <= i =>
      owed[i] = IF merged = i THEN Less(cooldown[i]) ELSE cooldown[i]

IInv == TypeOK /\ RoundsAccounted /\ Cadence /\ AwaitsItsTurn

USE DEF Robot, Nobody, Playing

-----------------------------------------------------------------------------
(* The steps of a turn.                                                    *)

\* A turn of a loop of the robots leaves a robot's turn, or the next step's first.
LEMMA RobotsTurn ==
  ASSUME turn \in Robot, NEW step, step \in {"throw", "banner", "fly", "respawn"},
         phase \in {"union", "throw", "shoot"},
         NextTurn(Robots, step)
  PROVE  /\ phase' \in {phase, step}
         /\ turn' \in IF phase' = "fly" THEN PoolSlot ELSE Robot
BY ArsenalAssumption DEF NextTurn, PoolSlot

\* Cooldowns and reloads start within their range and count down in it.
LEMMA Timers ==
  /\ 0 \in Cooling /\ CarbineCooldown \in Cooling /\ CannonCooldown \in Cooling
  /\ \A n \in Cooling : Less(n) \in Cooling
  /\ 0 \in Loading /\ ReloadTicks \in Loading /\ ReloadEmptyTicks \in Loading
  /\ \A n \in Loading : n \in Nat /\ (n > 0 => n - 1 \in Loading)
BY ArsenalAssumption DEF Cooling, Loading, Less

\* What a reload moves is there, and fits.
LEMMA TakenFits ==
  ASSUME TypeOK, NEW i \in Robot
  PROVE  Taken(i) \in Nat /\ Taken(i) <= reserve[i] /\ ammo[i] + Taken(i) <= Mag
<1>1. ammo[i] \in 0 .. Mag /\ reserve[i] \in 0 .. Spare
  BY DEF TypeOK
<1> QED BY <1>1, ArsenalAssumption DEF Taken

\* Damage disturbs only who is alive and who is the pilot.
LEMMA HurtType ==
  ASSUME TypeOK, NEW S, Hurt(S)
  PROVE  /\ alive' \in [Robot -> BOOLEAN] /\ merged' \in Robot \cup {Nobody}
         /\ \A i \in Robot : alive'[i] => alive[i]
BY DEF Hurt, TypeOK

\* The robots that are armed are as new, the others as they were.
LEMMA ArmedIInv ==
  ASSUME IInv, NEW S \in SUBSET Robot, Armed(S)
  PROVE  /\ alive' \in [Robot -> BOOLEAN]
         /\ ammo' \in [Robot -> 0 .. Mag] /\ reserve' \in [Robot -> 0 .. Spare]
         /\ reload' \in [Robot -> Loading]
         /\ cooldown' \in [Robot -> Cooling]
         /\ grenades' \in [Robot -> 0 .. GrenadesPerLife]
         /\ reloadDown' \in [Robot -> BOOLEAN] /\ grenadeDown' \in [Robot -> BOOLEAN]
         /\ fired' \in [Robot -> 0 .. Mag + Spare]
         /\ owed' \in [Robot -> Cooling]
         /\ RoundsAccounted' /\ (phase # "union" => \A i \in Robot : alive'[i] => cooldown'[i] = owed'[i])
<1>1. /\ alive' \in [Robot -> BOOLEAN]
      /\ ammo' \in [Robot -> 0 .. Mag] /\ reserve' \in [Robot -> 0 .. Spare]
      /\ reload' \in [Robot -> Loading]
      /\ cooldown' \in [Robot -> Cooling]
  <2>1. alive' \in [Robot -> BOOLEAN]
    BY DEF Armed, IInv, TypeOK
  <2>2. ammo' \in [Robot -> 0 .. Mag] /\ reserve' \in [Robot -> 0 .. Spare]
    BY ArsenalAssumption DEF Armed, IInv, TypeOK
  <2>3. reload' \in [Robot -> Loading]
    BY Timers DEF Armed, IInv, TypeOK
  <2>4. cooldown' \in [Robot -> Cooling]
    BY Timers DEF Armed, IInv, TypeOK
  <2> QED BY <2>1, <2>2, <2>3, <2>4
<1>2. /\ grenades' \in [Robot -> 0 .. GrenadesPerLife]
      /\ reloadDown' \in [Robot -> BOOLEAN] /\ grenadeDown' \in [Robot -> BOOLEAN]
      /\ fired' \in [Robot -> 0 .. Mag + Spare]
      /\ owed' \in [Robot -> Cooling]
  <2>1. grenades' \in [Robot -> 0 .. GrenadesPerLife] /\ fired' \in [Robot -> 0 .. Mag + Spare]
    BY ArsenalAssumption DEF Armed, IInv, TypeOK
  <2>2. reloadDown' \in [Robot -> BOOLEAN] /\ grenadeDown' \in [Robot -> BOOLEAN]
    BY DEF Armed
  <2>3. owed' \in [Robot -> Cooling]
    BY Timers DEF Armed, IInv, TypeOK
  <2> QED BY <2>1, <2>2, <2>3
<1>3. RoundsAccounted'
  BY ArsenalAssumption DEF Armed, IInv, RoundsAccounted
<1>4. ASSUME phase # "union", NEW i \in Robot, alive'[i] PROVE cooldown'[i] = owed'[i]
  BY <1>4 DEF Armed, IInv, Cadence
<1> QED BY <1>1, <1>2, <1>3, <1>4

-----------------------------------------------------------------------------
(* The invariant.                                                          *)

\* A match begins with everybody armed.
LEMMA InitIInv == Init => IInv
<1> SUFFICES ASSUME Init PROVE IInv
  OBVIOUS
<1>1. TypeOK
  BY Timers, ArsenalAssumption DEF Init, TypeOK, Grenade
<1>2. RoundsAccounted /\ Cadence /\ AwaitsItsTurn
  BY ArsenalAssumption DEF Init, RoundsAccounted, Cadence, AwaitsItsTurn
<1> QED BY <1>1, <1>2 DEF IInv

\* Whoever is on foot is aged; the pilot's turn is still to come.
LEMMA WalkIInv == IInv /\ Walk => IInv'
<1> SUFFICES ASSUME IInv, Walk PROVE IInv'
  OBVIOUS
<1>1. /\ phase = "walk" /\ phase' = "union" /\ turn' = 0 /\ alive' = alive /\ merged' = merged
      /\ \A i \in Robot :
           cooldown'[i] = IF alive[i] /\ merged # i THEN Less(cooldown[i]) ELSE cooldown[i]
      /\ \A i \in Robot : owed'[i] = Less(owed[i])
  BY DEF Walk
<1>2. cooldown' \in [Robot -> Cooling] /\ owed' \in [Robot -> Cooling]
  <2>1. \A i \in Robot : /\ cooldown[i] \in Cooling /\ Less(cooldown[i]) \in Cooling
                         /\ Less(owed[i]) \in Cooling
    BY Timers DEF IInv, TypeOK
  <2> QED BY <2>1, Zenon DEF Walk
<1>3. TypeOK'
  BY <1>2, ArsenalAssumption DEF Walk, IInv, TypeOK
<1>4. RoundsAccounted'
  BY DEF Walk, IInv, RoundsAccounted
<1>5. \A i \in Robot : alive[i] => cooldown[i] = owed[i]
  BY <1>1 DEF IInv, Cadence
<1>6. AwaitsItsTurn'
  BY <1>1, <1>5 DEF AwaitsItsTurn
<1>7. Cadence'
  BY <1>1 DEF Cadence
<1> QED BY <1>3, <1>4, <1>6, <1>7 DEF IInv

\* A turn of the union ages the pilot, and nobody else: whoever takes the chassis in
\* it has been aged on foot, and whoever leaves it has been aged as the pilot.
LEMMA UnionIInv == IInv /\ Union => IInv'
<1> SUFFICES ASSUME IInv, Union PROVE IInv'
  OBVIOUS
<1>1. /\ turn \in Robot /\ phase = "union" /\ Robots \in Nat \ {0}
      /\ owed' = owed
      /\ alive \in [Robot -> BOOLEAN] /\ cooldown \in [Robot -> Cooling]
  BY ArsenalAssumption DEF Union, IInv, TypeOK
<1>2. PICK step \in {"throw", "banner"} : NextTurn(Robots, step)
  BY DEF Union
<1>3. /\ phase' \in {"union", "throw", "banner"}
      /\ turn' \in IF phase' = "fly" THEN PoolSlot ELSE Robot
  BY <1>1, <1>2, RobotsTurn
<1>4. phase' = "union" => turn' = turn + 1
  BY <1>1, <1>2 DEF NextTurn
\* The chassis, and what the turn ages.
<1>5. /\ alive' \in [Robot -> BOOLEAN] /\ merged' \in Robot \cup {Nobody}
      /\ cooldown' \in [Robot -> Cooling]
      /\ \A i \in Robot : alive'[i] => alive[i]
      /\ \A i \in Robot : i # turn => /\ cooldown'[i] = cooldown[i]
                                      /\ i > turn => (merged' = i <=> merged = i)
      /\ alive[turn] => cooldown'[turn] = IF merged = turn THEN Less(cooldown[turn])
                                                           ELSE cooldown[turn]
  <2>1. CASE Drives(turn)
    BY <1>1, <2>1, Timers DEF Drives, IInv, TypeOK
  <2>2. CASE Boards(turn)
    BY <1>1, <2>2 DEF Boards, IInv, TypeOK
  <2>3. CASE ~(alive[turn] /\ merged = turn) /\ UNCHANGED <<alive, merged, cooldown>>
    BY <1>1, <2>3 DEF IInv, TypeOK
  <2> QED BY <2>1, <2>2, <2>3 DEF Union
<1>6. TypeOK'
  BY <1>3, <1>5 DEF Union, IInv, TypeOK
<1>7. RoundsAccounted'
  BY DEF Union, IInv, RoundsAccounted
\* A robot whose turn is over owes what its cooldown says, and one whose turn is still
\* to come what it owed before.
<1>8. ASSUME NEW i \in Robot, alive'[i], i <= turn PROVE cooldown'[i] = owed'[i]
  <2>1. CASE i = turn
    BY <1>1, <1>5, <1>8, <2>1 DEF IInv, AwaitsItsTurn
  <2>2. CASE i # turn
    <3>1. alive[i] /\ ~(turn <= i) /\ cooldown'[i] = cooldown[i]
      BY <1>1, <1>5, <1>8, <2>2
    <3> QED BY <1>1, <3>1 DEF IInv, Cadence
  <2> QED BY <2>1, <2>2
<1>9. ASSUME NEW i \in Robot, alive'[i], i > turn
      PROVE  owed'[i] = IF merged' = i THEN Less(cooldown'[i]) ELSE cooldown'[i]
  <2>1. alive[i] /\ i # turn /\ turn <= i
    BY <1>1, <1>5, <1>9
  <2>2. cooldown'[i] = cooldown[i] /\ (merged' = i <=> merged = i)
    BY <1>5, <1>9, <2>1
  <2>3. owed[i] = IF merged = i THEN Less(cooldown[i]) ELSE cooldown[i]
    BY <1>1, <2>1 DEF IInv, AwaitsItsTurn
  <2> QED BY <1>1, <2>2, <2>3 DEF Less
<1>10. \A i \in Robot : i <= turn \/ i > turn
  BY <1>1
<1>11. Cadence'
  <2> SUFFICES ASSUME NEW i \in Robot, alive'[i], ~(phase' = "union" /\ turn' <= i)
               PROVE  cooldown'[i] = owed'[i]
    BY DEF Cadence
  <2>1. CASE phase' = "union"
    <3>1. i <= turn
      BY <1>1, <1>4, <2>1
    <3> QED BY <1>8, <3>1
  <2>2. CASE phase' # "union"
    <3>1. turn + 1 >= Robots
      BY <1>1, <1>2, <2>2 DEF NextTurn
    <3>2. i <= turn
      BY <1>1, <3>1
    <3> QED BY <1>8, <3>2
  <2> QED BY <2>1, <2>2
<1>12. AwaitsItsTurn'
  <2> SUFFICES ASSUME phase' = "union", NEW i \in Robot, alive'[i], turn' <= i
               PROVE  owed'[i] = IF merged' = i THEN Less(cooldown'[i]) ELSE cooldown'[i]
    BY DEF AwaitsItsTurn
  <2>1. i > turn
    BY <1>1, <1>4
  <2> QED BY <1>9, <2>1
<1> QED BY <1>6, <1>7, <1>11, <1>12 DEF IInv

\* A throw costs a grenade that was there.
LEMMA ThrowIInv == IInv /\ Throw => IInv'
<1> SUFFICES ASSUME IInv, Throw PROVE IInv'
  OBVIOUS
<1>1. turn \in Robot /\ phase = "throw"
  BY DEF Throw, IInv, TypeOK
<1>2. /\ phase' \in {"throw", "fly"}
      /\ turn' \in IF phase' = "fly" THEN PoolSlot ELSE Robot
  BY <1>1, RobotsTurn DEF Throw
<1>3. PICK down \in BOOLEAN :
        Throws(turn, down) /\ grenadeDown' = [grenadeDown EXCEPT ![turn] = down]
  BY DEF Throw
<1>4. pool' \in [PoolSlot -> Grenade] /\ grenades' \in [Robot -> 0 .. GrenadesPerLife]
  <2>1. CASE UNCHANGED <<pool, grenades>>
    BY <2>1 DEF IInv, TypeOK
  <2>2. CASE /\ grenades[turn] > 0
             /\ pool' = [pool EXCEPT ![Least(FreeSlots)] = [owner |-> turn, fuse |-> FuseTicks]]
             /\ grenades' = [grenades EXCEPT ![turn] = @ - 1]
    <3>1. [owner |-> turn, fuse |-> FuseTicks] \in Grenade
      BY <1>1, ArsenalAssumption DEF Grenade
    <3>2. pool' \in [PoolSlot -> Grenade]
      BY <2>2, <3>1 DEF IInv, TypeOK
    <3>3. grenades[turn] - 1 \in 0 .. GrenadesPerLife
      BY <1>1, <2>2, ArsenalAssumption, SMTT(30) DEF IInv, TypeOK
    <3> QED BY <2>2, <3>2, <3>3 DEF IInv, TypeOK
  <2> QED BY <1>3, <2>1, <2>2 DEF Throws
<1>5. grenadeDown' \in [Robot -> BOOLEAN]
  BY <1>3 DEF IInv, TypeOK
<1>6. TypeOK'
  BY <1>2, <1>4, <1>5 DEF Throw, gunVars, IInv, TypeOK
<1>7. RoundsAccounted' /\ Cadence' /\ AwaitsItsTurn'
  BY <1>1, <1>2 DEF Throw, gunVars, IInv, RoundsAccounted, Cadence, AwaitsItsTurn
<1> QED BY <1>6, <1>7 DEF IInv

\* A fuse burns down and its blast only kills.
LEMMA FlyIInv == IInv /\ Fly => IInv'
<1> SUFFICES ASSUME IInv, Fly PROVE IInv'
  OBVIOUS
<1>1. turn \in PoolSlot /\ phase = "fly" /\ 0 \in Robot /\ turn + 1 \in Nat
  BY ArsenalAssumption DEF Fly, IInv, TypeOK, PoolSlot
<1>2. /\ phase' \in {"fly", "shoot"}
      /\ turn' \in IF phase' = "fly" THEN PoolSlot ELSE Robot
  BY <1>1, ArsenalAssumption DEF Fly, NextTurn, PoolSlot
<1>3. Burnt(pool[turn]) \in Grenade
  <2>1. pool[turn] \in Grenade
    BY <1>1 DEF IInv, TypeOK
  <2>2. CASE pool[turn] = Free \/ pool[turn].fuse = 1
    BY <2>2 DEF Burnt, Grenade
  <2>3. CASE ~(pool[turn] = Free \/ pool[turn].fuse = 1)
    <3> DEFINE g == pool[turn]
    <3>1. g \in [owner : Robot, fuse : 1 .. FuseTicks]
      BY <2>1, <2>3 DEF Grenade
    <3>2. g.fuse - 1 \in 1 .. FuseTicks
      BY <2>3, <3>1, ArsenalAssumption
    <3> QED BY <2>3, <3>1, <3>2 DEF Burnt, Grenade
  <2> QED BY <2>2, <2>3
<1>4. pool' \in [PoolSlot -> Grenade]
  BY <1>3 DEF Fly, IInv, TypeOK
<1>5. /\ alive' \in [Robot -> BOOLEAN] /\ merged' \in Robot \cup {Nobody}
      /\ \A i \in Robot : alive'[i] => alive[i]
  <2>1. CASE UNCHANGED <<alive, merged>>
    BY <2>1 DEF IInv, TypeOK
  <2>2. CASE Hurt(Enemies(pool[turn].owner))
    BY <2>2, HurtType DEF IInv
  <2> QED BY <2>1, <2>2 DEF Fly
<1>6. TypeOK'
  BY <1>2, <1>4, <1>5 DEF Fly, gunVars, IInv, TypeOK
<1>7. RoundsAccounted' /\ Cadence' /\ AwaitsItsTurn'
  BY <1>1, <1>2, <1>5 DEF Fly, gunVars, IInv, RoundsAccounted, Cadence, AwaitsItsTurn
<1> QED BY <1>6, <1>7 DEF IInv

\* A turn of combat: a shot is paid for with a round, a reload that ends moves
\* rounds, and one that begins has some to move.
LEMMA ShootIInv == IInv /\ Shoot => IInv'
<1> SUFFICES ASSUME IInv, Shoot PROVE IInv'
  OBVIOUS
<1> DEFINE i == turn
<1>1. i \in Robot /\ phase = "shoot"
  BY DEF Shoot, IInv, TypeOK
<1>2. /\ phase' \in {"shoot", "respawn"}
      /\ turn' \in IF phase' = "fly" THEN PoolSlot ELSE Robot
  BY <1>1, RobotsTurn DEF Shoot
<1>3. PICK fire \in BOOLEAN, down \in BOOLEAN :
        LET shot == Fires(i, fire, down)
            wait == IF OnFoot(i) THEN CarbineCooldown ELSE CannonCooldown
            cost == IF shot /\ OnFoot(i) THEN 1 ELSE 0
        IN /\ reloadDown' = [reloadDown EXCEPT ![i] = down]
           /\ reload' = [reload EXCEPT ![i] = ReloadOf(i, fire, down)]
           /\ ammo' = [ammo EXCEPT ![i] = RoundsIn(i) - cost]
           /\ reserve' = [reserve EXCEPT ![i] = IF Loaded(i) THEN @ - Taken(i) ELSE @]
           /\ cooldown' = [cooldown EXCEPT ![i] = IF shot THEN wait ELSE @]
           /\ owed' = [owed EXCEPT ![i] = IF shot THEN wait ELSE @]
           /\ fired' = [fired EXCEPT ![i] = @ + cost]
           /\ IF shot THEN \E hit \in {{}} \cup {{j} : j \in Enemies(i)} : Hurt(hit)
              ELSE UNCHANGED <<alive, merged>>
  BY DEF Shoot
<1> DEFINE shot == Fires(i, fire, down)
           cost == IF shot /\ OnFoot(i) THEN 1 ELSE 0
           left == IF Loaded(i) THEN reserve[i] - Taken(i) ELSE reserve[i]
<1>4. /\ ammo[i] \in 0 .. Mag /\ reserve[i] \in 0 .. Spare
      /\ reload[i] \in Loading
      /\ ammo[i] + reserve[i] + fired[i] = Mag + Spare
      /\ fired[i] \in 0 .. Mag + Spare
      /\ reload[i] > 0 => reserve[i] > 0 /\ ammo[i] < Mag
  BY <1>1 DEF IInv, TypeOK, RoundsAccounted
<1>5. /\ RoundsIn(i) \in 0 .. Mag /\ left \in 0 .. Spare
      /\ RoundsIn(i) + left = ammo[i] + reserve[i]
      /\ cost \in {0, 1} /\ (cost = 1 => RoundsIn(i) > 0)
  <2>1. Taken(i) \in Nat /\ Taken(i) <= reserve[i] /\ ammo[i] + Taken(i) <= Mag
    BY <1>1, TakenFits DEF IInv
  <2>2. cost = 1 => RoundsIn(i) > 0
    BY DEF Fires
  <2> QED BY <1>4, <2>1, <2>2, ArsenalAssumption DEF RoundsIn
<1>6. ReloadOf(i, fire, down) \in Loading
  BY <1>4, Timers DEF ReloadOf, Reloading
<1>7. ReloadOf(i, fire, down) > 0 => left > 0 /\ RoundsIn(i) - cost < Mag
  <2> SUFFICES ASSUME ReloadOf(i, fire, down) > 0 PROVE left > 0 /\ RoundsIn(i) - cost < Mag
    OBVIOUS
  <2>1. ~Loaded(i)
    BY <1>4 DEF Loaded, ReloadOf, Reloading, Begins
  <2>2. left = reserve[i] /\ RoundsIn(i) = ammo[i]
    BY <2>1 DEF RoundsIn
  <2>3. reserve[i] > 0 /\ ammo[i] < Mag
    BY <1>4 DEF ReloadOf, Reloading, Begins
  <2> QED BY <1>4, <1>5, <2>2, <2>3, ArsenalAssumption
<1>8. fired[i] + cost \in 0 .. Mag + Spare
  BY <1>4, <1>5, ArsenalAssumption
<1>9. /\ alive' \in [Robot -> BOOLEAN] /\ merged' \in Robot \cup {Nobody}
      /\ \A j \in Robot : alive'[j] => alive[j]
  <2>1. CASE UNCHANGED <<alive, merged>>
    BY <2>1 DEF IInv, TypeOK
  <2>2. ASSUME NEW hit, Hurt(hit)
        PROVE  /\ alive' \in [Robot -> BOOLEAN] /\ merged' \in Robot \cup {Nobody}
               /\ \A j \in Robot : alive'[j] => alive[j]
    BY <2>2, HurtType DEF IInv
  <2> QED BY <1>3, <2>1, <2>2
<1>10. TypeOK'
  <2>1. /\ ammo' \in [Robot -> 0 .. Mag] /\ reserve' \in [Robot -> 0 .. Spare]
        /\ fired' \in [Robot -> 0 .. Mag + Spare]
    <3>1. RoundsIn(i) - cost \in 0 .. Mag
      BY <1>5, ArsenalAssumption
    <3> HIDE DEF cost, left
    <3>2. ammo' = [ammo EXCEPT ![i] = RoundsIn(i) - cost]
      BY <1>3 DEF cost, shot
    <3>3. reserve' = [reserve EXCEPT ![i] = left] /\ fired' = [fired EXCEPT ![i] = @ + cost]
      BY <1>3 DEF cost, shot, left
    <3> QED BY <3>1, <3>2, <3>3, <1>5, <1>8 DEF IInv, TypeOK
  <2>2. reload' \in [Robot -> Loading]
    BY <1>3, <1>6 DEF IInv, TypeOK
  <2>3. /\ cooldown' \in [Robot -> Cooling]
        /\ owed' \in [Robot -> Cooling]
    BY <1>3, Timers DEF IInv, TypeOK
  <2>4. reloadDown' \in [Robot -> BOOLEAN]
    BY <1>3 DEF IInv, TypeOK
  <2> QED BY <1>2, <1>9, <2>1, <2>2, <2>3, <2>4 DEF Shoot, IInv, TypeOK
<1>11. RoundsAccounted'
  <2> SUFFICES ASSUME NEW j \in Robot
               PROVE  /\ ammo'[j] + reserve'[j] + fired'[j] = Mag + Spare
                      /\ reload'[j] > 0 => reserve'[j] > 0 /\ ammo'[j] < Mag
    BY DEF RoundsAccounted
  <2>1. CASE j = i
    <3>1. /\ ammo'[i] = RoundsIn(i) - cost /\ reserve'[i] = left
          /\ fired'[i] = fired[i] + cost /\ reload'[i] = ReloadOf(i, fire, down)
      BY <1>1, <1>3 DEF IInv, TypeOK
    <3> QED BY <2>1, <3>1, <1>4, <1>5, <1>7, ArsenalAssumption
  <2>2. CASE j # i
    <3>1. /\ ammo'[j] = ammo[j] /\ reserve'[j] = reserve[j]
          /\ fired'[j] = fired[j] /\ reload'[j] = reload[j]
      BY <1>3, <2>2 DEF IInv, TypeOK
    <3> QED BY <3>1 DEF IInv, RoundsAccounted
  <2> QED BY <2>1, <2>2
<1>12. Cadence' /\ AwaitsItsTurn'
  <2>1. \A j \in Robot : alive[j] => cooldown[j] = owed[j]
    BY <1>1 DEF IInv, Cadence
  <2>2. \A j \in Robot : alive'[j] => cooldown'[j] = owed'[j]
    BY <1>3, <1>9, <2>1 DEF IInv, TypeOK
  <2> QED BY <1>2, <2>2 DEF Cadence, AwaitsItsTurn
<1> QED BY <1>10, <1>11, <1>12 DEF IInv

\* Every step keeps the invariant.
LEMMA NextIInv == IInv /\ [Next]_vars => IInv'
<1> SUFFICES ASSUME IInv, [Next]_vars PROVE IInv'
  OBVIOUS
<1>9. CASE Walk
  BY <1>9, WalkIInv
<1>1. CASE Union
  BY <1>1, UnionIInv
<1>2. CASE Banner
  <2>1. TypeOK'
    <3>1. banner' \in Playing .. BannerTicks
      BY <1>2, ArsenalAssumption DEF Banner, IInv, TypeOK
    <3> QED BY <1>2, <3>1 DEF Banner, gunVars, IInv, TypeOK
  <2>2. RoundsAccounted' /\ Cadence' /\ AwaitsItsTurn'
    BY <1>2 DEF Banner, gunVars, IInv, RoundsAccounted, Cadence, AwaitsItsTurn
  <2> QED BY <2>1, <2>2 DEF IInv
<1>3. CASE Rematch
  <2>1. Armed(Robot) /\ pool' \in [PoolSlot -> Grenade]
    BY <1>3 DEF Rematch, Grenade
  <2>2. TypeOK'
    <3>1. banner' \in Playing .. BannerTicks /\ phase' = "walk" /\ turn' \in Robot
      BY <1>3, ArsenalAssumption DEF Rematch, IInv, TypeOK
    <3>2. merged' \in Robot \cup {Nobody}
      BY <1>3 DEF Rematch
    <3> QED BY <2>1, <3>1, <3>2, ArmedIInv DEF TypeOK
  <2>3. Cadence' /\ AwaitsItsTurn'
    BY <1>3, <2>1, ArmedIInv DEF Rematch, Cadence, AwaitsItsTurn
  <2> QED BY <2>1, <2>2, <2>3, ArmedIInv DEF IInv
<1>4. CASE Throw
  BY <1>4, ThrowIInv
<1>5. CASE Fly
  BY <1>5, FlyIInv
<1>6. CASE Shoot
  BY <1>6, ShootIInv
<1>7. CASE Respawn
  <2>1. PICK back \in SUBSET {i \in Robot : ~alive[i]} : Armed(back)
    BY <1>7 DEF Respawn
  <2>2. back \in SUBSET Robot
    BY <2>1
  <2>3. TypeOK'
    <3>1. banner' \in Playing .. BannerTicks /\ phase' = "walk" /\ turn' \in Robot
      BY <1>7, ArsenalAssumption, SMTT(30) DEF Respawn, IInv, TypeOK
    <3>2. merged' \in Robot \cup {Nobody} /\ pool' \in [PoolSlot -> Grenade]
      BY <1>7 DEF Respawn, IInv, TypeOK
    <3> QED BY <2>1, <2>2, <3>1, <3>2, ArmedIInv DEF TypeOK
  <2>4. Cadence' /\ AwaitsItsTurn'
    BY <1>7, <2>1, <2>2, ArmedIInv DEF Respawn, Cadence, AwaitsItsTurn
  <2> QED BY <2>1, <2>2, <2>3, <2>4, ArmedIInv DEF IInv
<1>8. CASE UNCHANGED vars
  <2>1. TypeOK'
    BY <1>8 DEF vars, clockVars, gunVars, IInv, TypeOK
  <2>2. RoundsAccounted' /\ Cadence' /\ AwaitsItsTurn'
    BY <1>8 DEF vars, clockVars, gunVars, IInv, RoundsAccounted, Cadence, AwaitsItsTurn
  <2> QED BY <2>1, <2>2 DEF IInv
<1> QED BY <1>1, <1>2, <1>3, <1>4, <1>5, <1>6, <1>7, <1>8, <1>9 DEF Next

\* The invariant holds in every state of every match.
LEMMA Invariant == Spec => []IInv
BY InitIInv, NextIInv, PTL DEF Spec

-----------------------------------------------------------------------------
(* What follows.                                                           *)

\* Every variable keeps its type.
THEOREM ArsenalTypeCorrect == Spec => []TypeOK
<1>1. IInv => TypeOK
  BY DEF IInv
<1> QED BY <1>1, Invariant, PTL

\* No round is lost or made, and a reload under way has something to load.
THEOREM RoundsAccountedAlways == Spec => []RoundsAccounted
<1>1. IInv => RoundsAccounted
  BY DEF IInv
<1> QED BY <1>1, Invariant, PTL

\* Once its turn of the union is over, a robot's cooldown is what its last shot owes: of
\* the two functions that age it one has, and one alone, whoever holds the chassis and
\* however it changes hands within the tick (step_character and step_union).
THEOREM CadenceAlways == Spec => []Cadence
<1>1. IInv => Cadence
  BY DEF IInv
<1> QED BY <1>1, Invariant, PTL

-----------------------------------------------------------------------------
(* The pool of grenades.                                                   *)

\* A throw takes a free slot and a grenade of the thrower.
LEMMA ThrowPays ==
  ASSUME IInv, Throw, NEW s \in PoolSlot
  PROVE  pool'[s] = pool[s] \/ (pool[s] = Free /\ Thrown(s))
<1>1. PICK down \in BOOLEAN : Throws(turn, down)
  BY DEF Throw
<1>2. turn \in Robot /\ pool \in [PoolSlot -> Grenade]
  BY DEF IInv, TypeOK, Throw
<1>3. CASE FreeSlots # {} /\ pool' = [pool EXCEPT ![Least(FreeSlots)] =
                                        [owner |-> turn, fuse |-> FuseTicks]]
           /\ grenades' = [grenades EXCEPT ![turn] = @ - 1]
  <2>1. Least(FreeSlots) \in FreeSlots
    <3>1. FreeSlots \in SUBSET Nat
      BY ArsenalAssumption DEF FreeSlots, PoolSlot
    <3>2. \E s1 \in FreeSlots : \A r \in FreeSlots : s1 <= r
      BY <1>3, <3>1, LeastExists
    <3> QED BY <3>2 DEF Least
  <2>2. pool[Least(FreeSlots)] = Free
    BY <2>1 DEF FreeSlots, Flying
  <2> QED BY <1>2, <1>3, <2>2 DEF Thrown
<1>4. CASE UNCHANGED <<pool, grenades>>
  BY <1>4
<1> QED BY <1>1, <1>3, <1>4 DEF Throws

\* A turn of the grenades burns one tick of one fuse, or frees the slot of the last.
LEMMA FlyBurns ==
  ASSUME IInv, Fly, NEW s \in PoolSlot
  PROVE  \/ pool'[s] = pool[s]
         \/ pool[s] # Free /\ (Counted(s) \/ (pool[s].fuse = 1 /\ pool'[s] = Free))
<1>1. /\ pool \in [PoolSlot -> Grenade] /\ turn \in PoolSlot
      /\ pool' = [pool EXCEPT ![turn] = Burnt(pool[turn])]
  BY DEF IInv, TypeOK, Fly
<1>2. pool'[s] = IF s = turn THEN Burnt(pool[s]) ELSE pool[s]
  BY <1>1
<1>3. CASE pool[s] # Free /\ s = turn
  <2>1. pool[s].fuse \in Nat \ {0}
    BY <1>1, <1>3, ArsenalAssumption DEF Grenade
  <2> QED BY <1>2, <1>3, <2>1 DEF Burnt, Counted
<1> QED BY <1>2, <1>3 DEF Burnt

\* No slot of the pool is taken from a grenade in the air, and none is given for
\* nothing (step_grenades, sim_grenade.cpp:77).
THEOREM GrenadesPaidForAlways == Spec => GrenadesPaidFor
<1>1. IInv /\ [Next]_vars =>
        [\A s \in PoolSlot :
           \/ pool'[s] = pool[s]
           \/ pool[s] = Free /\ Thrown(s)
           \/ pool[s] # Free /\ (Counted(s) \/ (pool[s].fuse = 1 /\ pool'[s] = Free))
           \/ banner = 0 /\ pool'[s] = Free]_vars
  <2> SUFFICES ASSUME IInv, [Next]_vars, NEW s \in PoolSlot
               PROVE  \/ pool'[s] = pool[s]
                      \/ pool[s] = Free /\ Thrown(s)
                      \/ pool[s] # Free
                         /\ (Counted(s) \/ (pool[s].fuse = 1 /\ pool'[s] = Free))
                      \/ banner = 0 /\ pool'[s] = Free
    OBVIOUS
  <2>1. CASE Throw
    BY <2>1, ThrowPays
  <2>2. CASE Fly
    BY <2>2, FlyBurns
  <2>3. CASE Rematch
    BY <2>3 DEF Rematch
  <2>4. CASE UNCHANGED pool
    BY <2>4
  <2> QED BY <2>1, <2>2, <2>3, <2>4
          DEF Next, Walk, Union, Banner, Shoot, Respawn, vars, clockVars, gunVars
<1> QED BY <1>1, Invariant, PTL DEF Spec, GrenadesPaidFor
=============================================================================
