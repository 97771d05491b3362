----------------------------- MODULE MatchProofs -----------------------------
(***************************************************************************)
(* Match, for any number of robots, any healths, damages, armour, delays   *)
(* and score to win: the robots and the chassis agree, the score counts    *)
(* the losses, and the result is what the score says.                      *)
(***************************************************************************)
EXTENDS Match, Arithmetic, FiniteSetTheorems, TLAPS

-----------------------------------------------------------------------------
(* The turns.                                                              *)

Phase == {"chassis", "union", "banner", "grenades", "combat", "score"}

\* A step that goes to a phase leaves its first slot to come.
LEMMA GotoType ==
  ASSUME NEW p \in Phase, Goto(p)
  PROVE  phase' = p /\ phase' \in Phase /\ turn' \in Slot
BY MatchAssumption DEF Goto, Slot

\* A turn leaves the next slot's, or the phase after the last one's.
LEMMA TurnType ==
  ASSUME TypeOK, NEW after \in Phase, NextTurn(after)
  PROVE  phase' \in {phase, after} /\ phase' \in Phase /\ turn' \in Slot
<1>1. turn \in Slot /\ phase \in Phase
  BY DEF TypeOK, Phase
<1>2. CASE turn = MaxPlayers - 1
  BY <1>2, GotoType DEF NextTurn
<1>3. CASE turn # MaxPlayers - 1
  BY <1>1, <1>3, MatchAssumption DEF NextTurn, Slot
<1> QED BY <1>2, <1>3

-----------------------------------------------------------------------------
(* The robots and the chassis are of one mind.                             *)

\* A free chassis has no pilot, and no slot is NoPilot.
LEMMA NoPilotIsNoSlot == NoPilot \notin Slot
BY MatchAssumption DEF NoPilot, Slot

\* A new match finds every robot alive and the chassis whole and free.
LEMMA FreshType ==
  /\ RobotHealth \in Int /\ RobotHealth > 0 /\ MechHealth \in Int /\ MechHealth > 0
  /\ 0 \in 0 .. RespawnTicks /\ RespawnTicks \in 0 .. RespawnTicks /\ RespawnTicks > 0
  /\ 0 \in 0 .. RebuildTicks /\ RebuildTicks \in 0 .. RebuildTicks /\ RebuildTicks > 0
  /\ 0 \in 0 .. BannerTicks /\ BannerTicks \in 0 .. BannerTicks
  /\ 0 \in Slot
BY MatchAssumption DEF Slot

\* The match starts with everybody alive, on foot.
LEMMA InitConsistent == Init => RobotsConsistent
<1> SUFFICES ASSUME Init PROVE RobotsConsistent
  OBVIOUS
<1>1. TypeOK
  BY FreshType DEF Init, TypeOK
<1>2. UnionConsistent
  BY NoPilotIsNoSlot DEF Init, UnionConsistent
<1>3. Vitality
  BY FreshType DEF Init, Vitality
<1> QED BY <1>1, <1>2, <1>3 DEF RobotsConsistent

\* What a hit does to a robot or, for its pilot, to the chassis.
LEMMA DamageConsistent ==
  ASSUME RobotsConsistent, NEW attacker \in Slot, NEW target \in Slot,
         NEW damage \in Damage, ApplyDamage(attacker, target, damage)
  PROVE  /\ alive' \in [Slot -> BOOLEAN] /\ merged' \in [Slot -> BOOLEAN]
         /\ health' \in [Slot -> Int] /\ respawn' \in [Slot -> 0 .. RespawnTicks]
         /\ kills' \in [Slot -> Nat]
         /\ mechAlive' \in BOOLEAN /\ mechHealth' \in Int /\ mechRespawn' \in 0 .. RebuildTicks
         /\ pilot' \in Slot \cup {NoPilot}
         /\ UnionConsistent' /\ Vitality'
<1> USE DEF RobotsConsistent
<1>1. damage \in Int
  BY MatchAssumption
<1>2. CASE ~alive[target]
  BY <1>2 DEF ApplyDamage, TypeOK, UnionConsistent, Vitality, robotVars, mechVars
<1>3. CASE alive[target] /\ merged[target]
  <2>1. Through(damage) \in Int
    BY <1>1, MatchAssumption DEF Through
  <2>2. mechHealth' = mechHealth - Through(damage) /\ mechHealth' \in Int
    BY <1>3, <2>1 DEF ApplyDamage, TypeOK
  <2>3. UNCHANGED robotVars
    BY <1>3 DEF ApplyDamage
  <2>4. CASE mechHealth' <= 0
    <3>1. /\ mechAlive' = FALSE /\ mechRespawn' = RebuildTicks /\ pilot' = NoPilot
          /\ merged' = [merged EXCEPT ![target] = FALSE]
          /\ kills' = [kills EXCEPT ![attacker] = @ + 1]
      BY <1>3, <2>4 DEF ApplyDamage
    <3>2. \A i \in Slot : ~merged'[i]
      BY <1>3, <3>1 DEF TypeOK, UnionConsistent
    <3>3. UnionConsistent'
      BY <3>1, <3>2, NoPilotIsNoSlot DEF UnionConsistent
    <3>4. Vitality'
      BY <2>2, <2>3, <2>4, <3>1, FreshType DEF Vitality, robotVars
    <3>5. merged' \in [Slot -> BOOLEAN] /\ kills' \in [Slot -> Nat]
      BY <3>1 DEF TypeOK
    <3> QED BY <2>2, <2>3, <3>1, <3>3, <3>4, <3>5, FreshType DEF TypeOK, robotVars
  <2>5. CASE ~(mechHealth' <= 0)
    <3>1. UNCHANGED <<mechAlive, mechRespawn, merged, pilot, kills>>
      BY <1>3, <2>5 DEF ApplyDamage
    <3>2. mechAlive
      BY <1>3 DEF UnionConsistent
    <3> QED BY <2>2, <2>3, <2>5, <3>1, <3>2 DEF TypeOK, UnionConsistent, Vitality, robotVars
  <2> QED BY <2>4, <2>5
<1>4. CASE alive[target] /\ ~merged[target]
  <2>1. /\ health' = [health EXCEPT ![target] = @ - damage]
        /\ UNCHANGED <<merged, mechVars, pilot>>
    BY <1>4 DEF ApplyDamage
  <2>2. health' \in [Slot -> Int] /\ health'[target] \in Int
    BY <1>1, <2>1 DEF TypeOK
  <2>3. CASE health'[target] <= 0
    <3>1. /\ alive' = [alive EXCEPT ![target] = FALSE]
          /\ respawn' = [respawn EXCEPT ![target] = RespawnTicks]
          /\ kills' = [kills EXCEPT ![attacker] = @ + 1]
      BY <1>4, <2>3 DEF ApplyDamage
    <3>2. UnionConsistent'
      BY <1>4, <2>1, <3>1 DEF TypeOK, UnionConsistent, mechVars
    <3>3. Vitality'
      BY <2>1, <2>2, <2>3, <3>1 DEF TypeOK, Vitality, mechVars
    <3> QED BY <2>1, <2>2, <3>1, <3>2, <3>3, FreshType DEF TypeOK, mechVars
  <2>4. CASE ~(health'[target] <= 0)
    <3>1. UNCHANGED <<alive, respawn, kills>>
      BY <1>4, <2>4 DEF ApplyDamage
    <3>2. Vitality'
      BY <1>4, <2>1, <2>2, <2>4, <3>1 DEF TypeOK, Vitality, mechVars
    <3> QED BY <2>1, <2>2, <3>1, <3>2 DEF TypeOK, UnionConsistent, mechVars
  <2> QED BY <2>3, <2>4
<1> QED BY <1>2, <1>3, <1>4

\* The chassis is freed when its pilot left it, counts down and is rebuilt.
LEMMA ChassisConsistent == RobotsConsistent /\ StepChassis => RobotsConsistent'
<1> SUFFICES ASSUME RobotsConsistent, StepChassis PROVE RobotsConsistent'
  OBVIOUS
<1> USE DEF RobotsConsistent
<1>1. phase' \in Phase /\ turn' \in Slot
  BY GotoType DEF StepChassis, Phase
<1>2. UNCHANGED <<robotVars, kills, merged, useDown, matchVars>> /\ Rebuild
  BY DEF StepChassis
<1>3. FreePilot = pilot
  BY DEF FreePilot, TypeOK, UnionConsistent
<1>4. CASE mechAlive
  BY <1>1, <1>2, <1>3, <1>4
     DEF Rebuild, TypeOK, UnionConsistent, Vitality, Phase, robotVars, mechVars, matchVars
<1>5. CASE ~mechAlive /\ mechRespawn > 1
  <2>1. mechRespawn' = mechRespawn - 1 /\ UNCHANGED <<mechAlive, mechHealth, pilot>>
    BY <1>2, <1>3, <1>5 DEF Rebuild
  <2>2. mechRespawn' \in 0 .. RebuildTicks /\ mechRespawn' > 0
    BY <1>5, <2>1, MatchAssumption DEF TypeOK
  <2> QED BY <1>1, <1>2, <1>5, <2>1, <2>2
     DEF TypeOK, UnionConsistent, Vitality, Phase, robotVars, matchVars
<1>6. CASE ~mechAlive /\ ~(mechRespawn > 1)
  <2>1. FreshMech
    BY <1>2, <1>6 DEF Rebuild
  <2>2. \A i \in Slot : ~merged[i]
    BY <1>6 DEF UnionConsistent
  <2> QED BY <1>1, <1>2, <2>1, <2>2, FreshType, NoPilotIsNoSlot
     DEF FreshMech, TypeOK, UnionConsistent, Vitality, Phase, robotVars, matchVars
<1> QED BY <1>4, <1>5, <1>6

\* What a turn of step_union leaves of what it does not touch.
LEMMA UnionTurnType ==
  ASSUME RobotsConsistent, NEW i \in Slot, NEW down \in BOOLEAN, UnionTurn(i, down)
  PROVE  /\ useDown' \in [Slot -> BOOLEAN] /\ phase' \in Phase /\ turn' \in Slot
         /\ UNCHANGED <<mechVars, matchVars>>
<1>1. (IF winner # 0 THEN "banner" ELSE "grenades") \in Phase
  BY DEF Phase
<1>2. phase' \in Phase /\ turn' \in Slot
  BY <1>1, TurnType DEF UnionTurn, RobotsConsistent
<1> QED BY <1>2 DEF UnionTurn, RobotsConsistent, TypeOK

\* A pilot crushes only robots that are on foot, and ejects alone.
LEMMA PilotConsistent ==
  ASSUME RobotsConsistent, NEW i \in Slot, Pilot(i)
  PROVE  RobotsConsistent'
<1> USE DEF RobotsConsistent
<1>1. PICK down \in BOOLEAN, crushed \in SUBSET Crushable(i) :
        /\ UnionTurn(i, down)
        /\ alive' = [j \in Slot |-> alive[j] /\ j \notin crushed]
        /\ health' = [j \in Slot |-> IF j \in crushed THEN 0 ELSE health[j]]
        /\ respawn' = [j \in Slot |-> IF j \in crushed THEN RespawnTicks ELSE respawn[j]]
        /\ kills' = [kills EXCEPT ![i] = @ + Cardinality(crushed)]
        /\ IF UseEdge(i, down)
           THEN merged' = [merged EXCEPT ![i] = FALSE] /\ pilot' = NoPilot
           ELSE UNCHANGED <<merged, pilot>>
  BY DEF Pilot
<1>2. /\ useDown' \in [Slot -> BOOLEAN] /\ phase' \in Phase /\ turn' \in Slot
      /\ UNCHANGED <<mechVars, matchVars>>
  BY <1>1, UnionTurnType
<1>3. alive[i] /\ merged[i] /\ mechAlive /\ pilot = i
  BY DEF Pilot
<1>4. Cardinality(crushed) \in Nat
  <2>1. crushed \subseteq 0 .. MaxPlayers - 1
    BY <1>1 DEF Crushable, Enemy, Slot
  <2>2. IsFiniteSet(0 .. MaxPlayers - 1)
    BY MatchAssumption, FS_Interval
  <2>3. IsFiniteSet(crushed)
    BY <2>1, <2>2, FS_Subset
  <2> QED BY <2>3, FS_CardinalityType
<1>5. alive' \in [Slot -> BOOLEAN] /\ health' \in [Slot -> Int]
      /\ respawn' \in [Slot -> 0 .. RespawnTicks] /\ kills' \in [Slot -> Nat]
  BY <1>1, <1>4, FreshType DEF TypeOK
<1>6. merged' \in [Slot -> BOOLEAN] /\ pilot' \in Slot \cup {NoPilot} /\ UnionConsistent'
  <2>1. \A j \in Slot : merged[j] => alive'[j]
    BY <1>1 DEF UnionConsistent, Crushable
  <2>2. CASE UseEdge(i, down)
    BY <1>1, <1>2, <1>3, <2>1, <2>2, NoPilotIsNoSlot DEF TypeOK, UnionConsistent, mechVars
  <2>3. CASE ~UseEdge(i, down)
    BY <1>1, <1>2, <2>1, <2>3 DEF TypeOK, UnionConsistent, mechVars
  <2> QED BY <2>2, <2>3
<1>7. Vitality'
  <2>1. ASSUME NEW j \in Slot
        PROVE  (alive'[j] <=> health'[j] > 0) /\ (respawn'[j] > 0 => ~alive'[j])
    BY <1>1 DEF Vitality, TypeOK, Crushable
  <2> QED BY <1>2, <2>1 DEF Vitality, mechVars
<1> QED BY <1>2, <1>5, <1>6, <1>7 DEF TypeOK, Phase, mechVars, matchVars

\* Whoever unites does so with a chassis that stands and is free.
LEMMA WalkConsistent ==
  ASSUME RobotsConsistent, NEW i \in Slot, Walk(i)
  PROVE  RobotsConsistent'
<1> USE DEF RobotsConsistent
<1>1. PICK down \in BOOLEAN, near \in BOOLEAN :
        /\ UnionTurn(i, down)
        /\ IF alive[i] /\ merged[i]
           THEN merged' = [merged EXCEPT ![i] = FALSE] /\ UNCHANGED pilot
           ELSE IF alive[i] /\ UseEdge(i, down) /\ mechAlive /\ pilot = NoPilot /\ near
           THEN merged' = [merged EXCEPT ![i] = TRUE] /\ pilot' = i
           ELSE UNCHANGED <<merged, pilot>>
  BY DEF Walk
<1>2. /\ useDown' \in [Slot -> BOOLEAN] /\ phase' \in Phase /\ turn' \in Slot
      /\ UNCHANGED <<mechVars, matchVars>>
  BY <1>1, UnionTurnType
<1>3. UNCHANGED <<robotVars, kills>> /\ ~(alive[i] /\ merged[i] /\ mechAlive /\ pilot = i)
  BY DEF Walk
<1>4. ~merged[i]
  BY <1>3 DEF UnionConsistent
<1>5. CASE alive[i] /\ UseEdge(i, down) /\ mechAlive /\ pilot = NoPilot /\ near
  <2>1. merged' = [merged EXCEPT ![i] = TRUE] /\ pilot' = i
    BY <1>1, <1>4, <1>5
  <2>2. \A j \in Slot : ~merged[j]
    BY <1>5, NoPilotIsNoSlot DEF UnionConsistent
  <2>3. UnionConsistent'
    BY <1>2, <1>3, <1>5, <2>1, <2>2 DEF UnionConsistent, TypeOK, robotVars, mechVars
  <2> QED BY <1>2, <1>3, <2>1, <2>3
     DEF TypeOK, Vitality, Phase, robotVars, mechVars, matchVars
<1>6. CASE ~(alive[i] /\ UseEdge(i, down) /\ mechAlive /\ pilot = NoPilot /\ near)
  BY <1>1, <1>2, <1>3, <1>4, <1>6
     DEF TypeOK, UnionConsistent, Vitality, Phase, robotVars, mechVars, matchVars
<1> QED BY <1>5, <1>6

\* A blast, and a shot: a hit between enemies.
LEMMA DetonateConsistent == RobotsConsistent /\ Detonate => RobotsConsistent'
<1> SUFFICES ASSUME RobotsConsistent, Detonate PROVE RobotsConsistent'
  OBVIOUS
<1>1. PICK owner \in Slot : \E target \in Enemy(owner), damage \in Damage :
        ApplyDamage(owner, target, damage)
  BY DEF Detonate
<1>2. PICK target \in Slot, damage \in Damage : ApplyDamage(owner, target, damage)
  BY <1>1 DEF Enemy
<1>3. UNCHANGED <<useDown, matchVars, phase, turn>>
  BY DEF Detonate
<1> QED BY <1>2, <1>3, DamageConsistent DEF RobotsConsistent, TypeOK, matchVars

LEMMA HitConsistent ==
  ASSUME RobotsConsistent, NEW i \in Slot, Hit(i)
  PROVE  RobotsConsistent'
<1>1. PICK target \in Slot, damage \in Damage : ApplyDamage(i, target, damage)
  BY DEF Hit, Enemy
<1>2. phase' \in Phase /\ turn' \in Slot
  BY TurnType DEF Hit, RobotsConsistent, Phase
<1>3. UNCHANGED <<useDown, matchVars>>
  BY DEF Hit
<1> QED BY <1>1, <1>2, <1>3, DamageConsistent DEF RobotsConsistent, TypeOK, matchVars, Phase

\* A respawn brings back who has none to wait, whole and on foot.
LEMMA ScoreConsistent == RobotsConsistent /\ Score => RobotsConsistent'
<1> SUFFICES ASSUME RobotsConsistent, Score PROVE RobotsConsistent'
  OBVIOUS
<1> USE DEF RobotsConsistent
<1>1. phase' \in Phase /\ turn' \in Slot
  BY GotoType DEF Score, Phase
<1>2. Respawn /\ UNCHANGED <<kills, mechVars, pilot>>
  BY DEF Score
<1>3. winner' \in 0 .. 2 /\ endTicks' \in 0 .. BannerTicks
  BY FreshType DEF Score, TypeOK
<1>4. /\ alive' \in [Slot -> BOOLEAN] /\ merged' \in [Slot -> BOOLEAN]
      /\ useDown' \in [Slot -> BOOLEAN] /\ health' \in [Slot -> Int]
  BY <1>2, FreshType DEF Respawn, Revive, TypeOK
<1>5. respawn' \in [Slot -> 0 .. RespawnTicks]
  BY <1>2, MatchAssumption DEF Respawn, TypeOK
<1>6. \A i \in Slot : merged'[i] = merged[i] /\ (alive[i] => alive'[i])
  BY <1>2 DEF Respawn, Revive, Returns, TypeOK, UnionConsistent
<1>7. UnionConsistent'
  BY <1>2, <1>6 DEF UnionConsistent, mechVars
<1>8. ASSUME NEW i \in Slot
      PROVE  (alive'[i] <=> health'[i] > 0) /\ (respawn'[i] > 0 => ~alive'[i])
  <2>1. alive[i] \in BOOLEAN /\ health[i] \in Int /\ respawn[i] \in Int /\ respawn[i] >= 0
    BY MatchAssumption DEF TypeOK
  <2>2. (alive[i] <=> health[i] > 0) /\ (respawn[i] > 0 => ~alive[i])
    BY DEF Vitality
  <2>3. CASE Returns(i)
    <3>1. alive'[i] /\ health'[i] = RobotHealth
      BY <1>2, <2>3 DEF Respawn, Revive
    <3>2. respawn'[i] = 0
      BY <1>2, <2>3 DEF Respawn, Returns
    <3> QED BY <3>1, <3>2, FreshType
  <2>4. CASE ~Returns(i)
    <3>1. alive'[i] = alive[i] /\ health'[i] = health[i]
      BY <1>2, <2>1, <2>4 DEF Respawn, Revive
    <3>2. respawn'[i] > 0 => respawn[i] > 0
      BY <1>2, <2>1, <2>4 DEF Respawn
    <3> QED BY <2>2, <3>1, <3>2
  <2> QED BY <2>3, <2>4
<1>9. Vitality'
  BY <1>2, <1>8 DEF Vitality, mechVars
<1> QED BY <1>1, <1>2, <1>3, <1>4, <1>5, <1>7, <1>9 DEF TypeOK, Phase, mechVars

\* No step of a tick sets them at odds.
LEMMA NextConsistent == RobotsConsistent /\ [Next]_vars => RobotsConsistent'
<1> SUFFICES ASSUME RobotsConsistent, [Next]_vars PROVE RobotsConsistent'
  OBVIOUS
<1> USE DEF RobotsConsistent
<1>1. CASE StepChassis
  BY <1>1, ChassisConsistent
<1>2. ASSUME NEW i \in Slot, Pilot(i) PROVE RobotsConsistent'
  BY <1>2, PilotConsistent
<1>3. ASSUME NEW i \in Slot, Walk(i) PROVE RobotsConsistent'
  BY <1>3, WalkConsistent
<1>4. CASE Detonate
  BY <1>4, DetonateConsistent
<1>5. CASE EndGrenades
  <2>1. phase' \in Phase /\ turn' \in Slot
    BY <1>5, GotoType DEF EndGrenades, Phase
  <2> QED BY <1>5, <2>1 DEF EndGrenades, TypeOK, UnionConsistent, Vitality, Phase,
                            robotVars, mechVars, matchVars
<1>6. ASSUME NEW i \in Slot, Hit(i) PROVE RobotsConsistent'
  BY <1>6, HitConsistent
<1>7. ASSUME NEW i \in Slot, NoHit(i) PROVE RobotsConsistent'
  <2>1. phase' \in Phase /\ turn' \in Slot
    BY <1>7, TurnType DEF NoHit, Phase
  <2> QED BY <1>7, <2>1 DEF NoHit, TypeOK, UnionConsistent, Vitality, Phase,
                            robotVars, mechVars, matchVars
<1>8. CASE Score
  BY <1>8, ScoreConsistent
<1>9. CASE Banner
  <2>1. phase' \in Phase /\ turn' \in Slot
    BY <1>9, GotoType DEF Banner, Phase
  <2>2. endTicks' \in 0 .. BannerTicks
    BY <1>9, MatchAssumption DEF Banner, TypeOK
  <2> QED BY <1>9, <2>1, <2>2 DEF Banner, TypeOK, UnionConsistent, Vitality, Phase,
                                  robotVars, mechVars
<1>10. CASE Rematch
  <2>1. phase' \in Phase /\ turn' \in Slot
    BY <1>10, GotoType DEF Rematch, Phase
  <2>2. TypeOK'
    BY <1>10, <2>1, FreshType DEF Rematch, FreshRobots, FreshMech, TypeOK, Phase
  <2>3. UnionConsistent' /\ Vitality'
    BY <1>10, FreshType, NoPilotIsNoSlot
       DEF Rematch, FreshRobots, FreshMech, UnionConsistent, Vitality
  <2> QED BY <2>2, <2>3
<1>11. CASE UNCHANGED vars
  BY <1>11 DEF vars, TypeOK, UnionConsistent, Vitality, robotVars, mechVars, matchVars
<1> QED BY <1>1, <1>2, <1>3, <1>4, <1>5, <1>6, <1>7, <1>8, <1>9, <1>10, <1>11 DEF Next

\* RobotsConsistent (sim_mech.cpp:107-160, sim_combat.cpp:97-140, 251-272): between
\* any two steps of a tick, whoever was hit, crushed or ejected by whom before, a
\* robot and the chassis agree on their union, live while they have health, and
\* wait their turn when they do not.
THEOREM RobotsConsistentAlways == Spec => []RobotsConsistent
<1>1. Init => RobotsConsistent
  BY InitConsistent
<1>2. RobotsConsistent /\ [Next]_vars => RobotsConsistent'
  BY NextConsistent
<1> QED BY <1>1, <1>2, PTL DEF Spec

-----------------------------------------------------------------------------
(* The score.                                                              *)

\* TeamTotal is the end of a running total over the slots.
LEMMA RunningTotal ==
  ASSUME NEW score \in [Slot -> Nat], NEW team
  PROVE  \E total \in [Nat -> Nat] :
           /\ total[0] = 0
           /\ \A n \in Slot :
                total[n + 1] = total[n] + (IF Team(n) = team THEN score[n] ELSE 0)
           /\ TeamTotal(score, team) = total[MaxPlayers]
<1> DEFINE gain(n) == IF n \in Slot /\ Team(n) = team THEN score[n] ELSE 0
           G == [n \in Nat |-> [x \in Nat |-> x + gain(n)]]
           total[n \in 0 .. MaxPlayers] ==
             IF n = 0 THEN 0
             ELSE total[n - 1] + (IF Team(n - 1) = team THEN score[n - 1] ELSE 0)
<1>1. \A n \in Nat : gain(n) \in Nat
  OBVIOUS
<1>2. PICK f : Recurs(f, Nat, 0, G)
  <2>1. G \in [Nat -> [Nat -> Nat]]
    <3> HIDE DEF gain
    <3> QED BY <1>1
  <2> HIDE DEF G
  <2> QED BY <2>1, RecursionExists
<1>3. f \in [Nat -> Nat] /\ f[0] = 0
  BY <1>2 DEF Recurs
<1>4. ASSUME NEW n \in Slot
      PROVE  f[n + 1] = f[n] + (IF Team(n) = team THEN score[n] ELSE 0)
  <2>1. n \in Nat /\ f[n] \in Nat /\ f[n + 1] = G[n][f[n]]
    <3>1. n \in Nat
      BY DEF Slot
    <3> HIDE DEF G
    <3> QED BY <1>2, <1>3, <3>1 DEF Recurs
  <2>2. G[n][f[n]] = f[n] + gain(n)
    <3> HIDE DEF gain
    <3> QED BY <2>1
  <2> QED BY <2>1, <2>2
<1> DEFINE g == [n \in 0 .. MaxPlayers |-> f[n]]
<1>5. g = [n \in 0 .. MaxPlayers |->
             IF n = 0 THEN 0
             ELSE g[n - 1] + (IF Team(n - 1) = team THEN score[n - 1] ELSE 0)]
  <2>1. ASSUME NEW n \in 0 .. MaxPlayers, n # 0
        PROVE  /\ g[n] = f[n] /\ g[n - 1] = f[n - 1]
               /\ f[n] = f[n - 1] + (IF Team(n - 1) = team THEN score[n - 1] ELSE 0)
    <3>1. n - 1 \in Slot /\ n - 1 \in 0 .. MaxPlayers /\ (n - 1) + 1 = n
      BY <2>1, MatchAssumption DEF Slot
    <3> QED BY <1>4, <3>1
  <2> QED BY <1>3, <2>1
<1>6. total = [n \in 0 .. MaxPlayers |->
             IF n = 0 THEN 0
             ELSE total[n - 1] + (IF Team(n - 1) = team THEN score[n - 1] ELSE 0)]
  <2> HIDE DEF g
  <2> QED BY <1>5
<1>7. total[MaxPlayers] = f[MaxPlayers]
  <2> HIDE DEF total
  <2> DEFINE D == {n \in Nat : n <= MaxPlayers => total[n] = f[n]}
  <2>1. 0 \in D
    BY <1>3, <1>6, MatchAssumption
  <2>2. ASSUME NEW n \in Nat, n \in D PROVE n + 1 \in D
    <3> SUFFICES ASSUME n + 1 <= MaxPlayers PROVE total[n + 1] = f[n + 1]
      OBVIOUS
    <3>1. n \in Slot /\ n + 1 \in 0 .. MaxPlayers /\ (n + 1) - 1 = n /\ n + 1 # 0
      BY MatchAssumption DEF Slot
    <3>2. total[n] = f[n]
      BY <2>2, MatchAssumption
    <3>3. total[n + 1] = total[n] + (IF Team(n) = team THEN score[n] ELSE 0)
      BY <1>6, <3>1
    <3> QED BY <1>4, <3>1, <3>2, <3>3
  <2>3. Nat \subseteq D
    <3> HIDE DEF D
    <3> QED BY <2>1, <2>2, SetInduction
  <2> QED BY <2>3, MatchAssumption
<1>8. TeamTotal(score, team) = f[MaxPlayers]
  BY <1>7 DEF TeamTotal
<1> QED BY <1>3, <1>4, <1>8

\* A total of naturals is one.
LEMMA TotalType ==
  ASSUME NEW score \in [Slot -> Nat], NEW team
  PROVE  TeamTotal(score, team) \in Nat
BY RunningTotal, MatchAssumption

\* Nobody's kills, no total.
LEMMA TotalFresh ==
  ASSUME NEW team
  PROVE  TeamTotal([i \in Slot |-> 0], team) = 0
<1> DEFINE none == [i \in Slot |-> 0]
<1>1. none \in [Slot -> Nat]
  OBVIOUS
<1>2. PICK f \in [Nat -> Nat] :
        /\ f[0] = 0
        /\ \A n \in Slot : f[n + 1] = f[n] + (IF Team(n) = team THEN none[n] ELSE 0)
        /\ TeamTotal(none, team) = f[MaxPlayers]
  <2> HIDE DEF none
  <2> QED BY <1>1, RunningTotal
<1> DEFINE D == {n \in Nat : n <= MaxPlayers => f[n] = 0}
<1>3. 0 \in D
  BY <1>2
<1>4. ASSUME NEW n \in Nat, n \in D PROVE n + 1 \in D
  <2> SUFFICES ASSUME n + 1 <= MaxPlayers PROVE f[n + 1] = 0
    OBVIOUS
  <2>1. n \in Slot /\ none[n] = 0 /\ f[n] = 0
    BY <1>4, MatchAssumption DEF Slot
  <2> HIDE DEF none
  <2> QED BY <1>2, <2>1
<1>5. Nat \subseteq D
  <2> HIDE DEF D
  <2> QED BY <1>3, <1>4, SetInduction
<1> QED BY <1>2, <1>5, MatchAssumption

\* What a slot gains its team does, and the other does not.
LEMMA TotalRaised ==
  ASSUME NEW score \in [Slot -> Nat], NEW more \in [Slot -> Nat], NEW i \in Slot, NEW team,
         \A j \in Slot : j # i => more[j] = score[j]
  PROVE  TeamTotal(more, team) =
           TeamTotal(score, team) + (IF Team(i) = team THEN more[i] - score[i] ELSE 0)
<1> DEFINE extra == IF Team(i) = team THEN more[i] - score[i] ELSE 0
<1>1. extra \in Int
  <2>1. more[i] \in Int /\ score[i] \in Int
    OBVIOUS
  <2> QED BY <2>1
<1>2. PICK f \in [Nat -> Nat] :
        /\ f[0] = 0
        /\ \A n \in Slot : f[n + 1] = f[n] + (IF Team(n) = team THEN score[n] ELSE 0)
        /\ TeamTotal(score, team) = f[MaxPlayers]
  BY RunningTotal
<1>3. PICK g \in [Nat -> Nat] :
        /\ g[0] = 0
        /\ \A n \in Slot : g[n + 1] = g[n] + (IF Team(n) = team THEN more[n] ELSE 0)
        /\ TeamTotal(more, team) = g[MaxPlayers]
  BY RunningTotal
<1> DEFINE D == {n \in Nat : n <= MaxPlayers => g[n] = f[n] + (IF i < n THEN extra ELSE 0)}
<1>4. 0 \in D
  BY <1>2, <1>3 DEF Slot
<1>5. ASSUME NEW n \in Nat, n \in D PROVE n + 1 \in D
  <2> SUFFICES ASSUME n + 1 <= MaxPlayers
               PROVE  g[n + 1] = f[n + 1] + (IF i < n + 1 THEN extra ELSE 0)
    OBVIOUS
  <2>1. n \in Slot /\ g[n] = f[n] + (IF i < n THEN extra ELSE 0)
    BY <1>5, MatchAssumption DEF Slot
  <2>2. i \in Nat /\ f[n] \in Nat /\ score[n] \in Nat /\ more[n] \in Nat
    <3>1. score[n] \in Nat /\ more[n] \in Nat
      BY <2>1
    <3> QED BY <3>1, MatchAssumption DEF Slot
  <2>3. CASE n = i
    <3>1. ~(i < n) /\ i < n + 1
      BY <2>2, <2>3
    <3> QED BY <1>2, <1>3, <2>1, <2>2, <2>3, <3>1
  <2>4. CASE n # i
    <3>1. more[n] = score[n] /\ (i < n <=> i < n + 1)
      BY <2>1, <2>2, <2>4
    <3> HIDE DEF extra
    <3> QED BY <1>1, <1>2, <1>3, <2>1, <2>2, <3>1
  <2> QED BY <2>3, <2>4
<1>6. Nat \subseteq D
  <2> HIDE DEF D
  <2> QED BY <1>4, <1>5, SetInduction
<1>7. MaxPlayers \in D /\ i < MaxPlayers
  <2>1. i < MaxPlayers
    BY MatchAssumption DEF Slot
  <2> HIDE DEF D
  <2> QED BY <1>6, <2>1, MatchAssumption
<1>8. g[MaxPlayers] = f[MaxPlayers] + extra
  <2> HIDE DEF extra
  <2> QED BY <1>7
<1>9. TeamTotal(more, team) = TeamTotal(score, team) + extra
  BY <1>2, <1>3, <1>8
<1> QED BY <1>9

-----------------------------------------------------------------------------
(* The score counts the losses.                                            *)

\* What KillsAreLosses says of a step of a match.
LossesTo(team) ==
  Cardinality({i \in Slot : Team(i) # team /\ Died(i)})
    + Cardinality({i \in Slot : Team(i) # team /\ Wrecked(i)})
CountsLosses ==
  \A team \in {0, 1} : TeamKills(team)' = TeamKills(team) + LossesTo(team)

\* A step that gives a slot as many kills as its enemies lose counts them.
LEMMA Counted ==
  ASSUME RobotsConsistent, NEW i \in Slot, NEW lost \in SUBSET Enemy(i),
         kills' = [kills EXCEPT ![i] = @ + Cardinality(lost)],
         \/ /\ lost = {j \in Slot : Died(j)}
            /\ \A j \in Slot : ~Wrecked(j)
         \/ /\ lost = {j \in Slot : Wrecked(j)}
            /\ \A j \in Slot : ~Died(j)
  PROVE  CountsLosses
<1> SUFFICES ASSUME NEW team \in {0, 1}
             PROVE  TeamKills(team)' = TeamKills(team) + LossesTo(team)
  BY DEF CountsLosses
<1>1. Cardinality(lost) \in Nat
  <2>1. lost \subseteq 0 .. MaxPlayers - 1
    BY DEF Enemy, Slot
  <2>2. IsFiniteSet(0 .. MaxPlayers - 1)
    BY MatchAssumption, FS_Interval
  <2>3. IsFiniteSet(lost)
    BY <2>1, <2>2, FS_Subset
  <2> QED BY <2>3, FS_CardinalityType
<1>2. TeamKills(team)' =
        TeamKills(team) + (IF Team(i) = team THEN Cardinality(lost) ELSE 0)
  <2>1. kills \in [Slot -> Nat]
    BY DEF RobotsConsistent, TypeOK
  <2>2. TeamTotal(kills', team) =
          TeamTotal(kills, team) + (IF Team(i) = team THEN Cardinality(lost) ELSE 0)
    <3>1. /\ kills' \in [Slot -> Nat] /\ kills'[i] = kills[i] + Cardinality(lost)
          /\ \A j \in Slot : j # i => kills'[j] = kills[j]
      BY <1>1, <2>1
    <3>2. ASSUME NEW more \in [Slot -> Nat], \A j \in Slot : j # i => more[j] = kills[j]
          PROVE TeamTotal(more, team) =
            TeamTotal(kills, team) + (IF Team(i) = team THEN more[i] - kills[i] ELSE 0)
      BY <2>1, <3>2, TotalRaised
    <3>3. TeamTotal(kills', team) =
            TeamTotal(kills, team) + (IF Team(i) = team THEN kills'[i] - kills[i] ELSE 0)
      BY <3>1, <3>2
    <3> QED BY <1>1, <2>1, <3>1, <3>3
  <2>3. TeamKills(team)' = TeamTotal(kills', team)
    BY DEF TeamKills
  <2> QED BY <2>2, <2>3 DEF TeamKills
<1>3. Cardinality({}) = 0
  BY FS_EmptySet
<1>4. LossesTo(team) = IF Team(i) = team THEN Cardinality(lost) ELSE 0
  <2> DEFINE died    == {j \in Slot : Team(j) # team /\ Died(j)}
             wrecked == {j \in Slot : Team(j) # team /\ Wrecked(j)}
  <2>1. \A j \in Slot : Team(j) \in {0, 1}
    BY DEF Team
  <2>2. \A j \in lost : j \in Slot /\ (Team(j) # team <=> Team(i) = team)
    BY <2>1 DEF Enemy
  <2>3. \/ died = (IF Team(i) = team THEN lost ELSE {}) /\ wrecked = {}
        \/ wrecked = (IF Team(i) = team THEN lost ELSE {}) /\ died = {}
    <3>1. CASE lost = {j \in Slot : Died(j)} /\ \A j \in Slot : ~Wrecked(j)
      BY <2>2, <3>1
    <3>2. CASE lost = {j \in Slot : Wrecked(j)} /\ \A j \in Slot : ~Died(j)
      BY <2>2, <3>2
    <3> QED BY <3>1, <3>2
  <2>4. LossesTo(team) = Cardinality(died) + Cardinality(wrecked)
    BY DEF LossesTo
  <2> HIDE DEF died, wrecked
  <2> QED BY <1>1, <1>3, <2>3, <2>4
<1> QED BY <1>2, <1>4

\* A step in which nobody scores and nobody is lost counts nothing.
LEMMA NothingCounted ==
  ASSUME RobotsConsistent, UNCHANGED kills,
         \A i \in Slot : ~Died(i) /\ ~Wrecked(i)
  PROVE  CountsLosses
<1> SUFFICES ASSUME NEW team \in {0, 1}
             PROVE  TeamKills(team)' = TeamKills(team) + LossesTo(team)
  BY DEF CountsLosses
<1>1. TeamKills(team)' = TeamKills(team) /\ TeamKills(team) \in Nat
  <2>1. kills \in [Slot -> Nat]
    BY DEF RobotsConsistent, TypeOK
  <2> QED BY <2>1, TotalType DEF TeamKills
<1>2. LossesTo(team) = Cardinality({}) + Cardinality({})
  <2>1. {i \in Slot : Team(i) # team /\ Died(i)} = {}
    OBVIOUS
  <2>2. {i \in Slot : Team(i) # team /\ Wrecked(i)} = {}
    OBVIOUS
  <2> QED BY <2>1, <2>2 DEF LossesTo
<1> QED BY <1>1, <1>2, FS_EmptySet

\* A hit on an enemy scores one robot, one chassis or none.
LEMMA DamageCounts ==
  ASSUME RobotsConsistent, NEW attacker \in Slot, NEW target \in Enemy(attacker),
         NEW damage \in Damage, ApplyDamage(attacker, target, damage)
  PROVE  CountsLosses
<1>1. target \in Slot
  BY DEF Enemy
<1>2. Cardinality({target}) = 1
  BY FS_Singleton
<1>3. CASE ~alive[target]
  BY <1>3, NothingCounted DEF ApplyDamage, Died, Wrecked, robotVars, mechVars
<1>4. CASE alive[target] /\ merged[target]
  <2>1. UNCHANGED robotVars /\ pilot = target /\ mechAlive
    BY <1>1, <1>4 DEF ApplyDamage, RobotsConsistent, UnionConsistent
  <2>2. CASE mechHealth' <= 0
    <3>1. mechAlive' = FALSE /\ kills' = [kills EXCEPT ![attacker] = @ + 1]
      BY <1>4, <2>2 DEF ApplyDamage
    <3>2. {target} = {j \in Slot : Wrecked(j)} /\ \A j \in Slot : ~Died(j)
      BY <1>1, <2>1, <3>1 DEF Wrecked, Died, robotVars
    <3>3. kills' = [kills EXCEPT ![attacker] = @ + Cardinality({target})]
      BY <1>2, <3>1
    <3>4. {target} \in SUBSET Enemy(attacker)
      OBVIOUS
    <3> QED BY <3>2, <3>3, <3>4, Counted
  <2>3. CASE ~(mechHealth' <= 0)
    <3>1. UNCHANGED <<mechAlive, kills>>
      BY <1>4, <2>3 DEF ApplyDamage
    <3> QED BY <2>1, <3>1, NothingCounted DEF Wrecked, Died, robotVars
  <2> QED BY <2>2, <2>3
<1>5. CASE alive[target] /\ ~merged[target]
  <2>1. UNCHANGED mechVars
    BY <1>5 DEF ApplyDamage
  <2>2. CASE health'[target] <= 0
    <3>1. /\ alive' = [alive EXCEPT ![target] = FALSE]
          /\ kills' = [kills EXCEPT ![attacker] = @ + 1]
      BY <1>5, <2>2 DEF ApplyDamage
    <3>2. {target} = {j \in Slot : Died(j)} /\ \A j \in Slot : ~Wrecked(j)
      BY <1>1, <1>5, <2>1, <3>1 DEF Wrecked, Died, mechVars, RobotsConsistent, TypeOK
    <3>3. kills' = [kills EXCEPT ![attacker] = @ + Cardinality({target})]
      BY <1>2, <3>1
    <3>4. {target} \in SUBSET Enemy(attacker)
      OBVIOUS
    <3> QED BY <3>2, <3>3, <3>4, Counted
  <2>3. CASE ~(health'[target] <= 0)
    <3>1. UNCHANGED <<alive, kills>>
      BY <1>5, <2>3 DEF ApplyDamage
    <3> QED BY <2>1, <3>1, NothingCounted DEF Wrecked, Died, mechVars
  <2> QED BY <2>2, <2>3
<1> QED BY <1>3, <1>4, <1>5

\* A pilot scores whom it crushes.
LEMMA PilotCounts ==
  ASSUME RobotsConsistent, NEW i \in Slot, Pilot(i)
  PROVE  CountsLosses
<1>1. PICK down \in BOOLEAN, crushed \in SUBSET Crushable(i) :
        /\ UnionTurn(i, down)
        /\ alive' = [j \in Slot |-> alive[j] /\ j \notin crushed]
        /\ kills' = [kills EXCEPT ![i] = @ + Cardinality(crushed)]
  BY DEF Pilot
<1>2. crushed \in SUBSET Enemy(i)
  BY <1>1 DEF Crushable
<1>3. crushed = {j \in Slot : Died(j)}
  BY <1>1, <1>2 DEF Crushable, Enemy, Died, RobotsConsistent, TypeOK
<1>4. \A j \in Slot : ~Wrecked(j)
  BY <1>1 DEF UnionTurn, mechVars, Wrecked
<1> QED BY <1>1, <1>2, <1>3, <1>4, Counted

\* Every step but the one that begins a new match counts the losses.
LEMMA NextCounts ==
  ASSUME RobotsConsistent, Next, ~Rematch
  PROVE  CountsLosses
<1> USE DEF Died, Wrecked
<1>1. CASE StepChassis
  <2>1. UNCHANGED <<alive, kills>> /\ (mechAlive => mechAlive')
    BY <1>1 DEF StepChassis, Rebuild, robotVars, mechVars
  <2> QED BY <2>1, NothingCounted
<1>2. ASSUME NEW i \in Slot, Pilot(i) PROVE CountsLosses
  BY <1>2, PilotCounts
<1>3. ASSUME NEW i \in Slot, Walk(i) PROVE CountsLosses
  <2>1. UNCHANGED <<alive, kills, mechAlive>>
    BY <1>3 DEF Walk, UnionTurn, robotVars, mechVars
  <2> QED BY <2>1, NothingCounted
<1>4. CASE Detonate
  <2>1. PICK owner \in Slot : \E target \in Enemy(owner), damage \in Damage :
          ApplyDamage(owner, target, damage)
    BY <1>4 DEF Detonate
  <2> QED BY <2>1, DamageCounts
<1>5. CASE EndGrenades
  BY <1>5, NothingCounted DEF EndGrenades, robotVars, mechVars
<1>6. ASSUME NEW i \in Slot, Hit(i) PROVE CountsLosses
  <2>1. PICK target \in Enemy(i), damage \in Damage : ApplyDamage(i, target, damage)
    BY <1>6 DEF Hit
  <2> QED BY <2>1, DamageCounts
<1>7. ASSUME NEW i \in Slot, NoHit(i) PROVE CountsLosses
  BY <1>7, NothingCounted DEF NoHit, robotVars, mechVars
<1>8. CASE Score
  <2>1. UNCHANGED <<kills, mechAlive>> /\ \A i \in Slot : alive[i] => alive'[i]
    BY <1>8 DEF Score, Respawn, Revive, mechVars
  <2> QED BY <2>1, NothingCounted
<1>9. CASE Banner
  BY <1>9, NothingCounted DEF Banner, robotVars, mechVars
<1> QED BY <1>1, <1>2, <1>3, <1>4, <1>5, <1>6, <1>7, <1>8, <1>9 DEF Next

\* The score never goes down within a match.
LEMMA ScoreGrows ==
  ASSUME RobotsConsistent, Next, ~Rematch, NEW team \in {0, 1}
  PROVE  TeamKills(team) \in Nat /\ TeamKills(team)' \in Nat
         /\ TeamKills(team)' >= TeamKills(team)
<1>1. kills \in [Slot -> Nat] /\ kills' \in [Slot -> Nat]
  BY NextConsistent DEF RobotsConsistent, TypeOK
<1>2. TeamKills(team) \in Nat /\ TeamKills(team)' \in Nat
  BY <1>1, TotalType DEF TeamKills
<1>3. LossesTo(team) \in Nat
  <2>1. IsFiniteSet(Slot)
    BY MatchAssumption, FS_Interval DEF Slot
  <2>2. /\ IsFiniteSet({i \in Slot : Team(i) # team /\ Died(i)})
        /\ IsFiniteSet({i \in Slot : Team(i) # team /\ Wrecked(i)})
    BY <2>1, FS_Subset
  <2> QED BY <2>2, FS_CardinalityType DEF LossesTo
<1>4. TeamKills(team)' = TeamKills(team) + LossesTo(team)
  BY NextCounts DEF CountsLosses
<1> QED BY <1>2, <1>3, <1>4

-----------------------------------------------------------------------------
(* The result is what the score says.                                      *)

\* A match is decided by the score alone, as soon as a tick ends with the kills to
\* win, and from then on a tick ends with its banner.
Decided ==
  /\ winner # 0 => TeamKills(winner - 1) >= WinKills
  /\ winner = 0 /\ phase = "chassis" => \A team \in {0, 1} : TeamKills(team) < WinKills
  /\ phase = "banner" => winner # 0
  /\ phase \in {"grenades", "combat", "score"} => winner = 0

IInv == RobotsConsistent /\ Decided

\* Nobody has scored at the start of a match.
LEMMA FreshScore ==
  ASSUME NEW team
  PROVE  TeamTotal([i \in Slot |-> 0], team) < WinKills
BY TotalFresh, MatchAssumption

\* A step within a tick, or back to its start with the result unchanged, keeps the
\* match decided.
LEMMA StillDecided ==
  ASSUME IInv, Next, ~Rematch, UNCHANGED winner,
         \/ phase' = phase /\ phase # "chassis"
         \/ phase = "chassis" /\ phase' = "union"
         \/ phase = "union" /\ phase' = IF winner # 0 THEN "banner" ELSE "grenades"
         \/ phase \in {"grenades", "combat"} /\ phase' \in {"combat", "score"}
         \/ phase = "banner" /\ phase' = "chassis"
  PROVE  Decided'
<1>1. winner # 0 => winner - 1 \in {0, 1}
  BY DEF IInv, RobotsConsistent, TypeOK
<1>2. ASSUME winner # 0 PROVE TeamTotal(kills', winner - 1) >= WinKills
  <2>1. TeamTotal(kills, winner - 1) >= WinKills
    BY <1>2 DEF IInv, Decided, TeamKills
  <2>2. ASSUME NEW team \in {0, 1} PROVE TeamTotal(kills', team) >= TeamTotal(kills, team)
                                        /\ TeamTotal(kills, team) \in Int
                                        /\ TeamTotal(kills', team) \in Int
    BY ScoreGrows DEF IInv, TeamKills
  <2> QED BY <1>1, <1>2, <2>1, <2>2, MatchAssumption
<1> QED BY <1>2 DEF IInv, Decided, TeamKills

\* The tick's end decides a match that is not decided yet.
LEMMA ScoreDecides == IInv /\ Score => Decided'
<1> SUFFICES ASSUME IInv, Score PROVE Decided'
  OBVIOUS
<1>1. phase' = "chassis" /\ winner = 0 /\ kills' = kills
  BY DEF Score, Goto, IInv, Decided
<1>2. \A team \in {0, 1} : TeamTotal(kills, team) \in Nat
  BY TotalType DEF IInv, RobotsConsistent, TypeOK
<1>3. winner' = IF TeamTotal(kills, 1) >= WinKills THEN 2
                ELSE IF TeamTotal(kills, 0) >= WinKills THEN 1 ELSE 0
  BY <1>1 DEF Score, TeamKills
<1>4. winner' # 0 => TeamTotal(kills, winner' - 1) >= WinKills
  BY <1>2, <1>3, MatchAssumption
<1>5. winner' = 0 => \A team \in {0, 1} : TeamTotal(kills, team) < WinKills
  BY <1>2, <1>3, MatchAssumption
<1> QED BY <1>1, <1>4, <1>5 DEF Decided, TeamKills

\* Every step leaves a match decided by its score, or not at all.
LEMMA NextDecided == IInv /\ [Next]_vars => Decided'
<1> SUFFICES ASSUME IInv, [Next]_vars PROVE Decided'
  OBVIOUS
<1>1. CASE StepChassis
  BY <1>1, StillDecided DEF StepChassis, Goto, matchVars, Next, Rematch
<1>2. ASSUME NEW i \in Slot, Pilot(i) \/ Walk(i) PROVE Decided'
  <2>1. PICK down \in BOOLEAN : UnionTurn(i, down)
    BY <1>2 DEF Pilot, Walk
  <2>2. phase = "union" /\ phase' \in {"union", IF winner # 0 THEN "banner" ELSE "grenades"}
        /\ UNCHANGED winner
    BY <2>1 DEF UnionTurn, NextTurn, Goto, matchVars
  <2>3. Next /\ ~Rematch
    BY <1>2, <2>2 DEF Next, Rematch
  <2> QED BY <2>2, <2>3, StillDecided
<1>3. CASE Detonate
  BY <1>3, StillDecided DEF Detonate, matchVars, Next, Rematch
<1>4. CASE EndGrenades
  BY <1>4, StillDecided DEF EndGrenades, Goto, matchVars, Next, Rematch
<1>5. ASSUME NEW i \in Slot, Hit(i) \/ NoHit(i) PROVE Decided'
  <2>1. phase = "combat" /\ phase' \in {"combat", "score"} /\ UNCHANGED winner
    BY <1>5 DEF Hit, NoHit, NextTurn, Goto, matchVars
  <2>2. Next /\ ~Rematch
    BY <1>5, <2>1 DEF Next, Rematch
  <2> QED BY <2>1, <2>2, StillDecided
<1>6. CASE Score
  BY <1>6, ScoreDecides
<1>7. CASE Banner
  BY <1>7, StillDecided DEF Banner, Goto, matchVars, Next, Rematch, IInv, Decided
<1>8. CASE Rematch
  <2>1. phase' = "chassis" /\ winner' = 0 /\ kills' = [i \in Slot |-> 0]
    BY <1>8 DEF Rematch, Goto, FreshRobots
  <2>2. \A team \in {0, 1} : TeamTotal(kills', team) < WinKills
    BY <2>1, FreshScore
  <2> QED BY <2>1, <2>2 DEF Decided, TeamKills
<1>9. CASE UNCHANGED vars
  BY <1>9 DEF vars, matchVars, IInv, Decided, TeamKills
<1> QED BY <1>1, <1>2, <1>3, <1>4, <1>5, <1>6, <1>7, <1>8, <1>9 DEF Next

\* The invariant holds throughout.
LEMMA InvariantAlways == Spec => []IInv
<1>1. Init => IInv
  <2>1. Init => Decided
    <3> SUFFICES ASSUME Init PROVE Decided
      OBVIOUS
    <3>1. \A team \in {0, 1} : TeamTotal(kills, team) < WinKills
      BY FreshScore DEF Init
    <3> QED BY <3>1 DEF Init, Decided, TeamKills
  <2> QED BY <2>1, InitConsistent DEF IInv
<1>2. IInv /\ [Next]_vars => IInv'
  BY NextConsistent, NextDecided DEF IInv
<1> QED BY <1>1, <1>2, PTL DEF Spec

\* WinnerEarned (sim.cpp:104-109): between ticks there is a winner exactly if a team
\* has the kills to win, in whatever order the two teams came to theirs.
THEOREM WinnerEarnedAlways == Spec => []WinnerEarned
<1>1. IInv => WinnerEarned
  BY DEF IInv, Decided, WinnerEarned
<1> QED BY <1>1, InvariantAlways, PTL

\* KillsAreLosses (sim_mech.cpp:60-85, sim_combat.cpp:97-140): every death and every
\* wreck is scored once, for the side that did not suffer it, whichever of the
\* three ways of dying it was.
THEOREM KillsAreLossesAlways == Spec => KillsAreLosses
<1> DEFINE A == \/ winner # 0 /\ winner' = 0
                \/ \A team \in {0, 1} :
                     TeamKills(team)' =
                       TeamKills(team) + Cardinality({i \in Slot : Team(i) # team /\ Died(i)})
                                       + Cardinality({i \in Slot : Team(i) # team /\ Wrecked(i)})
<1>1. ASSUME IInv, Next PROVE A
  <2>1. CASE Rematch
    BY <1>1, <2>1 DEF Rematch, IInv, Decided
  <2>2. CASE ~Rematch
    <3>1. CountsLosses
      BY <1>1, <2>2, NextCounts DEF IInv
    <3>2. ASSUME NEW team \in {0, 1}
          PROVE TeamKills(team)' =
                  TeamKills(team) + Cardinality({i \in Slot : Team(i) # team /\ Died(i)})
                                  + Cardinality({i \in Slot : Team(i) # team /\ Wrecked(i)})
      <4>1. TeamKills(team) \in Nat
        BY <1>1, TotalType DEF TeamKills, IInv, RobotsConsistent, TypeOK
      <4>2. IsFiniteSet(Slot)
        BY MatchAssumption, FS_Interval DEF Slot
      <4>3. /\ Cardinality({i \in Slot : Team(i) # team /\ Died(i)}) \in Nat
            /\ Cardinality({i \in Slot : Team(i) # team /\ Wrecked(i)}) \in Nat
        BY <4>2, FS_Subset, FS_CardinalityType
      <4> DEFINE died    == Cardinality({i \in Slot : Team(i) # team /\ Died(i)})
                 wrecked == Cardinality({i \in Slot : Team(i) # team /\ Wrecked(i)})
      <4>4. TeamKills(team)' = TeamKills(team) + (died + wrecked)
        BY <3>1 DEF CountsLosses, LossesTo
      <4>5. died \in Nat /\ wrecked \in Nat
        BY <4>3
      <4> HIDE DEF died, wrecked
      <4>6. TeamKills(team)' = TeamKills(team) + died + wrecked
        BY <4>1, <4>4, <4>5
      <4> QED BY <4>6 DEF died, wrecked
    <3> QED BY <3>2
  <2> QED BY <2>1, <2>2
<1>2. IInv /\ [Next]_vars => [A]_vars
  BY <1>1
<1>3. Spec => [][A]_vars
  BY <1>2, InvariantAlways, PTL DEF Spec
<1> QED BY <1>3, PTL DEF KillsAreLosses

\* DecidedOnce (sim.cpp:90-103): from the tick that decides a match to the next one
\* the result stands and nobody comes back to the field.
THEOREM DecidedOnceAlways == Spec => DecidedOnce
<1> DEFINE A == winner # 0 => \/ winner' = winner /\ \A i \in Slot : alive'[i] => alive[i]
                              \/ winner' = 0 /\ kills' = [i \in Slot |-> 0]
<1>1. ASSUME IInv, Next, winner # 0
      PROVE  \/ winner' = winner /\ \A i \in Slot : alive'[i] => alive[i]
             \/ winner' = 0 /\ kills' = [i \in Slot |-> 0]
  <2>1. phase \notin {"grenades", "combat", "score"}
    BY <1>1 DEF IInv, Decided
  <2>2. CASE StepChassis
    BY <2>2 DEF StepChassis, matchVars, robotVars
  <2>3. ASSUME NEW i \in Slot, Pilot(i)
        PROVE  winner' = winner /\ \A j \in Slot : alive'[j] => alive[j]
    BY <2>3 DEF Pilot, UnionTurn, matchVars
  <2>4. ASSUME NEW i \in Slot, Walk(i)
        PROVE  winner' = winner /\ \A j \in Slot : alive'[j] => alive[j]
    BY <2>4 DEF Walk, UnionTurn, matchVars, robotVars
  <2>5. CASE Banner
    BY <2>5 DEF Banner, robotVars
  <2>6. CASE Rematch
    BY <2>6 DEF Rematch, FreshRobots
  <2> QED BY <1>1, <2>1, <2>2, <2>3, <2>4, <2>5, <2>6
          DEF Next, Detonate, EndGrenades, Hit, NoHit, Score
<1>2. IInv /\ [Next]_vars => [A]_vars
  BY <1>1
<1>3. Spec => [][A]_vars
  BY <1>2, InvariantAlways, PTL DEF Spec
<1> QED BY <1>3 DEF DecidedOnce
=============================================================================
