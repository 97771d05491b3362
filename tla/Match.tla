------------------------------- MODULE Match -------------------------------
(***************************************************************************)
(* The rules of a match, sim::simulate: the chassis robots unite with      *)
(* (sim_mech.cpp), damage, deaths and respawns (sim_combat.cpp), the score *)
(* and the banner (sim.cpp).                                               *)
(*                                                                         *)
(* One tick is the sequence of steps that simulate makes, in its order:    *)
(* the chassis, a turn of step_union for each slot, then either the banner *)
(* or the grenades, a turn of combat for each slot, and the respawns and   *)
(* the score.  `phase' and `turn' say which step is next.  Geometry and    *)
(* ammunition are left to choice: who stands close enough to the chassis,  *)
(* whom it rolls over, whom a shot or a blast reaches, and whether a robot *)
(* has a round to fire.                                                    *)
(***************************************************************************)
EXTENDS Integers, FiniteSets

CONSTANTS
  MaxPlayers,      \* MAX_PLAYERS
  RobotHealth,     \* the health a robot starts with
  MechHealth,      \* MECH_HEALTH
  Armour,          \* MECH_ARMOUR_PERCENT
  Damage,          \* the damage a hit may do
  RespawnTicks,    \* RESPAWN_TICKS
  RebuildTicks,    \* MECH_REBUILD_TICKS
  WinKills,        \* WIN_KILLS
  BannerTicks      \* the banner's countdown

ASSUME MatchAssumption ==
  /\ MaxPlayers \in Nat \ {0}
  /\ RobotHealth \in Nat \ {0} /\ MechHealth \in Nat \ {0}
  /\ Armour \in 1 .. 100
  /\ Damage \subseteq Nat \ {0}
  /\ RespawnTicks \in Nat \ {0} /\ RebuildTicks \in Nat \ {0}
  /\ WinKills \in Nat \ {0} /\ BannerTicks \in Nat

Slot     == 0 .. MaxPlayers - 1
NoPilot  == MaxPlayers             \* NO_PILOT, no slot
Team(i)  == IF i < MaxPlayers \div 2 THEN 0 ELSE 1
Enemy(i) == {j \in Slot : Team(j) # Team(i)}

VARIABLES
  alive, health, respawn, kills, merged, useDown,   \* per Character
  mechAlive, mechHealth, mechRespawn, pilot,        \* Mech
  winner, endTicks,                                 \* World
  phase, turn                                       \* where simulate is

robotVars == <<alive, health, respawn>>
mechVars  == <<mechAlive, mechHealth, mechRespawn>>
matchVars == <<winner, endTicks>>
vars == <<robotVars, kills, merged, useDown, mechVars, pilot, matchVars, phase, turn>>

-----------------------------------------------------------------------------
(* Steps.                                                                  *)

Goto(p) == phase' = p /\ turn' = 0

\* The next slot's turn, or the phase `after' the last one's.

NextTurn(after) ==
  IF turn = MaxPlayers - 1 THEN Goto(after) ELSE turn' = turn + 1 /\ phase' = phase

KeptScore ==                                     \* mutant: a new match, the old score
  /\ alive' = [i \in Slot |-> TRUE]
  /\ health' = [i \in Slot |-> RobotHealth]
  /\ respawn' = [i \in Slot |-> 0]
  /\ merged' = [i \in Slot |-> FALSE]
  /\ useDown' = [i \in Slot |-> FALSE]
  /\ kills' = kills

\* What init_match leaves of the robots.
FreshRobots ==
  /\ alive' = [i \in Slot |-> TRUE]
  /\ health' = [i \in Slot |-> RobotHealth]
  /\ respawn' = [i \in Slot |-> 0]
  /\ merged' = [i \in Slot |-> FALSE]
  /\ useDown' = [i \in Slot |-> FALSE]
  /\ kills' = [i \in Slot |-> 0]

FreshMech ==
  mechAlive' = TRUE /\ mechHealth' = MechHealth /\ mechRespawn' = 0 /\ pilot' = NoPilot

Init ==
  /\ alive = [i \in Slot |-> TRUE]
  /\ health = [i \in Slot |-> RobotHealth]
  /\ respawn = [i \in Slot |-> 0]
  /\ merged = [i \in Slot |-> FALSE]
  /\ useDown = [i \in Slot |-> FALSE]
  /\ kills = [i \in Slot |-> 0]
  /\ mechAlive = TRUE /\ mechHealth = MechHealth /\ mechRespawn = 0 /\ pilot = NoPilot
  /\ winner = 0 /\ endTicks = 0
  /\ phase = "chassis" /\ turn = 0

\* A pilot that is no longer merged frees the chassis.
FreePilot == IF pilot # NoPilot /\ ~merged[pilot] THEN NoPilot ELSE pilot

\* A wrecked chassis counts down, then is a new one.
Rebuild ==
  IF mechAlive
  THEN pilot' = FreePilot /\ UNCHANGED mechVars
  ELSE IF mechRespawn > 1
  THEN /\ mechRespawn' = mechRespawn - 1
       /\ pilot' = FreePilot
       /\ UNCHANGED <<mechAlive, mechHealth>>
  ELSE FreshMech

\* step_union, before its loop.
StepChassis ==
  /\ phase = "chassis"
  /\ Rebuild
  /\ Goto("union")
  /\ UNCHANGED <<robotVars, kills, merged, useDown, matchVars>>

-----------------------------------------------------------------------------
(* The turns of step_union.                                                *)

FightingTurn(i, down) ==                        \* mutant: no early return for a banner
  /\ phase = "union" /\ turn = i
  /\ useDown' = [useDown EXCEPT ![i] = down]
  /\ NextTurn("grenades")
  /\ UNCHANGED <<mechVars, matchVars>>

\* What every turn does: the press of use, and the next turn.
UnionTurn(i, down) ==
  /\ phase = "union" /\ turn = i
  /\ useDown' = [useDown EXCEPT ![i] = down]
  /\ NextTurn(IF winner # 0 THEN "banner" ELSE "grenades")
  /\ UNCHANGED <<mechVars, matchVars>>

UseEdge(i, down) == down /\ ~useDown[i]

\* A robot that pilots the chassis: it crushes the enemies it moves over, which
\* scores, and a fresh press of use ejects it.
Flattened(i) == {j \in Enemy(i) : ~merged[j]}              \* mutant: the dead too
Crushable(i) == {j \in Enemy(i) : alive[j] /\ ~merged[j]}

Pilot(i) ==
  /\ alive[i] /\ merged[i] /\ mechAlive /\ pilot = i
  /\ \E down \in BOOLEAN, crushed \in SUBSET Crushable(i) :
       /\ UnionTurn(i, down)
       /\ alive' = [j \in Slot |-> alive[j] /\ j \notin crushed]
       /\ health' = [j \in Slot |-> IF j \in crushed THEN 0 ELSE health[j]]
       /\ respawn' = [j \in Slot |-> IF j \in crushed THEN RespawnTicks ELSE respawn[j]]
       /\ kills' = [kills EXCEPT ![i] = @ + Cardinality(crushed)]
       /\ IF UseEdge(i, down)
          THEN merged' = [merged EXCEPT ![i] = FALSE] /\ pilot' = NoPilot
          ELSE UNCHANGED <<merged, pilot>>

\* Any other: it may unite with a free chassis, or lose one that is gone.
Walk(i) ==
  /\ ~(alive[i] /\ merged[i] /\ mechAlive /\ pilot = i)
  /\ \E down, near \in BOOLEAN :
       /\ UnionTurn(i, down)
       /\ IF alive[i] /\ merged[i]
          THEN merged' = [merged EXCEPT ![i] = FALSE] /\ UNCHANGED pilot
          ELSE IF alive[i] /\ UseEdge(i, down) /\ mechAlive /\ pilot = NoPilot /\ near
          THEN merged' = [merged EXCEPT ![i] = TRUE] /\ pilot' = i
          ELSE UNCHANGED <<merged, pilot>>
  /\ UNCHANGED <<robotVars, kills>>

-----------------------------------------------------------------------------
(* Damage.                                                                 *)

\* What the armour lets through, rounded up.
Through(damage) == (damage * Armour + 99) \div 100

LeavePilot(attacker, target, damage) ==      \* mutant: nobody leaves a wrecked chassis
  IF ~alive[target] THEN UNCHANGED <<robotVars, kills, merged, mechVars, pilot>>
  ELSE IF merged[target]
  THEN /\ mechHealth' = mechHealth - Through(damage)
       /\ IF mechHealth' <= 0
          THEN /\ mechAlive' = FALSE
               /\ mechRespawn' = RebuildTicks
               /\ kills' = [kills EXCEPT ![attacker] = @ + 1]
          ELSE UNCHANGED <<mechAlive, mechRespawn, kills>>
       /\ UNCHANGED <<robotVars, merged, pilot>>
  ELSE /\ health' = [health EXCEPT ![target] = @ - damage]
       /\ IF health'[target] <= 0
          THEN /\ alive' = [alive EXCEPT ![target] = FALSE]
               /\ respawn' = [respawn EXCEPT ![target] = RespawnTicks]
               /\ kills' = [kills EXCEPT ![attacker] = @ + 1]
          ELSE UNCHANGED <<alive, respawn, kills>>
       /\ UNCHANGED <<merged, mechVars, pilot>>

\* apply_damage: a robot takes it, or the chassis for its pilot.
ApplyDamage(attacker, target, damage) ==
  IF ~alive[target] THEN UNCHANGED <<robotVars, kills, merged, mechVars, pilot>>
  ELSE IF merged[target]
  THEN /\ mechHealth' = mechHealth - Through(damage)
       /\ IF mechHealth' <= 0
          THEN /\ mechAlive' = FALSE
               /\ mechRespawn' = RebuildTicks
               /\ merged' = [merged EXCEPT ![target] = FALSE]      \* eject_pilot
               /\ pilot' = NoPilot
               /\ kills' = [kills EXCEPT ![attacker] = @ + 1]
          ELSE UNCHANGED <<mechAlive, mechRespawn, merged, pilot, kills>>
       /\ UNCHANGED robotVars
  ELSE /\ health' = [health EXCEPT ![target] = @ - damage]
       /\ IF health'[target] <= 0
          THEN /\ alive' = [alive EXCEPT ![target] = FALSE]
               /\ respawn' = [respawn EXCEPT ![target] = RespawnTicks]
               /\ kills' = [kills EXCEPT ![attacker] = @ + 1]
          ELSE UNCHANGED <<alive, respawn, kills>>
       /\ UNCHANGED <<merged, mechVars, pilot>>

\* One target of one grenade going off; its thrower may be dead by then.
Detonate ==
  /\ phase = "grenades"
  /\ \E owner \in Slot : \E target \in Enemy(owner), damage \in Damage :
       alive[target] /\ ApplyDamage(owner, target, damage)
  /\ UNCHANGED <<useDown, matchVars, phase, turn>>

EndGrenades ==
  /\ phase = "grenades"
  /\ Goto("combat")
  /\ UNCHANGED <<robotVars, kills, merged, useDown, mechVars, pilot, matchVars>>

\* A slot's turn in resolve_combat: a live robot may fire, and hit a live enemy.
Hit(i) ==
  /\ phase = "combat" /\ turn = i
  /\ alive[i]
  /\ \E target \in Enemy(i), damage \in Damage :
       alive[target] /\ ApplyDamage(i, target, damage)
  /\ NextTurn("score")
  /\ UNCHANGED <<useDown, matchVars>>

NoHit(i) ==
  /\ phase = "combat" /\ turn = i
  /\ NextTurn("score")
  /\ UNCHANGED <<robotVars, kills, merged, useDown, mechVars, pilot, matchVars>>

-----------------------------------------------------------------------------
(* The end of the tick.                                                    *)

\* The respawn loop of resolve_combat: kills and team outlive a death.
Returns(i) == ~alive[i] /\ respawn[i] = 0

Revive ==
  /\ alive' = [i \in Slot |-> alive[i] \/ Returns(i)]
  /\ merged' = [i \in Slot |-> merged[i] /\ ~Returns(i)]
  /\ useDown' = [i \in Slot |-> useDown[i] /\ ~Returns(i)]

StuckRespawn ==                     \* mutant: counts down to one, waits for nought
  /\ Revive
  /\ health' = [i \in Slot |-> IF Returns(i) THEN RobotHealth ELSE health[i]]
  /\ respawn' = [i \in Slot |-> IF respawn[i] > 1 THEN respawn[i] - 1 ELSE respawn[i]]

Respawn ==
  /\ Revive
  /\ health' = [i \in Slot |-> IF Returns(i) THEN RobotHealth ELSE health[i]]
  /\ respawn' = [i \in Slot |-> IF ~alive[i] /\ respawn[i] > 0 THEN respawn[i] - 1
                                ELSE IF Returns(i) THEN 0 ELSE respawn[i]]

\* team_kills: the loop over the slots, of any record of kills.
TeamTotal(score, team) ==
  LET total[n \in 0 .. MaxPlayers] ==
        IF n = 0 THEN 0
        ELSE total[n - 1] + (IF Team(n - 1) = team THEN score[n - 1] ELSE 0)
  IN  total[MaxPlayers]

TeamKills(team) == TeamTotal(kills, team)

\* The loop over the teams: the second overwrites the first.
Score ==
  /\ phase = "score"
  /\ Respawn
  /\ winner' = IF TeamKills(1) >= WinKills THEN 2
               ELSE IF TeamKills(0) >= WinKills THEN 1 ELSE winner
  /\ endTicks' = IF TeamKills(0) >= WinKills \/ TeamKills(1) >= WinKills
                 THEN BannerTicks ELSE endTicks
  /\ Goto("chassis")
  /\ UNCHANGED <<kills, mechVars, pilot>>

\* While the banner is up, nothing follows step_union but its countdown; then
\* init_match.
Banner ==
  /\ phase = "banner"
  /\ endTicks > 0
  /\ endTicks' = endTicks - 1
  /\ Goto("chassis")
  /\ UNCHANGED <<robotVars, kills, merged, useDown, mechVars, pilot, winner>>

Rematch ==
  /\ phase = "banner"
  /\ endTicks = 0
  /\ FreshRobots /\ FreshMech
  /\ winner' = 0 /\ endTicks' = 0
  /\ Goto("chassis")

Next ==
  \/ StepChassis
  \/ \E i \in Slot : Pilot(i)
  \/ \E i \in Slot : Walk(i)
  \/ Detonate
  \/ EndGrenades
  \/ \E i \in Slot : Hit(i)
  \/ \E i \in Slot : NoHit(i)
  \/ Score
  \/ Banner
  \/ Rematch

Spec == Init /\ [][Next]_vars

\* The loop calls simulate for ever, and a tick makes all of its steps: a tick is
\* finite, for every hit takes health that only its end gives back.
FairSpec == Spec /\ WF_vars(Next)

-----------------------------------------------------------------------------
(* Properties.                                                             *)

\* The type of the state.
TypeOK ==
  /\ alive \in [Slot -> BOOLEAN] /\ merged \in [Slot -> BOOLEAN]
  /\ useDown \in [Slot -> BOOLEAN]
  /\ health \in [Slot -> Int]
  /\ respawn \in [Slot -> 0 .. RespawnTicks]
  /\ kills \in [Slot -> Nat]
  /\ mechAlive \in BOOLEAN /\ mechHealth \in Int /\ mechRespawn \in 0 .. RebuildTicks
  /\ pilot \in Slot \cup {NoPilot}
  /\ winner \in 0 .. 2 /\ endTicks \in 0 .. BannerTicks
  /\ phase \in {"chassis", "union", "banner", "grenades", "combat", "score"}
  /\ turn \in Slot

\* A robot is merged exactly when it is the chassis's pilot, and then it lives and
\* so does the chassis: Character::merged and Mech::pilot, kept in two places by
\* four functions, never disagree, at any point of a tick.
UnionConsistent ==
  /\ \A i \in Slot : merged[i] <=> pilot = i
  /\ \A i \in Slot : merged[i] => alive[i] /\ mechAlive

\* A robot lives exactly while it has health, and so does the chassis: no death
\* is missed, no one returns without health, and a dead one waits its turn.
Vitality ==
  /\ \A i \in Slot : alive[i] <=> health[i] > 0
  /\ \A i \in Slot : respawn[i] > 0 => ~alive[i]
  /\ mechAlive <=> mechHealth > 0
  /\ mechRespawn > 0 <=> ~mechAlive

\* Between any two steps of a tick the robots, the chassis and the union of the two
\* are of one mind.
RobotsConsistent == TypeOK /\ UnionConsistent /\ Vitality

\* Between ticks the winner is a team with the kills to win, and there is one as
\* soon as a team has them: the match neither runs on nor ends early.
WinnerEarned ==
  phase = "chassis" =>
    /\ winner # 0 => TeamKills(winner - 1) >= WinKills
    /\ winner = 0 => \A team \in {0, 1} : TeamKills(team) < WinKills

\* The kills of a team count what its enemies lost, every robot and every chassis
\* with a pilot in it once: no step scores a death twice, or for the wrong side,
\* through the three ways to die (crushed, shot, blown up).
Died(i)    == alive[i] /\ ~alive'[i]
Wrecked(i) == mechAlive /\ ~mechAlive' /\ pilot = i
KillsAreLosses ==
  [][\/ winner # 0 /\ winner' = 0
     \/ \A team \in {0, 1} :
          TeamKills(team)' =
            TeamKills(team) + Cardinality({i \in Slot : Team(i) # team /\ Died(i)})
                            + Cardinality({i \in Slot : Team(i) # team /\ Wrecked(i)})]_vars

\* Nobody's fate changes under a fixed result: once decided, the winner stands
\* until the next match begins, whatever is crushed while the banner is up, and
\* nobody returns to the field before.
DecidedOnce ==
  [][winner # 0 => \/ winner' = winner /\ \A i \in Slot : alive'[i] => alive[i]
                   \/ winner' = 0 /\ kills' = [i \in Slot |-> 0]]_vars

\* Whoever dies returns, a wrecked chassis is rebuilt, and a banner comes down:
\* though a decided match freezes the countdowns of the dead.
EveryoneReturns == \A i \in Slot : ~alive[i] ~> alive[i]
ChassisReturns  == ~mechAlive ~> mechAlive
BannerEnds      == winner # 0 ~> winner = 0

\* The match goes on for everybody (sim.cpp:88-109, sim_combat.cpp:251-272,
\* sim_mech.cpp:107-120).
MatchGoesOn == EveryoneReturns /\ ChassisReturns /\ BannerEnds

\* sim.cpp says of the banner that "the fighting stops".
FightingStops == [][winner # 0 /\ winner' # 0 => kills' = kills /\ alive' = alive]_vars
=============================================================================
