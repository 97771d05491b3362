---------------------------- MODULE SessionProofs ---------------------------
(***************************************************************************)
(* Proofs about Session, for every number of players and clients, every    *)
(* ring size, every simulation and every network.                          *)
(***************************************************************************)
EXTENDS Session, Arithmetic, TLAPS

-----------------------------------------------------------------------------
(* The words of a world.                                                   *)

\* A fresh match is a world of tick 0.
LEMMA FreshMatchType ==
  ASSUME NEW h \in Nat
  PROVE  /\ FreshMatch(h) \in World
         /\ FreshMatch(h).tick = 0
         /\ FreshMatch(h).match.humans = h
  BY SessionAssumption DEF FreshMatch, World

\* What the bots leave of the commands is still one command per slot.
LEMMA DrivenType ==
  ASSUME NEW h \in Nat, NEW g \in Given
  PROVE  Driven(h, g) \in Given
  BY SessionAssumption DEF Driven, Given, Slot, Command, Neutral

\* A client's own command stands for one command per slot.
LEMMA OwnCommandType ==
  ASSUME NEW c \in Client, NEW cmd \in Command
  PROVE  OwnCommand(c, cmd) \in Given
  BY SessionAssumption DEF OwnCommand, Given, Slot, Command, Neutral

\* One step of the simulation: a world, one tick later, with as many humans
\* unless the match restarts.
LEMMA SimulateStep ==
  ASSUME NEW w \in World, NEW g \in Given
  PROVE  /\ Simulate(w, g) \in World
         /\ Simulate(w, g).tick = w.tick + 1
         /\ NoRestart \/ w.match.humans = 1 => Simulate(w, g).match.humans = w.match.humans
<1> DEFINE body == Step(w.body, Driven(w.match.humans, g))
<1>1. body \in Body /\ Result(body) \in Nat
  <2>1. w.body \in Body /\ w.match.humans \in Nat
    BY DEF World
  <2>2. Driven(w.match.humans, g) \in Given
    BY <2>1, DrivenType
  <2> QED BY <2>1, <2>2, StepAssumption
<1>2. Simulate(w, g) = IF Over(w.body)
                       THEN [FreshMatch(1) EXCEPT !.tick = w.tick + 1, !.seed = w.seed + 1]
                       ELSE [w EXCEPT !.tick = @ + 1, !.body = body,
                                      !.match.result = Result(body)]
  BY DEF Simulate
<1> HIDE DEF body
<1>3. CASE Over(w.body)
  <2>1. ~NoRestart
    BY <1>3 DEF NoRestart, World
  <2>2. Simulate(w, g) = [tick |-> w.tick + 1, match |-> [humans |-> 1, result |-> 0],
                          seed |-> w.seed + 1, body |-> FreshBody]
    BY <1>2, <1>3 DEF FreshMatch
  <2> QED BY <2>1, <2>2, SessionAssumption DEF World
<1>4. CASE ~Over(w.body)
  <2>1. Simulate(w, g) = [w EXCEPT !.tick = @ + 1, !.body = body,
                                   !.match.result = Result(body)]
    BY <1>2, <1>4
  <2>2. w.match \in [humans : Nat, result : Nat]
    BY DEF World
  <2>3. [w.match EXCEPT !.result = Result(body)]
          = [humans |-> w.match.humans, result |-> Result(body)]
    BY <2>2
  <2>4. Simulate(w, g) = [tick |-> w.tick + 1,
                          match |-> [humans |-> w.match.humans, result |-> Result(body)],
                          seed |-> w.seed, body |-> body]
    BY <2>1, <2>3 DEF World
  <2> QED BY <1>1, <2>2, <2>4 DEF World
<1> QED BY <1>3, <1>4

\* What a delta does to one word: the receiver ends up with the sender's word,
\* or keeps its own, and with the sender's for certain when the two baselines
\* agree on it.  In the word of the match the number of humans goes with the result.
LEMMA DeltaWords ==
  ASSUME NEW base \in World, NEW cur \in World, NEW mine \in World
  PROVE  LET out == DeltaDecode(mine, DeltaEncode(base, cur)) IN
         /\ out \in World
         /\ mine.tick = base.tick => out.tick = cur.tick
         /\ mine.seed = base.seed => out.seed = cur.seed
         /\ mine.body = base.body => out.body = cur.body
         /\ mine.match.result = base.match.result => out.match.result = cur.match.result
         /\ mine.match = base.match => out.match = cur.match
<1> DEFINE W == {"tick", "match", "seed", "body"}
           out == DeltaDecode(mine, DeltaEncode(base, cur))
<1>1. /\ DOMAIN base = W /\ DOMAIN cur = W /\ DOMAIN mine = W
  BY DEF World
<1>2. out = [w \in W |-> IF base[w] # cur[w] THEN cur[w] ELSE mine[w]]
  BY <1>1 DEF DeltaDecode, DeltaEncode
<1>3. out = [tick |-> out["tick"], match |-> out["match"],
             seed |-> out["seed"], body |-> out["body"]]
  BY <1>2
<1>4. /\ out["tick"] \in {cur.tick, mine.tick}
      /\ out["match"] \in {cur.match, mine.match}
      /\ out["seed"] \in {cur.seed, mine.seed}
      /\ out["body"] \in {cur.body, mine.body}
  BY <1>2
<1>5. out \in World
  BY <1>3, <1>4 DEF World
<1>6. mine.match.result = base.match.result => out.match.result = cur.match.result
  BY <1>2
<1> QED BY <1>2, <1>5, <1>6

-----------------------------------------------------------------------------
(* The replay.                                                             *)

\* The worlds of a replay, one after another: the k-th has the command of the tick
\* base + k on top.
Rolled(c, cmds, a, base) ==
  LET rolled[k \in Nat] ==
        IF k = 0 THEN a
        ELSE Simulate(rolled[k - 1], OwnCommand(c, cmds[(base + k) % History]))
  IN  rolled

\* The command that a ring has for tick t, as the one of each slot.
Own(c, cmds, t) == OwnCommand(c, cmds[t % History])

LEMMA RolledIs ==
  ASSUME NEW c \in Client, NEW cmds \in [Ring -> Command], NEW a \in World, NEW base \in Nat
  PROVE  /\ Rolled(c, cmds, a, base)[0] = a
         /\ \A k \in Nat : /\ Own(c, cmds, base + (k + 1)) \in Given
                          /\ Rolled(c, cmds, a, base)[k + 1]
                               = Simulate(Rolled(c, cmds, a, base)[k], Own(c, cmds, base + (k + 1)))
<1> DEFINE cmd(k) == cmds[(base + k) % History]
           rolled[k \in Nat] ==
             IF k = 0 THEN a ELSE Simulate(rolled[k - 1], OwnCommand(c, cmd(k)))
<1>1. \A k \in Nat : cmd(k) \in Command
  <2>1. History \in Nat \ {0}
    BY SessionAssumption
  <2> QED BY <2>1, ModRange DEF Ring
<1>2. \A k \in Nat : OwnCommand(c, cmd(k)) \in Given
  <2> HIDE DEF cmd
  <2> QED BY <1>1, OwnCommandType
<1>3. Rolled(c, cmds, a, base) = rolled
  BY DEF Rolled
<1> HIDE DEF cmd
<1> DEFINE G == [n \in Nat |-> [w \in World |-> Simulate(w, OwnCommand(c, cmd(n + 1)))]]
<1>4. G \in [Nat -> [World -> World]]
  BY <1>2, SimulateStep
<1>5. PICK f : Recurs(f, World, a, G)
  <2> HIDE DEF G
  <2> QED BY <1>4, RecursionExists
<1>6. f = [k \in Nat |-> IF k = 0 THEN a ELSE Simulate(f[k - 1], OwnCommand(c, cmd(k)))]
  <2>1. ASSUME NEW k \in Nat, k # 0
        PROVE  f[k] = Simulate(f[k - 1], OwnCommand(c, cmd(k)))
    <3>1. k - 1 \in Nat /\ (k - 1) + 1 = k
      BY <2>1
    <3>2. f[(k - 1) + 1] = G[k - 1][f[k - 1]]
      BY <1>5, <3>1 DEF Recurs
    <3> QED BY <3>1, <3>2, <1>5 DEF Recurs
  <2> QED BY <2>1, <1>5 DEF Recurs
<1>7. rolled = [k \in Nat |-> IF k = 0 THEN a ELSE Simulate(rolled[k - 1], OwnCommand(c, cmd(k)))]
  BY <1>6
<1> HIDE DEF rolled
<1>8. rolled[0] = a /\ \A k \in Nat : rolled[k + 1] = Simulate(rolled[k], OwnCommand(c, cmd(k + 1)))
  BY <1>7
<1>9. \A k \in Nat : OwnCommand(c, cmd(k + 1)) \in Given
  BY <1>2
<1> QED BY <1>3, <1>8, <1>9 DEF cmd, Own

LEMMA RolledFirst ==
  ASSUME NEW c \in Client, NEW cmds \in [Ring -> Command], NEW a \in World, NEW base \in Nat
  PROVE  Rolled(c, cmds, a, base)[0] = a
BY RolledIs

LEMMA RolledNext ==
  ASSUME NEW c \in Client, NEW cmds \in [Ring -> Command], NEW a \in World, NEW base \in Nat,
         NEW k \in Nat
  PROVE  /\ Own(c, cmds, base + (k + 1)) \in Given
         /\ Rolled(c, cmds, a, base)[k + 1]
              = Simulate(Rolled(c, cmds, a, base)[k], Own(c, cmds, base + (k + 1)))
BY RolledIs

\* A replay ends in a world, as many ticks on as it replayed commands, with the
\* humans it began with unless the match restarts on the way.
LEMMA ReplayType ==
  ASSUME NEW c \in Client, NEW a \in World, NEW from \in Nat, NEW target \in Nat,
         commands[c] \in [0 .. History - 1 -> Command]
  PROVE  /\ Replay(c, a, from, target) \in World
         /\ Replay(c, a, from, target).tick = a.tick + ReplayCount(from, target)
         /\ NoRestart \/ a.match.humans = 1 =>
              Replay(c, a, from, target).match.humans = a.match.humans
<1> DEFINE count  == ReplayCount(from, target)
           base   == target - count
           rolled == Rolled(c, commands[c], a, base)
           g(k)   == Own(c, commands[c], base + (k + 1))
<1>1. count \in Nat /\ base \in Nat
  BY SessionAssumption DEF ReplayCount
<1>2. Replay(c, a, from, target) = rolled[count]
  BY DEF Replay, Rolled
<1> HIDE DEF count, base
<1>3. rolled[0] = a /\ \A k \in Nat : g(k) \in Given /\ rolled[k + 1] = Simulate(rolled[k], g(k))
  <2> DEFINE cmds == commands[c]
  <2>1. cmds \in [Ring -> Command]
    BY DEF Ring
  <2> HIDE DEF cmds
  <2>2. Rolled(c, cmds, a, base)[0] = a
    BY <1>1, <2>1, RolledFirst
  <2>3. ASSUME NEW k \in Nat
        PROVE  /\ Own(c, cmds, base + (k + 1)) \in Given
               /\ Rolled(c, cmds, a, base)[k + 1]
                    = Simulate(Rolled(c, cmds, a, base)[k], Own(c, cmds, base + (k + 1)))
    BY <1>1, <2>1, RolledNext
  <2> QED BY <2>2, <2>3 DEF cmds
<1> HIDE DEF rolled, g
<1> DEFINE R == {k \in Nat : /\ rolled[k] \in World
                             /\ rolled[k].tick = a.tick + k
                             /\ NoRestart \/ a.match.humans = 1 =>
                                  rolled[k].match.humans = a.match.humans}
<1>4. 0 \in R
  <2>1. rolled[0] = a /\ a.tick \in Nat
    BY <1>3 DEF World
  <2> QED BY <2>1
<1>5. ASSUME NEW k \in Nat, k \in R PROVE k + 1 \in R
  <2>1. rolled[k + 1] = Simulate(rolled[k], g(k)) /\ g(k) \in Given
    BY <1>3
  <2>2. /\ rolled[k] \in World /\ rolled[k].tick = a.tick + k
        /\ NoRestart \/ a.match.humans = 1 => rolled[k].match.humans = a.match.humans
    BY <1>5
  <2>3. /\ Simulate(rolled[k], g(k)) \in World
        /\ Simulate(rolled[k], g(k)).tick = rolled[k].tick + 1
        /\ NoRestart \/ rolled[k].match.humans = 1 =>
             Simulate(rolled[k], g(k)).match.humans = rolled[k].match.humans
    BY <2>1, <2>2, SimulateStep
  <2>4. rolled[k + 1].tick = a.tick + (k + 1)
    <3>1. a.tick \in Nat
      BY DEF World
    <3> QED BY <2>1, <2>2, <2>3, <3>1
  <2> QED BY <2>1, <2>2, <2>3, <2>4
<1>6. Nat \subseteq R
  <2> HIDE DEF R
  <2> QED BY <1>4, <1>5, SetInduction
<1> QED BY <1>1, <1>2, <1>6 DEF count

-----------------------------------------------------------------------------
(* The inductive invariant.                                                *)

\* A datagram in flight after a send was in flight before, or is the one sent.
LEMMA SentAdds ==
  ASSUME NEW net, NEW m, NEW out \in Sent(net, m)
  PROVE  \A x \in out : x \in net \/ x = m
  BY DEF Sent

\* A receive puts nothing in flight.
LEMMA ReceivedRemoves ==
  ASSUME NEW net, NEW m, NEW out \in Received(net, m)
  PROVE  out \subseteq net
  BY DEF Received

\* The invariant holds at the start.
LEMMA InitIInv == Init => IInv
<1> SUFFICES ASSUME Init PROVE IInv
  OBVIOUS
<1>1. FreshMatch(ServerHumans) \in World /\ FreshMatch(ServerHumans).tick = 0
  BY SessionAssumption, FreshMatchType
<1>2. \A c \in Client : FreshMatch(ClientHumans[c]) \in World /\ FreshMatch(ClientHumans[c]).tick = 0
  BY SessionAssumption, FreshMatchType
<1>3. FreshMatch(1) \in World
  BY FreshMatchType
<1>4. Neutral \in Command
  BY SessionAssumption DEF Neutral, Command
<1>5. world.tick = 0 /\ past = [t \in {0} |-> world] /\ 0 .. 0 = {0}
  BY <1>1 DEF Init
<1>6. past \in [0 .. world.tick -> World]
  BY <1>1, <1>5 DEF Init
<1>7. ring \in [Client -> [Ring -> [tick : Tag, world : World]]]
  BY <1>3 DEF Init, Ring, Tag
<1>8. TypeOK
  <2>1. /\ world \in World
        /\ history \in [Ring -> World]
        /\ predicted \in [Client -> World]
        /\ confirmed \in [Client -> World]
    BY <1>1, <1>2 DEF Init, Ring
  <2>2. /\ latest \in Given
        /\ commands \in [Client -> [Ring -> Command]]
    BY <1>4 DEF Init, Given, Ring
  <2>3. /\ latestTick \in [Slot -> Tag]
        /\ clientBaseline \in [Slot -> Tag]
        /\ confirmedTick \in [Client -> Tag]
    BY DEF Init, Tag
  <2>4. /\ \A c \in Client : upstream[c] = {} /\ downstream[c] = {}
        /\ rewound \in [Client -> BOOLEAN]
    BY DEF Init
  <2> QED BY <1>6, <1>7, <2>1, <2>2, <2>3, <2>4 DEF TypeOK
<1>9. PastInv
  BY <1>1, <1>5, ModRange, SessionAssumption DEF Init, PastInv, Ring
<1>10. ClientInv
  BY DEF Init, ClientInv, Ring, NoTick
<1>11. UpInv
  BY SessionAssumption DEF Init, UpInv, HeldBy
<1>12. DownInv
  BY DEF Init, DownInv
<1> QED BY <1>8, <1>9, <1>10, <1>11, <1>12 DEF IInv

\* A tick writes the one slot of the ring whose world is a whole ring old.
LEMMA TickIInv ==
  ASSUME IInv, Tick
  PROVE  IInv'
<1> USE DEF IInv
<1>0. History \in Nat \ {0} /\ NoTick = -1
  BY SessionAssumption DEF NoTick
<1>1. /\ world' \in World
      /\ world'.tick = world.tick + 1
      /\ world.tick \in Nat
  <2>1. world \in World /\ latest \in Given
    BY DEF TypeOK
  <2>2. world' = Simulate(world, latest)
    BY DEF Tick
  <2> QED BY <2>1, <2>2, SimulateStep DEF World
<1>2. /\ past' \in [0 .. world'.tick -> World]
      /\ past'[world'.tick] = world'
      /\ \A t \in 0 .. world.tick : past'[t] = past[t]
  BY <1>1 DEF Tick, TypeOK
<1> DEFINE now == world'.tick
<1>3. now % History \in Ring
  <2>1. now \in Int
    BY <1>1
  <2> HIDE DEF now
  <2> QED BY <1>0, <2>1, ModRange DEF Ring
<1>4. history' \in [Ring -> World]
  BY <1>1, <1>3 DEF Tick, TypeOK
<1>5. TypeOK'
  BY <1>1, <1>2, <1>4 DEF Tick, TypeOK, clientVars
<1>6. PastInv'
  <2>1. \A t \in 0 .. world'.tick : past'[t].tick = t
    <3>1. \A t \in 0 .. world'.tick : t = world'.tick \/ t \in 0 .. world.tick
      BY <1>1
    <3> QED BY <1>2, <3>1 DEF PastInv
  <2>2. ASSUME NEW t \in 0 .. world'.tick, t + History > world'.tick
        PROVE  history'[t % History] = past'[t]
    <3>1. CASE t = world'.tick
      BY <1>2, <1>3, <3>1 DEF Tick, TypeOK
    <3>2. CASE t # world'.tick
      <4>1. t \in 0 .. world.tick /\ t + History > world.tick
        BY <1>0, <1>1, <2>2, <3>2
      <4>2. t % History # now % History
        <5>1. now \in Nat /\ t \in Nat /\ t < now /\ ~(now >= t + History)
          BY <1>0, <1>1, <2>2, <3>2
        <5> HIDE DEF now
        <5> QED BY <1>0, <5>1, ModGap
      <4>3. history'[t % History] = history[t % History]
        <5>1. t % History \in Ring
          BY <1>0, <4>1, ModRange DEF Ring
        <5> QED BY <4>2, <5>1 DEF Tick, TypeOK
      <4> QED BY <1>2, <4>1, <4>3 DEF PastInv
    <3> QED BY <3>1, <3>2
  <2> QED BY <1>2, <2>1, <2>2 DEF PastInv
<1>7. ClientInv'
  <2> SUFFICES ASSUME NEW c \in Client PROVE ClientInv!(c)'
    BY DEF ClientInv
  <2> QED BY <1>0, <1>1, <1>2 DEF ClientInv, Tick, clientVars, TypeOK, Tag
<1>8. UpInv'
  BY DEF UpInv, HeldBy, Tick, clientVars
<1>9. DownInv'
  <2> SUFFICES ASSUME NEW c \in Client, NEW m \in downstream'[c]
               PROVE  DownInv!(c)!(m)'
    BY DEF DownInv
  <2> QED
    BY <1>0, <1>1, <1>2 DEF DownInv, HeldBy, Base, Tick, clientVars, TypeOK, Tag
<1> QED BY <1>5, <1>6, <1>7, <1>8, <1>9

\* An input moves the slot's baseline to one that its client reported.
LEMMA OnInputIInv ==
  ASSUME IInv, NEW c \in Client, OnInput(c)
  PROVE  IInv'
<1> USE DEF IInv
<1>1. PICK m \in upstream[c] :
        /\ AcceptInput(c, m) \/ IgnoreInput(c, m)
        /\ \E net \in Received(upstream[c], m) : upstream' = [upstream EXCEPT ![c] = net]
        /\ UNCHANGED <<clientVars, downstream>>
  BY DEF OnInput
<1>2. m \in InputMsg /\ HeldBy(c, m.baseline) /\ c \in Slot
  BY SessionAssumption DEF TypeOK, UpInv
<1>3. \A d \in Client : upstream'[d] \subseteq upstream[d]
  BY <1>1, ReceivedRemoves DEF TypeOK
<1>4. UNCHANGED <<world, history, past>>
  BY <1>1 DEF AcceptInput, IgnoreInput, serverVars
<1>5. /\ latest' \in Given
      /\ latestTick' \in [Slot -> Tag]
      /\ clientBaseline' \in [Slot -> Tag]
      /\ \A d \in Client :
           clientBaseline'[d] = clientBaseline[d] \/ (d = c /\ clientBaseline'[d] = m.baseline)
  <2>1. CASE AcceptInput(c, m)
    BY <1>2, <2>1 DEF AcceptInput, TypeOK, InputMsg, Given, Tag
  <2>2. CASE IgnoreInput(c, m)
    BY <2>2 DEF IgnoreInput, serverVars, TypeOK
  <2> QED BY <1>1, <2>1, <2>2
<1>6. TypeOK'
  BY <1>1, <1>3, <1>4, <1>5 DEF TypeOK, clientVars
<1>7. PastInv'
  BY <1>4 DEF PastInv
<1>8. ClientInv'
  BY <1>1, <1>4 DEF ClientInv, clientVars
<1>9. UpInv'
  <2>1. \A d \in Client : \A b : HeldBy(d, b) => HeldBy(d, b)'
    BY <1>1 DEF HeldBy, clientVars
  <2>2. ASSUME NEW d \in Client PROVE HeldBy(d, clientBaseline[d])'
    BY <1>2, <1>5, <2>1 DEF UpInv
  <2>3. ASSUME NEW d \in Client, NEW x \in upstream'[d] PROVE HeldBy(d, x.baseline)'
    BY <1>3, <2>1 DEF UpInv
  <2> QED BY <2>2, <2>3 DEF UpInv
<1>10. DownInv'
  BY <1>1, <1>4 DEF DownInv, HeldBy, Base, clientVars
<1> QED BY <1>6, <1>7, <1>8, <1>9, <1>10

\* A snapshot is written against a world that is still in the server's ring.
LEMMA WriteSnapshotIInv ==
  ASSUME IInv, NEW c \in Client, WriteSnapshot(c)
  PROVE  IInv'
<1> USE DEF IInv
<1> DEFINE m == Snapshot(c)
<1>1. /\ UNCHANGED <<serverVars, clientVars, upstream>>
      /\ \A d \in Client : \A x \in downstream'[d] : x \in downstream[d] \/ (d = c /\ x = m)
  BY SentAdds DEF WriteSnapshot, TypeOK
<1>2. c \in Slot /\ clientBaseline[c] \in Tag /\ world.tick \in Nat /\ History \in Nat \ {0}
  BY SessionAssumption DEF TypeOK, World
<1>3. /\ m.tick = world.tick
      /\ m.baseline = IF HaveBaseline(c) THEN clientBaseline[c] ELSE NoTick
      /\ m.lastInput = latestTick[c]
  BY DEF Snapshot
<1>4. m.baseline \in Tag /\ m.lastInput \in Tag
  BY <1>2, <1>3 DEF TypeOK, Tag
<1>5. HeldBy(c, m.baseline)
  BY <1>3 DEF UpInv, HeldBy
<1>6. m.baseline # NoTick => m.baseline <= m.tick /\ m.tick < m.baseline + History
  BY <1>2, <1>3 DEF HaveBaseline, Tag, NoTick
<1>7. m.delta = DeltaEncode(Base(m), past[m.tick])
  <2>1. past[m.tick] = world
    BY <1>3 DEF PastInv
  <2>2. CASE HaveBaseline(c)
    <3>1. m.baseline = clientBaseline[c] /\ m.baseline # NoTick
      BY <1>3, <2>2 DEF HaveBaseline
    <3>2. clientBaseline[c] \in 0 .. world.tick /\ clientBaseline[c] + History > world.tick
      BY <1>2, <2>2 DEF HaveBaseline, Tag, NoTick
    <3>3. history[clientBaseline[c] % History] = past[clientBaseline[c]]
      BY <3>2 DEF PastInv
    <3> QED BY <2>1, <2>2, <3>1, <3>3 DEF Snapshot, Base, DiffedAgainst
  <2>3. CASE ~HaveBaseline(c)
    BY <1>3, <2>1, <2>3 DEF Snapshot, Base, DiffedAgainst
  <2> QED BY <2>2, <2>3
<1> HIDE DEF m
<1>8. TypeOK'
  BY <1>1, <1>2, <1>3, <1>4 DEF TypeOK, serverVars, clientVars
<1>9. PastInv' /\ ClientInv' /\ UpInv'
  BY <1>1 DEF PastInv, ClientInv, UpInv, HeldBy, serverVars, clientVars
<1>10. DownInv'
  <2> SUFFICES ASSUME NEW d \in Client, NEW x \in downstream'[d]
               PROVE  DownInv!(d)!(x)'
    BY DEF DownInv
  <2>1. UNCHANGED <<world, past, ring, confirmedTick>>
    BY <1>1 DEF serverVars, clientVars
  <2>2. CASE x \in downstream[d]
    BY <2>1, <2>2 DEF DownInv, HeldBy, Base
  <2>3. CASE d = c /\ x = m
    BY <1>2, <1>3, <1>5, <1>6, <1>7, <2>1, <2>3 DEF HeldBy, Base
  <2> QED BY <1>1, <2>2, <2>3
<1> QED BY <1>8, <1>9, <1>10

\* A command that is issued is one.
LEMMA IssuedType ==
  ASSUME IInv, NEW c \in Client, Predict(c)
  PROVE  Issued(c, predicted[c].tick + 1) \in Command
<1>1. predicted[c].tick \in Nat /\ MaxIssued \in Nat /\ predicted[c].tick < MaxIssued
  BY SessionAssumption DEF Predict, IInv, TypeOK, World
<1> QED BY <1>1 DEF Issued, Command

\* A prediction reports the newest snapshot held, which is in the client's ring.
LEMMA PredictIInv ==
  ASSUME IInv, NEW c \in Client, Predict(c)
  PROVE  IInv'
<1> USE DEF IInv
<1> DEFINE tick == predicted[c].tick + 1
           cmd == Issued(c, tick)
           m == [tick |-> tick, cmd |-> cmd, baseline |-> confirmedTick[c]]
<1>1. /\ predicted[c] \in World
      /\ predicted[c].tick \in Nat
      /\ cmd \in Command
      /\ OwnCommand(c, cmd) \in Given
  <2>1. predicted[c] \in World /\ predicted[c].tick \in Nat
    BY DEF TypeOK, World
  <2>2. cmd \in Command
    BY IssuedType
  <2> QED BY <2>1, <2>2, OwnCommandType
<1> HIDE DEF cmd
<1>2. /\ UNCHANGED <<serverVars, confirmed, confirmedTick, ring, rewound, downstream>>
      /\ \A d \in Client : \A x \in upstream'[d] : x \in upstream[d] \/ (d = c /\ x = m)
  BY SentAdds DEF Predict, TypeOK, cmd
<1>3. m \in InputMsg /\ m.baseline = confirmedTick[c]
  BY <1>1 DEF InputMsg, TypeOK
<1>4. predicted' \in [Client -> World]
  <2>1. Simulate(predicted[c], OwnCommand(c, cmd)) \in World
    BY <1>1, SimulateStep
  <2> QED BY <2>1 DEF Predict, TypeOK, cmd
<1>5. commands' \in [Client -> [Ring -> Command]]
  <2>1. tick % History \in Ring
    BY <1>1, SessionAssumption, ModRange DEF Ring
  <2> QED BY <1>1, <2>1 DEF Predict, TypeOK, cmd
<1> HIDE DEF m
<1>6. TypeOK'
  BY <1>2, <1>3, <1>4, <1>5 DEF TypeOK, serverVars
<1>7. PastInv' /\ ClientInv' /\ DownInv'
  BY <1>2 DEF PastInv, ClientInv, DownInv, HeldBy, Base, serverVars
<1>8. UpInv'
  <2>1. UNCHANGED <<clientBaseline, ring, confirmedTick>>
    BY <1>2 DEF serverVars
  <2>2. HeldBy(c, confirmedTick[c])
    BY DEF HeldBy, ClientInv, TypeOK, Tag
  <2>3. ASSUME NEW d \in Client, NEW x \in upstream'[d] PROVE HeldBy(d, x.baseline)'
    BY <1>2, <1>3, <2>1, <2>2 DEF UpInv, HeldBy
  <2> QED BY <2>1, <2>3 DEF UpInv, HeldBy
<1> QED BY <1>6, <1>7, <1>8

\* A snapshot that is not adopted changes nothing but the network.
LEMMA RejectIInv ==
  ASSUME IInv, NEW c \in Client, OnSnapshot(c), UNCHANGED clientVars
  PROVE  IInv'
<1> USE DEF IInv
<1>1. /\ UNCHANGED <<serverVars, clientVars, upstream>>
      /\ \A d \in Client : downstream'[d] \subseteq downstream[d]
  BY ReceivedRemoves DEF OnSnapshot, TypeOK
<1>2. TypeOK'
  BY <1>1 DEF TypeOK, serverVars, clientVars
<1>3. PastInv' /\ ClientInv' /\ UpInv'
  BY <1>1 DEF PastInv, ClientInv, UpInv, HeldBy, serverVars, clientVars
<1>4. DownInv'
  BY <1>1 DEF DownInv, HeldBy, Base, serverVars, clientVars
<1> QED BY <1>2, <1>3, <1>4

\* Decoding gives back the world the server had at that tick, whatever the two
\* ends think of the number of humans.
LEMMA Decoded ==
  ASSUME IInv, NEW c \in Client, NEW m \in downstream[c], Holds(c, m)
  PROVE  /\ DeltaDecode(Baseline(c, m), m.delta) \in World
         /\ Agree(DeltaDecode(Baseline(c, m), m.delta), past[m.tick])
<1> USE DEF IInv
<1>1. /\ m.tick \in 0 .. world.tick
      /\ past[m.tick] \in World
      /\ m.delta = DeltaEncode(Base(m), past[m.tick])
  BY DEF TypeOK, DownInv
<1>2. past[m.tick].match.humans \in Nat /\ predicted[c].match.humans \in Nat
  BY <1>1 DEF TypeOK, World
<1>3. CASE m.baseline = NoTick
  <2>1. /\ Base(m) = FreshMatch(past[m.tick].match.humans)
        /\ Baseline(c, m) = FreshMatch(predicted[c].match.humans)
    BY <1>3 DEF Base, Baseline
  <2>2. /\ Base(m) \in World /\ Baseline(c, m) \in World
        /\ Agree(Baseline(c, m), Base(m))
    BY <1>2, <2>1, FreshMatchType DEF FreshMatch, Agree
  <2> QED BY <1>1, <2>2, DeltaWords DEF Agree
<1>4. CASE m.baseline # NoTick
  <2> DEFINE i == m.baseline % History
  <2>1. m.baseline \in 0 .. m.tick /\ ring[c][i].tick = m.baseline /\ i \in Ring
    <3>1. m.baseline \in Nat /\ History \in Nat \ {0} /\ m.tick \in Nat
      BY <1>4, SessionAssumption DEF TypeOK, Tag
    <3>2. i \in Ring
      <4>1. m.baseline \in Int
        BY <3>1
      <4> QED BY <3>1, <4>1, ModRange DEF Ring
    <3> QED BY <1>4, <3>1, <3>2 DEF Holds, DownInv
  <2> HIDE DEF i
  <2>2. /\ Base(m) = past[m.baseline]
        /\ Baseline(c, m) = ring[c][i].world
    BY <1>4 DEF Base, Baseline, i
  <2>3. Base(m) \in World /\ Baseline(c, m) \in World
    <3>1. m.baseline \in 0 .. world.tick /\ past \in [0 .. world.tick -> World]
      <4>1. world.tick \in Nat /\ past \in [0 .. world.tick -> World]
        BY DEF TypeOK, World
      <4> QED BY <1>1, <2>1, <4>1
    <3>2. ring[c][i] \in [tick : Tag, world : World]
      BY <2>1 DEF TypeOK
    <3> QED BY <2>2, <3>1, <3>2
  <2>4. Agree(Baseline(c, m), Base(m))
    BY <1>4, <2>1, <2>2 DEF ClientInv
  <2> QED BY <1>1, <2>3, <2>4, DeltaWords DEF Agree
<1> QED BY <1>3, <1>4

\* Adopting a snapshot takes the slot of one that is a whole ring older.
LEMMA AdoptIInv ==
  ASSUME IInv, NEW c \in Client, NEW m \in downstream[c], Adopt(c, m),
         UNCHANGED <<serverVars, upstream>>,
         \A d \in Client : downstream'[d] \subseteq downstream[d]
  PROVE  IInv'
<1> USE DEF IInv
<1> DEFINE out == DeltaDecode(Baseline(c, m), m.delta)
           i   == m.tick % History
           new == [tick |-> m.tick, world |-> out]
<1>1. /\ History \in Nat \ {0} /\ NoTick = -1
      /\ m.tick \in 0 .. world.tick /\ m.tick \in Nat
      /\ i \in Ring
      /\ predicted[c].tick \in Nat
  <2>1. History \in Nat \ {0} /\ NoTick = -1 /\ m.tick \in 0 .. world.tick /\ m.tick \in Nat
    BY SessionAssumption DEF TypeOK, DownInv, NoTick
  <2>2. i \in Ring
    BY <2>1, ModRange DEF Ring
  <2>3. predicted[c].tick \in Nat
    BY DEF TypeOK, World
  <2> QED BY <2>1, <2>2, <2>3
<1>2. out \in World /\ Agree(out, past[m.tick])
  BY Decoded DEF Adopt
<1>3. confirmedTick[c] \in Tag /\ confirmedTick[c] < m.tick
  BY <1>1 DEF Adopt, Newer, TypeOK, Tag
<1> HIDE DEF out, i
<1>4. /\ confirmed' = [confirmed EXCEPT ![c] = out]
      /\ ring' = [ring EXCEPT ![c][i] = new]
      /\ predicted' = [predicted EXCEPT ![c] = Replay(c, out, m.tick, predicted[c].tick)]
      /\ confirmedTick' = [confirmedTick EXCEPT ![c] = m.tick]
      /\ rewound' = [rewound EXCEPT ![c] = @ \/ predicted'[c].tick < predicted[c].tick]
      /\ UNCHANGED commands
  BY DEF Adopt, out, i
<1>5. TypeOK'
  <2>1. predicted' \in [Client -> World]
    <3>1. commands[c] \in [0 .. History - 1 -> Command]
      BY DEF TypeOK, Ring
    <3>2. Replay(c, out, m.tick, predicted[c].tick) \in World
      BY <1>1, <1>2, <3>1, ReplayType
    <3> QED BY <1>4, <3>2 DEF TypeOK
  <2>2. confirmed' \in [Client -> World] /\ confirmedTick' \in [Client -> Tag]
    BY <1>1, <1>2, <1>4 DEF TypeOK, Tag
  <2>3. ring' \in [Client -> [Ring -> [tick : Tag, world : World]]]
    BY <1>1, <1>2, <1>4 DEF TypeOK, Tag
  <2>4. rewound' \in [Client -> BOOLEAN]
    BY <1>4 DEF TypeOK
  <2> QED BY <1>4, <2>1, <2>2, <2>3, <2>4 DEF TypeOK, serverVars
<1>6. PastInv'
  BY DEF PastInv, serverVars
<1>7. ASSUME NEW d \in Client, NEW j \in Ring
      PROVE  /\ ring'[d][j] = IF d = c /\ j = i THEN new ELSE ring[d][j]
             /\ confirmedTick'[d] = IF d = c THEN m.tick ELSE confirmedTick[d]
             /\ confirmed'[d] = IF d = c THEN out ELSE confirmed[d]
  BY <1>4, <1>1 DEF TypeOK
<1>8. ClientInv'
  <2> SUFFICES ASSUME NEW d \in Client PROVE ClientInv!(d)'
    BY DEF ClientInv
  <2>1. UNCHANGED <<world, past>>
    BY DEF serverVars
  <2>2. CASE d # c
    <3>1. \A j \in Ring : ring'[d][j] = ring[d][j]
      BY <1>7, <2>2
    <3>2. confirmedTick'[d] = confirmedTick[d] /\ confirmed'[d] = confirmed[d]
      BY <1>4, <2>2 DEF TypeOK
    <3>3. ring'[d] = ring[d]
      BY <1>4, <2>2 DEF TypeOK
    <3> QED BY <2>1, <3>2, <3>3 DEF ClientInv
  <2>3. CASE d = c
    <3>1. confirmedTick'[c] = m.tick /\ confirmed'[c] = out /\ ring'[c][i] = new
      BY <1>1, <1>7
    <3>2. ring'[c][m.tick % History].tick = m.tick
      BY <3>1 DEF i
    <3>3. ASSUME NEW j \in Ring, ring'[c][j].tick # NoTick
          PROVE  /\ ring'[c][j].tick % History = j
                 /\ ring'[c][j].tick <= m.tick
                 /\ Agree(ring'[c][j].world, past[ring'[c][j].tick])
      <4>1. CASE j = i
        BY <1>1, <1>2, <3>1, <4>1 DEF i
      <4>2. CASE j # i
        <5>1. ring'[c][j] = ring[c][j] /\ ring[c][j].tick \in Tag
          BY <1>7, <4>2 DEF TypeOK
        <5> QED BY <1>1, <1>3, <3>3, <5>1 DEF ClientInv, Tag
      <4> QED BY <4>1, <4>2
    <3> QED BY <1>1, <1>2, <2>1, <2>3, <3>1, <3>2, <3>3
  <2> QED BY <2>2, <2>3
<1>9. ASSUME NEW d \in Client, NEW b \in Tag, HeldBy(d, b)
      PROVE  HeldBy(d, b)'
  <2> SUFFICES ASSUME b # NoTick
               PROVE  /\ b <= confirmedTick'[d]
                      /\ ring'[d][b % History].tick = b \/ confirmedTick'[d] >= b + History
    BY DEF HeldBy
  <2>1. /\ b \in Nat /\ b <= confirmedTick[d]
        /\ ring[d][b % History].tick = b \/ confirmedTick[d] >= b + History
    BY <1>9 DEF HeldBy, Tag
  <2>2. b % History \in Ring
    BY <1>1, <2>1, ModRange DEF Ring
  <2>3. CASE d # c
    BY <1>7, <2>1, <2>2, <2>3
  <2>4. CASE d = c
    <3>1. confirmedTick'[d] = m.tick /\ b < m.tick
      BY <1>1, <1>3, <1>7, <2>1, <2>2, <2>4 DEF Tag
    <3>2. CASE b % History # i
      <4> DEFINE j == b % History
      <4>1. j \in Ring /\ j # i
        BY <2>2, <3>2
      <4> HIDE DEF j
      <4>2. ring'[d][j] = ring[d][j]
        BY <1>7, <4>1
      <4>3. b <= confirmedTick'[d]
        BY <1>1, <2>1, <3>1
      <4>4. confirmedTick[d] >= b + History => confirmedTick'[d] >= b + History
        BY <1>1, <1>3, <2>1, <2>4, <3>1 DEF Tag
      <4> QED BY <2>1, <4>2, <4>3, <4>4 DEF j
    <3>3. CASE b % History = i
      <4>1. m.tick >= b + History
        BY <1>1, <2>1, <3>1, <3>3, ModGap DEF i
      <4> QED BY <1>1, <2>1, <3>1, <4>1
    <3> QED BY <3>1, <3>2, <3>3
  <2> QED BY <2>3, <2>4
<1>10. UpInv'
  <2>1. UNCHANGED <<clientBaseline, upstream>>
    BY DEF serverVars
  <2>2. \A d \in Client : clientBaseline[d] \in Tag /\ \A x \in upstream[d] : x.baseline \in Tag
    BY SessionAssumption DEF TypeOK, InputMsg
  <2>3. ASSUME NEW d \in Client PROVE HeldBy(d, clientBaseline[d])'
    <3>1. HeldBy(d, clientBaseline[d])
      BY DEF UpInv
    <3>2. PICK b \in Tag : b = clientBaseline[d]
      BY <2>2
    <3> QED BY <1>9, <2>1, <3>1, <3>2 DEF HeldBy
  <2>4. ASSUME NEW d \in Client, NEW x \in upstream[d] PROVE HeldBy(d, x.baseline)'
    BY <1>9, <2>2 DEF UpInv
  <2> QED BY <2>1, <2>3, <2>4 DEF UpInv
<1>11. DownInv'
  <2> SUFFICES ASSUME NEW d \in Client, NEW x \in downstream'[d]
               PROVE  DownInv!(d)!(x)'
    BY DEF DownInv
  <2>1. x \in downstream[d] /\ x.baseline \in Tag
    BY DEF TypeOK
  <2>2. HeldBy(d, x.baseline)'
    BY <1>9, <2>1 DEF DownInv
  <2>3. UNCHANGED <<world, past>>
    BY DEF serverVars
  <2> QED BY <2>1, <2>2, <2>3 DEF DownInv, Base
<1> QED BY <1>5, <1>6, <1>8, <1>10, <1>11

\* Each action preserves the invariant.
LEMMA NextIInv == IInv /\ [Next]_vars => IInv'
<1> SUFFICES ASSUME IInv, [Next]_vars PROVE IInv'
  OBVIOUS
<1>1. CASE Tick
  BY <1>1, TickIInv
<1>2. ASSUME NEW c \in Client, OnInput(c) PROVE IInv'
  BY <1>2, OnInputIInv
<1>3. ASSUME NEW c \in Client, WriteSnapshot(c) PROVE IInv'
  BY <1>3, WriteSnapshotIInv
<1>4. ASSUME NEW c \in Client, Predict(c) PROVE IInv'
  BY <1>4, PredictIInv
<1>5. ASSUME NEW c \in Client, OnSnapshot(c) PROVE IInv'
  <2>1. PICK m \in downstream[c] :
          /\ Adopt(c, m) \/ Reject(c, m)
          /\ \E net \in Received(downstream[c], m) : downstream' = [downstream EXCEPT ![c] = net]
          /\ UNCHANGED <<serverVars, upstream>>
    BY <1>5 DEF OnSnapshot
  <2>2. \A d \in Client : downstream'[d] \subseteq downstream[d]
    BY <2>1, ReceivedRemoves DEF IInv, TypeOK
  <2>3. CASE Adopt(c, m)
    BY <2>1, <2>2, <2>3, AdoptIInv
  <2>4. CASE Reject(c, m)
    BY <1>5, <2>4, RejectIInv DEF Reject
  <2> QED BY <2>1, <2>3, <2>4
<1>6. CASE UNCHANGED vars
  BY <1>6 DEF vars, serverVars, clientVars, IInv, TypeOK, PastInv, ClientInv, UpInv,
              DownInv, HeldBy, Base
<1> QED BY <1>1, <1>2, <1>3, <1>4, <1>5, <1>6 DEF Next

-----------------------------------------------------------------------------
(* Safety.                                                                 *)

\* The inductive invariant always holds.
LEMMA Invariant == Spec => []IInv
<1>1. Init => IInv
  BY InitIInv
<1>2. IInv /\ [Next]_vars => IInv'
  BY NextIInv
<1> QED BY <1>1, <1>2, PTL DEF Spec

\* Every variable keeps its type, for every simulation and every network.
THEOREM TypeCorrect == Spec => []TypeOK
<1>1. IInv => TypeOK
  BY DEF IInv
<1> QED BY <1>1, Invariant, PTL

\* Whatever is lost, repeated or reordered, and however the two ends disagree on
\* the number of humans, a snapshot that is news to its client finds there the
\* baseline it was diffed against.
THEOREM DecodableAlways == Spec => []Decodable
<1>1. IInv => Decodable
  <2> SUFFICES ASSUME IInv, NEW c \in Client, NEW m \in downstream[c], Newer(c, m),
                      m.baseline # NoTick
               PROVE  ring[c][m.baseline % History].tick = m.baseline
    BY DEF Decodable, Holds
  <2>1. /\ m.tick \in Nat /\ m.baseline \in Nat
        /\ m.tick < m.baseline + History
        /\ m.baseline <= confirmedTick[c]
        /\ ring[c][m.baseline % History].tick = m.baseline
             \/ confirmedTick[c] >= m.baseline + History
    BY DEF IInv, TypeOK, DownInv, HeldBy, Tag
  <2>2. confirmedTick[c] \in Nat /\ m.tick > confirmedTick[c]
    BY <2>1 DEF IInv, TypeOK, Tag, Newer, NoTick
  <2>3. History \in Nat
    BY SessionAssumption
  <2> QED BY <2>1, <2>2, <2>3
<1> QED BY <1>1, Invariant, PTL

\* The number of humans is preserved by every step.
LEMMA HumansStep ==
  ASSUME HumansAgree, IInv, HumansInv, [Next]_vars
  PROVE  HumansInv'
<1> USE DEF IInv
<1>0. /\ NoRestart \/ ServerHumans = 1
      /\ world.tick \in Nat
  BY DEF HumansAgree, TypeOK, World
<1>1. CASE Tick
  <2>1. /\ world \in World /\ latest \in Given /\ world' = Simulate(world, latest)
        /\ world.match.humans = ServerHumans
    BY <1>0, <1>1 DEF TypeOK, Tick, HumansInv, PastInv
  <2>2. world'.tick = world.tick + 1 /\ world'.match.humans = ServerHumans
    BY <1>0, <2>1, SimulateStep
  <2>3. \A t \in 0 .. world'.tick : past'[t].match.humans = ServerHumans
    <3>1. \A t \in 0 .. world'.tick : t = world'.tick \/ t \in 0 .. world.tick
      BY <1>0, <2>2
    <3> QED BY <1>0, <1>1, <2>2, <3>1 DEF Tick, HumansInv
  <2> QED BY <1>1, <2>3 DEF HumansInv, Tick, clientVars
<1>2. ASSUME NEW c \in Client, OnInput(c) PROVE HumansInv'
  BY <1>2 DEF OnInput, AcceptInput, IgnoreInput, serverVars, clientVars, HumansInv
<1>3. ASSUME NEW c \in Client, WriteSnapshot(c) PROVE HumansInv'
  BY <1>3 DEF WriteSnapshot, serverVars, clientVars, HumansInv
<1>4. ASSUME NEW c \in Client, Predict(c) PROVE HumansInv'
  <2> DEFINE tick == predicted[c].tick + 1
             g    == OwnCommand(c, Issued(c, tick))
  <2>1. predicted[c] \in World /\ predicted[c].match.humans = ServerHumans
    BY DEF TypeOK, HumansInv
  <2>2. g \in Given
    <3>1. Issued(c, tick) \in Command
      BY <1>4, IssuedType
    <3> QED BY <3>1, OwnCommandType
  <2>3. Simulate(predicted[c], g).match.humans = ServerHumans
    BY <1>0, <2>1, <2>2, SimulateStep
  <2> QED BY <1>4, <2>3 DEF Predict, HumansInv, serverVars, TypeOK
<1>5. ASSUME NEW c \in Client, OnSnapshot(c) PROVE HumansInv'
  <2>1. PICK m \in downstream[c] :
          (Adopt(c, m) \/ Reject(c, m)) /\ UNCHANGED <<serverVars, upstream>>
    BY <1>5 DEF OnSnapshot
  <2>2. CASE Reject(c, m)
    BY <2>1, <2>2 DEF Reject, serverVars, clientVars, HumansInv
  <2>3. CASE Adopt(c, m)
    <3> DEFINE out == DeltaDecode(Baseline(c, m), m.delta)
    <3>1. out \in World /\ out.match.humans = ServerHumans
      <4>1. /\ m.tick \in 0 .. world.tick /\ past[m.tick] \in World
            /\ m.delta = DeltaEncode(Base(m), past[m.tick])
            /\ past[m.tick].match.humans = ServerHumans
        BY <1>0 DEF TypeOK, DownInv, HumansInv
      <4>2. /\ Base(m) \in World /\ Baseline(c, m) \in World
            /\ Baseline(c, m).match = Base(m).match
        <5>1. CASE m.baseline = NoTick
          <6>1. predicted[c].match.humans = ServerHumans /\ ServerHumans \in Nat
            BY SessionAssumption DEF HumansInv
          <6> QED BY <4>1, <5>1, <6>1, FreshMatchType DEF Base, Baseline
        <5>2. CASE m.baseline # NoTick
          <6> DEFINE i == m.baseline % History
          <6>1. m.baseline \in 0 .. world.tick
            BY <1>0, <4>1, <5>2 DEF TypeOK, DownInv, Tag
          <6>2. i \in Ring
            <7>1. m.baseline \in Int /\ History \in Nat \ {0}
              BY <6>1, SessionAssumption
            <7> QED BY <7>1, ModRange DEF Ring
          <6> HIDE DEF i
          <6>3. ring[c][i].tick # NoTick
            BY <2>3, <5>2 DEF Adopt, Holds, i
          <6>4. Base(m) = past[m.baseline] /\ Baseline(c, m) = ring[c][i].world
            BY <5>2 DEF Base, Baseline, i
          <6>5. past[m.baseline] \in World /\ ring[c][i].world \in World
            BY <6>1, <6>2 DEF TypeOK
          <6>6. /\ past[m.baseline].match.humans = ServerHumans
                /\ ring[c][i].world.match.humans = ServerHumans
            BY <6>1, <6>2, <6>3 DEF HumansInv
          <6>7. ring[c][i].world.match.result = past[m.baseline].match.result
            BY <2>3, <5>2, <6>2, <6>3 DEF ClientInv, Agree, Adopt, Holds, i
          <6> QED BY <6>4, <6>5, <6>6, <6>7 DEF World
        <5> QED BY <5>1, <5>2
      <4> QED BY <4>1, <4>2, DeltaWords
    <3> HIDE DEF out
    <3>2. Replay(c, out, m.tick, predicted[c].tick).match.humans = ServerHumans
      <4>1. /\ commands[c] \in [0 .. History - 1 -> Command]
            /\ m.tick \in Nat /\ predicted[c].tick \in Nat
        BY DEF TypeOK, Ring, World
      <4> QED BY <1>0, <3>1, <4>1, ReplayType, ZenonT(30)
    <3>3. m.tick % History \in Ring
      <4>1. m.tick \in Int /\ History \in Nat \ {0}
        BY SessionAssumption DEF TypeOK
      <4> QED BY <4>1, ModRange DEF Ring
    <3>4. /\ confirmed' = [confirmed EXCEPT ![c] = out]
          /\ ring' = [ring EXCEPT ![c][m.tick % History] = [tick |-> m.tick, world |-> out]]
          /\ predicted' = [predicted EXCEPT ![c] = Replay(c, out, m.tick, predicted[c].tick)]
      BY <2>3 DEF Adopt, out
    <3> QED BY <2>1, <3>1, <3>2, <3>3, <3>4 DEF HumansInv, serverVars, TypeOK
  <2> QED BY <2>1, <2>2, <2>3
<1>6. CASE UNCHANGED vars
  BY <1>6 DEF vars, serverVars, clientVars, HumansInv
<1> QED BY <1>1, <1>2, <1>3, <1>4, <1>5, <1>6 DEF Next

\* At the start the two ends were given the same number of humans.
LEMMA HumansInit == HumansAgree /\ Init => HumansInv
<1> SUFFICES ASSUME HumansAgree, Init PROVE HumansInv
  OBVIOUS
<1>1. FreshMatch(ServerHumans).match.humans = ServerHumans /\ FreshMatch(ServerHumans).tick = 0
  BY SessionAssumption, FreshMatchType
<1>2. world.tick = 0 /\ past = [t \in {0} |-> world] /\ 0 .. 0 = {0}
  BY <1>1 DEF Init
<1> QED BY <1>1, <1>2 DEF Init, HumansInv, HumansAgree, Ring, NoTick

\* What a client has confirmed for a tick is the world the server had at that
\* tick, provided the two ends agree on the number of humans and keep it.
THEOREM AuthoritativeAlways ==
  ASSUME HumansAgree
  PROVE  Spec => []Authoritative
<1>1. Init => HumansInv
  BY HumansInit
<1>2. IInv /\ HumansInv /\ [Next]_vars => HumansInv'
  BY HumansStep
<1>3. IInv /\ HumansInv => Authoritative
  <2> SUFFICES ASSUME IInv, HumansInv, NEW c \in Client, confirmedTick[c] # NoTick
               PROVE  /\ confirmedTick[c] \in DOMAIN past
                      /\ confirmed[c] = past[confirmedTick[c]]
    BY DEF Authoritative
  <2>1. /\ confirmedTick[c] \in 0 .. world.tick
        /\ Agree(confirmed[c], past[confirmedTick[c]])
    BY DEF IInv, TypeOK, ClientInv, Tag, World
  <2>2. /\ confirmed[c] \in World /\ past[confirmedTick[c]] \in World
        /\ DOMAIN past = 0 .. world.tick
    BY <2>1 DEF IInv, TypeOK
  <2>3. confirmed[c].match.humans = past[confirmedTick[c]].match.humans
    BY <2>1 DEF HumansInv
  <2>4. confirmed[c].match = past[confirmedTick[c]].match
    BY <2>1, <2>2, <2>3 DEF Agree, World
  <2> QED BY <2>1, <2>2, <2>4 DEF Agree, World
<1> QED BY <1>1, <1>2, <1>3, Invariant, PTL DEF Spec

-----------------------------------------------------------------------------
(* The prediction.                                                         *)

\* Only a snapshot more than History ticks behind sets a client's clock back, to the
\* last tick its replay reaches, and that is remembered.
LEMMA PredictionStep ==
  ASSUME IInv, [Next]_vars
  PROVE  \A c \in Client :
           /\ predicted'[c].tick < predicted[c].tick =>
                /\ predicted[c].tick > confirmedTick'[c] + History
                /\ predicted'[c].tick = confirmedTick'[c] + History
           /\ rewound'[c] = (rewound[c] \/ predicted'[c].tick < predicted[c].tick)
<1> USE DEF IInv
<1>0. /\ \A c \in Client : predicted[c] \in World /\ predicted[c].tick \in Nat
      /\ rewound \in [Client -> BOOLEAN]
  BY DEF TypeOK, World
<1>1. ASSUME NEW c \in Client, Predict(c), NEW d \in Client
      PROVE  ~(predicted'[d].tick < predicted[d].tick) /\ rewound' = rewound
  <2> DEFINE g == OwnCommand(c, Issued(c, predicted[c].tick + 1))
  <2>1. g \in Given
    BY <1>1, IssuedType, OwnCommandType
  <2>2. Simulate(predicted[c], g).tick = predicted[c].tick + 1
    BY <1>0, <2>1, SimulateStep
  <2>3. /\ rewound' = rewound
        /\ predicted'[d].tick = predicted[d].tick + 1 \/ predicted'[d] = predicted[d]
    BY <1>1, <2>2 DEF Predict, TypeOK
  <2> QED BY <1>0, <2>3
<1>2. ASSUME NEW c \in Client, NEW m \in downstream[c], Adopt(c, m), NEW d \in Client
      PROVE  /\ predicted'[d].tick < predicted[d].tick =>
                  /\ predicted[d].tick > confirmedTick'[d] + History
                  /\ predicted'[d].tick = confirmedTick'[d] + History
             /\ rewound'[d] = (rewound[d] \/ predicted'[d].tick < predicted[d].tick)
  <2> DEFINE out    == DeltaDecode(Baseline(c, m), m.delta)
             target == predicted[c].tick
  <2>1. out \in World /\ out.tick = m.tick /\ m.tick \in Nat
    <3>1. m.tick \in 0 .. world.tick /\ m.tick \in Nat
      BY DEF TypeOK, DownInv, World
    <3>2. out \in World /\ Agree(out, past[m.tick])
      BY <1>2, Decoded DEF Adopt
    <3> QED BY <3>1, <3>2 DEF PastInv, Agree
  <2>2. /\ predicted' = [predicted EXCEPT ![c] = Replay(c, out, m.tick, target)]
        /\ confirmedTick' = [confirmedTick EXCEPT ![c] = m.tick]
        /\ rewound' = [rewound EXCEPT ![c] = @ \/ predicted'[c].tick < predicted[c].tick]
    BY <1>2 DEF Adopt
  <2>3. target \in Nat
    BY <1>0
  <2> HIDE DEF out
  <2>4. Replay(c, out, m.tick, target).tick = m.tick + ReplayCount(m.tick, target)
    <3>1. commands[c] \in [0 .. History - 1 -> Command]
      BY DEF TypeOK, Ring
    <3> HIDE DEF target
    <3>2. Replay(c, out, m.tick, target).tick = out.tick + ReplayCount(m.tick, target)
      BY <2>1, <2>3, <3>1, ReplayType
    <3> QED BY <2>1, <3>2
  <2>5. m.tick + ReplayCount(m.tick, target) < target =>
          /\ target > m.tick + History
          /\ ReplayCount(m.tick, target) = History
    BY <2>1, <2>3, SessionAssumption DEF ReplayCount
  <2>6. CASE d = c
    <3>1. /\ predicted'[c].tick = m.tick + ReplayCount(m.tick, target)
          /\ confirmedTick'[c] = m.tick
      BY <2>2, <2>4 DEF TypeOK
    <3>2. rewound'[c] = (rewound[c] \/ predicted'[c].tick < predicted[c].tick)
      BY <1>0, <2>2
    <3>3. predicted'[c].tick < predicted[c].tick =>
            /\ predicted[c].tick > confirmedTick'[c] + History
            /\ predicted'[c].tick = confirmedTick'[c] + History
      BY <2>5, <3>1
    <3> QED BY <2>6, <3>2, <3>3, Zenon
  <2>7. CASE d # c
    <3>1. predicted'[d] = predicted[d] /\ rewound'[d] = rewound[d]
      BY <1>0, <2>2, <2>7 DEF TypeOK
    <3>2. ~(predicted[d].tick < predicted[d].tick)
      BY <1>0
    <3>3. rewound[d] \in BOOLEAN
      BY <1>0
    <3> QED BY <3>1, <3>2, <3>3, Zenon
  <2> QED BY <2>6, <2>7
<1>3. ASSUME UNCHANGED <<predicted, rewound>>, NEW d \in Client
      PROVE  ~(predicted'[d].tick < predicted[d].tick) /\ rewound' = rewound
  BY <1>0, <1>3
<1>4. Next => \/ UNCHANGED <<predicted, rewound>>
              \/ \E c \in Client : Predict(c)
              \/ \E c \in Client : \E m \in downstream[c] : Adopt(c, m)
  BY DEF Next, Tick, OnInput, WriteSnapshot, OnSnapshot, Reject, clientVars
<1>5. UNCHANGED vars => UNCHANGED <<predicted, rewound>>
  BY DEF vars, clientVars
<1> SUFFICES ASSUME NEW d \in Client
             PROVE  /\ predicted'[d].tick < predicted[d].tick =>
                         /\ predicted[d].tick > confirmedTick'[d] + History
                         /\ predicted'[d].tick = confirmedTick'[d] + History
                    /\ rewound'[d] = (rewound[d] \/ predicted'[d].tick < predicted[d].tick)
  OBVIOUS
<1>6. ASSUME ~(predicted'[d].tick < predicted[d].tick), rewound' = rewound
      PROVE  rewound'[d] = (rewound[d] \/ predicted'[d].tick < predicted[d].tick)
  BY <1>0, <1>6, Zenon
<1>7. CASE UNCHANGED <<predicted, rewound>>
  BY <1>3, <1>6, <1>7, Zenon
<1>8. ASSUME NEW c \in Client, Predict(c)
      PROVE  /\ ~(predicted'[d].tick < predicted[d].tick)
             /\ rewound'[d] = (rewound[d] \/ predicted'[d].tick < predicted[d].tick)
  BY <1>1, <1>6, <1>8, Zenon
<1> QED BY <1>2, <1>4, <1>5, <1>6, <1>7, <1>3, <1>8, Zenon

\* The prediction moves back for a snapshot more than History ticks behind it and for
\* no other, and then no further than to the last tick whose command the ring has, for
\* every ring size and every network (session.cpp:153-156, 167).
THEOREM RewindsPastTheRingAlways == Spec => RewindsPastTheRing
<1>1. IInv /\ [Next]_vars =>
        [\A c \in Client : predicted'[c].tick < predicted[c].tick =>
           /\ predicted[c].tick > confirmedTick'[c] + History
           /\ predicted'[c].tick = confirmedTick'[c] + History]_vars
  BY PredictionStep
<1> QED BY <1>1, Invariant, PTL DEF Spec, RewindsPastTheRing

\* Every command on its way is from a tick its client has reached, until the clock is
\* set back.
ClockInv ==
  \A c \in Client : ~rewound[c] =>
    /\ latestTick[c] <= predicted[c].tick
    /\ \A m \in upstream[c] : m.tick <= predicted[c].tick

LEMMA ClockInvariant == Spec => []ClockInv
<1>1. Init => ClockInv
  <2> SUFFICES ASSUME Init, NEW c \in Client
               PROVE  latestTick[c] <= predicted[c].tick /\ upstream[c] = {}
    BY DEF ClockInv
  <2>1. predicted[c].tick = 0
    BY SessionAssumption, FreshMatchType DEF Init
  <2> QED BY <2>1, SessionAssumption DEF Init, NoTick
<1>2. IInv /\ ClockInv /\ [Next]_vars => ClockInv'
  <2> SUFFICES ASSUME IInv, ClockInv, [Next]_vars, NEW c \in Client, ~rewound'[c]
               PROVE  /\ latestTick'[c] <= predicted'[c].tick
                      /\ \A m \in upstream'[c] : m.tick <= predicted'[c].tick
    BY DEF ClockInv
  <2>1. ~(predicted'[c].tick < predicted[c].tick) /\ ~rewound[c]
    BY PredictionStep
  <2>2. IInv'
    BY NextIInv
  <2>3. /\ latestTick[c] \in Int /\ predicted[c].tick \in Int
        /\ latestTick'[c] \in Int /\ predicted'[c].tick \in Int
        /\ \A m \in upstream[c] : m.tick \in Int
    <3>1. latestTick[c] \in Int /\ latestTick'[c] \in Int
      <4>1. latestTick \in [Slot -> Tag] /\ latestTick' \in [Slot -> Tag]
        BY <2>2 DEF IInv, TypeOK
      <4>2. c \in Slot
        BY SessionAssumption
      <4> QED BY <4>1, <4>2 DEF Tag, NoTick
    <3>2. predicted[c].tick \in Int /\ predicted'[c].tick \in Int
      <4>1. predicted \in [Client -> World] /\ predicted' \in [Client -> World]
        BY <2>2 DEF IInv, TypeOK
      <4> QED BY <4>1 DEF World
    <3>3. \A m \in upstream[c] : m.tick \in Int
      <4>1. upstream[c] \subseteq InputMsg
        BY DEF IInv, TypeOK
      <4> QED BY <4>1 DEF InputMsg
    <3> QED BY <3>1, <3>2, <3>3
  <2>4. latestTick'[c] = latestTick[c] \/ \E m \in upstream[c] : latestTick'[c] = m.tick
    BY SessionAssumption, ZenonT(30) DEF Next, Tick, OnInput, AcceptInput, IgnoreInput, WriteSnapshot, Predict,
       OnSnapshot, vars, serverVars, IInv, TypeOK
  <2>5. ASSUME NEW m \in upstream'[c]
        PROVE  m \in upstream[c] \/ m.tick = predicted'[c].tick
    <3>1. ASSUME NEW d \in Client, OnInput(d) PROVE m \in upstream[c]
      BY <3>1, ReceivedRemoves DEF OnInput, IInv, TypeOK
    <3>2. ASSUME NEW d \in Client, Predict(d)
          PROVE  m \in upstream[c] \/ m.tick = predicted'[c].tick
      <4> DEFINE tick == predicted[d].tick + 1
                 cmd  == Issued(d, tick)
                 x    == [tick |-> tick, cmd |-> cmd, baseline |-> confirmedTick[d]]
      <4>1. m \in upstream[c] \/ (c = d /\ m = x)
        BY <3>2, SentAdds DEF Predict, IInv, TypeOK
      <4>2. predicted[d] \in World /\ OwnCommand(d, cmd) \in Given
        BY <3>2, IssuedType, OwnCommandType DEF IInv, TypeOK
      <4>3. Simulate(predicted[d], OwnCommand(d, cmd)).tick = tick
        BY <4>2, SimulateStep
      <4>4. predicted'[d].tick = tick
        BY <3>2, <4>3 DEF Predict, IInv, TypeOK
      <4> QED BY <4>1, <4>4
    <3>3. CASE UNCHANGED upstream
      BY <3>3
    <3> QED BY <3>1, <3>2, <3>3 DEF Next, Tick, WriteSnapshot, OnSnapshot, vars
  <2> QED BY <2>1, <2>3, <2>4, <2>5 DEF ClockInv
<1> QED BY <1>1, <1>2, Invariant, PTL DEF Spec

\* Until its client's clock is set back a slot's command is that of its tick, and of two
\* commands on their way, or of one and the slot's, the later reports no older a
\* baseline.
OrderInv ==
  \A c \in Client : ~rewound[c] =>
    /\ latest[c] = IF latestTick[c] = NoTick THEN Neutral ELSE latestTick[c]
    /\ \A m \in upstream[c] :
         /\ m.cmd = m.tick
         /\ m.tick >= latestTick[c] => m.baseline >= clientBaseline[c]
    /\ \A m, n \in upstream[c] : m.tick <= n.tick => m.baseline <= n.baseline

LEMMA OrderTypes ==
  ASSUME IInv, NEW c \in Client
  PROVE  /\ latestTick[c] \in Tag /\ clientBaseline[c] \in Tag /\ confirmedTick[c] \in Tag
         /\ clientBaseline[c] <= confirmedTick[c]
         /\ predicted[c].tick \in Nat /\ predicted[c] \in World
         /\ \A m \in upstream[c] : /\ m.tick \in Nat /\ m.baseline \in Tag
                                   /\ m.baseline <= confirmedTick[c]
<1>1. /\ latestTick[c] \in Tag /\ clientBaseline[c] \in Tag /\ confirmedTick[c] \in Tag
      /\ upstream[c] \subseteq InputMsg /\ predicted[c] \in World
  BY SessionAssumption DEF IInv, TypeOK
<1>2. \A m \in upstream[c] : m.tick \in Nat /\ m.baseline \in Tag
  BY <1>1 DEF InputMsg
<1>3. \A b \in Tag : HeldBy(c, b) => b <= confirmedTick[c]
  BY <1>1 DEF HeldBy, Tag, NoTick
<1>4. HeldBy(c, clientBaseline[c]) /\ \A m \in upstream[c] : HeldBy(c, m.baseline)
  BY DEF IInv, UpInv
<1> QED BY <1>1, <1>2, <1>3, <1>4 DEF World

\* Only the acceptance of an input changes what a slot holds.
LEMMA SlotStep ==
  ASSUME IInv, [Next]_vars
  PROVE  \/ UNCHANGED <<latest, latestTick, clientBaseline>>
         \/ \E c \in Client : \E m \in upstream[c] :
              AcceptInput(c, m) /\ \A d \in Client : upstream'[d] \subseteq upstream[d]
<1>1. ASSUME NEW c \in Client, OnInput(c)
      PROVE  \/ UNCHANGED <<latest, latestTick, clientBaseline>>
             \/ \E m \in upstream[c] :
                  AcceptInput(c, m) /\ \A d \in Client : upstream'[d] \subseteq upstream[d]
  <2>1. PICK m \in upstream[c] :
          /\ AcceptInput(c, m) \/ IgnoreInput(c, m)
          /\ \E net \in Received(upstream[c], m) : upstream' = [upstream EXCEPT ![c] = net]
    BY <1>1 DEF OnInput
  <2>2. \A d \in Client : upstream'[d] \subseteq upstream[d]
    BY <2>1, ReceivedRemoves
  <2> QED BY <2>1, <2>2 DEF IgnoreInput, serverVars
<1> QED BY <1>1 DEF Next, Tick, WriteSnapshot, Predict, OnSnapshot, vars, serverVars

LEMMA AcceptMoves ==
  ASSUME IInv, OrderInv, NEW c \in Client, NEW m \in upstream[c], AcceptInput(c, m)
  PROVE  /\ ~rewound[c] =>
              /\ latestTick'[c] = m.tick /\ latest'[c] = m.tick
              /\ clientBaseline'[c] = m.baseline
              /\ latestTick[c] <= m.tick /\ latest[c] <= m.tick
              /\ clientBaseline[c] <= m.baseline
         /\ \A d \in Client : d # c => /\ latestTick'[d] = latestTick[d] /\ latest'[d] = latest[d]
                                       /\ clientBaseline'[d] = clientBaseline[d]
<1>1. /\ latestTick \in [Slot -> Tag] /\ clientBaseline \in [Slot -> Tag]
      /\ latest \in [Slot -> Command] /\ Client \subseteq Slot
  BY SessionAssumption DEF IInv, TypeOK, Given
<1>2. ~rewound[c] => m.cmd = m.tick
  BY DEF OrderInv
<1>3. /\ latestTick'[c] = m.tick /\ clientBaseline'[c] = m.baseline
      /\ ~rewound[c] => latest'[c] = m.tick
      /\ \A d \in Client : d # c => /\ latestTick'[d] = latestTick[d] /\ latest'[d] = latest[d]
                                    /\ clientBaseline'[d] = clientBaseline[d]
  BY <1>1, <1>2 DEF AcceptInput
<1>4. latestTick[c] \in Tag /\ m.tick \in Nat
  BY OrderTypes
<1>5. latestTick[c] <= m.tick
  BY <1>4 DEF AcceptInput, Tag, NoTick
<1>6. ~rewound[c] => latest[c] <= m.tick
  BY <1>4, <1>5 DEF OrderInv, Neutral, NoTick
<1>7. ~rewound[c] => clientBaseline[c] <= m.baseline
  <2>1. clientBaseline[c] \in Tag /\ m.baseline \in Tag
    BY OrderTypes
  <2>2. ~rewound[c] => m.baseline >= clientBaseline[c]
    BY <1>4, <1>5 DEF OrderInv, Tag, NoTick
  <2> QED BY <2>1, <2>2 DEF Tag, NoTick
<1> QED BY <1>3, <1>5, <1>6, <1>7

\* What a client whose clock was not set back puts on its way is later than all it
\* sent before.
LEMMA UpStep ==
  ASSUME IInv, ClockInv, [Next]_vars, NEW c \in Client, NEW x \in upstream'[c], ~rewound[c]
  PROVE  \/ x \in upstream[c]
         \/ /\ x.cmd = x.tick /\ x.tick = predicted[c].tick + 1 /\ x.baseline = confirmedTick[c]
            /\ UNCHANGED serverVars
            /\ \A y \in upstream'[c] : y = x \/ y \in upstream[c]
<1>1. ASSUME NEW d \in Client, OnInput(d) PROVE x \in upstream[c]
  BY <1>1, ReceivedRemoves DEF OnInput, IInv, TypeOK
<1>2. ASSUME NEW d \in Client, Predict(d), x \notin upstream[c]
      PROVE  /\ x.cmd = x.tick /\ x.tick = predicted[c].tick + 1 /\ x.baseline = confirmedTick[c]
             /\ UNCHANGED serverVars
             /\ \A y \in upstream'[c] : y = x \/ y \in upstream[c]
  <2> DEFINE tick == predicted[d].tick + 1
             m    == [tick |-> tick, cmd |-> Issued(d, tick), baseline |-> confirmedTick[d]]
  <2>1. \A y \in upstream'[c] : y \in upstream[c] \/ (c = d /\ y = m)
    BY <1>2, SentAdds DEF Predict, IInv, TypeOK
  <2>2. c = d /\ x = m
    BY <1>2, <2>1
  <2>3. Issued(c, predicted[c].tick + 1) = predicted[c].tick + 1
    BY DEF Issued
  <2> QED BY <1>2, <2>1, <2>2, <2>3 DEF Predict
<1>3. CASE UNCHANGED upstream
  BY <1>3
<1> QED BY <1>1, <1>2, <1>3 DEF Next, Tick, WriteSnapshot, OnSnapshot, vars

LEMMA OrderStep ==
  ASSUME IInv, ClockInv, OrderInv, [Next]_vars
  PROVE  OrderInv'
<1> SUFFICES ASSUME NEW c \in Client, ~rewound'[c]
             PROVE  /\ latest'[c] = IF latestTick'[c] = NoTick THEN Neutral ELSE latestTick'[c]
                    /\ \A m \in upstream'[c] :
                         /\ m.cmd = m.tick
                         /\ m.tick >= latestTick'[c] => m.baseline >= clientBaseline'[c]
                    /\ \A m, n \in upstream'[c] : m.tick <= n.tick => m.baseline <= n.baseline
  BY DEF OrderInv
<1>0. ~rewound[c]
  BY PredictionStep
<1>1. CASE \E x \in upstream'[c] : x \notin upstream[c]
  <2>1. PICK x \in upstream'[c] : x \notin upstream[c]
    BY <1>1
  <2>2. /\ x.cmd = x.tick /\ x.tick = predicted[c].tick + 1 /\ x.baseline = confirmedTick[c]
        /\ UNCHANGED <<latest, latestTick, clientBaseline>>
        /\ \A y \in upstream'[c] : y = x \/ y \in upstream[c]
    BY <1>0, <2>1, UpStep DEF serverVars
  <2>3. /\ predicted[c].tick \in Nat /\ confirmedTick[c] \in Tag /\ clientBaseline[c] \in Tag
        /\ clientBaseline[c] <= confirmedTick[c]
        /\ \A y \in upstream[c] : /\ y.tick \in Nat /\ y.baseline \in Tag
                                  /\ y.baseline <= confirmedTick[c]
    BY OrderTypes
  <2>4. \A y \in upstream[c] : y.tick <= predicted[c].tick
    BY <1>0 DEF ClockInv
  <2>5. \A y \in upstream[c] : ~(x.tick <= y.tick) /\ y.baseline <= x.baseline
    BY <2>2, <2>3, <2>4
  <2>6. x.baseline >= clientBaseline[c] /\ x.baseline <= x.baseline
    BY <2>2, <2>3 DEF Tag, NoTick
  <2> QED BY <1>0, <2>2, <2>5, <2>6, Zenon DEF OrderInv
<1>2. CASE upstream'[c] \subseteq upstream[c]
  <2>1. CASE UNCHANGED <<latest, latestTick, clientBaseline>>
    BY <1>0, <1>2, <2>1 DEF OrderInv
  <2>2. ASSUME NEW d \in Client, NEW m \in upstream[d], AcceptInput(d, m)
        PROVE  /\ latest'[c] = IF latestTick'[c] = NoTick THEN Neutral ELSE latestTick'[c]
               /\ \A n \in upstream[c] : n.tick >= latestTick'[c] => n.baseline >= clientBaseline'[c]
    <3>1. CASE c = d
      <4>1. latestTick'[c] = m.tick /\ latest'[c] = m.tick /\ clientBaseline'[c] = m.baseline
        BY <1>0, <2>2, <3>1, AcceptMoves
      <4>2. m.tick \in Nat /\ m.baseline \in Tag
            /\ \A n \in upstream[c] : n.tick \in Nat /\ n.baseline \in Tag
        BY <3>1, OrderTypes
      <4>3. \A n \in upstream[c] : m.tick <= n.tick => m.baseline <= n.baseline
        BY <1>0, <3>1 DEF OrderInv
      <4> QED BY <4>1, <4>2, <4>3 DEF Tag, NoTick
    <3>2. CASE c # d
      BY <1>0, <2>2, <3>2, AcceptMoves DEF OrderInv
    <3> QED BY <3>1, <3>2
  <2>3. \/ UNCHANGED <<latest, latestTick, clientBaseline>>
        \/ \E d \in Client : \E m \in upstream[d] : AcceptInput(d, m)
    BY SlotStep
  <2> QED BY <1>0, <1>2, <2>1, <2>2, <2>3 DEF OrderInv
<1> QED BY <1>1, <1>2

\* Nothing late or repeated undoes a slot's command, its tick or the baseline that came
\* with it, as long as its client's clock has not been set back (session.cpp:35-43).
THEOREM InputsAdvanceAlways == Spec => InputsAdvance
<1>1. Init => OrderInv
  BY SessionAssumption DEF Init, OrderInv
<1>2. IInv /\ ClockInv /\ OrderInv /\ [Next]_vars => OrderInv'
  BY OrderStep
<1>3. IInv /\ OrderInv /\ [Next]_vars =>
        [\A c \in Client : ~rewound[c] =>
           /\ latestTick'[c] >= latestTick[c]
           /\ clientBaseline'[c] >= clientBaseline[c]
           /\ latest'[c] >= latest[c]]_vars
  <2> SUFFICES ASSUME IInv, OrderInv, [Next]_vars, NEW c \in Client, ~rewound[c]
               PROVE  /\ latestTick'[c] >= latestTick[c]
                      /\ clientBaseline'[c] >= clientBaseline[c]
                      /\ latest'[c] >= latest[c]
    OBVIOUS
  <2>1. latestTick[c] \in Int /\ clientBaseline[c] \in Int /\ latest[c] \in Int
    BY OrderTypes DEF OrderInv, Tag, NoTick, Neutral
  <2>2. ASSUME NEW d \in Client, NEW m \in upstream[d], AcceptInput(d, m)
        PROVE  /\ latestTick'[c] >= latestTick[c]
               /\ clientBaseline'[c] >= clientBaseline[c]
               /\ latest'[c] >= latest[c]
    <3>1. CASE c = d
      <4>1. m.tick \in Int /\ m.baseline \in Int
        BY OrderTypes DEF Tag, NoTick
      <4> QED BY <2>1, <2>2, <3>1, <4>1, AcceptMoves
    <3>2. CASE c # d
      BY <2>1, <2>2, <3>2, AcceptMoves
    <3> QED BY <3>1, <3>2
  <2> QED BY <2>1, <2>2, SlotStep
<1> QED BY <1>1, <1>2, <1>3, ClockInvariant, Invariant, PTL DEF Spec, InputsAdvance

-----------------------------------------------------------------------------
(* The prediction is the replay.                                           *)

LEMMA RingSlot ==
  ASSUME NEW x \in Nat
  PROVE  x % History \in Ring
BY SessionAssumption, ModRange DEF Ring

\* Two rings have the same commands for the n ticks after `base'.
SameCommands(mine, yours, base, n) ==
  \A k \in 1 .. n : mine[(base + k) % History] = yours[(base + k) % History]

\* Then replays of those ticks give the same worlds.
LEMMA RolledAgree ==
  ASSUME NEW c \in Client, NEW a \in World, NEW base \in Nat, NEW n \in Nat,
         NEW mine \in [Ring -> Command], NEW yours \in [Ring -> Command],
         SameCommands(mine, yours, base, n)
  PROVE  Rolled(c, mine, a, base)[n] = Rolled(c, yours, a, base)[n]
<1> DEFINE f == Rolled(c, mine, a, base)
           g == Rolled(c, yours, a, base)
           R == {k \in Nat : k <= n => f[k] = g[k]}
<1>1. f[0] = a /\ g[0] = a
  BY RolledFirst
<1>2. ASSUME NEW k \in Nat, k \in R PROVE k + 1 \in R
  <2> SUFFICES ASSUME k + 1 <= n PROVE f[k + 1] = g[k + 1]
    OBVIOUS
  <2>1. f[k] = g[k] /\ k + 1 \in 1 .. n
    BY <1>2
  <2>2. Own(c, mine, base + (k + 1)) = Own(c, yours, base + (k + 1))
    BY <2>1 DEF Own, SameCommands
  <2>3. f[k + 1] = Simulate(f[k], Own(c, mine, base + (k + 1)))
    BY RolledNext
  <2>4. g[k + 1] = Simulate(g[k], Own(c, yours, base + (k + 1)))
    BY RolledNext
  <2> HIDE DEF f, g
  <2> QED BY <2>1, <2>2, <2>3, <2>4
<1> HIDE DEF f, g
<1>3. 0 \in R
  BY <1>1
<1>4. Nat \subseteq R
  <2> HIDE DEF R
  <2> QED BY <1>2, <1>3, SetInduction
<1> QED BY <1>4 DEF f, g

\* A replay of fewer ticks than the ring has commands starts at the world it is of.
ReplayInv ==
  \A c \in Client :
    /\ confirmed[c].tick <= predicted[c].tick
    /\ predicted[c].tick - confirmed[c].tick < History =>
         predicted[c] = Rolled(c, commands[c], confirmed[c], confirmed[c].tick)
                          [predicted[c].tick - confirmed[c].tick]

LEMMA ReplayInvInit == Init => ReplayInv
<1> SUFFICES ASSUME Init, NEW c \in Client
             PROVE  /\ confirmed[c].tick <= predicted[c].tick
                    /\ predicted[c] = Rolled(c, commands[c], confirmed[c], confirmed[c].tick)
                                        [predicted[c].tick - confirmed[c].tick]
  BY DEF ReplayInv
<1>1. predicted[c] \in World /\ predicted[c].tick = 0 /\ confirmed[c] = predicted[c]
  BY SessionAssumption, FreshMatchType DEF Init
<1>2. commands[c] \in [Ring -> Command]
  BY InitIInv DEF IInv, TypeOK
<1>3. Rolled(c, commands[c], predicted[c], 0)[0] = predicted[c]
  BY <1>1, <1>2, RolledFirst
<1>4. predicted[c].tick - confirmed[c].tick = 0
  BY <1>1
<1> QED BY <1>1, <1>3, <1>4

\* The ring with a command for tick t.
Written(cmds, t, cmd) == [cmds EXCEPT ![t % History] = cmd]

\* The command of the next tick goes to a slot that the replay does not use yet,
LEMMA RingWrite ==
  ASSUME NEW base \in Nat, NEW n \in Nat, n + 1 <= History,
         NEW old \in [Ring -> Command], NEW cmd \in Command
  PROVE  /\ Written(old, base + (n + 1), cmd) \in [Ring -> Command]
         /\ SameCommands(Written(old, base + (n + 1), cmd), old, base, n)
         /\ Written(old, base + (n + 1), cmd)[(base + (n + 1)) % History] = cmd
<1> DEFINE y   == base + (n + 1)
           new == [old EXCEPT ![y % History] = cmd]
<1>1. History \in Nat \ {0} /\ y \in Nat
  BY SessionAssumption
<1>2. y % History \in Ring
  <2> HIDE DEF y
  <2> QED BY <1>1, RingSlot
<1>3. ASSUME NEW k \in 1 .. n PROVE new[(base + k) % History] = old[(base + k) % History]
  <2> DEFINE x == base + k
  <2>1. x \in Nat /\ x < y /\ ~(y >= x + History)
    BY <1>1
  <2> HIDE DEF x, y
  <2>2. x % History # y % History
    BY <1>1, <2>1, ModGap
  <2>3. x % History \in Ring
    BY <2>1, RingSlot
  <2>4. new[x % History] = old[x % History]
    BY <2>2, <2>3
  <2> QED BY <2>4 DEF x
<1>4. SameCommands(new, old, base, n)
  <2> HIDE DEF new
  <2> QED BY <1>3 DEF SameCommands
<1>5. new \in [Ring -> Command] /\ new[y % History] = cmd
  BY <1>2
<1> QED BY <1>4, <1>5 DEF Written

\* and the replay that has it is one world longer.
LEMMA RolledOn ==
  ASSUME NEW c \in Client, NEW a \in World, NEW base \in Nat, NEW n \in Nat,
         NEW old \in [Ring -> Command], NEW new \in [Ring -> Command],
         SameCommands(new, old, base, n)
  PROVE  Rolled(c, new, a, base)[n + 1]
           = Simulate(Rolled(c, old, a, base)[n],
                      OwnCommand(c, new[(base + (n + 1)) % History]))
<1>1. Rolled(c, new, a, base)[n] = Rolled(c, old, a, base)[n]
  BY RolledAgree
<1>2. Rolled(c, new, a, base)[n + 1]
        = Simulate(Rolled(c, new, a, base)[n], Own(c, new, base + (n + 1)))
  BY RolledNext
<1> QED BY <1>1, <1>2 DEF Own

LEMMA ReplayTypes ==
  ASSUME IInv, NEW c \in Client
  PROVE  /\ predicted[c] \in World /\ predicted[c].tick \in Nat
         /\ confirmed[c] \in World /\ confirmed[c].tick \in Nat
         /\ commands[c] \in [Ring -> Command]
BY DEF IInv, TypeOK, World

LEMMA ReplayPredict ==
  ASSUME IInv, ReplayInv, NEW c \in Client, Predict(c)
  PROVE  ReplayInv'
<1> DEFINE p   == predicted[c].tick
           q   == confirmed[c].tick
           cmd == Issued(c, p + 1)
           new == Written(commands[c], p + 1, cmd)
<1>1. /\ predicted[c] \in World /\ p \in Nat /\ confirmed[c] \in World /\ q \in Nat /\ q <= p
      /\ commands[c] \in [Ring -> Command] /\ cmd \in Command
  <2>1. cmd \in Command
    BY IssuedType
  <2>2. q <= p
    BY DEF ReplayInv
  <2> QED BY <2>1, <2>2, ReplayTypes
<1>2. /\ confirmed' = confirmed
      /\ commands' = [commands EXCEPT ![c] = new]
      /\ predicted' = [predicted EXCEPT ![c] = Simulate(predicted[c], OwnCommand(c, cmd))]
  BY DEF Predict, Written
<1> HIDE DEF new, cmd
<1>3. /\ commands'[c] = new /\ predicted'[c] = Simulate(predicted[c], OwnCommand(c, cmd))
      /\ \A d \in Client : d # c => predicted'[d] = predicted[d] /\ commands'[d] = commands[d]
  BY <1>2 DEF IInv, TypeOK
<1>4. predicted'[c].tick = p + 1
  <2>1. Simulate(predicted[c], OwnCommand(c, cmd)).tick = p + 1
    <3>1. OwnCommand(c, cmd) \in Given
      <4> HIDE DEF p
      <4> QED BY <1>1, OwnCommandType
    <3> QED BY <1>1, <3>1, SimulateStep
  <2> QED BY <1>3, <2>1
<1>5. ASSUME (p + 1) - q < History
      PROVE  predicted'[c] = Rolled(c, new, confirmed[c], q)[(p + 1) - q]
  <2>1. PICK n \in Nat : n = p - q
    BY <1>1
  <2>2. n + 1 <= History /\ q + (n + 1) = p + 1 /\ (p + 1) - q = n + 1 /\ p - q < History
    <3> HIDE DEF p, q
    <3>1. History \in Nat
      BY SessionAssumption
    <3> QED BY <1>1, <1>5, <2>1, <3>1
  <2>3. predicted[c] = Rolled(c, commands[c], confirmed[c], q)[n]
    BY <2>1, <2>2 DEF ReplayInv
  <2>4. new = Written(commands[c], q + (n + 1), cmd)
    BY <2>2 DEF new
  <2>5. Rolled(c, new, confirmed[c], q)[n + 1]
          = Simulate(Rolled(c, commands[c], confirmed[c], q)[n], OwnCommand(c, cmd))
    <3>1. /\ new \in [Ring -> Command]
          /\ SameCommands(new, commands[c], q, n)
          /\ new[(q + (n + 1)) % History] = cmd
      <4> HIDE DEF p, q
      <4>1. q \in Nat /\ n + 1 <= History /\ commands[c] \in [Ring -> Command] /\ cmd \in Command
        BY <1>1, <2>2
      <4>2. /\ Written(commands[c], q + (n + 1), cmd) \in [Ring -> Command]
            /\ SameCommands(Written(commands[c], q + (n + 1), cmd), commands[c], q, n)
            /\ Written(commands[c], q + (n + 1), cmd)[(q + (n + 1)) % History] = cmd
        BY <4>1, RingWrite, ZenonT(30)
      <4> QED BY <2>4, <4>2, Zenon
    <3>2. Rolled(c, new, confirmed[c], q)[n + 1]
            = Simulate(Rolled(c, commands[c], confirmed[c], q)[n],
                       OwnCommand(c, new[(q + (n + 1)) % History]))
      <4> HIDE DEF p, q
      <4> QED BY <1>1, <3>1, RolledOn
    <3> QED BY <3>1, <3>2
  <2> QED BY <1>3, <2>2, <2>3, <2>5
<1>6. ASSUME NEW d \in Client
      PROVE  /\ confirmed'[d].tick <= predicted'[d].tick
             /\ predicted'[d].tick - confirmed'[d].tick < History =>
                  predicted'[d] = Rolled(d, commands'[d], confirmed'[d], confirmed'[d].tick)
                                    [predicted'[d].tick - confirmed'[d].tick]
  <2>1. CASE d = c
    <3>1. q <= p + 1
      BY <1>1
    <3> QED BY <1>2, <1>3, <1>4, <1>5, <2>1, <3>1
  <2>2. CASE d # c
    BY <1>2, <1>3, <2>2 DEF ReplayInv
  <2> QED BY <2>1, <2>2
<1> QED BY <1>6 DEF ReplayInv

\* An adopted snapshot is the world of its tick, and the prediction restarts from it,
\* no further than the ring has commands.
LEMMA ReplayAdopt ==
  ASSUME IInv, ReplayInv, NEW c \in Client, NEW m \in downstream[c], Adopt(c, m)
  PROVE  ReplayInv'
<1> DEFINE out == DeltaDecode(Baseline(c, m), m.delta)
           p   == predicted[c].tick
           new == Replay(c, out, m.tick, p)
<1>1. out \in World /\ out.tick = m.tick /\ m.tick \in Nat
  <2>1. out \in World /\ Agree(out, past[m.tick])
    BY Decoded DEF Adopt
  <2>2. m.tick \in Nat /\ m.tick <= world.tick
    BY DEF IInv, TypeOK, DownInv
  <2>3. past[m.tick].tick = m.tick
    BY <2>2 DEF IInv, PastInv
  <2> QED BY <2>1, <2>2, <2>3 DEF Agree
<1>2. p \in Nat /\ commands[c] \in [Ring -> Command]
  BY ReplayTypes
<1>3. /\ confirmed' = [confirmed EXCEPT ![c] = out]
      /\ predicted' = [predicted EXCEPT ![c] = new]
      /\ commands' = commands
  BY DEF Adopt
<1>4. new = Rolled(c, commands[c], out, p - ReplayCount(m.tick, p))[ReplayCount(m.tick, p)]
  BY DEF Replay, Rolled
<1>5. new.tick = m.tick + ReplayCount(m.tick, p) /\ ReplayCount(m.tick, p) \in Nat
  <2> HIDE DEF out, p
  <2>1. commands[c] \in [0 .. History - 1 -> Command]
    BY <1>2 DEF Ring
  <2>2. Replay(c, out, m.tick, p).tick = out.tick + ReplayCount(m.tick, p)
    BY <1>1, <1>2, <2>1, ReplayType
  <2>3. ReplayCount(m.tick, p) \in Nat
    BY <1>1, <1>2, SessionAssumption DEF ReplayCount
  <2> QED BY <1>1, <2>2, <2>3
<1> HIDE DEF out, new
<1>6. /\ confirmed'[c] = out /\ predicted'[c] = new
      /\ \A d \in Client : d # c => predicted'[d] = predicted[d] /\ confirmed'[d] = confirmed[d]
  BY <1>3 DEF IInv, TypeOK
<1>7. ASSUME new.tick - m.tick < History
      PROVE  new = Rolled(c, commands[c], out, m.tick)[new.tick - m.tick]
  <2>1. PICK n \in Nat : n = ReplayCount(m.tick, p)
    BY <1>5
  <2>2. new = Rolled(c, commands[c], out, p - n)[n] /\ new.tick - m.tick = n
    BY <1>1, <1>4, <1>5, <2>1
  <2>3. CASE m.tick < p
    <3>1. p - n = m.tick
      BY <1>1, <1>2, <1>7, <2>1, <2>2, <2>3, SessionAssumption DEF ReplayCount
    <3> QED BY <2>2, <3>1
  <2>4. CASE ~(m.tick < p)
    <3>1. n = 0 /\ p - n \in Nat
      BY <1>1, <1>2, <2>1, <2>4 DEF ReplayCount
    <3>2. /\ Rolled(c, commands[c], out, p - n)[0] = out
          /\ Rolled(c, commands[c], out, m.tick)[0] = out
      <4> HIDE DEF p
      <4> QED BY <1>1, <1>2, <3>1, RolledFirst
    <3> QED BY <2>2, <3>1, <3>2
  <2> QED BY <2>3, <2>4
<1>8. ASSUME NEW d \in Client
      PROVE  /\ confirmed'[d].tick <= predicted'[d].tick
             /\ predicted'[d].tick - confirmed'[d].tick < History =>
                  predicted'[d] = Rolled(d, commands'[d], confirmed'[d], confirmed'[d].tick)
                                    [predicted'[d].tick - confirmed'[d].tick]
  <2>1. CASE d = c
    <3>1. m.tick <= new.tick
      BY <1>1, <1>5
    <3> QED BY <1>1, <1>3, <1>6, <1>7, <2>1, <3>1
  <2>2. CASE d # c
    BY <1>3, <1>6, <2>2 DEF ReplayInv
  <2> QED BY <2>1, <2>2
<1> QED BY <1>8 DEF ReplayInv

LEMMA ReplayStep ==
  ASSUME IInv, ReplayInv, [Next]_vars
  PROVE  ReplayInv'
<1>1. ASSUME NEW c \in Client, OnSnapshot(c) PROVE ReplayInv'
  <2>1. PICK m \in downstream[c] : Adopt(c, m) \/ Reject(c, m)
    BY <1>1 DEF OnSnapshot
  <2>2. CASE Reject(c, m)
    BY <2>2 DEF Reject, clientVars, ReplayInv
  <2> QED BY <2>1, <2>2, ReplayAdopt
<1>2. CASE UNCHANGED <<predicted, confirmed, commands>>
  BY <1>2 DEF ReplayInv
<1> QED BY <1>1, <1>2, ReplayPredict
      DEF Next, Tick, OnInput, WriteSnapshot, vars, clientVars

\* What a client draws is its last snapshot with its own commands on top, while it is
\* less than History ticks ahead of that, whatever set its clock back before
\* (session.cpp:150-167).
THEOREM PredictionIsReplayAlways == Spec => []PredictionIsReplay
<1>1. IInv /\ ReplayInv => PredictionIsReplay
  <2> SUFFICES ASSUME IInv, ReplayInv, NEW c \in Client,
                      predicted[c].tick - confirmed[c].tick < History
               PROVE  predicted[c] = Replay(c, confirmed[c], confirmed[c].tick, predicted[c].tick)
    BY DEF PredictionIsReplay
  <2> DEFINE p == predicted[c].tick
             q == confirmed[c].tick
             n == ReplayCount(q, p)
  <2>1. p \in Nat /\ q \in Nat /\ q <= p /\ p - q < History
    BY ReplayTypes DEF ReplayInv
  <2>2. n = p - q /\ p - n = q
    BY <2>1, SessionAssumption DEF ReplayCount
  <2>3. predicted[c] = Rolled(c, commands[c], confirmed[c], q)[p - q]
    BY DEF ReplayInv
  <2>4. Replay(c, confirmed[c], q, p) = Rolled(c, commands[c], confirmed[c], p - n)[n]
    BY DEF Replay, Rolled
  <2> HIDE DEF n
  <2> QED BY <2>2, <2>3, <2>4
<1>2. IInv /\ ReplayInv /\ [Next]_vars => ReplayInv'
  BY ReplayStep
<1> QED BY <1>1, <1>2, ReplayInvInit, Invariant, PTL DEF Spec

-----------------------------------------------------------------------------
(* Refinement.                                                             *)

\* The session implements SnapshotView, for every network and every simulation:
\* deltas, baselines and rings are invisible from outside.
THEOREM Refinement ==
  ASSUME HumansAgree
  PROVE  Spec => ImplementsView
<1> USE DEF View!Init, View!Next, View!vars, View!Advance, View!Take
<1>1. Init => View!Init
  <2> SUFFICES ASSUME Init PROVE View!Init
    OBVIOUS
  <2>1. IInv
    BY InitIInv
  <2>2. world.tick = 0
    BY SessionAssumption, FreshMatchType DEF Init
  <2> QED BY <2>1, <2>2 DEF IInv, TypeOK, Init
<1>2. IInv /\ HumansInv /\ IInv' /\ HumansInv' /\ [Next]_vars => [View!Next]_View!vars
  <2> SUFFICES ASSUME IInv, HumansInv, IInv', HumansInv', [Next]_vars
               PROVE  View!Next \/ UNCHANGED <<world.tick, past, confirmedTick, confirmed>>
    OBVIOUS
  <2>1. CASE Tick
    <3>1. world'.tick = world.tick + 1 /\ world.tick \in Nat
      <4>1. world \in World /\ latest \in Given /\ world' = Simulate(world, latest)
        BY <2>1 DEF IInv, TypeOK, Tick
      <4> QED BY <4>1, SimulateStep DEF World
    <3>2. past' \in [0 .. world'.tick -> World] /\ \A t \in 0 .. world.tick : past'[t] = past[t]
      BY <2>1, <3>1 DEF IInv, TypeOK, Tick
    <3> QED BY <2>1, <3>1, <3>2 DEF Tick, clientVars
  <2>2. ASSUME NEW c \in Client, NEW m \in downstream[c], Adopt(c, m), UNCHANGED serverVars
        PROVE  View!Next
    <3>1. /\ m.tick \in 0 .. world.tick
          /\ confirmedTick[c] = NoTick \/ m.tick > confirmedTick[c]
          /\ confirmedTick' = [confirmedTick EXCEPT ![c] = m.tick]
      <4>1. world.tick \in Nat /\ m.tick \in Nat /\ m.tick <= world.tick
        BY DEF IInv, TypeOK, World, DownInv
      <4> QED BY <2>2, <4>1 DEF Adopt, Newer
    <3> DEFINE out == DeltaDecode(Baseline(c, m), m.delta)
    <3>2. confirmed' = [confirmed EXCEPT ![c] = out]
      BY <2>2 DEF Adopt
    <3>3. out \in World /\ Agree(out, past[m.tick])
      BY <2>2, Decoded DEF Adopt
    <3> HIDE DEF out
    <3>4. out.match.humans = past[m.tick].match.humans
      <4>1. confirmed'[c] = out
        BY <3>2 DEF IInv, TypeOK
      <4> QED BY <3>1, <4>1 DEF HumansInv
    <3>5. out = past[m.tick]
      <4>1. past[m.tick] \in World
        BY <3>1 DEF IInv, TypeOK
      <4>2. out.match = past[m.tick].match
        BY <3>3, <3>4, <4>1 DEF Agree, World
      <4> QED BY <3>3, <4>1, <4>2 DEF Agree, World
    <3> QED BY <2>2, <3>1, <3>2, <3>5 DEF serverVars
  <2>3. \/ Tick
        \/ \E c \in Client : \E m \in downstream[c] : Adopt(c, m) /\ UNCHANGED serverVars
        \/ UNCHANGED <<world.tick, past, confirmedTick, confirmed>>
    BY DEF Next, OnInput, AcceptInput, IgnoreInput, WriteSnapshot, Predict, OnSnapshot, Reject,
       vars, serverVars, clientVars
  <2> QED BY <2>1, <2>2, <2>3
<1>3. Init => HumansInv
  BY HumansInit
<1>4. IInv /\ HumansInv /\ [Next]_vars => HumansInv'
  BY HumansStep
<1> QED BY <1>1, <1>2, <1>3, <1>4, Invariant, PTL DEF Spec, ImplementsView, View!Spec
=============================================================================
