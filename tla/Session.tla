------------------------------ MODULE Session ------------------------------
(***************************************************************************)
(* The authoritative loop of session.cpp: one Server that owns the world,  *)
(* and the Clients that predict it, joined by a network that loses,        *)
(* repeats and reorders datagrams.  The socket layer (link.cpp) decides    *)
(* only which datagrams reach the two handlers; every choice it can make   *)
(* is among the choices of this network.                                   *)
(*                                                                         *)
(* A delta is made of 32-bit words, and a world here of as many as matter: *)
(* its tick, the seed, the one that the result of the match (end_ticks and *)
(* winner) and the number of human slots share, and `body', everything     *)
(* else sim::simulate advances.  The body is abstract: Step is any         *)
(* function of the old body and the commands, which is all session.cpp     *)
(* relies on ("sim::simulate is pure and deterministic").                  *)
(***************************************************************************)
EXTENDS Integers, FiniteSets

CONSTANTS
  MaxPlayers,      \* sim::MAX_PLAYERS
  Client,          \* the slots that have a client, a subset of Slot
  History,         \* HISTORY: both rings, of worlds and of commands
  ServerHumans,    \* the argument of Server::start
  ClientHumans,    \* the second argument of each Client::start
  ClientSlot,      \* the first argument of each Client::start
  Body, FreshBody, Step(_, _),   \* the simulation, as session.cpp sees it
  Result(_),       \* end_ticks and winner, which a body decides
  Over(_),         \* the end-of-match countdown runs out in this tick
  Fits(_, _),      \* the delta from one world to another fits the packet
  MaxTick,         \* bound: the server's clock is not advanced past it
  MaxIssued,       \* bound: nor a client's past this
  NetCap           \* bound: datagrams in flight per direction and client

Slot    == 0 .. MaxPlayers - 1
NoTick  == -1                      \* NO_TICK, equal to no genuine tick
Neutral == 0                       \* InputCmd{}
Command == 0 .. 2 * MaxIssued      \* named by its tick, and anew when that is issued again
Given   == [Slot -> Command]       \* one command per slot, simulate's second argument

World == [tick : Nat, match : [humans : Nat, result : Nat], seed : Nat, body : Body]

ASSUME SessionAssumption ==
  /\ MaxPlayers \in Nat \ {0}
  /\ Client \subseteq Slot
  /\ History \in Nat \ {0}
  /\ ServerHumans \in 0 .. MaxPlayers
  /\ ClientHumans \in [Client -> 0 .. MaxPlayers]
  /\ ClientSlot \in [Client -> Slot]
  /\ FreshBody \in Body
  /\ MaxTick \in Nat /\ MaxIssued \in Nat /\ NetCap \in Nat \ {0}

ASSUME StepAssumption ==
  \A b \in Body : Result(b) \in Nat /\ \A g \in Given : Step(b, g) \in Body

VARIABLES
  world,           \* Server::world_
  history,         \* Server::history_, indexed by tick % History
  latest,          \* Server::latest_, the newest command of each slot
  latestTick,      \* Server::latest_tick_
  clientBaseline,  \* Server::client_baseline_
  predicted,       \* Client::predicted_
  commands,        \* Client::history_, the client's own recent commands
  confirmed,       \* Client::confirmed_
  confirmedTick,   \* Client::confirmed_tick_
  ring,            \* Client::confirmed_history_, _ticks_ and _valid_ (tick # NoTick)
  upstream,        \* input datagrams in flight, per client
  downstream,      \* snapshot datagrams in flight, per client
  past,            \* auxiliary: every world the server has had, by tick
  rewound          \* auxiliary: the client's clock has been set back

serverVars == <<world, history, latest, latestTick, clientBaseline, past>>
clientVars == <<predicted, commands, confirmed, confirmedTick, ring, rewound>>
vars == <<serverVars, clientVars, upstream, downstream>>

-----------------------------------------------------------------------------
(* The simulation and the delta, as the session uses them.                 *)

FreshMatch(humans) ==
  [tick |-> 0, match |-> [humans |-> humans, result |-> 0], seed |-> 0,
   body |-> FreshBody]

\* Slots at or past `humans' ignore what they are given: a bot drives them,
\* from the body alone.
Driven(humans, given) == [i \in Slot |-> IF i < humans THEN given[i] ELSE Neutral]

\* sim::simulate.  When the banner's countdown runs out, init_match resets the
\* whole world, and only the tick and the shifted seed are put back: `humans'
\* returns to its default, 1.
Simulate(w, given) ==
  IF Over(w.body)
  THEN [FreshMatch(1) EXCEPT !.tick = w.tick + 1, !.seed = w.seed + 1]
  ELSE LET body == Step(w.body, Driven(w.match.humans, given))
       IN [w EXCEPT !.tick = @ + 1, !.body = body, !.match.result = Result(body)]

\* net::delta_encode keeps the words that differ; net::delta_decode copies the
\* others from whatever baseline the receiver chose.  The number of humans goes
\* over whenever the result of the match has changed, and only then.
DeltaEncode(baseline, current) ==
  [w \in {x \in DOMAIN current : baseline[x] # current[x]} |-> current[w]]
DeltaDecode(baseline, delta) ==
  [w \in DOMAIN baseline |-> IF w \in DOMAIN delta THEN delta[w] ELSE baseline[w]]

-----------------------------------------------------------------------------
(* The network.  Sending loses the datagram, or puts it in flight (evicting  *)
(* another when NetCap are in flight); receiving may leave it in flight, so  *)
(* it can arrive again, and takes datagrams in any order.                    *)

Sent(net, m) ==
  {net} \cup (IF Cardinality(net) < NetCap THEN {net \cup {m}}
              ELSE {(net \ {x}) \cup {m} : x \in net})
Received(net, m) == {net, net \ {m}}

-----------------------------------------------------------------------------
Init ==
  /\ world = FreshMatch(ServerHumans)
  /\ history = [i \in 0 .. History - 1 |-> world]
  /\ latest = [s \in Slot |-> Neutral]
  /\ latestTick = [s \in Slot |-> NoTick]
  /\ clientBaseline = [s \in Slot |-> NoTick]
  /\ predicted = [c \in Client |-> FreshMatch(ClientHumans[c])]
  /\ commands = [c \in Client |-> [i \in 0 .. History - 1 |-> Neutral]]
  /\ confirmed = predicted
  /\ confirmedTick = [c \in Client |-> NoTick]
  /\ ring = [c \in Client |->
               [i \in 0 .. History - 1 |-> [tick |-> NoTick, world |-> FreshMatch(1)]]]
  /\ upstream = [c \in Client |-> {}]
  /\ downstream = [c \in Client |-> {}]
  /\ past = [t \in {0} |-> world]
  /\ rewound = [c \in Client |-> FALSE]

-----------------------------------------------------------------------------
(* The server.                                                             *)

\* Server::tick: one step with the newest command of each slot.
Tick ==
  /\ world.tick < MaxTick
  /\ world' = Simulate(world, latest)
  /\ history' = [history EXCEPT ![world'.tick % History] = world']
  /\ past' = [t \in 0 .. world'.tick |-> IF t = world'.tick THEN world' ELSE past[t]]
  /\ UNCHANGED <<latest, latestTick, clientBaseline, clientVars, upstream, downstream>>

\* Mutant: any command counts, however late.
CarelessAcceptInput(c, m) ==
  /\ latestTick' = [latestTick EXCEPT ![c] = m.tick]
  /\ latest' = [latest EXCEPT ![c] = m.cmd]
  /\ clientBaseline' = [clientBaseline EXCEPT ![c] = m.baseline]
  /\ UNCHANGED <<world, history, past>>

\* Server::on_input: only a command newer than the slot's last one counts.
AcceptInput(c, m) ==
  /\ latestTick[c] = NoTick \/ m.tick > latestTick[c]
  /\ latestTick' = [latestTick EXCEPT ![c] = m.tick]
  /\ latest' = [latest EXCEPT ![c] = m.cmd]
  /\ clientBaseline' = [clientBaseline EXCEPT ![c] = m.baseline]
  /\ UNCHANGED <<world, history, past>>

IgnoreInput(c, m) ==
  /\ latestTick[c] # NoTick /\ m.tick <= latestTick[c]
  /\ UNCHANGED serverVars

OnInput(c) ==
  \E m \in upstream[c] :
    /\ AcceptInput(c, m) \/ IgnoreInput(c, m)
    /\ \E net \in Received(upstream[c], m) : upstream' = [upstream EXCEPT ![c] = net]
    /\ UNCHANGED <<clientVars, downstream>>

\* Server::write_snapshot: against the baseline the client last reported while
\* the ring still has it, else against the cold-start world.
\* Mutants: the reuse of the ring forgotten; noticed one tick too late.
TrustingHaveBaseline(c) == clientBaseline[c] # NoTick /\ world.tick >= clientBaseline[c]
LateHaveBaseline(c) ==
  /\ clientBaseline[c] # NoTick
  /\ world.tick >= clientBaseline[c]
  /\ world.tick - clientBaseline[c] <= History
HaveBaseline(c) ==
  /\ clientBaseline[c] # NoTick
  /\ world.tick >= clientBaseline[c]
  /\ world.tick - clientBaseline[c] < History

DiffedAgainst(c) ==
  IF HaveBaseline(c) THEN history[clientBaseline[c] % History]
  ELSE FreshMatch(world.match.humans)
Snapshot(c) ==
  [tick      |-> world.tick,
   baseline  |-> IF HaveBaseline(c) THEN clientBaseline[c] ELSE NoTick,
   lastInput |-> latestTick[c],
   delta     |-> DeltaEncode(DiffedAgainst(c), world)]

\* Only to a peer that is live, as it is from the first input heard from it, and
\* only while the delta fits the packet: write_snapshot returns 0 otherwise, and
\* nothing is sent.
WriteSnapshot(c) ==
  /\ latestTick[c] # NoTick
  /\ Fits(DiffedAgainst(c), world)
  /\ \E net \in Sent(downstream[c], Snapshot(c)) :
       downstream' = [downstream EXCEPT ![c] = net]
  /\ UNCHANGED <<serverVars, clientVars, upstream>>

-----------------------------------------------------------------------------
(* The clients.                                                            *)

OwnCommand(c, cmd) == [i \in Slot |-> IF i = ClientSlot[c] THEN cmd ELSE Neutral]

\* What the player does at `tick'.  A tick that is issued a second time gets a
\* command of its own.
Issued(c, tick) == IF rewound[c] THEN tick + MaxIssued ELSE tick

\* Mutants: the baseline reported as a count, from 0, not as a tick; the command
\* remembered under the old tick.
CountingPredict(c) ==
  /\ predicted[c].tick < MaxIssued
  /\ LET tick == predicted[c].tick + 1
         cmd  == Issued(c, tick)
         m    == [tick |-> tick, cmd |-> cmd, baseline |-> confirmedTick[c] - 1]
     IN /\ commands' = [commands EXCEPT ![c][tick % History] = cmd]
        /\ predicted' = [predicted EXCEPT ![c] = Simulate(@, OwnCommand(c, cmd))]
        /\ \E net \in Sent(upstream[c], m) : upstream' = [upstream EXCEPT ![c] = net]
  /\ UNCHANGED <<serverVars, confirmed, confirmedTick, ring, rewound, downstream>>
LatePredict(c) ==
  /\ predicted[c].tick < MaxIssued
  /\ LET tick == predicted[c].tick + 1
         cmd  == Issued(c, tick)
         m    == [tick |-> tick, cmd |-> cmd, baseline |-> confirmedTick[c]]
     IN /\ commands' = [commands EXCEPT ![c][predicted[c].tick % History] = cmd]
        /\ predicted' = [predicted EXCEPT ![c] = Simulate(@, OwnCommand(c, cmd))]
        /\ \E net \in Sent(upstream[c], m) : upstream' = [upstream EXCEPT ![c] = net]
  /\ UNCHANGED <<serverVars, confirmed, confirmedTick, ring, rewound, downstream>>

\* Client::predict and the send that follows it in ClientLink::send: step the
\* prediction, remember the command, report it with the newest snapshot held.
Predict(c) ==
  /\ predicted[c].tick < MaxIssued
  /\ LET tick == predicted[c].tick + 1
         cmd  == Issued(c, tick)
         m    == [tick |-> tick, cmd |-> cmd, baseline |-> confirmedTick[c]]
     IN /\ commands' = [commands EXCEPT ![c][tick % History] = cmd]
        /\ predicted' = [predicted EXCEPT ![c] = Simulate(@, OwnCommand(c, cmd))]
        /\ \E net \in Sent(upstream[c], m) : upstream' = [upstream EXCEPT ![c] = net]
  /\ UNCHANGED <<serverVars, confirmed, confirmedTick, ring, rewound, downstream>>

\* The baseline Client::on_snapshot decodes against, when it has it.
Holds(c, m) ==
  m.baseline = NoTick \/ ring[c][m.baseline % History].tick = m.baseline
Baseline(c, m) ==
  IF m.baseline = NoTick THEN FreshMatch(predicted[c].match.humans)
  ELSE ring[c][m.baseline % History].world
Newer(c, m) == confirmedTick[c] = NoTick \/ m.tick > confirmedTick[c]

\* The replay loop runs over the ticks after `from', whatever the server has
\* consumed, up to `target'; but one whose command has left the ring is skipped
\* without advancing the world.  So it is the last History of them, or all when
\* they are fewer, and in the first case the world stops short of `target'.
\* Mutant: the loop stops short of the target.
ShortReplayCount(from, target) ==
  IF target <= from THEN 0
  ELSE IF target - from > History THEN History - 1 ELSE target - from - 1
ReplayCount(from, target) ==
  IF target <= from THEN 0
  ELSE IF target - from > History THEN History ELSE target - from

Replayed(from, target) == target - ReplayCount(from, target) + 1 .. target

Replay(c, authoritative, from, target) ==
  LET count == ReplayCount(from, target)
      rolled[k \in Nat] ==
        IF k = 0 THEN authoritative
        ELSE Simulate(rolled[k - 1],
                      OwnCommand(c, commands[c][(target - count + k) % History]))
  IN rolled[count]

\* Client::on_snapshot, the path that adopts the snapshot.
Adopt(c, m) ==
  /\ Holds(c, m)
  /\ Newer(c, m)
  /\ LET authoritative == DeltaDecode(Baseline(c, m), m.delta)
     IN /\ confirmed' = [confirmed EXCEPT ![c] = authoritative]
        /\ ring' = [ring EXCEPT ![c][m.tick % History] =
                      [tick |-> m.tick, world |-> authoritative]]
        /\ predicted' = [predicted EXCEPT ![c] =
                           Replay(c, authoritative, m.tick, predicted[c].tick)]
  /\ rewound' = [rewound EXCEPT ![c] = @ \/ predicted'[c].tick < predicted[c].tick]
  /\ confirmedTick' = [confirmedTick EXCEPT ![c] = m.tick]
  /\ UNCHANGED commands

\* ... and the two that return false.
Reject(c, m) == ~(Holds(c, m) /\ Newer(c, m)) /\ UNCHANGED clientVars

OnSnapshot(c) ==
  \E m \in downstream[c] :
    /\ Adopt(c, m) \/ Reject(c, m)
    /\ \E net \in Received(downstream[c], m) : downstream' = [downstream EXCEPT ![c] = net]
    /\ UNCHANGED <<serverVars, upstream>>

-----------------------------------------------------------------------------
Next ==
  \/ Tick
  \/ \E c \in Client : OnInput(c)
  \/ \E c \in Client : WriteSnapshot(c)
  \/ \E c \in Client : Predict(c)
  \/ \E c \in Client : OnSnapshot(c)

Spec == Init /\ [][Next]_vars

\* Both loops run for ever, and the network is fair: a snapshot that is sent
\* again and again gets through again and again.  One that does not fit is not
\* sent, and nothing is asked of it.
Delivered(c) == WriteSnapshot(c) /\ Snapshot(c) \in downstream'[c]
Synced(c)    == OnSnapshot(c) /\ confirmedTick'[c] # confirmedTick[c]
FairSpec ==
  /\ Spec
  /\ WF_vars(Tick)
  /\ \A c \in Client : SF_vars(Delivered(c)) /\ SF_vars(Synced(c))

-----------------------------------------------------------------------------
(* What the session promises.                                              *)

Ring == 0 .. History - 1
Tag  == Nat \cup {NoTick}          \* a tick, or none yet

InputMsg == [tick : Nat, cmd : Command, baseline : Tag]

TypeOK ==
  /\ world \in World
  /\ history \in [Ring -> World]
  /\ latest \in Given
  /\ latestTick \in [Slot -> Tag]
  /\ clientBaseline \in [Slot -> Tag]
  /\ predicted \in [Client -> World]
  /\ commands \in [Client -> [Ring -> Command]]
  /\ confirmed \in [Client -> World]
  /\ confirmedTick \in [Client -> Tag]
  /\ ring \in [Client -> [Ring -> [tick : Tag, world : World]]]
  /\ \A c \in Client : upstream[c] \subseteq InputMsg
  /\ \A c \in Client : \A m \in downstream[c] :
       m.tick \in Nat /\ m.baseline \in Tag /\ m.lastInput \in Tag
  /\ past \in [0 .. world.tick -> World]
  /\ rewound \in [Client -> BOOLEAN]

\* The inductive invariant behind the safety properties.  First, the server's
\* ring is its past: each of the last History ticks is in its own slot.
PastInv ==
  /\ past[world.tick] = world
  /\ \A t \in 0 .. world.tick : past[t].tick = t
  /\ \A t \in 0 .. world.tick :
       t + History > world.tick => history[t % History] = past[t]

\* All of two worlds but the number of humans, which a snapshot carries only with
\* a new result.
Agree(w, v) ==
  /\ w.tick = v.tick /\ w.seed = v.seed /\ w.body = v.body
  /\ w.match.result = v.match.result

\* What a client has kept is what the server had, and the newest is among it.
ClientInv ==
  \A c \in Client :
    /\ confirmedTick[c] # NoTick =>
         /\ confirmedTick[c] <= world.tick
         /\ Agree(confirmed[c], past[confirmedTick[c]])
         /\ ring[c][confirmedTick[c] % History].tick = confirmedTick[c]
    /\ \A i \in Ring : ring[c][i].tick # NoTick =>
         /\ ring[c][i].tick % History = i
         /\ ring[c][i].tick <= confirmedTick[c]
         /\ Agree(ring[c][i].world, past[ring[c][i].tick])

\* A baseline that was once reported is still there, unless the client has since
\* confirmed a tick a whole ring later.
HeldBy(c, b) ==
  b # NoTick =>
    /\ b <= confirmedTick[c]
    /\ ring[c][b % History].tick = b \/ confirmedTick[c] >= b + History

UpInv ==
  \A c \in Client :
    /\ HeldBy(c, clientBaseline[c])
    /\ \A m \in upstream[c] : HeldBy(c, m.baseline)

\* A snapshot in flight is a step from a world its client held, less than a ring
\* ago, to a world the server had.
Base(m) ==
  IF m.baseline = NoTick THEN FreshMatch(past[m.tick].match.humans) ELSE past[m.baseline]

DownInv ==
  \A c \in Client : \A m \in downstream[c] :
    /\ m.tick <= world.tick
    /\ HeldBy(c, m.baseline)
    /\ m.baseline # NoTick => m.baseline <= m.tick /\ m.tick < m.baseline + History
    /\ m.delta = DeltaEncode(Base(m), past[m.tick])

IInv == TypeOK /\ PastInv /\ ClientInv /\ UpInv /\ DownInv

\* Both ends were started with the same number of humans, and a match that
\* restarts with 1 had 1.  Then that number is the same everywhere, always.
NoRestart == \A b \in Body : ~Over(b)
HumansAgree ==
  /\ \A c \in Client : ClientHumans[c] = ServerHumans
  /\ NoRestart \/ ServerHumans = 1

HumansInv ==
  /\ \A t \in 0 .. world.tick : past[t].match.humans = ServerHumans
  /\ \A c \in Client :
       /\ predicted[c].match.humans = ServerHumans
       /\ confirmed[c].match.humans = ServerHumans
       /\ \A i \in Ring : ring[c][i].tick # NoTick =>
            ring[c][i].world.match.humans = ServerHumans

\* A snapshot that is news to its client can always be decoded there: whatever
\* was lost, repeated or overtaken since, a client that has let go of the
\* baseline it was diffed against has already moved past the snapshot itself.
Decodable ==
  \A c \in Client : \A m \in downstream[c] : Newer(c, m) => Holds(c, m)

\* The session implements SnapshotView: each client only ever moves on to a
\* later world of the server's own history.
View == INSTANCE SnapshotView
          WITH now <- world.tick, lived <- past, heldTick <- confirmedTick, held <- confirmed
ImplementsView == View!Spec

\* What a client has confirmed for a tick is the very world the server had at
\* that tick: no interleaving makes the two ends diff against different worlds.
Authoritative ==
  \A c \in Client : confirmedTick[c] # NoTick =>
    /\ confirmedTick[c] \in DOMAIN past
    /\ confirmed[c] = past[confirmedTick[c]]

\* While a client is less than History ticks ahead of its last snapshot, what it
\* draws is exactly that snapshot with its own commands of those ticks on top,
\* however prediction, snapshots, set-backs and the reuse of the command ring
\* interleave (session.cpp:150-167).
PredictionIsReplay ==
  \A c \in Client :
    predicted[c].tick - confirmed[c].tick < History =>
      predicted[c] = Replay(c, confirmed[c], confirmed[c].tick, predicted[c].tick)

\* A prediction is set back by a snapshot more than History ticks behind it and by
\* no other, and then no further than to the last tick the ring of commands covers
\* (session.cpp:153-156, 167).
RewindsPastTheRing ==
  [][\A c \in Client : predicted'[c].tick < predicted[c].tick =>
       /\ predicted[c].tick > confirmedTick'[c] + History
       /\ predicted'[c].tick = confirmedTick'[c] + History]_vars

\* "Never move the prediction backwards" (session.cpp:165).
PredictionNeverRewinds ==
  [][\A c \in Client : predicted'[c].tick >= predicted[c].tick]_vars

\* "replay every command the server had not yet consumed" (session.h:106-107): all
\* those after last_input, the newest command the snapshot accounts for.
UnconsumedAreReplayed ==
  [][\A c \in Client : confirmedTick'[c] # confirmedTick[c] =>
       \E m \in downstream[c] :
         /\ m.tick = confirmedTick'[c]
         /\ m.lastInput + 1 .. predicted[c].tick \subseteq Replayed(m.tick, predicted[c].tick)]_vars

\* As long as a client's clock has not been set back, its slot's command, the tick
\* of that and the baseline reported with it only ever move forward together:
\* nothing late or repeated undoes them (session.cpp:35-43).
InputsAdvance ==
  [][\A c \in Client : ~rewound[c] =>
       /\ latestTick'[c] >= latestTick[c]
       /\ clientBaseline'[c] >= clientBaseline[c]
       /\ latest'[c] >= latest[c]]_vars

Heard(c)  == latestTick[c] # NoTick
InSync(c) == world.tick = MaxTick /\ confirmed[c] = world

\* A client the server has heard of comes to hold the server's world: the last
\* one, since the server's clock stops at the model's bound; or from some point on
\* no snapshot for it fits the packet.  Whatever is lost on the way, and whatever
\* baseline the client is taken to hold, it is never left with snapshots that it
\* cannot decode.
Unsendable(c) == ~Fits(DiffedAgainst(c), world)
EventuallySynced ==
  \A c \in Client : Heard(c) ~> ([]InSync(c) \/ []Unsendable(c))
=============================================================================
