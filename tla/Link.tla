-------------------------------- MODULE Link --------------------------------
(***************************************************************************)
(* The sockets' side of the session, link.cpp: the server finds each       *)
(* datagram's slot by its sender's address, and two filters stand one      *)
(* behind the other on each path, the window of the Connection             *)
(* (on_received) and the tick of the session's handler (on_input,          *)
(* on_snapshot).  What the handlers do with what passes is Session's.      *)
(*                                                                         *)
(* A datagram carries, for the properties only, its unwrapped number `id'. *)
(***************************************************************************)
EXTENDS Window, FiniteSets, Functions

CONSTANTS
  Address,         \* where clients send from
  Nobody,          \* the address of a slot that is not live
  MaxClients,      \* max_clients_
  History,         \* HISTORY, how far a client predicts on from a snapshot
  MaxSent,         \* bound: datagrams all clients send
  MaxSnapshots,    \* bound: snapshots the server numbers
  MaxTick,         \* bound: the server's clock
  MaxLag,          \* bound: datagrams sent after one before it counts as lost
  MaxSilence,      \* bound: datagrams an end sends beyond the newest heard of it
  NetCap           \* bound: datagrams in flight, to the server and to each client

ASSUME LinkAssumption ==
  /\ Nobody \notin Address
  /\ MaxClients \in Nat \ {0} /\ History \in Nat \ {0}
  /\ MaxSent \in Nat /\ MaxSnapshots \in Nat /\ MaxTick \in Nat
  /\ MaxLag \in 1 .. SeqMod \div 2
  /\ MaxSilence \in 1 .. SeqMod \div 2
  /\ NetCap \in Nat \ {0}

Slot   == 0 .. MaxClients - 1
Full   == MaxClients               \* what slot_for returns when there is no room
NoTick == -1

VARIABLES
  peer,            \* Peer::address, or Nobody while it is not live
  count,           \* client_count_
  latestTick,      \* Server::latest_tick_
  latestFrom,      \* auxiliary: who sent the command in Server::latest_
  tick,            \* Server::world_.tick
  clock,           \* per client: its predicted tick
  rewound,         \* auxiliary: per client, whether that has ever been set back
  applied,         \* per client: Client::confirmed_tick_
  serverEnd,       \* per slot: Peer::connection, as far as it filters
  clientEnd,       \* per client: ClientLink::connection_, likewise
  toServer,        \* datagrams in flight to the server
  toClient,        \* datagrams in flight to each client
  sent             \* auxiliary: per address, how many of our datagrams it has sent

serverVars == <<peer, count, latestTick, latestFrom, tick, serverEnd>>
clientVars == <<clock, rewound, applied, clientEnd, sent>>
vars == <<serverVars, clientVars, toServer, toClient>>

-----------------------------------------------------------------------------
(* A connection, as far as the link uses one: the count of what it has     *)
(* sent, and the window of what it has heard.  `last' is auxiliary: the     *)
(* newest id heard.                                                        *)

NewEnd == [local |-> 0, heard |-> FALSE, newest |-> 0, bits |-> {}, last |-> 0]

\* Connection::on_received, of a header of ours: whether it lets the packet pass,
\* and what it remembers.
Passes(end, m) == ~end.heard \/ Records(m.seq, end.newest, end.bits)
Heard(end, m) ==
  IF ~end.heard
  THEN [end EXCEPT !.heard = TRUE, !.newest = m.seq, !.bits = {}, !.last = m.id]
  ELSE IF ~Passes(end, m) THEN end
  ELSE [end EXCEPT !.newest = IF SequenceNewer(m.seq, @) THEN m.seq ELSE @,
                   !.bits = RecordBits(m.seq, end.newest, @),
                   !.last = IF m.id > @ THEN m.id ELSE @]

Sent(net, m) ==
  {net} \cup (IF Cardinality(net) < NetCap THEN {net \cup {m}}
              ELSE {(net \ {x}) \cup {m} : x \in net})
Received(net, m) == {net, net \ {m}}

\* For the bounds only.
TotalOf(f) == FoldFunction(+, 0, f)

Init ==
  /\ peer = [s \in Slot |-> Nobody] /\ count = 0
  /\ latestTick = [s \in Slot |-> NoTick]
  /\ latestFrom = [s \in Slot |-> Nobody]
  /\ tick = 0
  /\ serverEnd = [s \in Slot |-> NewEnd]
  /\ clock = [a \in Address |-> 0]
  /\ rewound = [a \in Address |-> FALSE]
  /\ applied = [a \in Address |-> NoTick]
  /\ clientEnd = [a \in Address |-> NewEnd]
  /\ sent = [a \in Address |-> 0]
  /\ toServer = {}
  /\ toClient = [a \in Address |-> {}]

-----------------------------------------------------------------------------
(* The server.                                                             *)

Live(s) == peer[s] # Nobody
SlotsOf(a) == {s \in Slot : peer[s] = a}
FreeSlots == {s \in Slot : ~Live(s)}
Least(S) == CHOOSE s \in S : \A r \in S : s <= r

\* Mutant of slot_for: a full match gives its first slot away.
EvictingSlotFor(a) ==
  IF SlotsOf(a) # {} THEN Least(SlotsOf(a))
  ELSE IF FreeSlots # {} THEN Least(FreeSlots) ELSE 0

\* slot_for: the address's own slot, else the first free one.
SlotFor(a) ==
  IF SlotsOf(a) # {} THEN Least(SlotsOf(a))
  ELSE IF FreeSlots # {} THEN Least(FreeSlots) ELSE Full

Adopted(a, s) ==
  /\ peer' = [peer EXCEPT ![s] = a]
  /\ count' = IF Live(s) THEN count ELSE count + 1

\* Server::on_input
OnInput(s, m) ==
  IF latestTick[s] = NoTick \/ m.tick > latestTick[s]
  THEN /\ latestTick' = [latestTick EXCEPT ![s] = m.tick]
       /\ latestFrom' = [latestFrom EXCEPT ![s] = m.from]
  ELSE UNCHANGED <<latestTick, latestFrom>>

\* One of our own input packets, in the loop of ServerHost::poll.
Input(m) ==
  LET s == SlotFor(m.from)
  IN IF s = Full THEN UNCHANGED serverVars
     ELSE /\ Adopted(m.from, s)
          /\ serverEnd' = [serverEnd EXCEPT ![s] = Heard(@, m)]
          /\ IF Passes(serverEnd[s], m) THEN OnInput(s, m)
             ELSE UNCHANGED <<latestTick, latestFrom>>
          /\ UNCHANGED tick

\* Mutant: a slot is given out before the packet is seen to be ours.
HastyServerPoll ==
  \E m \in toServer :
    /\ sent[m.from] - m.id <= MaxLag
    /\ IF m.kind = "input" THEN Input(m)
       ELSE IF SlotFor(m.from) # Full
       THEN Adopted(m.from, SlotFor(m.from)) /\ UNCHANGED <<latestTick, latestFrom, tick, serverEnd>>
       ELSE UNCHANGED serverVars
    /\ toServer' \in Received(toServer, m)
    /\ UNCHANGED <<clientVars, toClient>>

\* ... and of any datagram: one that is too short, of another kind or of another
\* protocol is dropped before anything is made of its sender.
ServerPoll ==
  \E m \in toServer :
    /\ sent[m.from] - m.id <= MaxLag
    /\ IF m.kind = "input" THEN Input(m) ELSE UNCHANGED serverVars
    /\ toServer' \in Received(toServer, m)
    /\ UNCHANGED <<clientVars, toClient>>

ServerTick ==
  /\ tick < MaxTick
  /\ tick' = tick + 1
  /\ UNCHANGED <<peer, count, latestTick, latestFrom, serverEnd, clientVars, toServer, toClient>>

\* ServerHost::broadcast, for one live peer.  The header is taken before the
\* snapshot is found to fit, so its number may be used up and nothing sent.
Broadcast(s) ==
  /\ Live(s)
  /\ TotalOf([r \in Slot |-> serverEnd[r].local]) < MaxSnapshots
  /\ serverEnd[s].local - clientEnd[peer[s]].last < MaxSilence
  /\ LET m == [seq |-> serverEnd[s].local % SeqMod, id |-> serverEnd[s].local, tick |-> tick]
     IN \E net \in Sent(toClient[peer[s]], m) : toClient' = [toClient EXCEPT ![peer[s]] = net]
  /\ serverEnd' = [serverEnd EXCEPT ![s].local = @ + 1]
  /\ UNCHANGED <<peer, count, latestTick, latestFrom, tick, clientVars, toServer>>

-----------------------------------------------------------------------------
(* The clients.                                                            *)

\* ClientLink::send
ClientSend(a) ==
  /\ TotalOf(sent) < MaxSent
  /\ \A s \in SlotsOf(a) : sent[a] - serverEnd[s].last < MaxSilence
  /\ clock' = [clock EXCEPT ![a] = @ + 1]
  /\ clientEnd' = [clientEnd EXCEPT ![a].local = (@ + 1) % SeqMod]
  /\ sent' = [sent EXCEPT ![a] = @ + 1]
  /\ LET m == [kind |-> "input", from |-> a, seq |-> clientEnd[a].local, id |-> sent[a],
               tick |-> clock[a] + 1]
     IN toServer' \in Sent(toServer, m)
  /\ UNCHANGED <<serverVars, rewound, applied, toClient>>

\* Somebody sends the server something else.
Stray(a) ==
  /\ sent[a] = 0
  /\ toServer' \in Sent(toServer, [kind |-> "stray", from |-> a, seq |-> 0, id |-> 0, tick |-> 0])
  /\ UNCHANGED <<serverVars, clientVars, toClient>>

SnapshotsTo(a) == {serverEnd[s].local : s \in SlotsOf(a)}

\* The clock after a snapshot of tick `at': the prediction runs on from there to the
\* clock, but by no more than the ring of commands holds.
Repredicted(at, now) == IF at > now THEN at ELSE IF now > at + History THEN at + History ELSE now

\* Client::on_snapshot, as far as the clocks go: an older one is refused.
OnSnapshot(a, m) ==
  IF applied[a] = NoTick \/ m.tick > applied[a]
  THEN /\ applied' = [applied EXCEPT ![a] = m.tick]
       /\ clock' = [clock EXCEPT ![a] = Repredicted(m.tick, @)]
       /\ rewound' = [rewound EXCEPT ![a] = @ \/ clock[a] > m.tick + History]
  ELSE UNCHANGED <<applied, clock, rewound>>

\* One snapshot packet, in the loop of ClientLink::poll.
ClientPoll(a) ==
  \E m \in toClient[a] :
    /\ \A n \in SnapshotsTo(a) : n - m.id <= MaxLag
    /\ clientEnd' = [clientEnd EXCEPT ![a] = Heard(@, m)]
    /\ IF Passes(clientEnd[a], m) THEN OnSnapshot(a, m) ELSE UNCHANGED <<applied, clock, rewound>>
    /\ \E net \in Received(toClient[a], m) : toClient' = [toClient EXCEPT ![a] = net]
    /\ UNCHANGED <<serverVars, sent, toServer>>

Next ==
  \/ ServerPoll
  \/ ServerTick
  \/ \E s \in Slot : Broadcast(s)
  \/ \E a \in Address : ClientSend(a)
  \/ \E a \in Address : Stray(a)
  \/ \E a \in Address : ClientPoll(a)

Spec == Init /\ [][Next]_vars

-----------------------------------------------------------------------------
(* What the link promises.                                                 *)

End == [local : Nat, heard : BOOLEAN, newest : Seqno, bits : SUBSET Bit, last : Nat]
Tag == Nat \cup {NoTick}
Datagram == [kind : {"input", "stray"}, from : Address, seq : Seqno, id : Nat, tick : Nat]
Snapshot == [seq : Seqno, id : Nat, tick : Nat]

\* The type of the state.
TypeOK ==
  /\ peer \in [Slot -> Address \cup {Nobody}]
  /\ count \in 0 .. MaxClients
  /\ latestTick \in [Slot -> Tag]
  /\ latestFrom \in [Slot -> Address \cup {Nobody}]
  /\ tick \in Nat
  /\ serverEnd \in [Slot -> End]
  /\ clock \in [Address -> Nat]
  /\ rewound \in [Address -> BOOLEAN]
  /\ applied \in [Address -> Tag]
  /\ clientEnd \in [Address -> End]
  /\ sent \in [Address -> Nat]
  /\ toServer \subseteq Datagram
  /\ toClient \in [Address -> SUBSET Snapshot]

\* No address holds two slots, the slots are given out in order, and the count is
\* theirs: client_count_ and the peers' flags never part.
SlotsGivenOnce ==
  /\ \A a \in Address : Cardinality(SlotsOf(a)) <= 1
  /\ {s \in Slot : Live(s)} = 0 .. count - 1

\* "Check the packet is ours *before* handing out a slot" (link.cpp:64): whoever
\* has a slot has sent an input of ours, so strangers cannot fill the match.
SlotsForPlayers == \A s \in Slot : Live(s) => sent[peer[s]] > 0

\* The server's table of peers is sound: of its type, each address and each slot in
\* it once, in order, and nobody in it who has not played (link.cpp:37-80).
SlotTableSound == TypeOK /\ SlotsGivenOnce /\ SlotsForPlayers

\* What a slot is driven by came from its own client, and no other ever drives it.
DrivenByItsClient ==
  \A s \in Slot :
    /\ latestTick[s] # NoTick => latestFrom[s] = peer[s]
    /\ latestTick[s] = NoTick <=> ~Live(s)

\* A command on its way that is newer, in the order its client sent them, than any
\* the slot has heard, and not so late that it counts as lost.
InTime(m)    == m.kind = "input" /\ sent[m.from] - m.id <= MaxLag
Newest(m, s) == InTime(m) /\ m.id > serverEnd[s].last

\* The two filters of a path agree, however the counters have wrapped and whatever
\* has been overtaken.  The window never holds back what the handler behind it has
\* yet to see, a command or a snapshot; and a client whose clock was never set back
\* drives its slot by the newest command it has sent, past both filters.
NothingNewHeldBack ==
  /\ \A m \in toServer : \A s \in SlotsOf(m.from) : InTime(m) /\ ~rewound[m.from] =>
       /\ m.tick > latestTick[s] => Passes(serverEnd[s], m)
       /\ Newest(m, s) => Passes(serverEnd[s], m) /\ m.tick > latestTick[s]
  /\ \A s \in Slot : Live(s) => \A m \in toClient[peer[s]] :
       serverEnd[s].local - m.id <= MaxLag /\ m.tick > applied[peer[s]]
         => Passes(clientEnd[peer[s]], m)

\* "Out-of-order and duplicate commands are ignored: only the newest matters, since
\* the next step uses it" (session.h:63): the newest command is never itself ignored.
NewestDrives ==
  \A m \in toServer : \A s \in SlotsOf(m.from) : Newest(m, s) => m.tick > latestTick[s]

\* A slot, once given, is its address's for good; and a slot's clock only moves
\* forward.
SlotsKept ==
  [][\A s \in Slot : /\ Live(s) => peer'[s] = peer[s]
                     /\ latestTick'[s] >= latestTick[s]]_vars
=============================================================================
