----------------------------- MODULE LinkProofs -----------------------------
(***************************************************************************)
(* What Link promises, for any number of addresses and slots, every range  *)
(* of the counter and every network within the bounds of half a range.     *)
(*                                                                         *)
(* The two filters of a path agree because both follow one order, that in  *)
(* which the datagrams were made: the inductive invariant says so of every *)
(* datagram in flight, and of which datagram each counter is the number.   *)
(* Of a client's commands it can say so only until the client's clock is   *)
(* set back.                                                               *)
(***************************************************************************)
EXTENDS Link, Arithmetic, FiniteSetTheorems, TLAPS

Half == SeqMod \div 2

\* The live slots are the first `count', and no two of them are one address's.
Table ==
  /\ \A s \in Slot : Live(s) <=> s < count
  /\ \A s, r \in Slot : Live(s) /\ peer[s] = peer[r] => s = r

\* A slot: its owner's commands alone have come to it, its newest command is that
\* of its newest datagram, and the owner does not run ahead of what is heard.
Command(m, a) == m.kind = "input" /\ m.from = a
SlotFollows(s) ==
  IF Live(s)
  THEN /\ latestTick[s] # NoTick /\ latestFrom[s] = peer[s]
       /\ serverEnd[s].heard /\ serverEnd[s].newest = serverEnd[s].last % SeqMod
       /\ serverEnd[s].last < sent[peer[s]]
       /\ sent[peer[s]] - serverEnd[s].last <= Half
       /\ ~rewound[peer[s]] =>
            /\ latestTick[s] <= clock[peer[s]]
            /\ \A m \in toServer : Command(m, peer[s]) =>
                 (m.id <= serverEnd[s].last <=> m.tick <= latestTick[s])
  ELSE latestTick[s] = NoTick /\ serverEnd[s] = NewEnd

\* The commands of one client, in the order it made them.
CommandsInOrder(a) ==
  /\ clientEnd[a].local = sent[a] % SeqMod
  /\ \A m \in toServer : Command(m, a) =>
       m.id < sent[a] /\ m.seq = m.id % SeqMod
  /\ ~rewound[a] =>
       /\ \A m \in toServer : Command(m, a) => m.tick <= clock[a]
       /\ \A m, q \in toServer :
            Command(m, a) /\ Command(q, a) => (m.id <= q.id <=> m.tick <= q.tick)

\* The snapshots of one client, likewise; without a slot it has heard nothing.
SnapshotsInOrder(a, s) ==
  /\ serverEnd[s].local - clientEnd[a].last <= Half
  /\ clientEnd[a].heard => /\ clientEnd[a].newest = clientEnd[a].last % SeqMod
                           /\ clientEnd[a].last < serverEnd[s].local
  /\ \A m \in toClient[a] :
       /\ m.id < serverEnd[s].local /\ m.seq = m.id % SeqMod /\ m.tick <= tick
       /\ clientEnd[a].heard /\ m.id <= clientEnd[a].last => m.tick <= applied[a]
  /\ \A m, q \in toClient[a] : m.id <= q.id => m.tick <= q.tick
Unserved(a) == ~clientEnd[a].heard /\ clientEnd[a].last = 0 /\ toClient[a] = {}

ClientFollows(a) ==
  /\ CommandsInOrder(a)
  /\ \A s \in SlotsOf(a) : SnapshotsInOrder(a, s)
  /\ SlotsOf(a) = {} => Unserved(a)

IInv ==
  /\ TypeOK /\ Table
  /\ \A s \in Slot : SlotFollows(s)
  /\ \A a \in Address : ClientFollows(a)

-----------------------------------------------------------------------------
(* The window of one end.                                                  *)

LEMMA HalfRange == Half \in Nat /\ SeqMod = 2 * Half /\ SeqMod \in Nat \ {0} /\ Half > 0
<1>1. \A m \in Nat : m % 2 = 0 => m \div 2 \in Nat /\ m = 2 * (m \div 2)
  OBVIOUS
<1>2. Half \in Nat /\ SeqMod = 2 * Half
  BY <1>1, WindowAssumption DEF Half
<1> HIDE DEF Half
<1> QED  BY <1>2, WindowAssumption

LEMMA SeqnoType == ASSUME NEW a \in Nat PROVE a % SeqMod \in Seqno
BY HalfRange, ModRange DEF Seqno

\* sequence_newer tells the newer of two datagrams less than half a range apart.
LEMMA Newer ==
  ASSUME NEW a \in Nat, NEW b \in Nat, a - b < Half, b - a < Half
  PROVE  SequenceNewer(a % SeqMod, b % SeqMod) <=> a > b
<1> DEFINE x == a % SeqMod
           y == b % SeqMod
<1>1. /\ a \in Int /\ b \in Int /\ SeqMod \in Nat \ {0} /\ Half \in Nat
      /\ SeqMod = 2 * Half /\ a - b < Half /\ b - a < Half
  BY HalfRange
<1>2. a > b <=> \/ a % SeqMod > b % SeqMod /\ (a % SeqMod) - (b % SeqMod) <= Half
                \/ b % SeqMod > a % SeqMod /\ (b % SeqMod) - (a % SeqMod) > Half
  BY ONLY <1>1, WrappedOrder, Zenon
<1> HIDE DEF x, y
<1>3. SequenceNewer(x, y) <=> \/ x > y /\ x - y <= Half
                              \/ y > x /\ y - x > Half
  BY DEF SequenceNewer, Half
<1>4. SequenceNewer(x, y) <=> a > b
  BY <1>2, <1>3, Zenon DEF x, y
<1> QED  BY <1>4 DEF x, y

\* A recorded number leaves a word of the window.
LEMMA RecordType ==
  ASSUME NEW a \in Seqno, NEW n \in Seqno, NEW bits \in SUBSET Bit, Records(a, n, bits)
  PROVE  RecordBits(a, n, bits) \in SUBSET Bit
<1>1. CASE SequenceNewer(a, n)
  BY <1>1 DEF RecordBits, Shifted
<1>2. CASE ~SequenceNewer(a, n)
  <2>1. n # a /\ Behind(n, a) <= AckHistory
    BY <1>2 DEF Records, InWindow
  <2> DEFINE d == n - a
             b == Behind(n, a)
  <2>2. d \in Int /\ d # 0 /\ d - 0 < SeqMod /\ 0 - d < SeqMod /\ SeqMod \in Nat \ {0}
    BY <2>1, HalfRange DEF Seqno
  <2>3. b = d % SeqMod
    BY DEF Behind
  <2> HIDE DEF d, b
  <2>4. 0 % SeqMod = 0 /\ 0 \in Int
    BY <2>2
  <2>5. b # 0
    BY <2>2, <2>3, <2>4, WrappedApart
  <2>6. b \in Int /\ b >= 0
    BY <2>2, <2>3, ModRange
  <2>7. b - 1 \in Bit
    BY <2>1, <2>5, <2>6, WindowAssumption DEF Bit, b
  <2>8. RecordBits(a, n, bits) = bits \cup {b - 1}
    BY <1>2 DEF RecordBits, b
  <2> QED  BY <2>7, <2>8
<1> QED  BY <1>1, <1>2

\* on_received lets pass what is newer than all it has heard, and remembers the
\* newest of what it was given.
LEMMA HeardStep ==
  ASSUME NEW end \in End, NEW m, m.id \in Nat, m.seq = m.id % SeqMod,
         end.heard => /\ end.newest = end.last % SeqMod
                      /\ m.id - end.last < Half /\ end.last - m.id < Half
  PROVE  LET after == Heard(end, m)
         IN  /\ after \in End /\ after.heard /\ after.local = end.local
             /\ after.newest = after.last % SeqMod
             /\ after.last = IF end.heard /\ m.id <= end.last THEN end.last ELSE m.id
             /\ ~end.heard \/ m.id > end.last => Passes(end, m)
<1>1. m.seq \in Seqno
  BY SeqnoType
<1>2. CASE ~end.heard
  <2>1. Heard(end, m) = [end EXCEPT !.heard = TRUE, !.newest = m.seq, !.bits = {}, !.last = m.id]
    BY <1>2 DEF Heard
  <2> QED  BY <1>1, <1>2, <2>1 DEF End, Passes
<1>3. CASE end.heard /\ ~Passes(end, m)
  <2>1. Heard(end, m) = end
    BY <1>3 DEF Heard
  <2>2. ~SequenceNewer(m.seq, end.newest)
    BY <1>3 DEF Passes, Records
  <2>3. end.last \in Nat
    BY DEF End
  <2>4. SequenceNewer(m.id % SeqMod, end.last % SeqMod) <=> m.id > end.last
    BY <1>3, <2>3, Newer, Zenon
  <2>5. ~(m.id > end.last)
    BY <1>3, <2>2, <2>4
  <2> QED  BY <1>3, <2>1, <2>3, <2>5
<1>4. CASE end.heard /\ Passes(end, m)
  <2>1. end.last \in Nat /\ end.newest \in Seqno /\ end.bits \in SUBSET Bit /\ end.local \in Nat
    BY DEF End
  <2> DEFINE newer == SequenceNewer(m.seq, end.newest)
             bits == RecordBits(m.seq, end.newest, end.bits)
  <2>2. newer <=> m.id > end.last
    <3>1. SequenceNewer(m.id % SeqMod, end.last % SeqMod) <=> m.id > end.last
      BY <1>4, <2>1, Newer, Zenon
    <3> QED  BY <1>4, <3>1
  <2>3. bits \in SUBSET Bit
    BY <1>1, <1>4, <2>1, RecordType DEF Passes
  <2>4. Heard(end, m) = [end EXCEPT !.newest = IF newer THEN m.seq ELSE @,
                                    !.bits = bits,
                                    !.last = IF m.id > @ THEN m.id ELSE @]
    BY <1>4 DEF Heard
  <2> HIDE DEF newer, bits
  <2>5. /\ Heard(end, m).newest = IF newer THEN m.seq ELSE end.newest
        /\ Heard(end, m).last = IF m.id > end.last THEN m.id ELSE end.last
        /\ Heard(end, m).heard /\ Heard(end, m).local = end.local
    BY <1>4, <2>1, <2>4 DEF End
  <2>6. Heard(end, m) \in End
    BY <1>1, <2>1, <2>3, <2>4 DEF End
  <2> QED  BY <1>4, <2>1, <2>2, <2>5, <2>6
<1>5. end.heard \in BOOLEAN
  BY DEF End
<1> QED  BY <1>2, <1>3, <1>4, <1>5

-----------------------------------------------------------------------------
(* The table of slots.                                                     *)

LEMMA LeastIs ==
  ASSUME NEW S \in SUBSET Int, NEW n \in S, \A r \in S : n <= r
  PROVE  Least(S) = n
<1> DEFINE x == Least(S)
<1>1. x \in S /\ \A r \in S : x <= r
  BY DEF Least
<1> HIDE DEF x
<1>2. x \in Int /\ n \in Int /\ x <= n /\ n <= x
  BY <1>1
<1>3. x = n
  BY <1>2
<1> QED  BY <1>3 DEF x

\* slot_for: the one slot of the address, or the first that is free, which is the
\* one after the last given out.
LEMMA SlotForWhat ==
  ASSUME TypeOK, Table, NEW a \in Address, SlotFor(a) # Full
  PROVE  /\ SlotFor(a) \in Slot
         /\ \/ peer[SlotFor(a)] = a
            \/ ~Live(SlotFor(a)) /\ SlotsOf(a) = {} /\ SlotFor(a) = count
<1> USE LinkAssumption
<1>1. CASE SlotsOf(a) # {}
  <2>1. PICK s \in Slot : peer[s] = a
    BY <1>1 DEF SlotsOf
  <2>2. Live(s)
    BY <2>1 DEF Live
  <2>3. \A r \in SlotsOf(a) : r = s
    BY <2>1, <2>2 DEF Table, SlotsOf, Live
  <2>4. SlotsOf(a) \in SUBSET Int /\ s \in SlotsOf(a) /\ s <= s
    BY <2>1 DEF Slot, SlotsOf
  <2>5. Least(SlotsOf(a)) = s
    BY <2>3, <2>4, LeastIs
  <2> QED  BY <1>1, <2>1, <2>5 DEF SlotFor
<1>2. CASE SlotsOf(a) = {} /\ FreeSlots # {}
  <2>1. \A s \in Slot : s \in FreeSlots <=> s >= count
    BY DEF FreeSlots, Table, TypeOK, Slot
  <2>2. count \in FreeSlots
    BY <1>2, <2>1 DEF TypeOK, Slot, FreeSlots
  <2>3. \A r \in FreeSlots : count <= r /\ r \in Int
    BY <2>1 DEF FreeSlots, Slot
  <2>4. Least(FreeSlots) = count
    BY <2>2, <2>3, LeastIs
  <2> QED  BY <1>2, <2>2, <2>4 DEF SlotFor, FreeSlots
<1>3. CASE SlotsOf(a) = {} /\ FreeSlots = {}
  BY <1>3 DEF SlotFor
<1> QED  BY <1>1, <1>2, <1>3

-----------------------------------------------------------------------------
(* The actions.                                                            *)

LEMMA InitIInv == Init => IInv
<1> SUFFICES ASSUME Init PROVE IInv
  OBVIOUS
<1> USE LinkAssumption
<1>1. 0 \in Seqno /\ 0 % SeqMod = 0 /\ 0 <= Half
  BY HalfRange DEF Seqno
<1>2. NewEnd \in End
  BY <1>1 DEF NewEnd, End
<1>3. TypeOK
  BY <1>2 DEF Init, TypeOK, Tag
<1>4. Table
  BY DEF Init, Table, Live, Slot
<1>5. \A s \in Slot : SlotFollows(s)
  BY DEF Init, SlotFollows, Live
<1>6. \A a \in Address : SlotsOf(a) = {} /\ Unserved(a) /\ CommandsInOrder(a)
  BY <1>1 DEF Init, SlotsOf, Unserved, CommandsInOrder, NewEnd
<1> QED  BY <1>3, <1>4, <1>5, <1>6 DEF IInv, ClientFollows

\* What a datagram taken from the network leaves of it.
LEMMA ReceivedSubset ==
  ASSUME NEW net, NEW m, NEW after \in Received(net, m)
  PROVE  after \subseteq net
BY DEF Received

LEMMA SentSubset ==
  ASSUME NEW net, NEW m, NEW after \in Sent(net, m)
  PROVE  after \subseteq net \cup {m}
BY DEF Sent

\* A command that reaches a slot which has heard its client is less than half a
\* range from the newest there.
LEMMA CommandWithinHalf ==
  ASSUME IInv, NEW m \in toServer, m.kind = "input", sent[m.from] - m.id <= MaxLag,
         NEW s \in Slot, peer[s] = m.from
  PROVE  m.id - serverEnd[s].last < Half /\ serverEnd[s].last - m.id < Half
<1>1. m.from \in Address /\ m.id \in Nat /\ serverEnd[s].last \in Nat
      /\ sent[m.from] \in Nat
  BY DEF IInv, TypeOK, Datagram, End
<1>2. Live(s)
  BY <1>1, LinkAssumption DEF Live
<1>3. serverEnd[s].last < sent[m.from] /\ sent[m.from] - serverEnd[s].last <= Half
  BY <1>2 DEF IInv, SlotFollows
<1>4. m.id < sent[m.from]
  BY <1>1 DEF IInv, ClientFollows, CommandsInOrder, Command
<1>5. MaxLag \in Nat /\ MaxLag <= Half
  BY HalfRange, LinkAssumption DEF Half
<1> QED  BY <1>1, <1>3, <1>4, <1>5, HalfRange

\* One of our inputs, when there is a slot for its sender.
LEMMA InputStep ==
  ASSUME IInv, NEW m \in toServer, m.kind = "input", sent[m.from] - m.id <= MaxLag,
         SlotFor(m.from) # Full, Input(m),
         toServer' \in Received(toServer, m), UNCHANGED <<clientVars, toClient>>
  PROVE  /\ IInv'
         /\ \A r \in Slot : /\ Live(r) => peer'[r] = peer[r]
                            /\ latestTick'[r] >= latestTick[r]
<1> DEFINE a == m.from
<1>0. PICK s : s = SlotFor(m.from)
  OBVIOUS
<1> USE LinkAssumption
<1>1. TypeOK /\ Table
  BY DEF IInv
<1>2. a \in Address /\ a # Nobody /\ m.id \in Nat /\ m.tick \in Nat /\ m.seq \in Seqno
  BY <1>1 DEF TypeOK, Datagram
<1>3. s \in Slot /\ (peer[s] = a \/ (~Live(s) /\ SlotsOf(a) = {} /\ s = count))
  BY <1>0, <1>1, <1>2, SlotForWhat
<1>4. /\ Adopted(a, s) /\ serverEnd' = [serverEnd EXCEPT ![s] = Heard(@, m)]
      /\ IF Passes(serverEnd[s], m) THEN OnInput(s, m)
         ELSE UNCHANGED <<latestTick, latestFrom>>
      /\ tick' = tick
  BY <1>0 DEF Input
<1>5. /\ UNCHANGED <<clock, rewound, applied, clientEnd, sent, toClient, tick>>
      /\ toServer' \subseteq toServer
  BY <1>4, ReceivedSubset DEF clientVars
<1>6. /\ CommandsInOrder(a) /\ SlotFollows(s)
      /\ serverEnd[s] \in End /\ serverEnd[s].last \in Nat
      /\ m.seq = m.id % SeqMod /\ m.id < sent[a]
  BY <1>1, <1>2, <1>3 DEF IInv, ClientFollows, CommandsInOrder, Command, TypeOK, End
<1>7. peer[s] = a <=> Live(s)
  BY <1>2, <1>3 DEF Live
<1>8. Live(s) <=> serverEnd[s].heard
  BY <1>6 DEF SlotFollows, NewEnd
<1> HIDE DEF a
\* The slot's connection.
<1>9. /\ serverEnd'[s] \in End /\ serverEnd'[s].heard
      /\ serverEnd'[s].local = serverEnd[s].local
      /\ serverEnd'[s].newest = serverEnd'[s].last % SeqMod
      /\ serverEnd'[s].last = IF Live(s) /\ m.id <= serverEnd[s].last
                                THEN serverEnd[s].last ELSE m.id
      /\ ~Live(s) \/ m.id > serverEnd[s].last => Passes(serverEnd[s], m)
  <2>1. serverEnd'[s] = Heard(serverEnd[s], m)
    BY <1>1, <1>3, <1>4 DEF TypeOK
  <2>2. serverEnd[s].heard => /\ serverEnd[s].newest = serverEnd[s].last % SeqMod
                              /\ m.id - serverEnd[s].last < Half
                              /\ serverEnd[s].last - m.id < Half
    BY <1>3, <1>6, <1>7, <1>8, CommandWithinHalf DEF SlotFollows, a
  <2> QED  BY <1>2, <1>6, <1>8, <2>1, <2>2, HeardStep
<1>10. /\ \A r \in Slot : r # s => serverEnd'[r] = serverEnd[r]
       /\ serverEnd' \in [Slot -> End]
  BY <1>1, <1>3, <1>4, <1>9 DEF TypeOK
\* The slot's newest command.
<1>11. /\ latestTick' \in [Slot -> Tag] /\ latestFrom' \in [Slot -> Address \cup {Nobody}]
       /\ \A r \in Slot : r # s => latestTick'[r] = latestTick[r] /\ latestFrom'[r] = latestFrom[r]
       /\ latestTick'[s] >= latestTick[s]
       /\ latestTick'[s] # NoTick /\ latestFrom'[s] = a
       /\ ~rewound[a] => latestTick'[s] = IF Live(s) /\ m.id <= serverEnd[s].last
                                             THEN latestTick[s] ELSE m.tick
  <2>1. latestTick[s] \in Tag /\ (latestTick[s] # NoTick <=> Live(s))
        /\ (Live(s) => latestFrom[s] = a)
        /\ (Live(s) /\ ~rewound[a] => (m.id <= serverEnd[s].last <=> m.tick <= latestTick[s]))
    BY <1>1, <1>3, <1>6, <1>7 DEF SlotFollows, TypeOK, Command, a
  <2>2. CASE Passes(serverEnd[s], m) /\ (latestTick[s] = NoTick \/ m.tick > latestTick[s])
    <3>1. /\ latestTick' = [latestTick EXCEPT ![s] = m.tick]
          /\ latestFrom' = [latestFrom EXCEPT ![s] = a]
      BY <1>4, <2>2 DEF OnInput, a
    <3> QED  BY <1>1, <1>2, <1>3, <2>1, <2>2, <3>1 DEF TypeOK, Tag, NoTick
  <2>3. CASE ~(Passes(serverEnd[s], m) /\ (latestTick[s] = NoTick \/ m.tick > latestTick[s]))
    <3>1. UNCHANGED <<latestTick, latestFrom>>
      BY <1>4, <2>3 DEF OnInput
    <3>2. Live(s)
      BY <1>9, <2>1, <2>3
    <3>3. latestTick[s] \in Int /\ m.tick \in Int /\ m.id \in Int /\ serverEnd[s].last \in Int
      BY <1>2, <1>6, <2>1 DEF Tag, NoTick
    <3>4. ~rewound[a] => m.id <= serverEnd[s].last
      <4>1. ~Passes(serverEnd[s], m) => m.id <= serverEnd[s].last
        BY <1>9, <3>2, <3>3
      <4>2. Passes(serverEnd[s], m) => m.tick <= latestTick[s]
        BY <2>3, <3>3
      <4> QED  BY <2>1, <3>2, <4>1, <4>2
    <3> QED  BY <1>1, <1>3, <2>1, <3>1, <3>2, <3>3, <3>4 DEF TypeOK
  <2> QED  BY <2>2, <2>3
\* The table.
<1>12. /\ peer' \in [Slot -> Address \cup {Nobody}] /\ peer'[s] = a
       /\ \A r \in Slot : r # s => peer'[r] = peer[r]
       /\ count' = IF Live(s) THEN count ELSE count + 1
  BY <1>1, <1>2, <1>3, <1>4 DEF Adopted, TypeOK
<1>13. count' \in 0 .. MaxClients
  BY <1>1, <1>3, <1>7, <1>12 DEF TypeOK, Slot
<1>14. TypeOK'
  BY <1>1, <1>5, <1>10, <1>11, <1>12, <1>13 DEF TypeOK
<1>15. \A r \in Slot : r # s => (Live(r)' <=> Live(r))
  BY <1>12 DEF Live
<1>16. Live(s)'
  BY <1>2, <1>12 DEF Live
<1>17. \A r \in Slot : r # s => peer[r] # a
  BY <1>1, <1>2, <1>3, <1>7 DEF Table, Live, SlotsOf
<1>18. Table'
  <2>1. \A r \in Slot : Live(r)' <=> r < count'
    BY <1>1, <1>3, <1>7, <1>12, <1>15, <1>16 DEF Table, TypeOK, Slot
  <2>2. ASSUME NEW r \in Slot, NEW q \in Slot, Live(r)', peer'[r] = peer'[q]
        PROVE  r = q
    BY <1>1, <1>12, <1>15, <1>17, <2>2 DEF Table
  <2> QED  BY <2>1, <2>2 DEF Table
\* The slots and the clients.
<1>19. ASSUME NEW r \in Slot PROVE SlotFollows(r)'
  <2>1. CASE r # s
    <3>1. SlotFollows(r)
      BY DEF IInv
    <3>2. peer'[r] = peer[r] /\ (Live(r)' <=> Live(r)) /\ serverEnd'[r] = serverEnd[r]
          /\ latestTick'[r] = latestTick[r] /\ latestFrom'[r] = latestFrom[r]
      BY <1>10, <1>11, <1>12, <1>15, <2>1
    <3> QED  BY <1>5, <3>1, <3>2 DEF SlotFollows
  <2>2. CASE r = s
    <3>1. serverEnd'[s].last < sent[a] /\ sent[a] - serverEnd'[s].last <= Half
      <4>1. sent[a] \in Nat /\ MaxLag \in Nat /\ MaxLag <= Half
        BY <1>1, <1>2, HalfRange DEF TypeOK, Half
      <4>2. Live(s) => serverEnd[s].last < sent[a] /\ sent[a] - serverEnd[s].last <= Half
        BY <1>6, <1>7 DEF SlotFollows
      <4>3. sent[a] - m.id <= MaxLag
        BY DEF a
      <4> QED  BY <1>2, <1>6, <1>9, <4>1, <4>2, <4>3, HalfRange
    <3>2. ASSUME ~rewound[a]
          PROVE  /\ latestTick'[s] <= clock[a]
                 /\ \A q \in toServer' : Command(q, a) =>
                      (q.id <= serverEnd'[s].last <=> q.tick <= latestTick'[s])
      <4>1. CASE Live(s) /\ m.id <= serverEnd[s].last
        <5>1. latestTick'[s] = latestTick[s] /\ serverEnd'[s].last = serverEnd[s].last
          BY <1>9, <1>11, <3>2, <4>1
        <5> QED  BY <1>5, <1>6, <1>7, <3>2, <4>1, <5>1 DEF SlotFollows
      <4>2. CASE ~(Live(s) /\ m.id <= serverEnd[s].last)
        <5>1. latestTick'[s] = m.tick /\ serverEnd'[s].last = m.id
          BY <1>9, <1>11, <3>2, <4>2
        <5>2. Command(m, a)
          BY DEF Command, a
        <5> QED  BY <1>5, <1>6, <3>2, <5>1, <5>2 DEF CommandsInOrder
      <4> QED  BY <4>1, <4>2
    <3> QED  BY <1>5, <1>9, <1>11, <1>12, <1>16, <2>2, <3>1, <3>2 DEF SlotFollows
  <2> QED  BY <2>1, <2>2
<1>20. ASSUME NEW b \in Address PROVE ClientFollows(b)'
  <2>1. ClientFollows(b)
    BY DEF IInv
  <2>2. CommandsInOrder(b)'
    BY <1>5, <2>1 DEF ClientFollows, CommandsInOrder, Command
  <2>3. CASE b # a
    <3>1. \A r \in Slot : peer'[r] = b <=> peer[r] = b
      BY <1>2, <1>3, <1>7, <1>12, <2>3 DEF Live
    <3>2. SlotsOf(b)' = SlotsOf(b) /\ s \notin SlotsOf(b)
      BY <1>12, <2>3, <3>1 DEF SlotsOf
    <3>3. \A r \in SlotsOf(b) : serverEnd'[r] = serverEnd[r]
      BY <1>10, <3>2 DEF SlotsOf
    <3> QED  BY <1>5, <2>1, <2>2, <3>2, <3>3 DEF ClientFollows, SnapshotsInOrder, Unserved
  <2>4. CASE b = a
    <3>1. SlotsOf(a)' = {s}
      BY <1>3, <1>12, <1>17 DEF SlotsOf
    <3>2. CASE Live(s)
      <4>1. SnapshotsInOrder(a, s)
        BY <1>3, <1>7, <2>1, <2>4, <3>2 DEF ClientFollows, SlotsOf
      <4>2. SnapshotsInOrder(a, s)'
        BY <1>5, <1>9, <4>1 DEF SnapshotsInOrder
      <4> QED  BY <2>2, <2>4, <3>1, <4>2 DEF ClientFollows
    <3>3. CASE ~Live(s)
      <4>1. Unserved(a) /\ serverEnd[s].local = 0
        BY <1>3, <1>6, <1>7, <2>1, <2>4, <3>3 DEF ClientFollows, SlotFollows, NewEnd
      <4>2. SnapshotsInOrder(a, s)'
        BY <1>5, <1>9, <4>1, HalfRange DEF SnapshotsInOrder, Unserved
      <4> QED  BY <2>2, <2>4, <3>1, <4>2 DEF ClientFollows
    <3> QED  BY <3>2, <3>3
  <2> QED  BY <2>3, <2>4
<1>21. IInv'
  BY <1>14, <1>18, <1>19, <1>20 DEF IInv
<1>22. \A r \in Slot : (Live(r) => peer'[r] = peer[r]) /\ latestTick'[r] >= latestTick[r]
  BY <1>1, <1>7, <1>11, <1>12 DEF TypeOK, Tag, NoTick
<1> QED  BY <1>21, <1>22

\* ServerHost::poll, of any datagram.
LEMMA ServerPollStep ==
  ASSUME IInv, ServerPoll
  PROVE  /\ IInv'
         /\ \A r \in Slot : /\ Live(r) => peer'[r] = peer[r]
                            /\ latestTick'[r] >= latestTick[r]
<1>1. PICK m \in toServer :
        /\ sent[m.from] - m.id <= MaxLag
        /\ IF m.kind = "input" THEN Input(m) ELSE UNCHANGED serverVars
        /\ toServer' \in Received(toServer, m)
        /\ UNCHANGED <<clientVars, toClient>>
  BY DEF ServerPoll
<1>2. CASE m.kind = "input" /\ SlotFor(m.from) # Full
  BY <1>1, <1>2, InputStep
<1>3. CASE ~(m.kind = "input" /\ SlotFor(m.from) # Full)
  <2>1. UNCHANGED <<serverVars, clientVars, toClient>> /\ toServer' \subseteq toServer
    BY <1>1, <1>3, ReceivedSubset DEF Input
  <2>2. UNCHANGED <<peer, count, latestTick, latestFrom, tick, serverEnd, clock, rewound, applied,
                    clientEnd, sent, toClient>>
    BY <2>1 DEF serverVars, clientVars
  <2>3. TypeOK' /\ Table'
    BY <2>1, <2>2 DEF IInv, TypeOK, Table, Live
  <2>4. \A s \in Slot : SlotFollows(s)'
    BY <2>1, <2>2 DEF IInv, SlotFollows, Live
  <2>5. \A a \in Address : ClientFollows(a)'
    BY <2>1, <2>2 DEF IInv, ClientFollows, CommandsInOrder, Command, SlotsOf,
                      SnapshotsInOrder, Unserved
  <2>6. \A r \in Slot : latestTick[r] >= latestTick[r]
    BY DEF IInv, TypeOK, Tag, NoTick
  <2> QED  BY <2>2, <2>3, <2>4, <2>5, <2>6 DEF IInv
<1> QED  BY <1>2, <1>3

LEMMA ServerTickIInv == IInv /\ ServerTick => IInv'
<1> SUFFICES ASSUME IInv, ServerTick PROVE IInv'
  OBVIOUS
<1>1. /\ tick \in Nat /\ tick' = tick + 1
      /\ UNCHANGED <<peer, count, latestTick, latestFrom, serverEnd, clock, rewound, applied,
                     clientEnd, sent, toServer, toClient>>
  BY DEF ServerTick, clientVars, IInv, TypeOK
<1>2. TypeOK' /\ Table'
  BY <1>1 DEF IInv, TypeOK, Table, Live
<1>3. \A s \in Slot : SlotFollows(s)'
  BY <1>1 DEF IInv, SlotFollows, Live
<1>4. ASSUME NEW a \in Address PROVE ClientFollows(a)'
  <2>1. ClientFollows(a)
    BY DEF IInv
  <2>2. CommandsInOrder(a)' /\ (SlotsOf(a) = {})' = (SlotsOf(a) = {}) /\ SlotsOf(a)' = SlotsOf(a)
    BY <1>1, <2>1 DEF ClientFollows, CommandsInOrder, Command, SlotsOf
  <2>3. \A m \in toClient[a] : m.tick \in Nat
    BY DEF IInv, TypeOK, Snapshot
  <2>4. \A s \in SlotsOf(a) : SnapshotsInOrder(a, s)'
    BY <1>1, <2>1, <2>3 DEF ClientFollows, SnapshotsInOrder
  <2>5. Unserved(a)' <=> Unserved(a)
    BY <1>1 DEF Unserved
  <2> QED  BY <2>1, <2>2, <2>4, <2>5 DEF ClientFollows
<1> QED  BY <1>2, <1>3, <1>4 DEF IInv

LEMMA BroadcastIInv ==
  ASSUME IInv, NEW s \in Slot, Broadcast(s)
  PROVE  IInv'
<1> USE LinkAssumption
<1>0. PICK a : a = peer[s]
  OBVIOUS
<1>1. TypeOK /\ Table
  BY DEF IInv
<1>2. a \in Address /\ Live(s)
  BY <1>0, <1>1 DEF Broadcast, Live, TypeOK
<1>3. PICK m : m = [seq |-> serverEnd[s].local % SeqMod, id |-> serverEnd[s].local, tick |-> tick]
  OBVIOUS
<1>4. PICK net \in Sent(toClient[a], m) : toClient' = [toClient EXCEPT ![a] = net]
  BY <1>0, <1>3 DEF Broadcast
<1>5. /\ serverEnd' = [serverEnd EXCEPT ![s].local = @ + 1]
      /\ serverEnd[s].local - clientEnd[a].last < MaxSilence
      /\ UNCHANGED <<peer, count, latestTick, latestFrom, tick, clock, rewound, applied, clientEnd,
                     sent, toServer>>
  BY <1>0 DEF Broadcast, clientVars
<1>6. /\ serverEnd[s] \in End /\ serverEnd[s].local \in Nat /\ tick \in Nat
      /\ clientEnd[a].last \in Nat
  BY <1>1, <1>2 DEF TypeOK, End
<1>7. m.seq = m.id % SeqMod /\ m.id = serverEnd[s].local /\ m.tick = tick /\ m \in Snapshot
  BY <1>3, <1>6, SeqnoType DEF Snapshot
<1>8. /\ toClient' \in [Address -> SUBSET Snapshot]
      /\ toClient'[a] \subseteq toClient[a] \cup {m}
      /\ \A b \in Address : b # a => toClient'[b] = toClient[b]
  <2>1. net \subseteq toClient[a] \cup {m}
    BY <1>4, SentSubset
  <2> QED  BY <1>1, <1>2, <1>4, <1>7, <2>1 DEF TypeOK
<1>9. /\ serverEnd' \in [Slot -> End]
      /\ serverEnd'[s].local = serverEnd[s].local + 1
      /\ serverEnd'[s].heard = serverEnd[s].heard /\ serverEnd'[s].last = serverEnd[s].last
      /\ serverEnd'[s].newest = serverEnd[s].newest
      /\ \A r \in Slot : r # s => serverEnd'[r] = serverEnd[r]
  <2> DEFINE after == [serverEnd[s] EXCEPT !.local = serverEnd[s].local + 1]
  <2>1. /\ after \in End /\ after.local = serverEnd[s].local + 1
        /\ after.heard = serverEnd[s].heard /\ after.last = serverEnd[s].last
        /\ after.newest = serverEnd[s].newest
    BY <1>6 DEF End
  <2>2. serverEnd' = [serverEnd EXCEPT ![s] = after] /\ serverEnd \in [Slot -> End]
    BY <1>1, <1>5 DEF TypeOK
  <2> HIDE DEF after
  <2> QED  BY <2>1, <2>2
<1>10. TypeOK' /\ Table'
  BY <1>1, <1>5, <1>8, <1>9 DEF TypeOK, Table, Live
<1>11. ASSUME NEW r \in Slot PROVE SlotFollows(r)'
  <2>1. SlotFollows(r)
    BY DEF IInv
  <2>2. CASE r = s
    BY <1>2, <1>5, <1>9, <2>1, <2>2 DEF SlotFollows, Live
  <2>3. CASE r # s
    BY <1>5, <1>9, <2>1, <2>3 DEF SlotFollows, Live
  <2> QED  BY <2>2, <2>3
<1>12. ASSUME NEW b \in Address PROVE ClientFollows(b)'
  <2>1. ClientFollows(b)
    BY DEF IInv
  <2>2. CommandsInOrder(b)' /\ SlotsOf(b)' = SlotsOf(b)
    BY <1>5, <2>1 DEF ClientFollows, CommandsInOrder, Command, SlotsOf
  <2>3. CASE b # a
    <3>1. \A r \in SlotsOf(b) : r # s /\ r \in Slot
      BY <1>0, <2>3 DEF SlotsOf
    <3>2. toClient'[b] = toClient[b] /\ \A r \in SlotsOf(b) : serverEnd'[r] = serverEnd[r]
      BY <1>8, <1>9, <2>3, <3>1
    <3> QED  BY <1>5, <2>1, <2>2, <3>2 DEF ClientFollows, SnapshotsInOrder, Unserved
  <2>4. CASE b = a
    <3>1. SlotsOf(a) = {s}
      BY <1>0, <1>1, <1>2 DEF Table, SlotsOf, Live
    <3>2. SnapshotsInOrder(a, s)
      BY <2>1, <2>4, <3>1 DEF ClientFollows
    <3>3. serverEnd'[s].local - clientEnd[a].last <= Half
      <4>1. MaxSilence \in Nat /\ MaxSilence <= Half
        BY HalfRange DEF Half
      <4> QED  BY <1>5, <1>6, <1>9, <4>1, HalfRange
    <3>4. clientEnd[a].heard => /\ clientEnd[a].newest = clientEnd[a].last % SeqMod
                                /\ clientEnd[a].last < serverEnd'[s].local
      BY <1>6, <1>9, <3>2 DEF SnapshotsInOrder
    <3>5. ASSUME NEW q \in toClient'[a]
          PROVE  /\ q.id < serverEnd'[s].local /\ q.seq = q.id % SeqMod /\ q.tick <= tick
                 /\ clientEnd[a].heard /\ q.id <= clientEnd[a].last => q.tick <= applied[a]
      <4>1. CASE q = m
        BY <1>6, <1>7, <1>9, <3>2, <4>1 DEF SnapshotsInOrder
      <4>2. CASE q # m
        <5>1. q \in toClient[a]
          BY <1>8, <4>2
        <5>2. q.id \in Nat
          BY <1>1, <1>2, <5>1 DEF TypeOK, Snapshot
        <5> QED  BY <1>6, <1>9, <3>2, <5>1, <5>2 DEF SnapshotsInOrder
      <4> QED  BY <4>1, <4>2
    <3>6. ASSUME NEW q \in toClient'[a], NEW r \in toClient'[a], q.id <= r.id
          PROVE  q.tick <= r.tick
      <4>1. \A x \in toClient[a] : x.id < m.id /\ x.tick <= m.tick /\ x.id \in Nat /\ x.tick \in Nat
        BY <1>1, <1>2, <1>7, <3>2 DEF TypeOK, Snapshot, SnapshotsInOrder
      <4>2. CASE q # m /\ r # m
        BY <1>8, <3>2, <3>6, <4>2 DEF SnapshotsInOrder
      <4>3. CASE r = m
        BY <1>6, <1>7, <1>8, <4>1, <4>3
      <4>4. CASE q = m /\ r # m
        BY <1>6, <1>7, <1>8, <3>6, <4>1, <4>4
      <4> QED  BY <4>2, <4>3, <4>4
    <3>7. SnapshotsInOrder(a, s)'
      BY <1>5, <3>3, <3>4, <3>5, <3>6 DEF SnapshotsInOrder
    <3> QED  BY <2>2, <2>4, <3>1, <3>7 DEF ClientFollows
  <2> QED  BY <2>3, <2>4
<1> QED  BY <1>10, <1>11, <1>12 DEF IInv

LEMMA ClientSendIInv ==
  ASSUME IInv, NEW a \in Address, ClientSend(a)
  PROVE  IInv'
<1> USE LinkAssumption
<1>1. TypeOK /\ Table /\ a # Nobody
  BY DEF IInv
<1>2. PICK m : m = [kind |-> "input", from |-> a, seq |-> clientEnd[a].local, id |-> sent[a],
                    tick |-> clock[a] + 1]
  OBVIOUS
<1>3. /\ \A s \in SlotsOf(a) : sent[a] - serverEnd[s].last < MaxSilence
      /\ clock' = [clock EXCEPT ![a] = @ + 1]
      /\ clientEnd' = [clientEnd EXCEPT ![a].local = (@ + 1) % SeqMod]
      /\ sent' = [sent EXCEPT ![a] = @ + 1]
      /\ toServer' \in Sent(toServer, m)
      /\ UNCHANGED <<peer, count, latestTick, latestFrom, tick, serverEnd, rewound, applied, toClient>>
  BY <1>2 DEF ClientSend, serverVars
<1>4. /\ sent[a] \in Nat /\ clock[a] \in Nat /\ clientEnd[a] \in End
      /\ ClientFollows(a) /\ CommandsInOrder(a)
  BY <1>1 DEF IInv, TypeOK, ClientFollows
<1>5. /\ m.kind = "input" /\ m.from = a /\ m.id = sent[a] /\ m.tick = clock[a] + 1
      /\ m.seq = m.id % SeqMod /\ m \in Datagram
  BY <1>2, <1>4, SeqnoType DEF CommandsInOrder, Datagram
<1>6. toServer' \subseteq toServer \cup {m}
  BY <1>3, SentSubset
<1>7. /\ sent' \in [Address -> Nat] /\ clock' \in [Address -> Nat]
      /\ sent'[a] = sent[a] + 1 /\ clock'[a] = clock[a] + 1
      /\ \A b \in Address : b # a => sent'[b] = sent[b] /\ clock'[b] = clock[b]
  BY <1>1, <1>3 DEF TypeOK
<1>8. /\ clientEnd' \in [Address -> End]
      /\ clientEnd'[a].local = sent'[a] % SeqMod
      /\ clientEnd'[a].heard = clientEnd[a].heard /\ clientEnd'[a].last = clientEnd[a].last
      /\ clientEnd'[a].newest = clientEnd[a].newest
      /\ \A b \in Address : b # a => clientEnd'[b] = clientEnd[b]
  <2> DEFINE n == sent[a] + 1
             local == n % SeqMod
             after == [clientEnd[a] EXCEPT !.local = local]
  <2>1. n \in Nat /\ local \in Nat
    BY <1>4, SeqnoType, HalfRange DEF Seqno
  <2>2. (clientEnd[a].local + 1) % SeqMod = local
    <3>1. clientEnd[a].local = sent[a] % SeqMod
      BY <1>4 DEF CommandsInOrder
    <3>2. ((sent[a] % SeqMod) + 1) % SeqMod = (sent[a] + 1) % SeqMod
      BY <1>4, HalfRange, WrappedNext
    <3> QED  BY <3>1, <3>2
  <2>3. sent'[a] % SeqMod = local
    BY <1>7
  <2> HIDE DEF n, local
  <2>4. /\ after \in End /\ after.local = local
        /\ after.heard = clientEnd[a].heard /\ after.last = clientEnd[a].last
        /\ after.newest = clientEnd[a].newest
    BY <1>4, <2>1 DEF End
  <2>5. clientEnd' = [clientEnd EXCEPT ![a] = after] /\ clientEnd \in [Address -> End]
    BY <1>1, <1>3, <2>2 DEF TypeOK
  <2> HIDE DEF after
  <2> QED  BY <2>3, <2>4, <2>5
<1>9. TypeOK' /\ Table'
  BY <1>1, <1>3, <1>5, <1>6, <1>7, <1>8 DEF TypeOK, Table, Live
<1>10. ASSUME NEW s \in Slot PROVE SlotFollows(s)'
  <2>1. SlotFollows(s)
    BY DEF IInv
  <2>2. CASE ~Live(s)
    BY <1>3, <2>1, <2>2 DEF SlotFollows, Live
  <2>3. CASE Live(s) /\ peer[s] # a
    <3>1. peer[s] \in Address /\ sent'[peer[s]] = sent[peer[s]]
      BY <1>1, <1>7, <2>3 DEF TypeOK, Live
    <3>2. \A q \in toServer' : Command(q, peer[s]) => q \in toServer
      BY <1>5, <1>6, <2>3 DEF Command
    <3> QED  BY <1>3, <2>1, <2>3, <3>1, <3>2 DEF SlotFollows, Live
  <2>4. CASE Live(s) /\ peer[s] = a
    <3>1. serverEnd[s].last \in Nat /\ serverEnd[s].last < sent[a]
          /\ sent[a] - serverEnd[s].last < MaxSilence
      BY <1>1, <1>3, <2>1, <2>4 DEF TypeOK, End, SlotFollows, SlotsOf
    <3>2. MaxSilence \in Nat /\ MaxSilence <= Half
      BY HalfRange DEF Half
    <3>3. serverEnd[s].last < sent'[a] /\ sent'[a] - serverEnd[s].last <= Half
      BY <1>4, <1>7, <3>1, <3>2, HalfRange
    <3>4. ASSUME ~rewound[a]
          PROVE  /\ latestTick[s] <= clock'[a]
                 /\ \A q \in toServer' : Command(q, a) =>
                      (q.id <= serverEnd[s].last <=> q.tick <= latestTick[s])
      <4>1. /\ latestTick[s] <= clock[a]
            /\ \A q \in toServer : Command(q, a) =>
                 (q.id <= serverEnd[s].last <=> q.tick <= latestTick[s])
        BY <2>1, <2>4, <3>4 DEF SlotFollows
      <4>2. latestTick[s] \in Int
        BY <1>1 DEF TypeOK, Tag, NoTick
      <4>3. ~(m.id <= serverEnd[s].last) /\ ~(m.tick <= latestTick[s])
        BY <1>4, <1>5, <3>1, <4>1, <4>2
      <4> QED  BY <1>4, <1>6, <1>7, <4>1, <4>2, <4>3
    <3> QED  BY <1>3, <2>1, <2>4, <3>3, <3>4 DEF SlotFollows, Live
  <2> QED  BY <2>2, <2>3, <2>4
<1>11. ASSUME NEW b \in Address PROVE ClientFollows(b)'
  <2>1. ClientFollows(b) /\ SlotsOf(b)' = SlotsOf(b)
    BY <1>3 DEF IInv, SlotsOf
  <2>2. /\ clientEnd'[b].heard = clientEnd[b].heard /\ clientEnd'[b].last = clientEnd[b].last
        /\ clientEnd'[b].newest = clientEnd[b].newest
    BY <1>8
  <2>3. \A s \in SlotsOf(b) : SnapshotsInOrder(b, s) => SnapshotsInOrder(b, s)'
    BY <1>3, <2>2 DEF SnapshotsInOrder
  <2>4. Unserved(b) => Unserved(b)'
    BY <1>3, <2>2 DEF Unserved
  <2>5. CASE b # a
    <3>1. \A q \in toServer' : Command(q, b) => q \in toServer
      BY <1>5, <1>6, <2>5 DEF Command
    <3>2. CommandsInOrder(b)'
      BY <1>3, <1>7, <1>8, <2>1, <2>5, <3>1 DEF ClientFollows, CommandsInOrder, Command
    <3> QED  BY <2>1, <2>3, <2>4, <3>2 DEF ClientFollows
  <2>6. CASE b = a
    <3>1. \A q \in toServer : Command(q, a) =>
            /\ q.id < m.id /\ q.seq = q.id % SeqMod
            /\ ~rewound[a] => q.tick <= clock[a]
            /\ q.id \in Nat /\ q.tick \in Nat
      BY <1>1, <1>4, <1>5 DEF CommandsInOrder, TypeOK, Datagram
    <3>2. \A q \in toServer' : Command(q, a) =>
            /\ q.id < sent'[a] /\ q.seq = q.id % SeqMod
            /\ ~rewound[a] => q.tick <= clock'[a]
      BY <1>4, <1>5, <1>6, <1>7, <3>1
    <3>3. ASSUME NEW q \in toServer', NEW r \in toServer', Command(q, a), Command(r, a),
                 ~rewound[a]
          PROVE  q.id <= r.id <=> q.tick <= r.tick
      <4>1. CASE q # m /\ r # m
        BY <1>4, <1>6, <3>3, <4>1 DEF CommandsInOrder
      <4>2. CASE q = m /\ r = m
        BY <1>4, <1>5, <4>2
      <4>3. CASE q # m /\ r = m
        BY <1>4, <1>5, <1>6, <3>1, <3>3, <4>3
      <4>4. CASE q = m /\ r # m
        BY <1>4, <1>5, <1>6, <3>1, <3>3, <4>4
      <4> QED  BY <4>1, <4>2, <4>3, <4>4
    <3>4. CommandsInOrder(a)'
      BY <1>3, <1>8, <3>2, <3>3 DEF CommandsInOrder, Command
    <3> QED  BY <2>1, <2>3, <2>4, <2>6, <3>4 DEF ClientFollows
  <2> QED  BY <2>5, <2>6
<1> QED  BY <1>9, <1>10, <1>11 DEF IInv

LEMMA StrayIInv ==
  ASSUME IInv, NEW a \in Address, Stray(a)
  PROVE  IInv'
<1>1. PICK m : m = [kind |-> "stray", from |-> a, seq |-> 0, id |-> 0, tick |-> 0]
  OBVIOUS
<1>2. /\ toServer' \subseteq toServer \cup {m}
      /\ UNCHANGED <<peer, count, latestTick, latestFrom, tick, serverEnd, clock, rewound, applied,
                     clientEnd, sent, toClient>>
  BY <1>1, SentSubset DEF Stray, serverVars, clientVars
<1>3. m \in Datagram /\ m.kind # "input"
  BY <1>1, HalfRange DEF Datagram, Seqno
<1>4. \A b : \A q \in toServer' : Command(q, b) => q \in toServer
  BY <1>2, <1>3 DEF Command
<1>5. TypeOK' /\ Table'
  BY <1>2, <1>3 DEF IInv, TypeOK, Table, Live
<1>6. \A s \in Slot : SlotFollows(s)'
  BY <1>2, <1>4 DEF IInv, SlotFollows, Live
<1>7. ASSUME NEW b \in Address PROVE ClientFollows(b)'
  <2>1. ClientFollows(b) /\ SlotsOf(b)' = SlotsOf(b)
    BY <1>2 DEF IInv, SlotsOf
  <2>2. CommandsInOrder(b)'
    BY <1>2, <1>4, <2>1 DEF ClientFollows, CommandsInOrder, Command
  <2>3. /\ \A s \in SlotsOf(b) : SnapshotsInOrder(b, s) => SnapshotsInOrder(b, s)'
        /\ Unserved(b) => Unserved(b)'
    BY <1>2 DEF SnapshotsInOrder, Unserved
  <2> QED  BY <2>1, <2>2, <2>3 DEF ClientFollows
<1> QED  BY <1>5, <1>6, <1>7 DEF IInv

\* A snapshot that reaches its client is less than half a range from the newest
\* heard there.
LEMMA SnapshotWithinHalf ==
  ASSUME IInv, NEW a \in Address, NEW s \in SlotsOf(a), NEW m \in toClient[a],
         serverEnd[s].local - m.id <= MaxLag, clientEnd[a].heard
  PROVE  m.id - clientEnd[a].last < Half /\ clientEnd[a].last - m.id < Half
<1>1. m.id \in Nat /\ clientEnd[a].last \in Nat /\ serverEnd[s].local \in Nat
  BY DEF IInv, TypeOK, Snapshot, End, SlotsOf
<1>2. SnapshotsInOrder(a, s)
  BY DEF IInv, ClientFollows
<1>3. /\ m.id < serverEnd[s].local /\ clientEnd[a].last < serverEnd[s].local
      /\ serverEnd[s].local - clientEnd[a].last <= Half
  BY <1>2 DEF SnapshotsInOrder
<1>4. MaxLag \in Nat /\ MaxLag <= Half
  BY HalfRange, LinkAssumption DEF Half
<1> QED  BY <1>1, <1>3, <1>4, HalfRange

LEMMA ClientPollIInv ==
  ASSUME IInv, NEW a \in Address, ClientPoll(a)
  PROVE  IInv'
<1>1. TypeOK /\ Table /\ a # Nobody
  BY LinkAssumption DEF IInv
<1>2. PICK m \in toClient[a] :
        /\ \A n \in SnapshotsTo(a) : n - m.id <= MaxLag
        /\ clientEnd' = [clientEnd EXCEPT ![a] = Heard(@, m)]
        /\ IF Passes(clientEnd[a], m) THEN OnSnapshot(a, m)
           ELSE UNCHANGED <<applied, clock, rewound>>
        /\ \E net \in Received(toClient[a], m) : toClient' = [toClient EXCEPT ![a] = net]
        /\ UNCHANGED <<serverVars, sent, toServer>>
  BY DEF ClientPoll
<1>3. UNCHANGED <<peer, count, latestTick, latestFrom, tick, serverEnd, sent, toServer>>
  BY <1>2 DEF serverVars
<1>4. ClientFollows(a)
  BY DEF IInv
<1>5. PICK s \in Slot : peer[s] = a
  BY <1>2, <1>4 DEF ClientFollows, Unserved, SlotsOf
<1>6. SlotsOf(a) = {s} /\ SnapshotsInOrder(a, s)
  BY <1>1, <1>4, <1>5 DEF Table, Live, SlotsOf, ClientFollows
<1>7. /\ m.id \in Nat /\ m.tick \in Nat /\ clientEnd[a] \in End /\ clientEnd[a].last \in Nat
      /\ m.id < serverEnd[s].local /\ m.seq = m.id % SeqMod
      /\ serverEnd[s].local \in Nat /\ serverEnd[s].local - m.id <= MaxLag
  BY <1>1, <1>2, <1>5, <1>6 DEF TypeOK, Snapshot, End, SnapshotsInOrder, SnapshotsTo
<1>8. /\ clientEnd'[a] \in End /\ clientEnd'[a].heard
      /\ clientEnd'[a].local = clientEnd[a].local
      /\ clientEnd'[a].newest = clientEnd'[a].last % SeqMod
      /\ clientEnd'[a].last = IF clientEnd[a].heard /\ m.id <= clientEnd[a].last
                                THEN clientEnd[a].last ELSE m.id
      /\ ~clientEnd[a].heard \/ m.id > clientEnd[a].last => Passes(clientEnd[a], m)
  <2>1. clientEnd'[a] = Heard(clientEnd[a], m)
    BY <1>1, <1>2 DEF TypeOK
  <2>2. clientEnd[a].heard => /\ clientEnd[a].newest = clientEnd[a].last % SeqMod
                              /\ m.id - clientEnd[a].last < Half
                              /\ clientEnd[a].last - m.id < Half
    BY <1>2, <1>6, <1>7, SnapshotWithinHalf DEF SnapshotsInOrder
  <2> QED  BY <1>7, <2>1, <2>2, HeardStep
<1>9. /\ clientEnd' \in [Address -> End]
      /\ \A b \in Address : b # a => clientEnd'[b] = clientEnd[b]
  BY <1>1, <1>2, <1>8 DEF TypeOK
<1>10. /\ toClient' \in [Address -> SUBSET Snapshot] /\ toClient'[a] \subseteq toClient[a]
       /\ \A b \in Address : b # a => toClient'[b] = toClient[b]
  <2>1. PICK net \in Received(toClient[a], m) : toClient' = [toClient EXCEPT ![a] = net]
    BY <1>2
  <2>2. net \subseteq toClient[a]
    BY <2>1, ReceivedSubset
  <2> QED  BY <1>1, <2>1, <2>2 DEF TypeOK
\* The snapshot taken in is no newer than what the client has afterwards.
<1>11. /\ applied' \in [Address -> Tag] /\ clock' \in [Address -> Nat]
       /\ rewound' \in [Address -> BOOLEAN]
       /\ \A b \in Address : b # a =>
            applied'[b] = applied[b] /\ clock'[b] = clock[b] /\ rewound'[b] = rewound[b]
       /\ applied'[a] >= applied[a]
       /\ ~rewound'[a] => ~rewound[a] /\ clock'[a] >= clock[a]
       /\ Passes(clientEnd[a], m) => applied'[a] >= m.tick
  <2>1. /\ applied \in [Address -> Tag] /\ clock \in [Address -> Nat]
        /\ rewound \in [Address -> BOOLEAN] /\ History \in Nat
    BY <1>1, LinkAssumption DEF TypeOK
  <2>2. CASE Passes(clientEnd[a], m) /\ (applied[a] = NoTick \/ m.tick > applied[a])
    <3>1. /\ applied' = [applied EXCEPT ![a] = m.tick]
          /\ clock' = [clock EXCEPT ![a] = Repredicted(m.tick, @)]
          /\ rewound' = [rewound EXCEPT ![a] = @ \/ clock[a] > m.tick + History]
      BY <1>2, <2>2 DEF OnSnapshot
    <3>2. /\ Repredicted(m.tick, clock[a]) \in Nat
          /\ ~(clock[a] > m.tick + History) => Repredicted(m.tick, clock[a]) >= clock[a]
      BY <1>7, <2>1 DEF Repredicted
    <3>3. rewound'[a] <=> rewound[a] \/ clock[a] > m.tick + History
      BY <2>1, <3>1
    <3>4. rewound' \in [Address -> BOOLEAN] /\ \A b \in Address : b # a => rewound'[b] = rewound[b]
      BY <2>1, <3>1, Zenon
    <3>5. /\ clock' \in [Address -> Nat] /\ clock'[a] = Repredicted(m.tick, clock[a])
          /\ \A b \in Address : b # a => clock'[b] = clock[b]
      BY <2>1, <3>1, <3>2
    <3>6. /\ applied' \in [Address -> Tag] /\ applied'[a] = m.tick /\ applied'[a] >= applied[a]
          /\ \A b \in Address : b # a => applied'[b] = applied[b]
      BY <1>7, <2>1, <2>2, <3>1 DEF Tag, NoTick
    <3> QED  BY <1>7, <2>1, <2>2, <3>2, <3>3, <3>4, <3>5, <3>6
  <2>3. CASE ~(Passes(clientEnd[a], m) /\ (applied[a] = NoTick \/ m.tick > applied[a]))
    <3>1. UNCHANGED <<applied, clock, rewound>>
      BY <1>2, <2>3 DEF OnSnapshot
    <3> QED  BY <1>7, <2>1, <2>3, <3>1 DEF Tag, NoTick
  <2> QED  BY <2>2, <2>3
<1>12. TypeOK' /\ Table'
  BY <1>1, <1>3, <1>9, <1>8, <1>10, <1>11 DEF TypeOK, Table, Live
\* The client's clock is no further back, unless it has been set back.
<1>17. ASSUME NEW b \in Address, ~rewound'[b]
       PROVE  ~rewound[b] /\ clock'[b] >= clock[b] /\ clock[b] \in Nat /\ clock'[b] \in Nat
  BY <1>1, <1>11, <1>17 DEF TypeOK
<1>13. ASSUME NEW r \in Slot PROVE SlotFollows(r)'
  <2>1. SlotFollows(r)
    BY DEF IInv
  <2>2. CASE ~Live(r)
    BY <1>3, <2>1, <2>2 DEF SlotFollows, Live
  <2>3. CASE Live(r)
    <3>1. peer[r] \in Address /\ latestTick[r] \in Int
      BY <1>1, <2>3 DEF TypeOK, Live, Tag, NoTick
    <3>2. ~rewound'[peer[r]] => ~rewound[peer[r]] /\ latestTick[r] <= clock'[peer[r]]
      BY <1>17, <2>1, <2>3, <3>1 DEF SlotFollows
    <3> QED  BY <1>3, <2>1, <2>3, <3>1, <3>2 DEF SlotFollows, Live
  <2> QED  BY <2>2, <2>3
<1>14. ASSUME NEW b \in Address PROVE CommandsInOrder(b)'
  <2>1. CommandsInOrder(b) /\ clientEnd'[b].local = clientEnd[b].local
    BY <1>8, <1>9 DEF IInv, ClientFollows
  <2>2. ~rewound'[b] => /\ ~rewound[b] /\ clock'[b] >= clock[b]
                        /\ clock[b] \in Nat /\ clock'[b] \in Nat
    BY <1>17
  <2>3. \A q \in toServer : q.tick \in Nat
    BY <1>1 DEF TypeOK, Datagram
  <2> QED  BY <1>3, <2>1, <2>2, <2>3 DEF CommandsInOrder, Command
<1>15. SnapshotsInOrder(a, s)'
  <2>1. serverEnd[s].local - clientEnd'[a].last <= Half
        /\ clientEnd'[a].last < serverEnd[s].local
    <3>1. serverEnd[s].local - clientEnd[a].last <= Half
          /\ (clientEnd[a].heard => clientEnd[a].last < serverEnd[s].local)
      BY <1>6 DEF SnapshotsInOrder
    <3>2. MaxLag \in Nat /\ MaxLag <= Half
      BY HalfRange, LinkAssumption DEF Half
    <3> QED  BY <1>7, <1>8, <3>1, <3>2, HalfRange
  <2>2. ASSUME NEW q \in toClient[a], q.id <= clientEnd'[a].last
        PROVE  q.tick <= applied'[a]
    <3>1. q.id \in Nat /\ q.tick \in Nat /\ applied[a] \in Int /\ applied'[a] \in Int
      BY <1>1, <1>11 DEF TypeOK, Snapshot, Tag, NoTick
    <3>2. CASE clientEnd[a].heard /\ q.id <= clientEnd[a].last
      <4>1. q.tick <= applied[a]
        BY <1>6, <3>2 DEF SnapshotsInOrder
      <4> QED  BY <1>11, <3>1, <4>1
    <3>3. CASE ~(clientEnd[a].heard /\ q.id <= clientEnd[a].last)
      <4>1. q.id <= m.id /\ (~clientEnd[a].heard \/ m.id > clientEnd[a].last)
        BY <1>7, <1>8, <2>2, <3>1, <3>3
      <4>2. q.tick <= m.tick
        BY <1>6, <4>1 DEF SnapshotsInOrder
      <4> QED  BY <1>7, <1>8, <1>11, <3>1, <4>1, <4>2
    <3> QED  BY <3>2, <3>3
  <2> QED  BY <1>3, <1>6, <1>8, <1>10, <2>1, <2>2 DEF SnapshotsInOrder
<1>16. ASSUME NEW b \in Address PROVE ClientFollows(b)'
  <2>1. SlotsOf(b)' = SlotsOf(b) /\ ClientFollows(b)
    BY <1>3 DEF SlotsOf, IInv
  <2>2. CASE b = a
    BY <1>6, <1>14, <1>15, <2>1, <2>2 DEF ClientFollows
  <2>3. CASE b # a
    <3>1. \A r \in SlotsOf(b) : SnapshotsInOrder(b, r) => SnapshotsInOrder(b, r)'
      BY <1>3, <1>9, <1>10, <1>11, <2>3 DEF SnapshotsInOrder
    <3>2. Unserved(b) => Unserved(b)'
      BY <1>9, <1>10, <2>3 DEF Unserved
    <3> QED  BY <1>14, <2>1, <3>1, <3>2 DEF ClientFollows
  <2> QED  BY <2>2, <2>3
<1> QED  BY <1>12, <1>13, <1>16 DEF IInv
-----------------------------------------------------------------------------
(* The theorems.                                                           *)

LEMMA AlwaysIInv == Spec => []IInv
<1>1. IInv /\ [Next]_vars => IInv'
  <2> SUFFICES ASSUME IInv, [Next]_vars PROVE IInv'
    OBVIOUS
  <2>1. CASE ServerPoll
    BY <2>1, ServerPollStep
  <2>2. CASE ServerTick
    BY <2>2, ServerTickIInv
  <2>3. ASSUME NEW s \in Slot, Broadcast(s) PROVE IInv'
    BY <2>3, BroadcastIInv
  <2>4. ASSUME NEW a \in Address, ClientSend(a) PROVE IInv'
    BY <2>4, ClientSendIInv
  <2>5. ASSUME NEW a \in Address, Stray(a) PROVE IInv'
    BY <2>5, StrayIInv
  <2>6. ASSUME NEW a \in Address, ClientPoll(a) PROVE IInv'
    BY <2>6, ClientPollIInv
  <2>7. CASE UNCHANGED vars
    <3>1. UNCHANGED <<peer, count, latestTick, latestFrom, tick, serverEnd, clock, rewound, applied,
                      clientEnd, sent, toServer, toClient>>
      BY <2>7 DEF vars, serverVars, clientVars
    <3>2. TypeOK' /\ Table'
      BY <3>1 DEF IInv, TypeOK, Table, Live
    <3>3. \A s \in Slot : SlotFollows(s)'
      BY <3>1 DEF IInv, SlotFollows, Live
    <3>4. \A a \in Address : ClientFollows(a)'
      BY <3>1 DEF IInv, ClientFollows, CommandsInOrder, SnapshotsInOrder, Unserved, SlotsOf
    <3> QED  BY <3>2, <3>3, <3>4 DEF IInv
  <2> QED  BY <2>1, <2>2, <2>3, <2>4, <2>5, <2>6, <2>7 DEF Next
<1> QED  BY InitIInv, <1>1, PTL DEF Spec

\* The server's table of peers is sound (slot_for and ServerHost::poll): an address has
\* at most one slot, the slots in use are the first client_count_, and nobody is in
\* the table who has not sent an input of ours.
THEOREM SlotTableSoundAlways == Spec => []SlotTableSound
<1>1. IInv => SlotTableSound
  <2> SUFFICES ASSUME IInv PROVE SlotTableSound
    OBVIOUS
  <2> USE LinkAssumption
  <2>1. TypeOK /\ Table
    BY DEF IInv
  <2>2. ASSUME NEW a \in Address PROVE Cardinality(SlotsOf(a)) <= 1
    <3>1. CASE SlotsOf(a) = {}
      <4>1. Cardinality(SlotsOf(a)) = 0
        BY <3>1, FS_EmptySet
      <4> QED  BY <4>1
    <3>2. CASE SlotsOf(a) # {}
      <4>1. PICK s \in Slot : peer[s] = a
        BY <3>2 DEF SlotsOf
      <4>2. SlotsOf(a) = {s}
        BY <2>1, <4>1 DEF Table, Live, SlotsOf
      <4>3. Cardinality({s}) = 1
        BY FS_Singleton
      <4> QED  BY <4>2, <4>3
    <3> QED  BY <3>1, <3>2
  <2>3. {s \in Slot : Live(s)} = 0 .. count - 1
    BY <2>1 DEF Table, TypeOK, Slot
  <2>4. ASSUME NEW s \in Slot, Live(s) PROVE sent[peer[s]] > 0
    <3>1. serverEnd[s].last \in Nat /\ sent[peer[s]] \in Nat
      BY <2>1, <2>4 DEF TypeOK, End, Live
    <3>2. serverEnd[s].last < sent[peer[s]]
      BY <2>4 DEF IInv, SlotFollows
    <3> QED  BY <3>1, <3>2
  <2> QED  BY <2>1, <2>2, <2>3, <2>4 DEF SlotTableSound, SlotsGivenOnce, SlotsForPlayers
<1> QED  BY AlwaysIInv, <1>1, PTL

\* A slot is driven by commands of the address it was given to, and by nobody else's
\* (slot_for before on_input): from the moment it is given out, and never before.
THEOREM DrivenByItsClientAlways == Spec => []DrivenByItsClient
<1>1. IInv => DrivenByItsClient
  BY DEF IInv, SlotFollows, DrivenByItsClient
<1> QED  BY AlwaysIInv, <1>1, PTL

\* The two filters of a path agree, however often the counters have wrapped and
\* whatever has been overtaken: a datagram at most MaxLag old whose tick the handler
\* has yet to see is let pass, and the newest command of a client whose clock was never
\* set back is both let pass and taken (on_received, then on_input and on_snapshot).
THEOREM NothingNewHeldBackAlways == Spec => []NothingNewHeldBack
<1>1. IInv => NothingNewHeldBack
  <2> SUFFICES ASSUME IInv PROVE NothingNewHeldBack
    OBVIOUS
  <2>1. TypeOK
    BY DEF IInv
  <2>2. ASSUME NEW m \in toServer, NEW s \in SlotsOf(m.from), InTime(m), ~rewound[m.from]
        PROVE  /\ m.tick > latestTick[s] => Passes(serverEnd[s], m)
               /\ Newest(m, s) => Passes(serverEnd[s], m) /\ m.tick > latestTick[s]
    <3>1. s \in Slot /\ peer[s] = m.from /\ m.from \in Address
      BY <2>1 DEF SlotsOf, TypeOK, Datagram
    <3>2. /\ m.id \in Nat /\ m.tick \in Nat /\ serverEnd[s] \in End
          /\ serverEnd[s].last \in Nat /\ latestTick[s] \in Int
      BY <2>1, <3>1 DEF TypeOK, Datagram, End, Tag, NoTick
    <3>3. Live(s) /\ SlotFollows(s) /\ CommandsInOrder(m.from)
      BY <3>1, LinkAssumption DEF IInv, Live, ClientFollows
    <3>4. m.seq = m.id % SeqMod
      BY <2>2, <3>3 DEF CommandsInOrder, Command, InTime
    <3>5. m.id <= serverEnd[s].last <=> m.tick <= latestTick[s]
      BY <2>2, <3>1, <3>3 DEF SlotFollows, Command, InTime
    <3>6. m.tick > latestTick[s] <=> m.id > serverEnd[s].last
      BY <3>2, <3>5
    <3>7. m.id - serverEnd[s].last < Half /\ serverEnd[s].last - m.id < Half
      BY <2>2, <3>1, CommandWithinHalf DEF InTime
    <3>8. serverEnd[s].newest = serverEnd[s].last % SeqMod
      BY <3>3 DEF SlotFollows
    <3>9. m.id > serverEnd[s].last => Passes(serverEnd[s], m)
      BY <3>2, <3>4, <3>7, <3>8, HeardStep
    <3> QED  BY <3>6, <3>9 DEF Newest
  <2>3. ASSUME NEW s \in Slot, Live(s), NEW m \in toClient[peer[s]],
               serverEnd[s].local - m.id <= MaxLag, m.tick > applied[peer[s]]
        PROVE  Passes(clientEnd[peer[s]], m)
    <3>1. PICK a \in Address : a = peer[s]
      BY <2>1, <2>3 DEF TypeOK, Live
    <3>2. s \in SlotsOf(a) /\ m \in toClient[a]
      BY <2>3, <3>1 DEF SlotsOf
    <3>3. /\ m.id \in Nat /\ m.tick \in Nat /\ clientEnd[a] \in End
          /\ clientEnd[a].last \in Nat /\ applied[a] \in Int
      BY <2>1, <3>2 DEF TypeOK, Snapshot, End, Tag, NoTick
    <3>4. SnapshotsInOrder(a, s)
      BY <3>2 DEF IInv, ClientFollows
    <3>5. m.seq = m.id % SeqMod
      BY <3>2, <3>4 DEF SnapshotsInOrder
    <3>6. ~clientEnd[a].heard \/ m.id > clientEnd[a].last
      <4>1. clientEnd[a].heard /\ m.id <= clientEnd[a].last => m.tick <= applied[a]
        BY <3>2, <3>4 DEF SnapshotsInOrder
      <4> QED  BY <2>3, <3>1, <3>3, <4>1
    <3>7. clientEnd[a].heard =>
            /\ clientEnd[a].newest = clientEnd[a].last % SeqMod
            /\ m.id - clientEnd[a].last < Half /\ clientEnd[a].last - m.id < Half
      BY <2>3, <3>2, <3>4, SnapshotWithinHalf DEF SnapshotsInOrder
    <3>8. Passes(clientEnd[a], m)
      BY <3>3, <3>5, <3>6, <3>7, HeardStep
    <3> QED  BY <3>1, <3>8
  <2> QED  BY <2>2, <2>3 DEF NothingNewHeldBack
<1> QED  BY AlwaysIInv, <1>1, PTL

\* A slot once given is its address's for good, and no command takes it back in time
\* (slot_for, on_input).
THEOREM SlotsKeptAlways == Spec => SlotsKept
<1> DEFINE A == \A s \in Slot : /\ Live(s) => peer'[s] = peer[s]
                                /\ latestTick'[s] >= latestTick[s]
<1>1. IInv /\ [Next]_vars => [A]_vars
  <2> SUFFICES ASSUME IInv, [Next]_vars PROVE A
    OBVIOUS
  <2>1. CASE ServerPoll
    BY <2>1, ServerPollStep
  <2>2. CASE ~ServerPoll
    <3>1. peer' = peer /\ latestTick' = latestTick
      BY <2>2 DEF Next, ServerTick, Broadcast, ClientSend, Stray, ClientPoll, vars, serverVars
    <3>2. \A s \in Slot : latestTick[s] \in Int
      BY DEF IInv, TypeOK, Tag, NoTick
    <3>3. \A n \in Int : n >= n
      OBVIOUS
    <3> QED  BY <3>1, <3>2, <3>3
  <2> QED  BY <2>1, <2>2
<1>2. Spec => [][A]_vars
  BY <1>1, AlwaysIInv, PTL DEF Spec
<1> QED  BY <1>2, PTL DEF SlotsKept
=============================================================================
