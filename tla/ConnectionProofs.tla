-------------------------- MODULE ConnectionProofs --------------------------
(***************************************************************************)
(* What Connection promises, for every range of the counter, every length  *)
(* of the window and every network within the bounds of half a range.      *)
(*                                                                         *)
(* The code sees numbers modulo 2^16 only; the properties speak of the     *)
(* packets themselves.  The inductive invariant ties the two together: it  *)
(* says of which packet each counter is the wrapped number, and how far    *)
(* apart the packets two compared numbers stand for can be.                *)
(***************************************************************************)
EXTENDS Connection, Arithmetic, TLAPS

Half == SeqMod \div 2

\* A word of acknowledgements behind packet n names only packets of S.
Reports(bits, n, S) == \A i \in bits : n - 1 - i \in S

\* ... and names all of them, save perhaps in its oldest bit.
Complete(bits, n, S) == \A i \in 0 .. AckHistory - 2 : n - 1 - i \in S => i \in bits

\* What an end has heard, and the newest of it.
Hearing(e) ==
  IF haveRemote[e]
  THEN /\ last[e] \in heard[e] /\ \A i \in heard[e] : i <= last[e]
       /\ last[e] < sent[Peer(e)]
       /\ remote[e] = last[e] % SeqMod
       /\ Reports(received[e], last[e], heard[e])
       /\ Complete(received[e], last[e], heard[e])
  ELSE heard[e] = {} /\ last[e] = 0

\* An end does not run ahead of what it knows to be heard, and knows of nothing
\* that was not.
Counters(e) ==
  /\ local[e] = sent[e] % SeqMod
  /\ sent[e] - known[e] <= MaxSilence
  /\ known[e] <= last[Peer(e)]

\* A packet on its way to e, sent by its peer: its number, and what it says of
\* e's own packets.
Claims(e, p) ==
  /\ p.id < sent[Peer(e)] /\ p.seq = p.id % SeqMod
  /\ p.ackId \in Nat /\ p.ackId <= last[Peer(e)]
  /\ ~Silent(p) => /\ p.ack = p.ackId % SeqMod /\ p.ackId \in heard[Peer(e)]
                   /\ Reports(p.bits, p.ackId, heard[Peer(e)])
  /\ p.id >= last[e] => p.ackId >= known[e]

\* A later packet acknowledges no less.
LaterTellsMore(e) == \A p, q \in flight[e] : p.id <= q.id => p.ackId <= q.ackId

\* While packets come in order, what is taken for acknowledged was heard.
AckTruth(e) ==
  /\ haveAcked[e] /\ orderly[e] =>
       /\ ackedSeq[e] = known[e] % SeqMod /\ known[e] \in heard[Peer(e)]
       /\ Reports(ackedBits[e], known[e], heard[Peer(e)])
  /\ ~haveAcked[e] => known[e] = 0

Bookkeeping ==
  \A e \in End :
    /\ Hearing(e) /\ Counters(e) /\ LaterTellsMore(e) /\ AckTruth(e)
    /\ \A p \in flight[e] : Claims(e, p)

IInv == TypeOK /\ Bookkeeping

-----------------------------------------------------------------------------
(* Wrapped numbers.                                                        *)

LEMMA HalfRange == Half \in Nat /\ SeqMod = 2 * Half /\ SeqMod \in Nat \ {0}
                   /\ AckHistory < Half /\ Half > 0
<1>1. \A m \in Nat : m % 2 = 0 => m \div 2 \in Nat /\ m = 2 * (m \div 2)
  OBVIOUS
<1>2. Half \in Nat /\ SeqMod = 2 * Half
  BY <1>1, WindowAssumption DEF Half
<1> HIDE DEF Half
<1> QED  BY <1>2, WindowAssumption

\* sequence_newer tells the newer of two packets less than half a range apart,
\* and the wrapping subtraction their distance (net_connection.cpp).
LEMMA Newer ==
  ASSUME NEW a \in Nat, NEW b \in Nat, a - b < Half, b - a < Half
  PROVE  SequenceNewer(a % SeqMod, b % SeqMod) <=> a > b
<1> DEFINE x == a % SeqMod
           y == b % SeqMod
<1>0. /\ a \in Int /\ b \in Int /\ SeqMod \in Nat \ {0} /\ Half \in Nat
      /\ SeqMod = 2 * Half /\ a - b < Half /\ b - a < Half
  BY HalfRange
<1>1. a > b <=> \/ a % SeqMod > b % SeqMod /\ (a % SeqMod) - (b % SeqMod) <= Half
                \/ b % SeqMod > a % SeqMod /\ (b % SeqMod) - (a % SeqMod) > Half
  BY ONLY <1>0, WrappedOrder, Zenon
<1> HIDE DEF x, y
<1>2. SequenceNewer(x, y) <=> \/ x > y /\ x - y <= Half
                              \/ y > x /\ y - x > Half
  BY DEF SequenceNewer, Half
<1>3. SequenceNewer(x, y) <=> a > b
  BY <1>1, <1>2, Zenon DEF x, y
<1> QED  BY <1>3 DEF x, y

LEMMA Distance ==
  ASSUME NEW a \in Nat, NEW b \in Nat, a >= b, a - b < Half
  PROVE  Behind(a % SeqMod, b % SeqMod) = a - b
<1>1. a - b \in 0 .. SeqMod - 1
  BY HalfRange
<1>2. ((a % SeqMod) - (b % SeqMod)) % SeqMod = a - b
  <2>1. a \in Int /\ b \in Int /\ SeqMod \in Nat \ {0}
    BY HalfRange
  <2> QED  BY ONLY <1>1, <2>1, WrappedGap, Zenon
<1> QED  BY <1>2 DEF Behind

LEMMA Apart ==
  ASSUME NEW a \in Nat, NEW b \in Nat, a - b < SeqMod, b - a < SeqMod,
         a % SeqMod = b % SeqMod
  PROVE  a = b
BY HalfRange, WrappedApart

LEMMA SeqnoType == ASSUME NEW a \in Nat PROVE a % SeqMod \in Seqno
BY HalfRange, ModRange DEF Seqno

\* A number of the window, less than half a range from its newest.
LEMMA WindowOf ==
  ASSUME NEW a \in Nat, NEW n \in Nat, a - n < Half, n - a < Half
  PROVE  InWindow(a % SeqMod, n % SeqMod) <=> a < n /\ n - a <= AckHistory
<1>1. CASE a >= n
  <2>1. a > n \/ a % SeqMod = n % SeqMod
    BY <1>1
  <2> QED  BY <1>1, <2>1, Newer DEF InWindow
<1>2. CASE a < n
  <2>1. ~SequenceNewer(a % SeqMod, n % SeqMod)
    BY <1>2, Newer
  <2>2. a % SeqMod # n % SeqMod
    BY <1>2, Apart, HalfRange
  <2>3. Behind(n % SeqMod, a % SeqMod) = n - a
    BY <1>2, Distance
  <2> QED  BY <1>2, <2>1, <2>2, <2>3 DEF InWindow
<1> QED  BY <1>1, <1>2

\* A word that is moved on by newer packets still reports what it did, and the
\* packet that was the newest.
LEMMA ShiftReports ==
  ASSUME NEW bits \in SUBSET Bit, NEW n \in Nat, NEW m \in Nat, m > n, NEW S, n \in S,
         Reports(bits, n, S)
  PROVE  Reports(Shifted(bits, m - n), m, S)
<1> SUFFICES ASSUME NEW j \in Shifted(bits, m - n) PROVE m - 1 - j \in S
  BY DEF Reports
<1>1. CASE j = m - n - 1
  <2>1. m - 1 - j = n
    BY <1>1
  <2> QED  BY <2>1
<1>2. CASE j # m - n - 1
  <2>1. PICK i \in bits : j = i + (m - n)
    BY <1>2 DEF Shifted
  <2>2. i \in Nat
    BY <2>1, WindowAssumption DEF Bit
  <2>3. m - 1 - j = n - 1 - i
    BY <2>1, <2>2
  <2> QED  BY <2>1, <2>3 DEF Reports
<1> QED  BY <1>1, <1>2

\* `record' takes in a packet exactly when it is newer or its bit is clear, and
\* leaves the window of what was heard with the packet added.
LEMMA RecordTruth ==
  ASSUME NEW S \in SUBSET Nat, NEW n \in S, \A j \in S : j <= n,
         NEW bits \in SUBSET Bit, Reports(bits, n, S), Complete(bits, n, S),
         NEW a \in Nat, a - n < Half, n - a < Half,
         Records(a % SeqMod, n % SeqMod, bits)
  PROVE  LET after == RecordBits(a % SeqMod, n % SeqMod, bits)
             m == IF a > n THEN a ELSE n
         IN  /\ (IF SequenceNewer(a % SeqMod, n % SeqMod) THEN a % SeqMod ELSE n % SeqMod)
                = m % SeqMod
             /\ after \in SUBSET Bit
             /\ Reports(after, m, S \cup {a}) /\ Complete(after, m, S \cup {a})
<1> DEFINE after == RecordBits(a % SeqMod, n % SeqMod, bits)
<1> USE WindowAssumption
<1>1. n \in Nat /\ (SequenceNewer(a % SeqMod, n % SeqMod) <=> a > n)
  BY Newer
<1>2. CASE a > n
  <2>1. Behind(a % SeqMod, n % SeqMod) = a - n
    <3>1. a >= n
      BY <1>1, <1>2
    <3> QED  BY <1>1, <3>1, Distance, Zenon
  <2>2. after = IF a - n >= AckHistory THEN {} ELSE Shifted(bits, a - n)
    BY <1>1, <1>2, <2>1 DEF RecordBits
  <2>3. after \in SUBSET Bit
    BY <2>2 DEF Shifted
  <2>4. Reports(after, a, S \cup {a})
    <3>1. CASE a - n >= AckHistory
      BY <2>2, <3>1 DEF Reports
    <3>2. CASE ~(a - n >= AckHistory)
      <4>1. Reports(Shifted(bits, a - n), a, S)
        BY <1>1, <1>2, ShiftReports
      <4> QED  BY <2>2, <3>2, <4>1 DEF Reports
    <3> QED  BY <3>1, <3>2
  <2>5. Complete(after, a, S \cup {a})
    <3> SUFFICES ASSUME NEW i \in 0 .. AckHistory - 2, a - 1 - i \in S \cup {a}
                 PROVE  i \in after
      BY DEF Complete
    <3>1. a - 1 - i \in S /\ a - 1 - i <= n /\ i \in Bit
      BY DEF Bit
    <3>2. after = Shifted(bits, a - n)
      BY <1>1, <2>2, <3>1
    <3>3. CASE i = a - n - 1
      BY <3>1, <3>2, <3>3 DEF Shifted
    <3>4. CASE i # a - n - 1
      <4> DEFINE k == i - (a - n)
      <4>1. k \in 0 .. AckHistory - 2 /\ n - 1 - k = a - 1 - i /\ k + (a - n) = i
        BY <1>1, <1>2, <3>1, <3>4
      <4> HIDE DEF k
      <4>2. k \in bits
        BY <3>1, <4>1 DEF Complete
      <4> QED  BY <3>1, <3>2, <4>1, <4>2 DEF Shifted
    <3> QED  BY <3>3, <3>4
  <2> QED  BY <1>1, <1>2, <2>3, <2>4, <2>5
<1>3. CASE ~(a > n)
  <2>1. a < n /\ n - a <= AckHistory
    BY <1>1, <1>3, WindowOf DEF Records
  <2>2. Behind(n % SeqMod, a % SeqMod) = n - a
    <3>1. n >= a
      BY <1>1, <2>1
    <3> QED  BY <1>1, <3>1, Distance, Zenon
  <2>3. after = bits \cup {n - a - 1}
    <3>1. after = bits \cup {Behind(n % SeqMod, a % SeqMod) - 1}
      BY <1>1, <1>3 DEF RecordBits
    <3> QED  BY <2>2, <3>1
  <2>4. after \in SUBSET Bit
    <3>1. n - a - 1 \in Bit
      BY <1>1, <2>1 DEF Bit
    <3> HIDE DEF after
    <3> QED  BY <2>3, <3>1
  <2>5. Reports(after, n, S \cup {a})
    <3>1. n - 1 - (n - a - 1) = a
      BY <1>1
    <3> QED  BY <2>3, <3>1 DEF Reports
  <2>6. Complete(after, n, S \cup {a})
    <3> SUFFICES ASSUME NEW i \in 0 .. AckHistory - 2, n - 1 - i \in S \cup {a}
                 PROVE  i \in after
      BY DEF Complete
    <3>1. CASE n - 1 - i \in S
      BY <2>3, <3>1 DEF Complete
    <3>2. CASE n - 1 - i = a
      <4>1. i = n - a - 1
        BY <1>1, <3>2
      <4> QED  BY <2>3, <4>1
    <3> QED  BY <3>1, <3>2
  <2> QED  BY <1>1, <1>3, <2>4, <2>5, <2>6
<1> QED  BY <1>2, <1>3

-----------------------------------------------------------------------------
(* Taking a packet in.                                                     *)

LEMMA PeerFacts ==
  ASSUME NEW e \in End
  PROVE  /\ Peer(e) \in End /\ Peer(e) # e /\ Peer(Peer(e)) = e
         /\ \A d \in End : d = e \/ d = Peer(e)
BY DEF End, Peer

\* A packet that is not lost and the newest one heard are less than half a range
\* apart: it is not too old, and its sender does not run ahead of what it knows
\* its peer to have heard.
LEMMA WithinHalf ==
  ASSUME IInv, NEW e \in End, NEW p \in flight[e], sent[Peer(e)] - p.id <= MaxLag
  PROVE  /\ p.id \in Nat /\ last[e] \in Nat /\ p.seq = p.id % SeqMod
         /\ p.id - last[e] < Half
         /\ haveRemote[e] => last[e] - p.id < Half /\ last[e] - p.id < MaxLag
<1>1. Peer(e) \in End /\ Peer(Peer(e)) = e
  BY PeerFacts
<1>2. /\ p.id \in Nat /\ last[e] \in Nat /\ sent[Peer(e)] \in Nat
      /\ known[Peer(e)] \in Nat
  BY <1>1 DEF IInv, TypeOK, Packet
<1>3. p.id < sent[Peer(e)] /\ p.seq = p.id % SeqMod
  BY DEF IInv, Bookkeeping, Claims
<1>4. sent[Peer(e)] - known[Peer(e)] <= MaxSilence /\ known[Peer(e)] <= last[e]
  BY <1>1 DEF IInv, Bookkeeping, Counters
<1>5. haveRemote[e] => last[e] < sent[Peer(e)]
  BY DEF IInv, Bookkeeping, Hearing
<1>6. MaxLag \in Nat /\ MaxLag <= Half /\ MaxSilence \in Nat /\ MaxSilence <= Half
  BY HalfRange, ConnectionAssumption DEF Half
<1> QED  BY <1>2, <1>3, <1>4, <1>5, <1>6, HalfRange

\* on_received passes a packet whose number is newer than any heard, or which the
\* window says was not heard.
LEMMA AcceptsWhen ==
  ASSUME IInv, NEW e \in End, NEW p \in flight[e], sent[Peer(e)] - p.id <= MaxLag,
         haveRemote[e]
  PROVE  /\ Accepts(e, p) <=> Records(p.id % SeqMod, last[e] % SeqMod, received[e])
         /\ Accepts(e, p) <=> \/ p.id > last[e]
                              \/ /\ p.id < last[e] /\ last[e] - p.id <= AckHistory
                                 /\ last[e] - p.id - 1 \notin received[e]
<1>1. /\ p.id \in Nat /\ last[e] \in Nat /\ p.seq = p.id % SeqMod
      /\ p.id - last[e] < Half /\ last[e] - p.id < Half
  BY WithinHalf
<1>2. remote[e] = last[e] % SeqMod
  BY DEF IInv, Bookkeeping, Hearing
<1>3. Accepts(e, p) <=> Records(p.id % SeqMod, last[e] % SeqMod, received[e])
  BY <1>1, <1>2 DEF Accepts
<1>4. SequenceNewer(p.id % SeqMod, last[e] % SeqMod) <=> p.id > last[e]
  BY <1>1, Newer, Zenon
<1>5. InWindow(p.id % SeqMod, last[e] % SeqMod)
        <=> p.id < last[e] /\ last[e] - p.id <= AckHistory
  BY <1>1, WindowOf, Zenon
<1>6. p.id < last[e] => Behind(last[e] % SeqMod, p.id % SeqMod) = last[e] - p.id
  <2>1. p.id < last[e] => last[e] >= p.id
    BY <1>1
  <2> QED  BY <1>1, <2>1, Distance, Zenon
<1> QED  BY <1>3, <1>4, <1>5, <1>6 DEF Records

\* The half of on_received that looks at the packet's own number.
LEMMA WindowStep ==
  ASSUME IInv, NEW e \in End, NEW p \in flight[e], sent[Peer(e)] - p.id <= MaxLag,
         last' = [last EXCEPT ![e] = IF p.id > @ THEN p.id ELSE @],
         IF Accepts(e, p)
           THEN Window(e, p) /\ heard' = [heard EXCEPT ![e] = @ \cup {p.id}]
           ELSE UNCHANGED <<remoteVars, heard>>,
         sent' = sent
  PROVE  /\ haveRemote' \in [End -> BOOLEAN] /\ remote' \in [End -> Seqno]
         /\ received' \in [End -> SUBSET Bit] /\ heard' \in [End -> SUBSET Nat]
         /\ last' \in [End -> Nat]
         /\ heard[e] \subseteq heard'[e] /\ last[e] <= last'[e] /\ p.id <= last'[e]
         /\ Hearing(e)'
<1> USE DEF remoteVars
<1>1. /\ haveRemote \in [End -> BOOLEAN] /\ remote \in [End -> Seqno]
      /\ received \in [End -> SUBSET Bit] /\ heard \in [End -> SUBSET Nat]
      /\ last \in [End -> Nat] /\ Hearing(e)
  BY DEF IInv, TypeOK, Bookkeeping
<1>2. /\ p.id \in Nat /\ p.seq = p.id % SeqMod /\ p.id < sent[Peer(e)]
      /\ p.id - last[e] < Half
  BY WithinHalf DEF IInv, Bookkeeping, Claims
<1>3. last' \in [End -> Nat] /\ last[e] <= last'[e] /\ p.id <= last'[e]
      /\ last'[e] = IF p.id > last[e] THEN p.id ELSE last[e]
  BY <1>1, <1>2
<1>4. p.seq \in Seqno
  BY <1>2, SeqnoType
<1>5. CASE ~haveRemote[e]
  <2>1. Accepts(e, p)
    BY <1>5 DEF Accepts
  <2>2. last[e] = 0 /\ heard[e] = {}
    BY <1>1, <1>5 DEF Hearing
  <2>3. /\ haveRemote' = [haveRemote EXCEPT ![e] = TRUE]
        /\ remote' = [remote EXCEPT ![e] = p.seq]
        /\ received' = [received EXCEPT ![e] = {}]
        /\ heard' = [heard EXCEPT ![e] = @ \cup {p.id}]
    BY <1>5, <2>1 DEF Window
  <2>4. last'[e] = p.id
    BY <1>2, <1>3, <2>2
  <2>5. haveRemote'[e] /\ heard'[e] = {p.id} /\ remote'[e] = p.seq /\ received'[e] = {}
    BY <1>1, <2>2, <2>3
  <2>6. Complete({}, p.id, {p.id})
    BY <1>2, WindowAssumption DEF Complete
  <2>7. Hearing(e)'
    BY <1>2, <2>4, <2>5, <2>6 DEF Hearing, Reports
  <2>8. /\ haveRemote' \in [End -> BOOLEAN] /\ remote' \in [End -> Seqno]
        /\ received' \in [End -> SUBSET Bit] /\ heard' \in [End -> SUBSET Nat]
    BY <1>1, <1>2, <1>4, <2>3
  <2> QED  BY <1>3, <2>2, <2>7, <2>8
<1>6. CASE haveRemote[e] /\ ~Accepts(e, p)
  <2>1. p.id <= last[e]
    BY <1>1, <1>2, <1>6, AcceptsWhen
  <2>2. last'[e] = last[e]
    BY <1>1, <1>2, <1>3, <2>1
  <2>3. UNCHANGED <<remoteVars, heard>>
    BY <1>6
  <2>4. Hearing(e)'
    BY <1>1, <2>2, <2>3 DEF Hearing
  <2> QED  BY <1>1, <1>3, <2>3, <2>4
<1>7. CASE haveRemote[e] /\ Accepts(e, p)
  <2> DEFINE n == last[e]
             m == IF p.id > n THEN p.id ELSE n
             after == RecordBits(p.id % SeqMod, n % SeqMod, received[e])
             newest == IF SequenceNewer(p.id % SeqMod, n % SeqMod)
                         THEN p.id % SeqMod ELSE n % SeqMod
  <2>1. /\ n \in heard[e] /\ \A i \in heard[e] : i <= n
        /\ n < sent[Peer(e)] /\ remote[e] = n % SeqMod
        /\ Reports(received[e], n, heard[e]) /\ Complete(received[e], n, heard[e])
    BY <1>1, <1>7 DEF Hearing
  <2>2. /\ Records(p.id % SeqMod, n % SeqMod, received[e])
        /\ n - p.id < Half
    BY <1>7, AcceptsWhen, WithinHalf
  <2>3. /\ newest = m % SeqMod /\ after \in SUBSET Bit
        /\ Reports(after, m, heard[e] \cup {p.id}) /\ Complete(after, m, heard[e] \cup {p.id})
    <3>1. heard[e] \in SUBSET Nat /\ received[e] \in SUBSET Bit
      BY <1>1
    <3> QED  BY <1>2, <2>1, <2>2, <3>1, RecordTruth, Zenon
  <2> HIDE DEF after, newest
  <2>4. /\ haveRemote' = [haveRemote EXCEPT ![e] = TRUE]
        /\ remote' = [remote EXCEPT ![e] = newest]
        /\ received' = [received EXCEPT ![e] = after]
        /\ heard' = [heard EXCEPT ![e] = @ \cup {p.id}]
    BY <1>2, <1>7, <2>1 DEF Window, after, newest
  <2>5. last'[e] = m /\ m \in Nat
    BY <1>1, <1>2, <1>3
  <2>6. /\ haveRemote'[e] /\ heard'[e] = heard[e] \cup {p.id}
        /\ remote'[e] = m % SeqMod /\ received'[e] = after
    BY <1>1, <2>3, <2>4
  <2>7. m \in heard'[e] /\ (\A i \in heard'[e] : i <= m) /\ m < sent[Peer(e)]
    BY <1>1, <1>2, <2>1, <2>6
  <2>8. newest \in Seqno
    BY <2>3, <2>5, SeqnoType
  <2> HIDE DEF m
  <2>9. Hearing(e)'
    BY <2>3, <2>5, <2>6, <2>7 DEF Hearing
  <2>10. /\ haveRemote' \in [End -> BOOLEAN] /\ remote' \in [End -> Seqno]
         /\ received' \in [End -> SUBSET Bit] /\ heard' \in [End -> SUBSET Nat]
    BY <1>1, <1>2, <2>3, <2>4, <2>8
  <2> QED  BY <1>3, <2>6, <2>9, <2>10
<1>8. haveRemote[e] \in BOOLEAN
  BY <1>1
<1> QED  BY <1>5, <1>6, <1>7, <1>8

\* The half of on_received that learns what the peer heard.
LEMMA AckStep ==
  ASSUME IInv, NEW e \in End, NEW p \in flight[e], LearnAcks(e, p),
         orderly' = [orderly EXCEPT ![e] = @ /\ p.id >= last[e]],
         known' = [known EXCEPT ![e] = IF ~Silent(p) /\ p.ackId > @ THEN p.ackId ELSE @],
         heard'[Peer(e)] = heard[Peer(e)]
  PROVE  /\ haveAcked' \in [End -> BOOLEAN] /\ ackedSeq' \in [End -> Seqno]
         /\ ackedBits' \in [End -> SUBSET Bit] /\ orderly' \in [End -> BOOLEAN]
         /\ known' \in [End -> Nat]
         /\ sent[e] - known'[e] <= MaxSilence /\ known'[e] <= last[Peer(e)]
         /\ known'[e] \in {known[e], p.ackId}
         /\ AckTruth(e)'
<1> DEFINE H == heard[Peer(e)]
<1>1. /\ haveAcked \in [End -> BOOLEAN] /\ ackedSeq \in [End -> Seqno]
      /\ ackedBits \in [End -> SUBSET Bit] /\ orderly \in [End -> BOOLEAN]
      /\ known \in [End -> Nat] /\ last \in [End -> Nat] /\ sent \in [End -> Nat]
      /\ p.ack \in Seqno /\ p.bits \in SUBSET Bit /\ p.id \in Nat
  BY DEF IInv, TypeOK, Packet
<1>2. AckTruth(e) /\ Claims(e, p) /\ Counters(e) /\ Hearing(Peer(e))
  BY PeerFacts DEF IInv, Bookkeeping
<1>3. /\ p.ackId \in Nat /\ p.ackId <= last[Peer(e)]
      /\ ~Silent(p) => p.ack = p.ackId % SeqMod /\ p.ackId \in H /\ Reports(p.bits, p.ackId, H)
      /\ p.id >= last[e] => p.ackId >= known[e]
  BY <1>2 DEF Claims
<1>4. sent[e] - known[e] <= MaxSilence /\ known[e] <= last[Peer(e)]
  BY <1>2 DEF Counters
<1>5. Peer(e) \in End /\ H \in SUBSET Nat
  BY PeerFacts DEF IInv, TypeOK
<1>6. /\ known' \in [End -> Nat]
      /\ known'[e] = IF ~Silent(p) /\ p.ackId > known[e] THEN p.ackId ELSE known[e]
  BY <1>1, <1>3
<1>7. /\ sent[e] - known'[e] <= MaxSilence /\ known'[e] <= last[Peer(e)]
      /\ known'[e] \in {known[e], p.ackId}
  BY <1>1, <1>3, <1>4, <1>5, <1>6, ConnectionAssumption
<1>8. orderly' \in [End -> BOOLEAN] /\ (orderly'[e] => orderly[e] /\ p.id >= last[e])
  BY <1>1, Zenon
<1>9. /\ haveAcked' \in [End -> BOOLEAN] /\ ackedSeq' \in [End -> Seqno]
      /\ ackedBits' \in [End -> SUBSET Bit]
  <2>1. \A n : Shifted(ackedBits[e], n) \cup p.bits \in SUBSET Bit
    BY <1>1 DEF Shifted
  <2> QED  BY <1>1, <2>1, ZenonT(30) DEF LearnAcks, ackVars
<1>10. ~haveAcked'[e] => known'[e] = 0
  <2>1. CASE Silent(p)
    BY <1>2, <1>6, <2>1 DEF LearnAcks, ackVars, AckTruth
  <2>2. CASE ~Silent(p)
    BY <1>1, <2>2 DEF LearnAcks, ackVars
  <2> QED  BY <2>1, <2>2
<1>11. ASSUME haveAcked'[e], orderly'[e]
       PROVE  /\ ackedSeq'[e] = known'[e] % SeqMod /\ known'[e] \in H
              /\ Reports(ackedBits'[e], known'[e], H)
  <2>1. CASE Silent(p)
    <3>1. UNCHANGED ackVars /\ known'[e] = known[e]
      BY <1>6, <2>1 DEF LearnAcks
    <3> QED  BY <1>2, <1>8, <1>11, <3>1 DEF AckTruth, ackVars
  <2>2. CASE ~Silent(p) /\ ~haveAcked[e]
    <3>1. known[e] = 0
      BY <1>2, <2>2 DEF AckTruth
    <3>2. known'[e] = p.ackId
      BY <1>3, <1>6, <2>2, <3>1
    <3>3. ackedSeq'[e] = p.ack /\ ackedBits'[e] = p.bits
      BY <1>1, <2>2 DEF LearnAcks
    <3> QED  BY <1>3, <2>2, <3>2, <3>3
  <2>3. CASE ~Silent(p) /\ haveAcked[e]
    <3>1. /\ ackedSeq[e] = known[e] % SeqMod /\ known[e] \in H
          /\ Reports(ackedBits[e], known[e], H)
      BY <1>2, <1>8, <1>11, <2>3 DEF AckTruth
    <3>2. p.ackId >= known[e] /\ known'[e] = p.ackId
      BY <1>1, <1>3, <1>6, <1>8, <1>11, <2>3
    <3>3. p.ackId - known[e] < Half
      <4>1. haveRemote[Peer(e)]
        BY <1>2, <3>1 DEF Hearing
      <4>2. last[Peer(e)] < sent[e]
        BY <1>2, <4>1, PeerFacts DEF Hearing
      <4>3. MaxSilence \in Nat /\ MaxSilence <= Half
        BY HalfRange, ConnectionAssumption DEF Half
      <4> QED  BY <1>1, <1>3, <1>4, <1>5, <4>2, <4>3, HalfRange
    <3>4. known[e] - p.ackId < Half
      BY <1>1, <1>3, <3>2, HalfRange
    <3>5. SequenceNewer(p.ack, ackedSeq[e]) <=> p.ackId > known[e]
      <4>1. known[e] \in Nat
        BY <1>1
      <4>2. SequenceNewer(p.ackId % SeqMod, known[e] % SeqMod) <=> p.ackId > known[e]
        BY <1>3, <3>3, <3>4, <4>1, Newer, Zenon
      <4> QED  BY <1>3, <2>3, <3>1, <4>2
    <3>6. CASE p.ackId > known[e]
      <4>1. Behind(p.ack, ackedSeq[e]) = p.ackId - known[e]
        <5>1. known[e] \in Nat
          BY <1>1
        <5>2. Behind(p.ackId % SeqMod, known[e] % SeqMod) = p.ackId - known[e]
          BY <1>3, <3>2, <3>3, <5>1, Distance, Zenon
        <5> QED  BY <1>3, <2>3, <3>1, <5>2
      <4> DEFINE old == Shifted(ackedBits[e], p.ackId - known[e])
      <4>2. /\ ackedSeq'[e] = p.ack
            /\ ackedBits'[e] = p.bits \/ ackedBits'[e] = old \cup p.bits
        <5> DEFINE shift == Behind(p.ack, ackedSeq[e])
                   far == shift >= AckHistory
        <5>1. /\ ackedSeq' = [ackedSeq EXCEPT ![e] = p.ack]
              /\ ackedBits' = [ackedBits EXCEPT ![e] =
                   IF far THEN p.bits ELSE Shifted(@, shift) \cup p.bits]
          BY <2>3, <3>5, <3>6 DEF LearnAcks
        <5>2. ackedBits'[e] = IF far THEN p.bits
                              ELSE Shifted(ackedBits[e], shift) \cup p.bits
          BY <1>1, <5>1
        <5> HIDE DEF far
        <5> QED  BY <1>1, <4>1, <5>1, <5>2
      <4>3. Reports(old, p.ackId, H)
        BY <1>1, <1>3, <3>1, <3>6, ShiftReports
      <4> HIDE DEF old
      <4> QED  BY <1>3, <2>3, <3>2, <4>2, <4>3 DEF Reports
    <3>7. CASE ~(p.ackId > known[e])
      <4>1. p.ackId = known[e]
        BY <1>1, <1>3, <3>2, <3>7
      <4>2. ackedSeq'[e] = ackedSeq[e] /\ ackedBits'[e] = ackedBits[e] \cup p.bits
        BY <1>1, <2>3, <3>5, <3>7 DEF LearnAcks
      <4> QED  BY <1>3, <2>3, <3>1, <3>2, <4>1, <4>2 DEF Reports
    <3> QED  BY <3>6, <3>7
  <2>4. haveAcked[e] \in BOOLEAN
    BY <1>1
  <2> QED  BY <2>1, <2>2, <2>3, <2>4
<1>12. AckTruth(e)'
  BY <1>10, <1>11 DEF AckTruth
<1> QED  BY <1>6, <1>7, <1>8, <1>9, <1>12

-----------------------------------------------------------------------------
(* The invariant.                                                          *)

LEMMA InitIInv == Init => IInv
<1> SUFFICES ASSUME Init PROVE IInv
  OBVIOUS
<1>1. 0 \in Seqno /\ 0 % SeqMod = 0
  BY HalfRange DEF Seqno
<1>2. TypeOK
  BY <1>1 DEF Init, TypeOK
<1>3. Bookkeeping
  <2> SUFFICES ASSUME NEW e \in End
               PROVE  /\ Hearing(e) /\ Counters(e) /\ LaterTellsMore(e) /\ AckTruth(e)
                      /\ \A p \in flight[e] : Claims(e, p)
    BY DEF Bookkeeping
  <2>1. Peer(e) \in End
    BY PeerFacts
  <2>2. Hearing(e) /\ AckTruth(e) /\ LaterTellsMore(e) /\ flight[e] = {}
    BY DEF Init, Hearing, AckTruth, LaterTellsMore
  <2>3. Counters(e)
    BY <1>1, <2>1, ConnectionAssumption DEF Init, Counters
  <2> QED  BY <2>2, <2>3
<1> QED  BY <1>2, <1>3 DEF IInv

\* Sending adds at most the packet sent to what is in flight.
LEMMA SentSubset ==
  ASSUME NEW net, NEW p, NEW after \in Sent(net, p)
  PROVE  after \subseteq net \cup {p}
BY DEF Sent

\* The newest packet heard, of the properties, is the newest of the invariant.
LEMMA NewestIsLast ==
  ASSUME IInv, NEW e \in End, haveRemote[e]
  PROVE  Newest(e) = last[e]
<1>1. last[e] \in heard[e] /\ (\A i \in heard[e] : i <= last[e]) /\ heard[e] \in SUBSET Nat
  BY DEF IInv, Bookkeeping, Hearing, TypeOK
<1>2. Newest(e) \in heard[e] /\ \A j \in heard[e] : j <= Newest(e)
  BY <1>1 DEF Newest
<1> QED  BY <1>1, <1>2

LEMMA NextHeaderIInv ==
  ASSUME IInv, NEW e \in End, NextHeader(e)
  PROVE  IInv'
<1> DEFINE t == Peer(e)
<1>0. PICK p : p = [seq   |-> local[e],
                    ack   |-> IF haveRemote[e] THEN remote[e] ELSE NoAck,
                    bits  |-> IF haveRemote[e] THEN received[e] ELSE {},
                    id    |-> sent[e],
                    ackId |-> IF haveRemote[e] THEN Newest(e) ELSE 0]
  OBVIOUS
<1>1. TypeOK /\ Bookkeeping
  BY DEF IInv
<1>2. t \in End /\ t # e /\ Peer(t) = e /\ Peer(e) = t /\ \A d \in End : d = e \/ d = t
  BY PeerFacts
<1>3. PICK net \in Sent(flight[t], p) : flight' = [flight EXCEPT ![t] = net]
  BY <1>0 DEF NextHeader
<1>4. net \subseteq flight[t] \cup {p}
  <2> HIDE DEF t
  <2> QED  BY <1>3, SentSubset
<1>5. /\ sent' = [sent EXCEPT ![e] = @ + 1]
      /\ local' = [local EXCEPT ![e] = (@ + 1) % SeqMod]
      /\ UNCHANGED <<remoteVars, ackVars, auxVars>> /\ sent[e] - known[e] < MaxSilence
  BY DEF NextHeader
<1>6. Hearing(e) /\ Counters(e) /\ Hearing(t) /\ Counters(t)
  BY <1>1, <1>2 DEF Bookkeeping
\* The packet.
<1>7. haveRemote[e] => Newest(e) = last[e]
  BY NewestIsLast
<1>8. /\ p.seq = sent[e] % SeqMod /\ p.id = sent[e]
      /\ p.ackId = last[e]
      /\ ~Silent(p) => /\ p.ack = last[e] % SeqMod /\ last[e] \in heard[e]
                       /\ Reports(p.bits, last[e], heard[e])
  BY <1>0, <1>6, <1>7 DEF Hearing, Counters, Silent
<1>9. /\ p.seq \in Seqno /\ p.ack \in Seqno /\ p.bits \subseteq Bit /\ p.id \in Nat
  <2>1. NoAck \in Seqno
    BY HalfRange DEF NoAck, Seqno
  <2> QED  BY <1>0, <1>1, <2>1 DEF TypeOK
\* Types.
<1>10. /\ sent' \in [End -> Nat] /\ local' \in [End -> Seqno]
       /\ sent'[e] = sent[e] + 1 /\ sent'[t] = sent[t]
       /\ local'[e] = sent'[e] % SeqMod /\ local'[t] = local[t]
  <2>1. sent \in [End -> Nat] /\ local \in [End -> Seqno] /\ local[e] = sent[e] % SeqMod
    BY <1>1, <1>6 DEF TypeOK, Counters
  <2>2. sent' \in [End -> Nat] /\ sent'[e] = sent[e] + 1 /\ sent'[t] = sent[t]
    BY <1>2, <1>5, <2>1
  <2>3. ((sent[e] % SeqMod) + 1) % SeqMod = (sent[e] + 1) % SeqMod
    BY <2>1, HalfRange, WrappedNext
  <2>4. (sent[e] + 1) % SeqMod \in Seqno
    BY <2>1, SeqnoType
  <2>5. local' = [local EXCEPT ![e] = (sent[e] + 1) % SeqMod]
    BY <1>5, <2>1, <2>3
  <2> QED  BY <1>2, <2>1, <2>2, <2>4, <2>5
<1>11. flight'[t] \subseteq flight[t] \cup {p} /\ flight'[e] = flight[e]
       /\ flight' \in [End -> SUBSET Packet]
  <2>1. flight \in [End -> SUBSET Packet]
    BY <1>1 DEF TypeOK
  <2>2. p \in Packet
    BY <1>0, <1>1, <1>8, <1>9 DEF TypeOK, Packet
  <2> HIDE DEF t
  <2> QED  BY <1>2, <1>3, <1>4, <2>1, <2>2
<1>12. TypeOK'
  BY <1>1, <1>5, <1>10, <1>11 DEF TypeOK, remoteVars, ackVars, auxVars
\* The bookkeeping of the two ends.
<1>13. Hearing(e)' /\ Hearing(t)'
  <2>1. sent[e] \in Nat /\ last[t] \in Nat
    BY <1>1, <1>2 DEF TypeOK
  <2> HIDE DEF t
  <2> QED  BY <1>2, <1>5, <1>6, <1>10, <2>1 DEF Hearing, remoteVars, auxVars
<1>14. Counters(e)' /\ Counters(t)'
  <2>1. sent[e] \in Nat /\ known[e] \in Nat
    BY <1>1 DEF TypeOK
  <2> HIDE DEF t
  <2> QED  BY <1>2, <1>5, <1>6, <1>10, <2>1, ConnectionAssumption DEF Counters, auxVars
<1>15. AckTruth(e)' /\ AckTruth(t)'
  <2>1. AckTruth(e) /\ AckTruth(t)
    BY <1>1, <1>2 DEF Bookkeeping
  <2> QED  BY <1>5, <2>1 DEF AckTruth, ackVars, auxVars
<1>16. LaterTellsMore(e)'
  <2>1. LaterTellsMore(e)
    BY <1>1 DEF Bookkeeping
  <2> QED  BY <1>11, <2>1 DEF LaterTellsMore
<1>17. \A q \in flight'[e] : Claims(e, q)'
  <2> TAKE q \in flight'[e]
  <2>1. Claims(e, q)
    BY <1>1, <1>11 DEF Bookkeeping
  <2>2. sent'[Peer(e)] = sent[Peer(e)]
    BY <1>10
  <2> QED  BY <1>5, <2>1, <2>2 DEF Claims, auxVars, Silent
<1>18. \A q \in flight'[t] : q # p => Claims(t, q) /\ Claims(t, q)'
  <2> SUFFICES ASSUME NEW q \in flight'[t], q # p PROVE Claims(t, q) /\ Claims(t, q)'
    OBVIOUS
  <2>1. q \in flight[t]
    BY <1>11
  <2>2. Claims(t, q) /\ q.id \in Nat /\ sent[e] \in Nat
    BY <1>1, <1>2, <2>1 DEF Bookkeeping, TypeOK, Packet
  <2>3. Peer(t) = e
    BY <1>2
  <2> HIDE DEF t
  <2> QED  BY <1>5, <1>10, <2>2, <2>3 DEF Claims, auxVars, Silent
<1>19. Claims(t, p)'
  <2>1. last[e] \in Nat /\ known[t] \in Nat /\ sent[e] \in Nat /\ known[t] <= last[e]
    BY <1>1, <1>2, <1>6 DEF TypeOK, Counters
  <2>2. Peer(t) = e
    BY <1>2
  <2> HIDE DEF t
  <2> QED  BY <1>5, <1>8, <1>10, <2>1, <2>2 DEF Claims, auxVars
<1>20. LaterTellsMore(t)'
  <2> SUFFICES ASSUME NEW q \in flight'[t], NEW r \in flight'[t], q.id <= r.id
               PROVE  q.ackId <= r.ackId
    BY DEF LaterTellsMore
  <2>1. LaterTellsMore(t) /\ last[e] \in Nat /\ sent[e] \in Nat
    BY <1>1, <1>2 DEF Bookkeeping, TypeOK
  <2>2. CASE q # p /\ r # p
    BY <1>11, <2>1, <2>2 DEF LaterTellsMore
  <2>3. CASE q # p /\ r = p
    <3>1. q.ackId <= last[e]
      BY <1>2, <1>18, <2>3 DEF Claims
    <3> QED  BY <1>8, <2>3, <3>1
  <2>4. CASE q = p /\ r # p
    <3>1. r.id < sent[e] /\ r.id \in Nat
      BY <1>1, <1>2, <1>11, <1>18, <2>4 DEF Claims, TypeOK, Packet
    <3> QED  BY <1>8, <2>1, <2>4, <3>1
  <2>5. CASE q = p /\ r = p
    BY <1>8, <2>1, <2>5
  <2> QED  BY <2>2, <2>3, <2>4, <2>5
<1>21. Bookkeeping'
  <2> HIDE DEF t
  <2> QED  BY <1>2, <1>13, <1>14, <1>15, <1>16, <1>17, <1>18, <1>19, <1>20 DEF Bookkeeping
<1> QED  BY <1>12, <1>21 DEF IInv

LEMMA OnReceivedIInv ==
  ASSUME IInv, NEW e \in End, OnReceived(e)
  PROVE  IInv'
<1> DEFINE t == Peer(e)
<1>1. TypeOK /\ Bookkeeping
  BY DEF IInv
<1>2. t \in End /\ t # e /\ Peer(t) = e /\ \A d \in End : d = e \/ d = t
  BY PeerFacts
<1>3. PICK p \in flight[e] :
        /\ sent[Peer(e)] - p.id <= MaxLag
        /\ LearnAcks(e, p)
        /\ orderly' = [orderly EXCEPT ![e] = @ /\ p.id >= last[e]]
        /\ last' = [last EXCEPT ![e] = IF p.id > @ THEN p.id ELSE @]
        /\ known' = [known EXCEPT ![e] = IF ~Silent(p) /\ p.ackId > @ THEN p.ackId ELSE @]
        /\ IF Accepts(e, p)
           THEN Window(e, p) /\ heard' = [heard EXCEPT ![e] = @ \cup {p.id}]
           ELSE UNCHANGED <<remoteVars, heard>>
        /\ \E net \in {flight[e], flight[e] \ {p}} : flight' = [flight EXCEPT ![e] = net]
        /\ UNCHANGED <<local, sent>>
  BY DEF OnReceived
<1>4. flight \in [End -> SUBSET Packet]
  BY <1>1 DEF TypeOK
<1>5. flight'[e] \subseteq flight[e] /\ flight'[t] = flight[t]
      /\ flight' \in [End -> SUBSET Packet]
  <2> HIDE DEF t
  <2> QED  BY <1>2, <1>3, <1>4
<1>6. /\ haveRemote' \in [End -> BOOLEAN] /\ remote' \in [End -> Seqno]
      /\ received' \in [End -> SUBSET Bit] /\ heard' \in [End -> SUBSET Nat]
      /\ last' \in [End -> Nat]
      /\ heard[e] \subseteq heard'[e] /\ last[e] <= last'[e] /\ p.id <= last'[e]
      /\ Hearing(e)'
  BY <1>3, WindowStep
\* What a packet to e leaves alone, at the other end.
<1>7. /\ haveRemote'[t] = haveRemote[t] /\ remote'[t] = remote[t]
      /\ received'[t] = received[t] /\ heard'[t] = heard[t] /\ last'[t] = last[t]
      /\ haveAcked'[t] = haveAcked[t] /\ ackedSeq'[t] = ackedSeq[t]
      /\ ackedBits'[t] = ackedBits[t] /\ known'[t] = known[t] /\ orderly'[t] = orderly[t]
      /\ sent' = sent /\ local' = local
  <2> HIDE DEF t
  <2>1. /\ haveRemote'[t] = haveRemote[t] /\ remote'[t] = remote[t]
        /\ received'[t] = received[t] /\ heard'[t] = heard[t]
    BY <1>1, <1>2, <1>3 DEF TypeOK, Window, remoteVars
  <2>2. /\ haveAcked'[t] = haveAcked[t] /\ ackedSeq'[t] = ackedSeq[t]
        /\ ackedBits'[t] = ackedBits[t]
    BY <1>1, <1>2, <1>3 DEF TypeOK, LearnAcks, ackVars
  <2>3. last'[t] = last[t] /\ known'[t] = known[t]
    BY <1>1, <1>2, <1>3 DEF TypeOK
  <2>4. orderly'[t] = orderly[t]
    BY <1>1, <1>2, <1>3, Zenon DEF TypeOK
  <2> QED  BY <1>3, <2>1, <2>2, <2>3, <2>4
<1>8. /\ haveAcked' \in [End -> BOOLEAN] /\ ackedSeq' \in [End -> Seqno]
      /\ ackedBits' \in [End -> SUBSET Bit] /\ orderly' \in [End -> BOOLEAN]
      /\ known' \in [End -> Nat]
      /\ sent[e] - known'[e] <= MaxSilence /\ known'[e] <= last[Peer(e)]
      /\ known'[e] \in {known[e], p.ackId}
      /\ AckTruth(e)'
  BY <1>3, <1>7, AckStep
<1>9. TypeOK'
  BY <1>1, <1>5, <1>6, <1>7, <1>8 DEF TypeOK
\* Each end's own bookkeeping.
<1>10. /\ Hearing(t) /\ Counters(e) /\ Counters(t) /\ AckTruth(t)
       /\ LaterTellsMore(e) /\ LaterTellsMore(t)
  BY <1>1, <1>2 DEF Bookkeeping
<1>11. Hearing(t)'
  BY <1>7, <1>10 DEF Hearing
<1>12. Counters(e)' /\ Counters(t)'
  <2>1. last[e] \in Nat /\ last'[e] \in Nat /\ known[t] \in Nat
    BY <1>1, <1>2, <1>6 DEF TypeOK
  <2> HIDE DEF t
  <2> QED  BY <1>2, <1>6, <1>7, <1>8, <1>10, <2>1 DEF Counters, t
<1>13. AckTruth(t)'
  BY <1>2, <1>6, <1>7, <1>10 DEF AckTruth, Reports
<1>14. LaterTellsMore(e)' /\ LaterTellsMore(t)'
  BY <1>5, <1>10 DEF LaterTellsMore
\* The packets still in flight.
<1>15. \A q \in flight'[e] : Claims(e, q)'
  <2> SUFFICES ASSUME NEW q \in flight'[e] PROVE Claims(e, q)'
    OBVIOUS
  <2>1. q \in flight[e] /\ Claims(e, q)
    BY <1>1, <1>5 DEF Bookkeeping
  <2>2. /\ q.id \in Nat /\ p.id \in Nat /\ q.ackId \in Nat /\ p.ackId \in Nat
        /\ last[e] \in Nat /\ last'[e] \in Nat /\ known[e] \in Nat
    BY <1>1, <1>6, <2>1 DEF TypeOK, Packet
  <2>3. ASSUME q.id >= last'[e] PROVE q.ackId >= known'[e]
    <3>1. q.ackId >= known[e]
      BY <1>6, <2>1, <2>2, <2>3 DEF Claims
    <3>2. q.ackId >= p.ackId
      BY <1>6, <1>10, <2>1, <2>2, <2>3 DEF LaterTellsMore
    <3> QED  BY <1>8, <3>1, <3>2
  <2> QED  BY <1>7, <2>1, <2>3 DEF Claims, Silent
<1>16. \A q \in flight'[t] : Claims(t, q)'
  <2> SUFFICES ASSUME NEW q \in flight'[t] PROVE Claims(t, q)'
    OBVIOUS
  <2>1. q \in flight[t] /\ Claims(t, q)
    BY <1>1, <1>2, <1>5 DEF Bookkeeping
  <2>2. q.ackId \in Nat /\ last[e] \in Nat /\ last'[e] \in Nat
    BY <1>1, <1>2, <1>6, <2>1 DEF TypeOK, Packet
  <2>3. Peer(t) = e
    BY <1>2
  <2> HIDE DEF t
  <2> QED  BY <1>6, <1>7, <2>1, <2>2, <2>3 DEF Claims, Silent, Reports
<1>17. Bookkeeping'
  <2> HIDE DEF t
  <2> QED  BY <1>2, <1>6, <1>8, <1>11, <1>12, <1>13, <1>14, <1>15, <1>16 DEF Bookkeeping
<1> QED  BY <1>9, <1>17 DEF IInv

LEMMA AlwaysIInv == Spec => []IInv
<1>1. IInv /\ [Next]_vars => IInv'
  <2> SUFFICES ASSUME IInv, [Next]_vars PROVE IInv'
    OBVIOUS
  <2>1. CASE Next
    BY <2>1, NextHeaderIInv, OnReceivedIInv DEF Next
  <2>2. CASE UNCHANGED vars
    BY <2>2 DEF vars, remoteVars, ackVars, auxVars, IInv, TypeOK, Bookkeeping, Hearing,
                Counters, LaterTellsMore, AckTruth, Claims, Silent
  <2> QED  BY <2>1, <2>2
<1> QED  BY InitIInv, <1>1, PTL DEF Spec

-----------------------------------------------------------------------------
(* What it implies.                                                        *)

\* The window tells the truth about what was heard across every wrap of the
\* counter, and every variable keeps its type (Connection::on_received and
\* `record' of net_connection.cpp).
THEOREM HeardTrulyAlways == Spec => []HeardTruly
<1>1. IInv => HeardTruly
  <2> SUFFICES ASSUME IInv, NEW e \in End, haveRemote[e]
               PROVE  /\ remote[e] = Newest(e) % SeqMod
                      /\ \A i \in received[e] : Newest(e) - 1 - i \in heard[e]
                      /\ \A i \in 0 .. AckHistory - 2 :
                           Newest(e) - 1 - i \in heard[e] => i \in received[e]
    BY DEF HeardTruly, WindowTruth, IInv
  <2> QED  BY NewestIsLast DEF IInv, Bookkeeping, Hearing, Reports, Complete
<1> QED  BY AlwaysIInv, <1>1, PTL

\* on_received takes in a packet exactly when it was not heard before, in
\* whatever order packets and their copies come, when fewer than ACK_HISTORY
\* newer ones were sent meanwhile (net_connection.cpp, `record').
THEOREM AcceptsUnheardAlways ==
  ASSUME MaxLag <= AckHistory
  PROVE  Spec => []AcceptsUnheard
<1>1. IInv => AcceptsUnheard
  <2> SUFFICES ASSUME IInv, NEW e \in End, NEW p \in flight[e],
                      sent[Peer(e)] - p.id <= MaxLag
               PROVE  Accepts(e, p) <=> p.id \notin heard[e]
    BY DEF AcceptsUnheard
  <2>1. p.id \in Nat /\ last[e] \in Nat
    BY WithinHalf
  <2>2. Hearing(e) /\ haveRemote[e] \in BOOLEAN
    BY DEF IInv, Bookkeeping, TypeOK
  <2>3. CASE ~haveRemote[e]
    BY <2>2, <2>3 DEF Accepts, Hearing
  <2>4. CASE haveRemote[e]
    <3>1. /\ last[e] \in heard[e] /\ (\A i \in heard[e] : i <= last[e])
          /\ Reports(received[e], last[e], heard[e])
          /\ Complete(received[e], last[e], heard[e])
      BY <2>2, <2>4 DEF Hearing
    <3>2. Accepts(e, p) <=> \/ p.id > last[e]
                            \/ /\ p.id < last[e] /\ last[e] - p.id <= AckHistory
                               /\ last[e] - p.id - 1 \notin received[e]
      BY <2>4, AcceptsWhen
    <3>3. CASE p.id >= last[e]
      BY <2>1, <3>1, <3>2, <3>3
    <3>4. CASE p.id < last[e]
      <4> DEFINE i == last[e] - p.id - 1
      <4>1. last[e] - p.id < MaxLag /\ MaxLag \in Nat /\ AckHistory \in Nat
        BY <2>4, WithinHalf, ConnectionAssumption, WindowAssumption
      <4>2. i \in 0 .. AckHistory - 2 /\ last[e] - 1 - i = p.id
            /\ last[e] - p.id <= AckHistory
        BY <2>1, <3>4, <4>1
      <4> HIDE DEF i
      <4>3. i \in received[e] <=> p.id \in heard[e]
        BY <3>1, <4>2 DEF Reports, Complete
      <4>4. Accepts(e, p) <=> i \notin received[e]
        BY <2>1, <3>2, <3>4, <4>2 DEF i
      <4> QED  BY <4>3, <4>4
    <3> QED  BY <2>1, <3>3, <3>4
  <2> QED  BY <2>2, <2>3, <2>4
<1> QED  BY AlwaysIInv, <1>1, PTL

\* An end whose packets come in order never takes one of its last half range of
\* packets for delivered that was not (Connection::acked, net_connection.cpp).
THEOREM NoFalseAckInOrderAlways == Spec => []NoFalseAckInOrder
<1>1. IInv => NoFalseAckInOrder
  <2> SUFFICES ASSUME IInv, NEW e \in End, orderly[e],
                      NEW id \in sent[e] - SeqMod \div 2 .. sent[e] - 1,
                      id >= 0, Acked(e, id % SeqMod)
               PROVE  id \in heard[Peer(e)]
    BY DEF NoFalseAckInOrder, Arrived
  <2>1. /\ Peer(e) \in End /\ sent[e] \in Nat /\ known[e] \in Nat /\ last[Peer(e)] \in Nat
        /\ Counters(e) /\ Hearing(Peer(e)) /\ AckTruth(e) /\ Peer(Peer(e)) = e
    BY PeerFacts DEF IInv, TypeOK, Bookkeeping
  <2>2. id \in Nat /\ id >= sent[e] - Half /\ id < sent[e]
    BY <2>1, HalfRange DEF Half
  <2>3. /\ ackedSeq[e] = known[e] % SeqMod /\ known[e] \in heard[Peer(e)]
        /\ Reports(ackedBits[e], known[e], heard[Peer(e)])
    BY <2>1 DEF AckTruth, Acked
  <2>4. known[e] < sent[e] /\ known[e] >= sent[e] - Half
    <3>1. haveRemote[Peer(e)]
      BY <2>1, <2>3 DEF Hearing
    <3>2. last[Peer(e)] < sent[e] /\ known[e] <= last[Peer(e)]
          /\ sent[e] - known[e] <= MaxSilence
      BY <2>1, <3>1 DEF Hearing, Counters
    <3>3. MaxSilence \in Nat /\ MaxSilence <= Half
      BY HalfRange, ConnectionAssumption DEF Half
    <3> QED  BY <2>1, <3>2, <3>3, HalfRange
  <2>5. id - known[e] < Half /\ known[e] - id < Half
    BY <2>1, <2>2, <2>4, HalfRange
  <2>6. Present(id % SeqMod, known[e] % SeqMod, ackedBits[e])
    BY <2>3 DEF Acked
  <2>7. CASE id % SeqMod = known[e] % SeqMod
    <3>1. id = known[e]
      BY <2>1, <2>2, <2>5, <2>7, HalfRange, Apart
    <3> QED  BY <2>3, <3>1
  <2>8. CASE id % SeqMod # known[e] % SeqMod
    <3>1. /\ InWindow(id % SeqMod, known[e] % SeqMod)
          /\ Behind(known[e] % SeqMod, id % SeqMod) - 1 \in ackedBits[e]
      BY <2>6, <2>8 DEF Present
    <3>2. id < known[e]
      BY <2>1, <2>2, <2>5, <3>1, WindowOf, Zenon
    <3>3. Behind(known[e] % SeqMod, id % SeqMod) = known[e] - id
      <4>1. known[e] >= id
        BY <2>1, <2>2, <3>2
      <4> QED  BY <2>1, <2>2, <2>5, <4>1, Distance, Zenon
    <3>4. known[e] - 1 - (known[e] - id - 1) = id
      BY <2>1, <2>2
    <3> QED  BY <2>3, <3>1, <3>3, <3>4 DEF Reports
  <2> QED  BY <2>7, <2>8
<1> QED  BY AlwaysIInv, <1>1, PTL
=============================================================================
