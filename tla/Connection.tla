----------------------------- MODULE Connection -----------------------------
(***************************************************************************)
(* The virtual connection of net_connection.cpp: each of two ends numbers  *)
(* its packets with a wrapping sequence, keeps a window of what it has     *)
(* heard, and reports that window in every header it sends.  The network   *)
(* loses, repeats and reorders packets.                                    *)
(*                                                                         *)
(* A packet also carries, for the properties only, its unwrapped number    *)
(* `id' and that of the packet it acknowledges, `ackId'.                   *)
(***************************************************************************)
EXTENDS Window, FiniteSets

CONSTANTS
  MaxLag,          \* bound: how many packets may be sent after one before it
                   \* counts as lost
  MaxSilence,      \* bound: packets an end sends beyond the newest it knows heard
  MaxSent,         \* bound: packets the client sends
  MaxReplies,      \* bound: packets the server sends
  NetCap           \* bound: packets in flight per direction

ASSUME ConnectionAssumption ==
  /\ MaxLag \in 1 .. SeqMod \div 2
  /\ MaxSilence \in 1 .. SeqMod \div 2
  /\ MaxSent \in Nat /\ MaxReplies \in Nat /\ NetCap \in Nat \ {0}

End     == {"client", "server"}
Peer(e) == IF e = "client" THEN "server" ELSE "client"
NoAck   == SeqMod - 1              \* 0xFFFF in an ack field

VARIABLES
  local,           \* local_sequence_
  haveRemote,      \* have_remote_
  remote,          \* remote_sequence_
  received,        \* received_bits_
  haveAcked,       \* have_acked_
  ackedSeq,        \* acked_sequence_
  ackedBits,       \* acked_bits_
  flight,          \* packets in flight to each end
  sent,            \* auxiliary: packets each end has sent
  heard,           \* auxiliary: ids each end has taken in
  known,           \* auxiliary: the newest id each end has seen acknowledged
  last,            \* auxiliary: the newest id that has come to each end
  orderly          \* auxiliary: no packet has come to it after a later one

remoteVars == <<haveRemote, remote, received>>
ackVars    == <<haveAcked, ackedSeq, ackedBits>>
auxVars == <<heard, known, last, orderly>>
vars == <<local, remoteVars, ackVars, flight, sent, auxVars>>

\* Connection::acked
Acked(e, seq) == haveAcked[e] /\ Present(seq, ackedSeq[e], ackedBits[e])

-----------------------------------------------------------------------------
Init ==
  /\ local = [e \in End |-> 0]
  /\ haveRemote = [e \in End |-> FALSE]
  /\ remote = [e \in End |-> 0]
  /\ received = [e \in End |-> {}]
  /\ haveAcked = [e \in End |-> FALSE]
  /\ ackedSeq = [e \in End |-> 0]
  /\ ackedBits = [e \in End |-> {}]
  /\ flight = [e \in End |-> {}]
  /\ sent = [e \in End |-> 0]
  /\ heard = [e \in End |-> {}]
  /\ known = [e \in End |-> 0]
  /\ last = [e \in End |-> 0]
  /\ orderly = [e \in End |-> TRUE]

Newest(e) == CHOOSE i \in heard[e] : \A j \in heard[e] : j <= i

Sent(net, p) ==
  {net} \cup (IF Cardinality(net) < NetCap THEN {net \cup {p}}
              ELSE {(net \ {x}) \cup {p} : x \in net})

\* Connection::next_header, and the send of the packet it heads.
NextHeader(e) ==
  /\ sent[e] < IF e = "client" THEN MaxSent ELSE MaxReplies
  /\ sent[e] - known[e] < MaxSilence
  /\ LET p == [seq   |-> local[e],
               ack   |-> IF haveRemote[e] THEN remote[e] ELSE NoAck,
               bits  |-> IF haveRemote[e] THEN received[e] ELSE {},
               id    |-> sent[e],
               ackId |-> IF haveRemote[e] THEN Newest(e) ELSE 0]
     IN \E net \in Sent(flight[Peer(e)], p) : flight' = [flight EXCEPT ![Peer(e)] = net]
  /\ local' = [local EXCEPT ![e] = (@ + 1) % SeqMod]
  /\ sent' = [sent EXCEPT ![e] = @ + 1]
  /\ UNCHANGED <<remoteVars, ackVars, auxVars>>

\* A header that acknowledges exactly number 0xFFFF, and nothing before it, reads
\* as one that acknowledges nothing.
Silent(p) == p.ack = NoAck /\ p.bits = {}

\* Mutant: a newer acknowledgement does not shift what was acknowledged before.
UnshiftedLearnAcks(e, p) ==
  IF Silent(p) THEN UNCHANGED ackVars
  ELSE /\ haveAcked' = [haveAcked EXCEPT ![e] = TRUE]
       /\ ackedSeq' = [ackedSeq EXCEPT ![e] =
            IF ~haveAcked[e] \/ SequenceNewer(p.ack, @) THEN p.ack ELSE @]
       /\ ackedBits' = [ackedBits EXCEPT ![e] = @ \cup p.bits]

\* The first half of on_received: what the header says of our own packets.
LearnAcks(e, p) ==
  IF Silent(p) THEN UNCHANGED ackVars
  ELSE IF ~haveAcked[e]
  THEN /\ haveAcked' = [haveAcked EXCEPT ![e] = TRUE]
       /\ ackedSeq' = [ackedSeq EXCEPT ![e] = p.ack]
       /\ ackedBits' = [ackedBits EXCEPT ![e] = p.bits]
  ELSE IF SequenceNewer(p.ack, ackedSeq[e])
  THEN LET shift == Behind(p.ack, ackedSeq[e])
       IN /\ ackedSeq' = [ackedSeq EXCEPT ![e] = p.ack]
          /\ ackedBits' = [ackedBits EXCEPT ![e] =
               IF shift >= AckHistory THEN p.bits ELSE Shifted(@, shift) \cup p.bits]
          /\ UNCHANGED haveAcked
  ELSE /\ ackedBits' = [ackedBits EXCEPT ![e] = @ \cup p.bits]
       /\ UNCHANGED <<haveAcked, ackedSeq>>

\* The second half: the packet's own number.
Accepts(e, p) == ~haveRemote[e] \/ Records(p.seq, remote[e], received[e])

Window(e, p) ==
  /\ haveRemote' = [haveRemote EXCEPT ![e] = TRUE]
  /\ remote' = [remote EXCEPT ![e] =
       IF ~haveRemote[e] \/ SequenceNewer(p.seq, @) THEN p.seq ELSE @]
  /\ received' = [received EXCEPT ![e] =
       IF haveRemote[e] THEN RecordBits(p.seq, remote[e], @) ELSE {}]

\* Connection::on_received, for a packet of ours; it may come again.
OnReceived(e) ==
  \E p \in flight[e] :
    /\ sent[Peer(e)] - p.id <= MaxLag
    /\ LearnAcks(e, p)
    /\ orderly' = [orderly EXCEPT ![e] = @ /\ p.id >= last[e]]
    /\ last' = [last EXCEPT ![e] = IF p.id > @ THEN p.id ELSE @]
    /\ known' = [known EXCEPT ![e] = IF ~Silent(p) /\ p.ackId > @ THEN p.ackId ELSE @]
    /\ IF Accepts(e, p)
       THEN /\ Window(e, p)
            /\ heard' = [heard EXCEPT ![e] = @ \cup {p.id}]
       ELSE UNCHANGED <<remoteVars, heard>>
    /\ \E net \in {flight[e], flight[e] \ {p}} : flight' = [flight EXCEPT ![e] = net]
    /\ UNCHANGED <<local, sent>>

Next == \E e \in End : NextHeader(e) \/ OnReceived(e)

Spec == Init /\ [][Next]_vars

-----------------------------------------------------------------------------
(* What the bookkeeping promises.                                          *)

Packet == [seq : Seqno, ack : Seqno, bits : SUBSET Bit, id : Nat, ackId : Nat]

TypeOK ==
  /\ local \in [End -> Seqno]
  /\ haveRemote \in [End -> BOOLEAN]
  /\ remote \in [End -> Seqno]
  /\ received \in [End -> SUBSET Bit]
  /\ haveAcked \in [End -> BOOLEAN]
  /\ ackedSeq \in [End -> Seqno]
  /\ ackedBits \in [End -> SUBSET Bit]
  /\ flight \in [End -> SUBSET Packet]
  /\ sent \in [End -> Nat]
  /\ heard \in [End -> SUBSET Nat]
  /\ known \in [End -> Nat]
  /\ last \in [End -> Nat]
  /\ orderly \in [End -> BOOLEAN]

\* The window tells the truth about what was heard, across every wrap of the
\* counter: its newest number is the newest packet, a set bit is a packet that
\* arrived, and no packet that arrived is missing from it, save in the oldest
\* bit (a jump of exactly AckHistory clears the word).
WindowTruth ==
  \A e \in End : haveRemote[e] =>
    /\ remote[e] = Newest(e) % SeqMod
    /\ \A i \in received[e] : Newest(e) - 1 - i \in heard[e]
    /\ \A i \in 0 .. AckHistory - 2 : Newest(e) - 1 - i \in heard[e] => i \in received[e]

\* What an end takes for heard it has heard, in a window of the right shape.
HeardTruly == TypeOK /\ WindowTruth

\* on_received takes in a packet once and only once, in whatever order packets
\* and their copies arrive, provided fewer than AckHistory newer ones were sent
\* meanwhile: a copy exactly AckHistory late may be taken for a new packet, since
\* `record' clears the word on a jump of that size.
AcceptsUnheard ==
  \A e \in End : \A p \in flight[e] :
    sent[Peer(e)] - p.id <= MaxLag => (Accepts(e, p) <=> p.id \notin heard[e])

\* A packet of the last half range counts as acknowledged only if it arrived: an
\* end whose packets come in the order they were sent, however many are lost or
\* repeated and wherever the counters wrap, never takes a lost packet for a
\* delivered one.
Arrived(e) ==
  \A id \in sent[e] - SeqMod \div 2 .. sent[e] - 1 :
    id >= 0 /\ Acked(e, id % SeqMod) => id \in heard[Peer(e)]
NoFalseAckInOrder == \A e \in End : orderly[e] => Arrived(e)

\* "True when our packet `sequence` has been acknowledged by the far end. Only
\* meaningful for the last ACK_HISTORY packets" (net.h:107), in whatever order
\* the packets come.
NoFalseAck == \A e \in End : Arrived(e)
=============================================================================
