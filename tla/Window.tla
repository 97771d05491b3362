------------------------------- MODULE Window -------------------------------
(***************************************************************************)
(* The wrapping arithmetic of net_connection.cpp: which of two sequence    *)
(* numbers is the newer, and the window of what was seen behind the newest *)
(* one.  A window word is the set of its bits: i stands for                *)
(* "newest - 1 - i was seen".                                              *)
(***************************************************************************)
EXTENDS Integers

CONSTANTS
  SeqMod,          \* 2^16, the range of a sequence number
  AckHistory       \* ACK_HISTORY, the bits of a window word

ASSUME WindowAssumption ==
  /\ AckHistory \in Nat \ {0}
  /\ SeqMod \in Nat /\ SeqMod % 2 = 0 /\ SeqMod >= 2 * AckHistory + 2

Seqno == 0 .. SeqMod - 1
Bit   == 0 .. AckHistory - 1

\* Mutant: a comparison that knows of no wrap.
PlainNewer(a, b) == a > b

\* sequence_newer
SequenceNewer(a, b) ==
  \/ a > b /\ a - b <= SeqMod \div 2
  \/ b > a /\ b - a > SeqMod \div 2

\* static_cast<u16>(a - b)
Behind(a, b) == (a - b) % SeqMod

\* The window after `shift' newer packets, the old newest becoming a bit of it.
\* Mutant: the old newest forgotten.
ForgetfulShifted(bits, shift) == {i + shift : i \in bits} \cap Bit
Shifted(bits, shift) == ({i + shift : i \in bits} \cup {shift - 1}) \cap Bit

\* `record': whether it returns true, and the window it leaves.
InWindow(seq, newest) ==
  ~SequenceNewer(seq, newest) /\ seq # newest /\ Behind(newest, seq) <= AckHistory

\* Mutant: the window is not consulted.
CarelessRecords(seq, newest, bits) ==
  SequenceNewer(seq, newest) \/ InWindow(seq, newest)
Records(seq, newest, bits) ==
  \/ SequenceNewer(seq, newest)
  \/ InWindow(seq, newest) /\ Behind(newest, seq) - 1 \notin bits

RecordBits(seq, newest, bits) ==
  IF SequenceNewer(seq, newest)
  THEN IF Behind(seq, newest) >= AckHistory THEN {} ELSE Shifted(bits, Behind(seq, newest))
  ELSE bits \cup {Behind(newest, seq) - 1}

\* `present'
Present(seq, newest, bits) ==
  seq = newest \/ (InWindow(seq, newest) /\ Behind(newest, seq) - 1 \in bits)
=============================================================================
