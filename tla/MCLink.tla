------------------------------- MODULE MCLink -------------------------------
(***************************************************************************)
(* Link for TLC, in two settings: every address sends, within tighter      *)
(* bounds, or a single one does, to whom the bounds of Link are left.      *)
(* Addresses are compared and never ordered, so any permutation of them is *)
(* a symmetry.                                                             *)
(***************************************************************************)
EXTENDS Link, TLC

CONSTANTS CrowdSent, CrowdSnapshots, CrowdTick   \* bounds: as Link's, when all send

VARIABLE senders

MCInit == Init /\ senders \in {Address} \cup {{a} : a \in Address}

InCrowdBounds ==
  /\ TotalOf(sent) <= CrowdSent
  /\ TotalOf([s \in Slot |-> serverEnd[s].local]) <= CrowdSnapshots
  /\ tick <= CrowdTick

MCNext ==
  /\ Next /\ UNCHANGED senders
  /\ \A m \in toServer' : m.from \in senders
  /\ \A a \in Address \ senders : sent'[a] = 0
  /\ senders = Address => InCrowdBounds'

MCSpec == MCInit /\ [][MCNext]_<<vars, senders>>

AddressSymmetry == Permutations(Address)
=============================================================================
