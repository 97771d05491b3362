----------------------------- MODULE MCSession -----------------------------
(***************************************************************************)
(* Session on small instances.  The simulation is the free one: a body is  *)
(* the sequence of the commands that made it, so two worlds are equal only *)
(* when they were built from the same commands in the same order.          *)
(***************************************************************************)
EXTENDS Session, Sequences

CONSTANT MatchTicks   \* ticks from the start of a match to its restart

ASSUME MatchTicksAssumption == MatchTicks \in Nat \ {0}

\* The banner is up for the last tick of a match.
MCOver(body)   == Len(body) = MatchTicks - 1
MCResult(body) == IF MCOver(body) THEN 1 ELSE 0

MCBody      == UNION {[1 .. n -> Given] : n \in 0 .. MatchTicks - 1}
MCFreshBody == <<>>
MCStep(body, given) == IF MCOver(body) THEN body ELSE Append(body, given)

\* Every delta fits the packet.
MCFits(baseline, current) == TRUE

\* Everybody is the human in the slot of the same number.
OwnSlot == [c \in Client |-> c]
AsServer == [c \in Client |-> ServerHumans]
OnePerson == [c \in Client |-> 1]
=============================================================================
