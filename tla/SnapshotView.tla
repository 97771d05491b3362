---------------------------- MODULE SnapshotView ----------------------------
(***************************************************************************)
(* What the session layer promises, without messages, deltas, baselines or *)
(* rings: the server lives through a sequence of worlds, and each client   *)
(* from time to time comes to hold one of them, always a later one than it *)
(* held before.  It may skip any number of them; it never holds a world    *)
(* the server did not have.                                                *)
(***************************************************************************)
EXTENDS Integers

CONSTANTS
  Client,
  World,           \* all worlds
  NoTick           \* the tick of a client that holds none

VARIABLES
  now,             \* the server's tick
  lived,           \* the server's worlds so far, by tick
  heldTick,        \* the tick each client holds, or NoTick
  held             \* the world each client holds, once it holds one

vars == <<now, lived, heldTick, held>>

Init ==
  /\ now = 0
  /\ lived \in [0 .. 0 -> World]
  /\ heldTick = [c \in Client |-> NoTick]
  /\ held \in [Client -> World]

\* The server moves on to its next world, and its past stays as it was.
Advance ==
  /\ now' = now + 1
  /\ lived' \in [0 .. now' -> World]
  /\ \A t \in 0 .. now : lived'[t] = lived[t]
  /\ UNCHANGED <<heldTick, held>>

\* A client takes over one of the server's worlds, newer than its own.
Take(c) ==
  \E t \in 0 .. now :
    /\ heldTick[c] = NoTick \/ t > heldTick[c]
    /\ heldTick' = [heldTick EXCEPT ![c] = t]
    /\ held' = [held EXCEPT ![c] = lived[t]]
    /\ UNCHANGED <<now, lived>>

Next == Advance \/ \E c \in Client : Take(c)

Spec == Init /\ [][Next]_vars
=============================================================================
