----------------------------- MODULE MCMovement -----------------------------
(* Movement on a small instance: the faces are interchangeable.            *)
EXTENDS Movement, TLC

Faces == Permutations(Face)
=============================================================================
