--------------------------------- MODULE Pool ---------------------------------
(***************************************************************************)
(* The generational pool of core/pool.h: a fixed number of slots, a list   *)
(* of the free ones threaded through them, and handles that are to resolve *)
(* to null once their slot was given back, whoever has it since.           *)
(***************************************************************************)
EXTENDS Integers, Sequences, FiniteSets

CONSTANTS
  Capacity,    \* with_capacity's argument
  MaxGen,      \* bound: how often a slot is given back; 2^32 times in the code
  Null

VARIABLES
  slots,       \* slots_
  gens,        \* gens_
  nextFree,    \* next_free_
  freeHead,    \* free_head_
  len,         \* len_
  issued       \* auxiliary: what each handle given out was given for, Null once removed

vars == <<slots, gens, nextFree, freeHead, len, issued>>

Index  == 0 .. Capacity - 1
Value  == {"a", "b"}
Handle == Index \X (0 .. MaxGen)

Init ==
  /\ slots = [i \in Index |-> Null]
  /\ gens = [i \in Index |-> 0]
  /\ nextFree = [i \in Index |-> i + 1]
  /\ freeHead = 0
  /\ len = 0
  /\ issued = <<>>

Get(h) == IF h[1] \notin Index \/ gens[h[1]] # h[2] THEN Null ELSE slots[h[1]]

\* insert; a full pool is a panic
Insert(value) ==
  /\ freeHead < Capacity
  /\ freeHead' = nextFree[freeHead]
  /\ slots' = [slots EXCEPT ![freeHead] = value]
  /\ len' = len + 1
  /\ issued' = [h \in DOMAIN issued \cup {<<freeHead, gens[freeHead]>>} |->
                  IF h = <<freeHead, gens[freeHead]>> THEN value ELSE issued[h]]
  /\ UNCHANGED <<gens, nextFree>>

\* remove; a handle that no longer resolves is a panic
LooseRemove(h) ==                          \* mutant: keeps the generation
  /\ Get(h) # Null
  /\ nextFree' = [nextFree EXCEPT ![h[1]] = freeHead]
  /\ freeHead' = h[1]
  /\ len' = len - 1
  /\ issued' = [issued EXCEPT ![h] = Null]
  /\ UNCHANGED <<slots, gens>>
Remove(h) ==
  /\ Get(h) # Null /\ gens[h[1]] < MaxGen
  /\ gens' = [gens EXCEPT ![h[1]] = @ + 1]
  /\ nextFree' = [nextFree EXCEPT ![h[1]] = freeHead]
  /\ freeHead' = h[1]
  /\ len' = len - 1
  /\ issued' = [issued EXCEPT ![h] = Null]
  /\ UNCHANGED slots

Next ==
  \/ \E value \in Value : Insert(value)
  \/ \E h \in DOMAIN issued : Remove(h)

Spec == Init /\ [][Next]_vars

-----------------------------------------------------------------------------
TypeOK ==
  /\ slots \in [Index -> Value \cup {Null}]
  /\ gens \in [Index -> 0 .. MaxGen]
  /\ nextFree \in [Index -> 0 .. Capacity] /\ freeHead \in 0 .. Capacity
  /\ len \in 0 .. Capacity
  /\ DOMAIN issued \subseteq Handle

\* The free list from its head, `len' slots short of all of them.
Free[n \in 0 .. Capacity] ==
  IF n = 0 THEN <<freeHead>>
  ELSE LET before == Free[n - 1]
           last   == before[Len(before)]
       IN  IF last \in Index THEN Append(before, nextFree[last]) ELSE before

\* After any sequence of inserts and removes, a handle ever given out gets what it
\* was given for until it is removed, and null ever after, and the free list runs
\* once through the slots that are not taken, and only those (pool.h:66-92).
HandlesResolve ==
  LET taken == {h[1] : h \in {g \in DOMAIN issued : issued[g] # Null}}
      list  == Free[Capacity]
  IN  /\ \A h \in DOMAIN issued : Get(h) = issued[h]
      /\ Len(list) = Capacity - len + 1 /\ list[Len(list)] = Capacity
      /\ {list[i] : i \in 1 .. Len(list) - 1} = Index \ taken
      /\ len = Cardinality(taken)
=============================================================================
