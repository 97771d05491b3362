--------------------------------- MODULE Bot ---------------------------------
(***************************************************************************)
(* A bot after an enemy: bot_think of sim_bot.cpp over the waypoint graph  *)
(* of sim_nav.cpp, whose breadth-first search, and the way back along the  *)
(* parents it found, are taken a node at a time.                           *)
(* The bot is at the node nearest to it.  Places between the nodes are     *)
(* left out, so who is in sight, which node a tick's walk brings it        *)
(* nearest to and where its quarry is are any they may be.                 *)
(***************************************************************************)
EXTENDS Integers, Sequences, FiniteSets

CONSTANTS
  Nodes,       \* the waypoints, 1 .. node_count
  None         \* 0xFF, and no goal

VARIABLES
  links,       \* links
  me,          \* the node nearest to it, and whether it is alive
  goal,        \* goal_node
  parent,      \* parent
  queue, head, \* queue up to its tail, and head
  hop,         \* n, on the way back
  cmd,         \* what the bot does with this tick
  pc

vars == <<links, me, goal, parent, queue, head, hop, cmd, pc>>
search == <<goal, parent, queue, head, hop>>

Graph(g) == \A e \in g : e[1] # e[2] /\ <<e[2], e[1]>> \in g
Graphs   == {g \in SUBSET (Nodes \X Nodes) : Graph(g)}

Linked(n) == {j \in Nodes : <<n, j>> \in links}

Nothing  == [does |-> "nothing", to |-> None]
Fight    == [does |-> "fight", to |-> None]
Hold     == [does |-> "hold", to |-> None]
Walk(n)  == [does |-> "walk", to |-> n]

Init ==
  /\ links \in Graphs
  /\ me \in [at : Nodes, alive : {TRUE}]
  /\ goal = None /\ parent = [n \in Nodes |-> None] /\ queue = <<>> /\ head = 0
  /\ hop = None /\ cmd = Nothing /\ pc = "think"

\* bot_think for one that is dead, and for one that sees an enemy.
ThinkNothing ==
  /\ pc = "think" /\ ~me.alive
  /\ cmd' = Nothing /\ pc' = "act"
  /\ UNCHANGED <<links, me, search>>

ThinkFight ==
  /\ pc = "think" /\ me.alive
  /\ cmd' = Fight /\ pc' = "act"
  /\ UNCHANGED <<links, me, search>>

\* Nobody in sight: to the node nearest to whoever is nearest this tick, or to one
\* rolled from the tick.  nav_next_hop begins its search where the bot is.
ThinkHunt ==
  /\ pc = "think" /\ me.alive
  /\ goal' \in Nodes
  /\ parent' = [n \in Nodes |-> IF n = me.at THEN n ELSE None]
  /\ queue' = <<me.at>> /\ head' = 0
  /\ pc' = "search"
  /\ UNCHANGED <<links, me, hop, cmd>>

\* The lowest bit of m first.
Ascending(S) ==
  CHOOSE q \in [1 .. Cardinality(S) -> S] : \A i, j \in DOMAIN q : i < j => q[i] < q[j]

\* One turn of the search: the next node of the queue, its neighbours not met yet.
ForgetfulExpand ==                  \* mutant: marked when taken, not when queued
  /\ pc = "search" /\ head < Len(queue) /\ parent[goal] = None
  /\ LET n   == queue[head + 1]
         new == {j \in Linked(n) : parent[j] = None}
     IN  /\ parent' = [parent EXCEPT ![n] = IF @ = None THEN n ELSE @]
         /\ queue' = queue \o Ascending(new)
  /\ head' = head + 1
  /\ UNCHANGED <<links, me, goal, hop, cmd, pc>>
Expand ==
  /\ pc = "search" /\ head < Len(queue) /\ parent[goal] = None
  /\ LET n   == queue[head + 1]
         new == {j \in Linked(n) : parent[j] = None}
     IN  /\ parent' = [j \in Nodes |-> IF j \in new THEN n ELSE parent[j]]
         /\ queue' = queue \o Ascending(new)
  /\ head' = head + 1
  /\ UNCHANGED <<links, me, goal, hop, cmd, pc>>

\* The goal was met: back along the parents from it, to the node after the start.
Found ==
  /\ pc = "search" /\ parent[goal] # None
  /\ hop' = goal /\ pc' = "back"
  /\ UNCHANGED <<links, me, goal, parent, queue, head, cmd>>

Back ==
  /\ pc = "back" /\ parent[hop] # me.at
  /\ hop' = parent[hop]
  /\ UNCHANGED <<links, me, goal, parent, queue, head, cmd, pc>>

Arrive ==
  /\ pc = "back" /\ parent[hop] = me.at
  /\ cmd' = Walk(hop) /\ pc' = "act"
  /\ UNCHANGED <<links, me, search>>

\* Marooned: no route, so it stands still.
NoRoute ==
  /\ pc = "search" /\ head = Len(queue) /\ parent[goal] = None
  /\ cmd' = Hold /\ pc' = "act"
  /\ UNCHANGED <<links, me, search>>

\* The tick is simulated: it walked part of the way, stood still, was shot or came
\* back; the nearest node is whichever it is now, and what was searched is forgotten.
Act ==
  /\ pc = "act"
  /\ me' \in [at : Nodes, alive : BOOLEAN]
  /\ goal' = None /\ parent' = [n \in Nodes |-> None] /\ queue' = <<>> /\ head' = 0
  /\ hop' = None /\ pc' = "think"
  /\ UNCHANGED <<links, cmd>>

Next ==
  \/ ThinkNothing \/ ThinkFight \/ ThinkHunt
  \/ Expand \/ Found \/ Back \/ Arrive \/ NoRoute
  \/ Act

Spec == Init /\ [][Next]_vars

-----------------------------------------------------------------------------
(* Properties.                                                             *)

TypeOK ==
  /\ links \in Graphs
  /\ me \in [at : Nodes, alive : BOOLEAN]
  /\ goal \in Nodes \cup {None} /\ hop \in Nodes \cup {None}
  /\ parent \in [Nodes -> Nodes \cup {None}]
  /\ queue \in Seq(Nodes) /\ Len(queue) <= Cardinality(Nodes) /\ head \in 0 .. Len(queue)
  /\ cmd.to \in Nodes \cup {None}

\* The nodes within k links of n, for each k; those within any number; and how many
\* links b is from a, where there is a way.
Ball(g, n) ==
  LET ball[k \in Nat] ==
        IF k = 0 THEN {n} ELSE ball[k - 1] \cup {e[2] : e \in {e \in g : e[1] \in ball[k - 1]}}
  IN  ball
Reach(n) == Ball(links, n)[Cardinality(Nodes) - 1]
Far(a, b) == CHOOSE k \in 0 .. Cardinality(Nodes) :
               /\ b \in Ball(links, a)[k]
               /\ \A i \in 0 .. k - 1 : b \notin Ball(links, a)[i]

\* On every graph: no node is queued twice, so the queue never outgrows its array;
\* the hop found is one link away and one link nearer the goal; and a bot stands
\* still only where there is no way (sim_nav.cpp:98-123).
HopIsShortest ==
  /\ \A i, j \in DOMAIN queue : i # j => queue[i] # queue[j]
  /\ (pc = "act" /\ goal # None /\ cmd.does = "walk" /\ goal # me.at) =>
       cmd.to \in Linked(me.at) /\ Far(cmd.to, goal) = Far(me.at, goal) - 1
  /\ (pc = "act" /\ goal # None /\ cmd.does = "hold") => goal \notin Reach(me.at)
=============================================================================
