-------------------------------- MODULE Level --------------------------------
(***************************************************************************)
(* The level: the map file, somebody who edits it while the game runs,     *)
(* load_level of sim_level.cpp, the waypoint graph it builds, the geometry *)
(* drawn from it, and the part of main.cpp that loads it at the start and  *)
(* again whenever the file's time has changed.                             *)
(*                                                                         *)
(* A text is a sequence of directives; a directive is its word, what it    *)
(* describes, and whether all its numbers are there.  Every write gives    *)
(* the file a time of its own.                                             *)
(***************************************************************************)
EXTENDS Integers, Sequences, SequencesExt

CONSTANTS
  MaxBoxes,    \* MAX_LEVEL_BOXES
  MaxNodes,    \* MAX_NAV_NODES
  MaxWrites,   \* bound: how often the file is written
  None

VARIABLES
  file,        \* the map on disk: its text and its time
  saving,      \* the text an editor is in the middle of writing
  source,      \* auxiliary: the text that was last read and found good
  level,       \* loaded_boxes, loaded_visible, loaded_spawn, and nodes and links
  drawn,       \* what the scene's buffers were built from
  known,       \* map_mtime
  first,       \* auxiliary: map_mtime as the program first took it
  held,        \* the text that was read
  pc

vars == <<file, saving, source, level, drawn, known, first, held, pc>>

D(word, what)  == [word |-> word, what |-> what, whole |-> TRUE]
Cut(word)      == [word |-> word, what |-> "", whole |-> FALSE]

\* Maps an editor may save: two good ones, that differ in what stands between the
\* nodes; one with too many boxes; one with a word nobody knows.
Open   == <<D("spawn", "s"), D("node", "p"), D("cbox", "fence"), D("node", "q"), D("box", "hut")>>
Walled == <<D("box", "wall"), D("node", "q"), D("node", "p"), D("spawn", "t")>>
Crowded == <<D("node", "p"), D("box", "hut"), D("cbox", "fence"), D("box", "wall"), D("box", "hut")>>
Garbled == <<D("spawn", "t"), D("bux", "hut")>>
Texts  == {Open, Walled, Crowded, Garbled}

-----------------------------------------------------------------------------
(* load_level.                                                             *)

\* The directives with one of these words, in the order of the text.
Of(text, words) ==
  LET at == {i \in DOMAIN text : text[i].word \in words}
  IN  [k \in 1 .. Cardinality(at) |->
         text[CHOOSE i \in at : Cardinality({j \in at : j <= i}) = k]]
Whats(ds)       == [i \in DOMAIN ds |-> ds[i].what]

\* The directives are read in order, and the first that is unknown, cut short or
\* one too many fails the load.
Parses(text) ==
  /\ \A i \in DOMAIN text :
       text[i].word \in {"spawn", "box", "cbox", "node"} /\ text[i].whole
  /\ Len(Of(text, {"box", "cbox"})) <= MaxBoxes
  /\ Len(Of(text, {"node"})) <= MaxNodes

Parsed(text) ==
  IF text = None \/ ~Parses(text) THEN [ok |-> FALSE]
  ELSE [ok |-> TRUE,
        spawn     |-> IF Of(text, {"spawn"}) = <<>> THEN "" ELSE Last(Of(text, {"spawn"})).what,
        visible   |-> Whats(Of(text, {"box"})),
        collision |-> Whats(Of(text, {"cbox"})),
        nodes     |-> Whats(Of(text, {"node"}))]

\* nav_build_links: near, and nothing of the level in between
Links(nodes, boxes) ==
  {p \in (DOMAIN nodes) \X (DOMAIN nodes) :
     p[1] # p[2] /\ ("wall" \in ToSet(boxes) => nodes[p[1]] = nodes[p[2]])}

\* What a load leaves: nothing of it when it fails, all of it when it does not,
\* the links against the boxes just installed.
EarlyInstalled(old, m) ==          \* mutant: the links against the boxes before
  IF ~m.ok THEN old
  ELSE [spawn |-> m.spawn, shown |-> Len(m.visible), boxes |-> m.visible \o m.collision,
        nodes |-> m.nodes, links |-> Links(m.nodes, old.boxes)]
Installed(old, m) ==
  IF ~m.ok THEN old
  ELSE LET boxes == m.visible \o m.collision
       IN  [spawn |-> m.spawn, shown |-> Len(m.visible), boxes |-> boxes,
            nodes |-> m.nodes, links |-> Links(m.nodes, boxes)]

NoLevel == [spawn |-> "", shown |-> 0, boxes |-> <<>>, nodes |-> <<>>, links |-> {}]
LevelOf(text) == Installed(NoLevel, Parsed(text))

\* build_level: a floor under all boxes, and those that are visible
Built(l) == [floor |-> ToSet(l.boxes), boxes |-> SubSeq(l.boxes, 1, l.shown)]

-----------------------------------------------------------------------------
(* The program.                                                            *)

Init ==
  /\ file = [text |-> Open, time |-> 1]
  /\ saving = None /\ source = None
  /\ level = NoLevel /\ drawn = None
  /\ known = 0 /\ first = 0 /\ held = None
  /\ pc = "boot"

\* read_entire_file: what is there, or nothing when it is gone or cut short as it
\* is read.
Read ==
  /\ held' \in {file.text} \cup (IF saving # None THEN {None} ELSE {})
  /\ UNCHANGED <<file, saving, source, level, drawn, known, first>>

\* The start: load, or give up; then take the time; then build the scene.
BootRead == pc = "boot" /\ Read /\ pc' = "install"

BootInstall ==
  /\ pc = "install"
  /\ level' = Installed(level, Parsed(held))
  /\ pc' = IF Parsed(held).ok THEN "stamp" ELSE "exit"
  /\ source' = held /\ held' = None
  /\ UNCHANGED <<file, saving, drawn, known, first>>

Stamp ==
  /\ pc = "stamp"
  /\ known' = file.time /\ first' = file.time
  /\ drawn' = Built(level)
  /\ pc' = "loop"
  /\ UNCHANGED <<file, saving, source, level, held>>

\* The report, once a second: a time other than the last one seen is noted before
\* the file is read.
Report ==
  /\ pc = "loop" /\ file.time # known
  /\ known' = file.time
  /\ pc' = "reload"
  /\ UNCHANGED <<file, saving, source, level, drawn, first, held>>

ReloadRead == pc = "reload" /\ Read /\ pc' = "reinstall"

LateReload ==                     \* mutant: the time is noted after the load
  /\ pc = "reinstall"
  /\ level' = Installed(level, Parsed(held))
  /\ drawn' = IF Parsed(held).ok THEN Built(level') ELSE drawn
  /\ source' = IF Parsed(held).ok THEN held ELSE source
  /\ held' = None
  /\ known' = file.time
  /\ pc' = "loop"
  /\ UNCHANGED <<file, saving, first>>
Reload ==
  /\ pc = "reinstall"
  /\ level' = Installed(level, Parsed(held))
  /\ drawn' = IF Parsed(held).ok THEN Built(level') ELSE drawn
  /\ source' = IF Parsed(held).ok THEN held ELSE source
  /\ held' = None
  /\ pc' = "loop"
  /\ UNCHANGED <<file, saving, known, first>>

\* Somebody saves a map: the file is cut off, a part is there, then all of it.
Write(text) ==
  /\ file.time < MaxWrites
  /\ file' = [text |-> text, time |-> file.time + 1]
  /\ UNCHANGED <<source, level, drawn, known, first, held, pc>>

BeginSave ==
  /\ saving = None
  /\ saving' \in Texts
  /\ \/ Write(<<>>)
     \/ \E n \in {1, Len(saving') - 1} :
          Write(SubSeq(saving', 1, n)) \/ Write(Append(SubSeq(saving', 1, n), Cut(saving'[n + 1].word)))

EndSave == saving # None /\ Write(saving) /\ saving' = None

Program == BootRead \/ BootInstall \/ Stamp \/ Report \/ ReloadRead \/ Reload
Next == Program \/ BeginSave \/ EndSave

\* The main loop goes on, and who began to save ends.
Fairness == WF_vars(Program) /\ WF_vars(EndSave)
Spec == Init /\ [][Next]_vars /\ Fairness

-----------------------------------------------------------------------------
(* Properties.                                                             *)

TypeOK ==
  /\ file.time \in 1 .. MaxWrites /\ saving \in Texts \cup {None}
  /\ level.shown \in 0 .. Len(level.boxes)
  /\ Len(level.boxes) <= MaxBoxes /\ Len(level.nodes) <= MaxNodes
  /\ known \in 0 .. MaxWrites
  /\ pc \in {"boot", "install", "stamp", "exit", "loop", "reload", "reinstall"}

\* The geometry that is played, the graph the bots walk and the geometry that is
\* drawn all come from one text, the last good one that was read, whatever was
\* loaded or refused in between (sim_level.cpp:60-68, 181-187).
OneMap ==
  pc \notin {"boot", "install", "exit"} =>
    /\ level = LevelOf(source)
    /\ pc # "stamp" => drawn = Built(level)

\* A good map saved after the start, and left alone, comes to be played and drawn,
\* though the program may look at the file in the middle of a save (main.cpp:409-421).
Saved(text) ==
  file.text = text /\ saving = None /\ pc # "exit" /\ first # 0 /\ file.time # first
Follows(l) == level = l /\ drawn = Built(l)
MapIsFollowed ==
  /\ <>[]Saved(Open) => <>[]Follows(LevelOf(Open))
  /\ <>[]Saved(Walled) => <>[]Follows(LevelOf(Walled))
=============================================================================
