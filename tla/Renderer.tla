------------------------------ MODULE Renderer ------------------------------
(***************************************************************************)
(* The screen: the renderer of gpu_frame.cpp and gpu_renderer.cpp with the *)
(* scene drawn on it, one frame loop against a GPU that finishes the       *)
(* frames it was given when it likes, a window that changes its size at    *)
(* any time, and a map and shaders that are edited while the game runs.    *)
(*                                                                         *)
(* What a frame uses and the CPU may rewrite or destroy is kept as an      *)
(* edition, a bit that flips whenever it is rewritten: a frame in flight   *)
(* remembers the editions it was recorded with.  A size is its area.       *)
(***************************************************************************)
EXTENDS Integers, Sequences

CONSTANTS
  Frames,        \* FRAMES_IN_FLIGHT
  Area,          \* the areas a window can have
  AnyArea,       \* a surface that leaves its size to the swapchain: 0xFFFFFFFF
  None,          \* no swapchain, no frame, no capture
  Captures       \* how many captures the program asks for

NoArea == 0      \* minimised

VARIABLES
  surface,   \* the window system's surface: currentExtent
  window,    \* the size the frame loop was last told
  screen,    \* the swapchain and its views, depth buffer and semaphores
  scene,     \* the level's buffers and the pipelines, on the GPU
  counter,   \* frame_counter_ % FRAMES_IN_FLIGHT
  slices,    \* what the CPU last wrote for each slot
  frame,     \* the frame begun and not yet ended
  queue,     \* the frames submitted that the GPU has not finished, oldest first
  capture    \* the read-back of a frame

vars == <<surface, window, screen, scene, counter, slices, frame, queue, capture>>

Slot   == 0 .. Frames - 1
Window == Area \cup {NoArea}
Screen == [area: Area \cup {None}, live: BOOLEAN, edition: BOOLEAN]
Scene  == [level: BOOLEAN, pipelines: BOOLEAN, stale: BOOLEAN]
Uses   == [slot: Slot, slices: BOOLEAN, screen: BOOLEAN, level: BOOLEAN, pipelines: BOOLEAN]
Frame  == [slot: Slot, window: Area, area: Area, drawn: BOOLEAN]
Shot   == [area: Area, shown: Area, done: BOOLEAN]
Capture == [left: 0 .. Captures, wanted: BOOLEAN, size: {0} \cup Area,
            room: {0} \cup Area, shot: Shot \cup {None}]

-----------------------------------------------------------------------------
(* The swapchain.                                                          *)

\* choose_extent
Chosen(size) == IF surface = AnyArea THEN size ELSE surface

\* recreate_swapchain: what it leaves of the screen, once the queue is idle.  With
\* no area to make a swapchain for it returns early: the old one stays, of its old
\* size, without views ...
DestroyImageObjects(s) == [s EXCEPT !.live = FALSE, !.edition = ~@]
Recreated(s, size) ==
  LET old == IF s.area = None THEN s ELSE DestroyImageObjects(s)
  IN  IF Chosen(size) = NoArea THEN old
      ELSE [old EXCEPT !.area = Chosen(size), !.live = TRUE]
\* ... and of the frames in flight: with a swapchain to retire it waits for all.
HastyDrained(s, q) == q                    \* mutant: the wait is left out
Drained(s, q) == IF s.area = None THEN q ELSE <<>>

\* What the window system says of an image acquired or presented: nothing is out
\* of date at the size of its surface, and at another a driver may say what it likes.
Verdicts(s) ==
  {"success", "suboptimal"} \cup
  (IF surface \in {AnyArea, s.area} THEN {} ELSE {"out_of_date"})

-----------------------------------------------------------------------------
(* The frame loop.                                                         *)

Init ==
  /\ window \in Area
  /\ surface \in {window, AnyArea}
  /\ screen = [area |-> window, live |-> TRUE, edition |-> FALSE]
  /\ scene = [level |-> FALSE, pipelines |-> FALSE, stale |-> TRUE]
  /\ counter = 0
  /\ slices = [s \in Slot |-> FALSE]
  /\ frame = None
  /\ queue = <<>>
  /\ capture = [left |-> Captures, wanted |-> FALSE, size |-> 0, room |-> 0, shot |-> None]

Misfits(s) == s.area = None \/ window # s.area

\* The wait for the timeline: the frame FRAMES_IN_FLIGHT before is finished.
Paced(q) == Len(q) < Frames

\* begin_frame.  It skips a window of no area; it makes the swapchain fit, waits
\* for its slot, acquires, and starts the slot's command buffer over.
SkipFrame(s, q, verdict) ==
  /\ verdict = "out_of_date"
  /\ screen' = Recreated(s, window)
  /\ queue' = Drained(s, q)
  /\ UNCHANGED <<frame, slices>>

TakeFrame(s, q, verdict) ==
  /\ verdict # "out_of_date"
  /\ screen' = s /\ queue' = q
  /\ frame' = [slot |-> counter, window |-> window, area |-> s.area, drawn |-> FALSE]
  /\ slices' = [slices EXCEPT ![counter] = ~@]

BeginFrame ==
  /\ frame = None /\ window # NoArea
  /\ LET s == IF Misfits(screen) THEN Recreated(screen, window) ELSE screen
         q == IF Misfits(screen) THEN Drained(screen, queue) ELSE queue
     IN  \/ /\ Misfits(screen) /\ Chosen(window) = NoArea
            /\ screen' = s /\ queue' = q
            /\ UNCHANGED <<frame, slices>>
         \/ /\ ~(Misfits(screen) /\ Chosen(window) = NoArea)
            /\ Paced(q)
            /\ \E verdict \in Verdicts(s) : SkipFrame(s, q, verdict) \/ TakeFrame(s, q, verdict)
  /\ UNCHANGED <<surface, window, scene, counter, capture>>

\* Scene::draw: the records, poses, globals and instances of this frame go to
\* the slices of its slot, the commands that read them to its command buffer.
Draw ==
  /\ frame # None /\ ~frame.drawn
  /\ frame' = [frame EXCEPT !.drawn = TRUE]
  /\ UNCHANGED <<surface, window, screen, scene, counter, slices, queue, capture>>

Submitted ==
  [slot |-> frame.slot, slices |-> slices[frame.slot], screen |-> screen.edition,
   level |-> scene.level, pipelines |-> scene.pipelines]

\* end_frame's capture: a buffer that has become too small is replaced once the
\* queue is idle; the frame is copied into it, and read back when it is done.
Grows == capture.wanted /\ capture.size < screen.area /\ capture.size # 0
FinishCapture(area) ==
  [capture EXCEPT
     !.wanted = FALSE,
     !.size = IF @ < screen.area THEN screen.area ELSE @,
     !.room = IF @ = 0 THEN area ELSE @,
     !.shot = [area |-> area, shown |-> frame.area, done |-> TRUE]]

\* end_frame: submit, present, read back, and make the swapchain fit again.
LateEndFrame ==                       \* mutant: reads back after the recreation
  /\ frame # None /\ frame.drawn
  /\ counter' = (counter + 1) % Frames
  /\ frame' = None
  /\ \E verdict \in Verdicts(screen) :
       /\ screen' = IF verdict = "success" THEN screen ELSE Recreated(screen, frame.window)
       /\ capture' = IF capture.wanted THEN FinishCapture(screen'.area) ELSE capture
       /\ queue' = IF verdict = "success" /\ ~capture.wanted
                     THEN Append(queue, Submitted) ELSE <<>>
  /\ UNCHANGED <<surface, window, scene, slices>>
EndFrame ==
  /\ frame # None /\ frame.drawn
  /\ counter' = (counter + 1) % Frames
  /\ frame' = None
  /\ LET submitted == Append(IF Grows THEN <<>> ELSE queue, Submitted)
         q == IF capture.wanted THEN <<>> ELSE submitted
     IN  \E verdict \in Verdicts(screen) :
           /\ capture' = IF capture.wanted THEN FinishCapture(screen.area) ELSE capture
           /\ screen' = IF verdict = "success" THEN screen ELSE Recreated(screen, frame.window)
           /\ queue' = IF verdict = "success" THEN q ELSE Drained(screen, q)
  /\ UNCHANGED <<surface, window, scene, slices>>

\* The main loop asks for a read-back of the frame it ends on.
RequestCapture ==
  /\ frame = None /\ ~capture.wanted /\ capture.left > 0
  /\ capture' = [capture EXCEPT !.left = @ - 1, !.wanted = TRUE, !.shot = None]
  /\ UNCHANGED <<surface, window, screen, scene, counter, slices, frame, queue>>

\* Scene::reload_level: update_device_buffer waits for the queue, rewrites the
\* level's buffer in place, and waits for the copy.
ReloadLevel ==
  /\ frame = None
  /\ scene' = [scene EXCEPT !.level = ~@]
  /\ queue' = <<>>
  /\ UNCHANGED <<surface, window, screen, counter, slices, frame, capture>>

\* Scene::maybe_reload, once a second: rebuilt when a file is newer, the device idle.
MaybeReload ==
  /\ frame = None /\ scene.stale
  /\ scene' = [scene EXCEPT !.pipelines = ~@, !.stale = FALSE]
  /\ queue' = <<>>
  /\ UNCHANGED <<surface, window, screen, counter, slices, frame, capture>>

-----------------------------------------------------------------------------
(* Around it.                                                              *)

\* Somebody saves a shader.
EditShader ==
  /\ ~scene.stale
  /\ scene' = [scene EXCEPT !.stale = TRUE]
  /\ UNCHANGED <<surface, window, screen, counter, slices, frame, queue, capture>>

\* The window system resizes or minimises the window ...
Resize ==
  /\ surface # AnyArea
  /\ surface' \in Window \ {surface}
  /\ UNCHANGED <<window, screen, scene, counter, slices, frame, queue, capture>>

\* ... which the loop hears of at its next pump.
Pump ==
  /\ frame = None
  /\ window' \in IF surface = AnyArea THEN Window ELSE {surface}
  /\ window' # window
  /\ UNCHANGED <<surface, screen, scene, counter, slices, frame, queue, capture>>

\* The GPU finishes its oldest frame and signals the timeline.
Finish ==
  /\ queue # <<>>
  /\ queue' = Tail(queue)
  /\ UNCHANGED <<surface, window, screen, scene, counter, slices, frame, capture>>

Loop == BeginFrame \/ Draw \/ EndFrame
Next ==
  \/ Loop \/ RequestCapture \/ ReloadLevel \/ MaybeReload
  \/ EditShader \/ Resize \/ Pump \/ Finish

\* The loop goes on and takes note of the window, the GPU finishes what it has.
Fairness == WF_vars(Loop) /\ WF_vars(Finish) /\ WF_vars(Pump)
Spec == Init /\ [][Next]_vars /\ Fairness

-----------------------------------------------------------------------------
(* Properties.                                                             *)

TypeOK ==
  /\ surface \in Window \cup {AnyArea} /\ window \in Window
  /\ screen \in Screen /\ scene \in Scene
  /\ counter \in Slot /\ slices \in [Slot -> BOOLEAN]
  /\ frame \in Frame \cup {None}
  /\ queue \in Seq(Uses) /\ Len(queue) <= Frames
  /\ capture \in Capture

\* Nothing a frame in flight uses is rewritten or destroyed before the GPU is
\* done with it: its slot's slices, the views and the depth buffer, the level's
\* buffers, the pipelines; whatever early return, resize or reload came between
\* (gpu_frame.cpp:26-34, gpu_renderer.cpp:76-83, gpu_resources.cpp:259,
\* render_scene_setup.cpp:165).
NothingReusedInFlight ==
  \A i \in 1 .. Len(queue) :
    /\ queue[i].slices = slices[queue[i].slot]
    /\ queue[i].screen = screen.edition
    /\ queue[i].level = scene.level
    /\ queue[i].pipelines = scene.pipelines
    /\ frame # None => queue[i].slot # frame.slot

\* "Check Frame::valid before using it" (gpu.h:292): a frame that says it is valid
\* can be drawn, its views are there and of the swapchain it will be presented to.
DrawnOnLiveViews == frame # None => screen.live /\ frame.area = screen.area

\* A capture that landed is the frame that was shown, whole and at its size, and
\* fits the copy it was written to (gpu_frame.cpp:103-104, 207-228).
CaptureIsTheFrame ==
  capture.shot # None =>
    capture.shot.area = capture.shot.shown /\ capture.shot.area <= capture.room

\* Frames go on: a window that settles at some size, with views to draw on, is drawn
\* for ever, every slot in its turn, whatever was resized, minimised or skipped before.
Settled    == window # NoArea /\ surface \in {window, AnyArea} /\ screen.live
Drawing(s) == frame # None /\ frame.slot = s
FramesGoOn == <>[]Settled => \A s \in Slot : []<>Drawing(s)
=============================================================================
