----------------------------- MODULE PartsProofs -----------------------------
(***************************************************************************)
(* What the renderer, the level, the pool, the device memory, a bot's      *)
(* route, the scene and the import of a model promise while they are the   *)
(* part that runs, for every value of their constants: each has its own    *)
(* inductive invariant over its steps.  Their types come last.             *)
(***************************************************************************)
EXTENDS MCParts, Arithmetic, FiniteSets, SequenceTheorems, FiniteSetTheorems, TLAPS

-----------------------------------------------------------------------------
(* The renderer.                                                           *)

\* Beyond PartsAssumption: the program asks for one capture at most (main.cpp:345).
RendererAssumption ==
  /\ Frames \in Nat \ {0}
  /\ Area \subseteq Nat \ {0}
  /\ AnyArea \notin Nat
  /\ None \notin Nat \cup Renderer!Frame \cup Renderer!Shot
  /\ Captures \in {0, 1}

\* The frames in flight are the last ones begun, their slots the last ones counted.
SlotsInTurn ==
  \A i \in 1 .. Len(queue) :
    LET ago == Len(queue) + 1 - i
    IN  queue[i].slot = IF ago <= counter THEN counter - ago ELSE counter - ago + Frames

\* Nothing was rewritten since a frame in flight was recorded.
Untouched ==
  \A i \in 1 .. Len(queue) :
    /\ queue[i].slices = slices[queue[i].slot]
    /\ queue[i].screen = screen.edition
    /\ queue[i].level = scene.level /\ queue[i].pipelines = scene.pipelines

\* A frame begun has the slot that is counted, which is free, and the screen's size.
FrameFits ==
  frame # None => /\ frame.slot = counter /\ Len(queue) < Frames
                  /\ frame.area = screen.area

\* There is always a swapchain, of the size of some window.
ScreenKept == screen.area \in Area

\* The one capture finds no buffer, and makes one of its size.
OneCapture ==
  /\ capture.wanted => capture.left = 0
  /\ capture.wanted \/ capture.left > 0 => capture.size = 0 /\ capture.room = 0
  /\ Renderer!CaptureIsTheFrame

RendererIInv ==
  /\ Renderer!TypeOK
  /\ SlotsInTurn /\ Untouched /\ FrameFits /\ ScreenKept /\ OneCapture

LEMMA RendererInit == RendererAssumption /\ Renderer!Init => RendererIInv
<1> SUFFICES ASSUME RendererAssumption, Renderer!Init PROVE RendererIInv
  OBVIOUS
<1> USE DEF RendererAssumption
<1>1. Renderer!TypeOK
  <2>1. window \in Area /\ 0 \in Renderer!Slot /\ <<>> \in Seq(Renderer!Uses) /\ Len(<<>>) = 0
    BY DEF Renderer!Init, Renderer!Slot
  <2>2. /\ surface \in Renderer!Window \cup {AnyArea} /\ window \in Renderer!Window
        /\ screen \in Renderer!Screen /\ scene \in Renderer!Scene
        /\ counter \in Renderer!Slot /\ slices \in [Renderer!Slot -> BOOLEAN]
        /\ frame = None /\ queue = <<>>
    BY <2>1 DEF Renderer!Init, Renderer!Window, Renderer!Screen, Renderer!Scene
  <2>3. capture \in Renderer!Capture
    BY DEF Renderer!Init, Renderer!Capture
  <2> QED  BY <2>1, <2>2, <2>3 DEF Renderer!TypeOK
<1>2. SlotsInTurn /\ Untouched
  BY DEF Renderer!Init, SlotsInTurn, Untouched
<1>3. FrameFits /\ ScreenKept
  BY DEF Renderer!Init, FrameFits, ScreenKept
<1>4. OneCapture
  BY DEF Renderer!Init, OneCapture, Renderer!CaptureIsTheFrame
<1> QED  BY <1>1, <1>2, <1>3, <1>4 DEF RendererIInv

\* recreate_swapchain leaves a swapchain, the old one when the surface has no area;
\* and it waits for all frames in flight.
LEMMA RecreatedScreen ==
  ASSUME RendererAssumption, surface \in Renderer!Window \cup {AnyArea},
         NEW s \in Renderer!Screen, s.area \in Area, NEW size \in Area, NEW q
  PROVE  /\ Renderer!Recreated(s, size) \in Renderer!Screen
         /\ Renderer!Recreated(s, size).area \in Area
         /\ Renderer!Drained(s, q) = <<>>
<1> USE DEF RendererAssumption
<1>1. s.area # None
  BY Zenon
<1>2. PICK old : old = Renderer!DestroyImageObjects(s)
  OBVIOUS
<1>3. old \in Renderer!Screen /\ old.area = s.area
  BY <1>2, Zenon DEF Renderer!DestroyImageObjects, Renderer!Screen
<1>4. CASE Renderer!Chosen(size) = Renderer!NoArea
  <2>1. Renderer!Recreated(s, size) = old
    BY <1>1, <1>2, <1>4, Zenon DEF Renderer!Recreated
  <2> QED  BY <1>1, <1>3, <1>4, <2>1, Zenon DEF Renderer!Screen, Renderer!Drained
<1>5. CASE Renderer!Chosen(size) # Renderer!NoArea
  <2>1. Renderer!Recreated(s, size) =
          [old EXCEPT !.area = Renderer!Chosen(size), !.live = TRUE]
    BY <1>1, <1>2, <1>5 DEF Renderer!Recreated
  <2>2. Renderer!Chosen(size) \in Area
    BY <1>5 DEF Renderer!Chosen, Renderer!Window, Renderer!NoArea
  <2> QED  BY <1>1, <1>3, <2>1, <2>2, Zenon DEF Renderer!Screen, Renderer!Drained
<1> QED  BY <1>4, <1>5

\* With nothing in flight there is nothing to keep.
LEMMA NothingInFlight ==
  ASSUME RendererAssumption, queue' = <<>>
  PROVE  /\ SlotsInTurn' /\ Untouched'
         /\ queue' \in Seq(Renderer!Uses) /\ Len(queue') < Frames
BY DEF RendererAssumption, SlotsInTurn, Untouched

LEMMA BeginFrameIInv ==
  ASSUME RendererAssumption, RendererIInv, Renderer!BeginFrame
  PROVE  RendererIInv'
<1> DEFINE misfit == Renderer!Misfits(screen)
<1>1. PICK s, q :
        /\ s = IF misfit THEN Renderer!Recreated(screen, window) ELSE screen
        /\ q = IF misfit THEN Renderer!Drained(screen, queue) ELSE queue
  OBVIOUS
<1>2. /\ frame = None /\ window # Renderer!NoArea
      /\ UNCHANGED <<surface, window, scene, counter, capture>>
      /\ \/ /\ misfit /\ Renderer!Chosen(window) = Renderer!NoArea
            /\ screen' = s /\ queue' = q /\ UNCHANGED <<frame, slices>>
         \/ /\ ~(misfit /\ Renderer!Chosen(window) = Renderer!NoArea)
            /\ Renderer!Paced(q)
            /\ \E verdict \in Renderer!Verdicts(s) :
                 Renderer!SkipFrame(s, q, verdict) \/ Renderer!TakeFrame(s, q, verdict)
  BY <1>1 DEF Renderer!BeginFrame
<1>3. Renderer!TypeOK /\ ScreenKept
  BY DEF RendererIInv
<1>4. window \in Area
  BY <1>2, <1>3 DEF Renderer!TypeOK, Renderer!Window
<1>5. /\ s \in Renderer!Screen /\ s.area \in Area
      /\ misfit => q = <<>>
      /\ ~misfit => q = queue /\ s = screen
  BY <1>1, <1>3, <1>4, RecreatedScreen DEF Renderer!TypeOK, ScreenKept
<1> HIDE DEF misfit
<1>6. OneCapture'
  BY <1>2 DEF RendererIInv, OneCapture, Renderer!CaptureIsTheFrame
<1>7. CASE misfit /\ screen' = s /\ queue' = q /\ UNCHANGED <<frame, slices>>
  <2>1. queue' = <<>>
    BY <1>5, <1>7
  <2>2. Renderer!TypeOK'
    BY <1>2, <1>3, <1>5, <1>7, <2>1, NothingInFlight DEF Renderer!TypeOK, RendererAssumption
  <2>3. FrameFits' /\ ScreenKept'
    BY <1>2, <1>5, <1>7 DEF FrameFits, ScreenKept
  <2> QED  BY <1>6, <2>1, <2>2, <2>3, NothingInFlight DEF RendererIInv
<1>8. ASSUME NEW verdict \in Renderer!Verdicts(s), Renderer!SkipFrame(s, q, verdict)
      PROVE  RendererIInv'
  <2>1. /\ screen' = Renderer!Recreated(s, window) /\ queue' = Renderer!Drained(s, q)
        /\ UNCHANGED <<frame, slices>>
    BY <1>8 DEF Renderer!SkipFrame
  <2>2. queue' = <<>> /\ screen' \in Renderer!Screen /\ screen'.area \in Area
    BY <1>3, <1>4, <1>5, <2>1, RecreatedScreen DEF Renderer!TypeOK
  <2>3. Renderer!TypeOK'
    BY <1>2, <1>3, <2>1, <2>2, NothingInFlight DEF Renderer!TypeOK, RendererAssumption
  <2>4. FrameFits' /\ ScreenKept'
    BY <1>2, <2>1, <2>2 DEF FrameFits, ScreenKept
  <2> QED  BY <1>6, <2>2, <2>3, <2>4, NothingInFlight DEF RendererIInv
<1>9. ASSUME NEW verdict \in Renderer!Verdicts(s), Renderer!TakeFrame(s, q, verdict),
             Renderer!Paced(q)
      PROVE  RendererIInv'
  <2>1. /\ verdict # "out_of_date" /\ screen' = s /\ queue' = q
        /\ frame' = [slot |-> counter, window |-> window, area |-> s.area, drawn |-> FALSE]
        /\ slices' = [slices EXCEPT ![counter] = ~@]
    BY <1>9 DEF Renderer!TakeFrame
  <2>3. Len(q) < Frames
    BY <1>9 DEF Renderer!Paced
  <2>4. q \in Seq(Renderer!Uses)
    BY <1>3, <1>5, EmptySeq, Zenon DEF Renderer!TypeOK
  <2>5. /\ counter \in Renderer!Slot /\ slices' \in [Renderer!Slot -> BOOLEAN]
        /\ \A r \in Renderer!Slot : r # counter => slices'[r] = slices[r]
    BY <1>3, <2>1 DEF Renderer!TypeOK
  <2>6. Renderer!TypeOK'
    <3>1. frame' \in Renderer!Frame
      BY <1>4, <1>5, <2>1, <2>5 DEF Renderer!Frame
    <3>2. Len(queue') <= Frames
      BY <2>1, <2>3, <2>4 DEF RendererAssumption
    <3>3. screen' \in Renderer!Screen /\ queue' \in Seq(Renderer!Uses)
      BY <1>5, <2>1, <2>4
    <3>4. UNCHANGED <<surface, window, scene, counter, capture>>
      BY <1>2
    <3> QED  BY <1>3, <2>5, <3>1, <3>2, <3>3, <3>4 DEF Renderer!TypeOK
  <2>7. FrameFits' /\ ScreenKept'
    BY <1>2, <1>5, <2>1, <2>3 DEF FrameFits, ScreenKept
  <2>8. SlotsInTurn' /\ Untouched'
    <3>1. CASE q = <<>>
      BY <2>1, <3>1, NothingInFlight
    <3>2. CASE q = queue /\ s = screen
      <4>1. SlotsInTurn'
        BY <1>2, <2>1, <3>2 DEF RendererIInv, SlotsInTurn
      <4>2. ASSUME NEW i \in 1 .. Len(queue) PROVE queue[i].slot # counter
        <5>1. Len(queue) \in Nat /\ counter \in 0 .. Frames - 1 /\ Frames \in Nat
          BY <1>3, LenProperties DEF Renderer!TypeOK, Renderer!Slot, RendererAssumption
        <5>2. queue[i].slot = IF Len(queue) + 1 - i <= counter
                              THEN counter - (Len(queue) + 1 - i)
                              ELSE counter - (Len(queue) + 1 - i) + Frames
          BY DEF RendererIInv, SlotsInTurn
        <5> QED  BY <2>3, <3>2, <5>1, <5>2
      <4>3. \A i \in 1 .. Len(queue) : queue[i].slot \in Renderer!Slot
        <5>1. \A i \in 1 .. Len(queue) : queue[i] \in Renderer!Uses
          BY <1>3, ElementOfSeq DEF Renderer!TypeOK
        <5> QED  BY <5>1 DEF Renderer!Uses
      <4>4. /\ \A i \in 1 .. Len(queue) : slices'[queue[i].slot] = slices[queue[i].slot]
            /\ queue' = queue /\ screen' = screen /\ scene' = scene
        BY <1>2, <2>1, <2>5, <3>2, <4>2, <4>3
      <4>5. Untouched'
        BY <4>4 DEF RendererIInv, Untouched
      <4> QED  BY <4>1, <4>5
    <3> QED  BY <1>5, <3>1, <3>2
  <2> QED  BY <1>6, <2>6, <2>7, <2>8 DEF RendererIInv
<1> QED  BY <1>2, <1>7, <1>8, <1>9

LEMMA EndFrameIInv ==
  ASSUME RendererAssumption, RendererIInv, Renderer!EndFrame
  PROVE  RendererIInv'
<1> USE DEF RendererAssumption
<1>1. Renderer!TypeOK /\ ScreenKept /\ FrameFits /\ SlotsInTurn /\ Untouched /\ OneCapture
  BY DEF RendererIInv
<1>2. /\ frame # None /\ counter' = (counter + 1) % Frames /\ frame' = None
      /\ UNCHANGED <<surface, window, scene, slices>>
      /\ capture' = IF capture.wanted THEN Renderer!FinishCapture(screen.area) ELSE capture
  BY DEF Renderer!EndFrame
<1>3. PICK verdict \in Renderer!Verdicts(screen) :
        LET submitted == Append(IF Renderer!Grows THEN <<>> ELSE queue, Renderer!Submitted)
            q == IF capture.wanted THEN <<>> ELSE submitted
        IN  /\ screen' = IF verdict = "success" THEN screen
                         ELSE Renderer!Recreated(screen, frame.window)
            /\ queue' = IF verdict = "success" THEN q ELSE Renderer!Drained(screen, q)
  BY DEF Renderer!EndFrame
<1>4. /\ frame \in Renderer!Frame /\ screen \in Renderer!Screen /\ screen.area \in Area
      /\ counter \in 0 .. Frames - 1 /\ queue \in Seq(Renderer!Uses) /\ Len(queue) \in Nat
      /\ Len(queue) < Frames /\ frame.slot = counter /\ frame.area = screen.area
  BY <1>1, <1>2, LenProperties DEF Renderer!TypeOK, FrameFits, ScreenKept, Renderer!Slot
<1>5. frame.window \in Area /\ frame.area \in Area
  BY <1>4 DEF Renderer!Frame
<1>6. /\ screen' \in Renderer!Screen /\ ScreenKept'
      /\ verdict # "success" => queue' = <<>>
      /\ verdict = "success" => screen' = screen
  BY <1>1, <1>3, <1>4, <1>5, RecreatedScreen, Zenon DEF Renderer!TypeOK, ScreenKept
<1>7. counter' \in Renderer!Slot /\ counter' = IF counter + 1 = Frames THEN 0 ELSE counter + 1
  <2>0. counter \in 0 .. Frames - 1 /\ Frames \in Nat \ {0}
    BY <1>4
  <2>1. (counter + 1) % Frames = IF counter + 1 = Frames THEN 0 ELSE counter + 1
    BY ONLY <2>0
  <2>2. counter' = IF counter + 1 = Frames THEN 0 ELSE counter + 1
    BY <1>2, <2>1, Zenon
  <2> QED  BY ONLY <2>0, <2>2 DEF Renderer!Slot
\* The one read-back.
<1>8. capture' \in Renderer!Capture /\ OneCapture'
  <2>1. CASE ~capture.wanted
    <3>1. capture' = capture
      BY <1>2, <2>1
    <3> QED  BY <1>1, <3>1 DEF Renderer!TypeOK, OneCapture, Renderer!CaptureIsTheFrame
  <2>2. CASE capture.wanted
    <3> DEFINE shot == [area |-> screen.area, shown |-> frame.area, done |-> TRUE]
               size == IF capture.size < screen.area THEN screen.area ELSE capture.size
               room == IF capture.room = 0 THEN screen.area ELSE capture.room
    <3>1. /\ capture.size = 0 /\ capture.room = 0 /\ capture.left = 0 /\ screen.area \in Nat \ {0}
          /\ capture \in Renderer!Capture
      BY <1>1, <1>4, <2>2, Zenon DEF OneCapture, Renderer!TypeOK
    <3>2. shot \in Renderer!Shot /\ shot.area = screen.area /\ shot.shown = screen.area
      BY <1>4, <1>5 DEF Renderer!Shot
    <3>3. size = screen.area /\ room = screen.area
      BY <3>1
    <3>4. capture' = [capture EXCEPT !.wanted = FALSE, !.size = size, !.room = room,
                                     !.shot = shot]
      BY <1>2, <2>2 DEF Renderer!FinishCapture
    <3> HIDE DEF shot, size, room
    <3>5. capture' \in Renderer!Capture
      BY <1>4, <3>1, <3>2, <3>3, <3>4, Zenon DEF Renderer!Capture
    <3>6. /\ capture'.wanted = FALSE /\ capture'.left = 0 /\ capture'.shot = shot
          /\ capture'.room = screen.area
      BY <3>1, <3>3, <3>4 DEF Renderer!Capture
    <3>7. OneCapture'
      BY <3>1, <3>2, <3>6 DEF OneCapture, Renderer!CaptureIsTheFrame
    <3> QED  BY <3>5, <3>7
  <2> QED  BY <2>1, <2>2
\* The frames in flight, of which this is the newest, unless all are waited for.
<1>9. /\ queue' \in Seq(Renderer!Uses) /\ Len(queue') <= Frames
      /\ SlotsInTurn' /\ Untouched'
  <2>1. CASE queue' = <<>>
    BY <2>1, NothingInFlight, EmptySeq
  <2>2. CASE queue' # <<>>
    <3>1. PICK new : new = Renderer!Submitted
      OBVIOUS
    <3>2. verdict = "success" /\ queue' = Append(queue, new) /\ screen' = screen
      BY <1>3, <1>6, <2>2, <3>1 DEF Renderer!Grows
    <3>3. /\ new.slot = counter /\ new.slices = slices[counter] /\ new.screen = screen.edition
          /\ new.level = scene.level /\ new.pipelines = scene.pipelines
          /\ new \in Renderer!Uses
      BY <1>1, <1>4, <3>1 DEF Renderer!Submitted, Renderer!Uses, Renderer!TypeOK,
                              Renderer!Scene, Renderer!Screen, Renderer!Slot
    <3>4. /\ queue' \in Seq(Renderer!Uses) /\ Len(queue') = Len(queue) + 1
          /\ \A i \in 1 .. Len(queue) : queue'[i] = queue[i]
          /\ queue'[Len(queue) + 1] = new
      BY <1>4, <3>2, <3>3, AppendProperties
    <3>5. ASSUME NEW i \in 1 .. Len(queue')
          PROVE  LET ago == Len(queue') + 1 - i
                 IN  queue'[i].slot = IF ago <= counter' THEN counter' - ago
                                      ELSE counter' - ago + Frames
      <4>1. CASE i = Len(queue) + 1
        <5>1. queue'[i].slot = counter
          BY <3>3, <3>4, <4>1
        <5>2. Len(queue') + 1 - i = 1
          BY <1>4, <3>4, <4>1
        <5>3. /\ counter \in 0 .. Frames - 1 /\ Frames \in Nat
              /\ counter' = IF counter + 1 = Frames THEN 0 ELSE counter + 1
          BY <1>4, <1>7
        <5>4. counter = IF 1 <= counter' THEN counter' - 1 ELSE counter' - 1 + Frames
          BY ONLY <5>3
        <5> QED  BY <5>1, <5>2, <5>4, Zenon
      <4>2. CASE i \in 1 .. Len(queue)
        <5>1. queue'[i].slot = IF Len(queue) + 1 - i <= counter
                               THEN counter - (Len(queue) + 1 - i)
                               ELSE counter - (Len(queue) + 1 - i) + Frames
          BY <1>1, <3>4, <4>2 DEF SlotsInTurn
        <5> QED  BY <1>4, <1>7, <3>4, <4>2, <5>1
      <4> QED  BY <1>4, <3>4, <4>1, <4>2
    <3>6. SlotsInTurn'
      BY <3>5 DEF SlotsInTurn
    <3>7. ASSUME NEW i \in 1 .. Len(queue')
          PROVE  /\ queue'[i].slices = slices'[queue'[i].slot]
                 /\ queue'[i].screen = screen'.edition
                 /\ queue'[i].level = scene'.level /\ queue'[i].pipelines = scene'.pipelines
      <4>1. CASE i = Len(queue) + 1
        BY <1>2, <1>4, <3>2, <3>3, <3>4, <4>1
      <4>2. CASE i \in 1 .. Len(queue)
        BY <1>1, <1>2, <3>2, <3>4, <4>2 DEF Untouched
      <4> QED  BY <1>4, <3>4, <4>1, <4>2
    <3>8. Untouched'
      BY <3>7 DEF Untouched
    <3> QED  BY <1>4, <3>4, <3>6, <3>8
  <2> QED  BY <2>1, <2>2
<1>10. Renderer!TypeOK'
  BY <1>1, <1>2, <1>6, <1>7, <1>8, <1>9 DEF Renderer!TypeOK
<1>11. FrameFits'
  BY <1>2 DEF FrameFits
<1> QED  BY <1>6, <1>8, <1>9, <1>10, <1>11 DEF RendererIInv

\* What happens between frames leaves the invariant: whatever rewrites what frames in
\* flight use has waited for them.
LEMMA AroundFrameIInv ==
  ASSUME RendererAssumption, RendererIInv,
         \/ Renderer!Draw \/ Renderer!RequestCapture \/ Renderer!EditShader \/ Renderer!Resize
         \/ Renderer!Pump \/ Renderer!ReloadLevel \/ Renderer!MaybeReload \/ Renderer!Finish
         \/ UNCHANGED Renderer!vars
  PROVE  RendererIInv'
<1> USE DEF RendererAssumption
<1>1. Renderer!TypeOK /\ ScreenKept /\ FrameFits /\ SlotsInTurn /\ Untouched /\ OneCapture
  BY DEF RendererIInv
<1>2. CASE Renderer!Draw
  <2>1. /\ frame # None /\ frame' = [frame EXCEPT !.drawn = TRUE]
        /\ UNCHANGED <<surface, window, screen, scene, counter, slices, queue, capture>>
    BY <1>2 DEF Renderer!Draw
  <2>2. /\ frame' \in Renderer!Frame /\ frame'.slot = frame.slot /\ frame'.area = frame.area
    BY <1>1, <2>1, Zenon DEF Renderer!TypeOK, Renderer!Frame
  <2>3. Renderer!TypeOK'
    BY <1>1, <2>1, <2>2 DEF Renderer!TypeOK
  <2>4. SlotsInTurn' /\ Untouched' /\ ScreenKept' /\ OneCapture'
    BY <1>1, <2>1 DEF SlotsInTurn, Untouched, ScreenKept, OneCapture, Renderer!CaptureIsTheFrame
  <2>5. FrameFits'
    BY <1>1, <2>1, <2>2 DEF FrameFits
  <2> QED  BY <2>3, <2>4, <2>5 DEF RendererIInv
<1>3. CASE Renderer!RequestCapture
  <2>1. /\ ~capture.wanted /\ capture.left > 0
        /\ capture' = [capture EXCEPT !.left = @ - 1, !.wanted = TRUE, !.shot = None]
        /\ UNCHANGED <<surface, window, screen, scene, counter, slices, frame, queue>>
    BY <1>3 DEF Renderer!RequestCapture
  <2>2. capture \in Renderer!Capture /\ capture.size = 0 /\ capture.room = 0
    BY <1>1, <2>1 DEF Renderer!TypeOK, OneCapture
  <2>3. capture.left - 1 = 0 /\ 0 \in 0 .. Captures
    BY <2>1, <2>2 DEF Renderer!Capture
  <2>4. capture' = [capture EXCEPT !.left = 0, !.wanted = TRUE, !.shot = None]
    BY <2>1, <2>3, Zenon
  <2>5. /\ capture' \in Renderer!Capture /\ capture'.left = 0 /\ capture'.shot = None
        /\ capture'.size = 0 /\ capture'.room = 0
    BY <2>2, <2>3, <2>4, Zenon DEF Renderer!Capture
  <2>6. Renderer!TypeOK'
    BY <1>1, <2>1, <2>5 DEF Renderer!TypeOK
  <2>7. SlotsInTurn' /\ Untouched' /\ ScreenKept' /\ FrameFits'
    BY <1>1, <2>1 DEF SlotsInTurn, Untouched, ScreenKept, FrameFits
  <2>8. OneCapture'
    BY <2>5 DEF OneCapture, Renderer!CaptureIsTheFrame
  <2> QED  BY <2>6, <2>7, <2>8 DEF RendererIInv
<1>4. CASE Renderer!EditShader \/ Renderer!Resize \/ Renderer!Pump \/ UNCHANGED Renderer!vars
  <2>1. UNCHANGED <<screen, counter, slices, frame, queue, capture>>
    BY <1>4 DEF Renderer!EditShader, Renderer!Resize, Renderer!Pump, Renderer!vars
  <2>2. /\ scene' \in Renderer!Scene
        /\ scene'.level = scene.level /\ scene'.pipelines = scene.pipelines
    BY <1>1, <1>4, Zenon DEF Renderer!EditShader, Renderer!Resize, Renderer!Pump, Renderer!vars,
                      Renderer!TypeOK, Renderer!Scene
  <2>3. surface' \in Renderer!Window \cup {AnyArea} /\ window' \in Renderer!Window
    BY <1>1, <1>4 DEF Renderer!EditShader, Renderer!Resize, Renderer!Pump, Renderer!vars,
                      Renderer!TypeOK
  <2>4. Renderer!TypeOK'
    BY <1>1, <2>1, <2>2, <2>3 DEF Renderer!TypeOK
  <2>5. SlotsInTurn' /\ Untouched' /\ ScreenKept' /\ OneCapture' /\ FrameFits'
    BY <1>1, <2>1, <2>2 DEF SlotsInTurn, Untouched, ScreenKept, OneCapture, FrameFits,
                            Renderer!CaptureIsTheFrame
  <2> QED  BY <2>4, <2>5 DEF RendererIInv
<1>5. CASE Renderer!ReloadLevel \/ Renderer!MaybeReload
  <2>1. /\ queue' = <<>> /\ frame = None
        /\ UNCHANGED <<surface, window, screen, counter, slices, frame, capture>>
    BY <1>5 DEF Renderer!ReloadLevel, Renderer!MaybeReload
  <2>2. scene' \in Renderer!Scene
    BY <1>1, <1>5, Zenon DEF Renderer!ReloadLevel, Renderer!MaybeReload, Renderer!TypeOK, Renderer!Scene
  <2>3. SlotsInTurn' /\ Untouched' /\ queue' \in Seq(Renderer!Uses) /\ Len(queue') <= Frames
    BY <2>1, NothingInFlight, EmptySeq
  <2>4. Renderer!TypeOK'
    BY <1>1, <2>1, <2>2, <2>3 DEF Renderer!TypeOK
  <2>5. ScreenKept' /\ OneCapture' /\ FrameFits'
    BY <1>1, <2>1 DEF ScreenKept, OneCapture, FrameFits, Renderer!CaptureIsTheFrame
  <2> QED  BY <2>3, <2>4, <2>5 DEF RendererIInv
<1>6. CASE Renderer!Finish
  <2>1. /\ queue # <<>> /\ queue' = Tail(queue)
        /\ UNCHANGED <<surface, window, screen, scene, counter, slices, frame, capture>>
    BY <1>6 DEF Renderer!Finish
  <2>2. /\ queue' \in Seq(Renderer!Uses) /\ Len(queue) \in Nat /\ Len(queue') = Len(queue) - 1
        /\ \A i \in 1 .. Len(queue') : queue'[i] = queue[i + 1]
        /\ Len(queue) <= Frames
    BY <1>1, <2>1, HeadTailProperties, LenProperties DEF Renderer!TypeOK
  <2>3. Renderer!TypeOK'
    BY <1>1, <2>1, <2>2 DEF Renderer!TypeOK
  <2>4. ASSUME NEW i \in 1 .. Len(queue')
        PROVE  /\ i + 1 \in 1 .. Len(queue) /\ Len(queue') + 1 - i = Len(queue) + 1 - (i + 1)
               /\ queue'[i] = queue[i + 1]
    <3>1. Len(queue) \in Nat /\ Len(queue') = Len(queue) - 1
      BY <2>2
    <3>2. i + 1 \in 1 .. Len(queue) /\ Len(queue') + 1 - i = Len(queue) + 1 - (i + 1)
      BY <3>1
    <3> QED  BY <2>2, <3>2, Zenon
  <2>5. SlotsInTurn'
    BY <1>1, <2>1, <2>4 DEF SlotsInTurn
  <2>6. Untouched'
    BY <1>1, <2>1, <2>4 DEF Untouched
  <2>7. ScreenKept' /\ OneCapture' /\ FrameFits'
    BY <1>1, <2>1, <2>2 DEF ScreenKept, OneCapture, FrameFits, Renderer!CaptureIsTheFrame
  <2> QED  BY <2>3, <2>5, <2>6, <2>7 DEF RendererIInv
<1> QED  BY <1>2, <1>3, <1>4, <1>5, <1>6

LEMMA RendererStep ==
  ASSUME RendererAssumption, RendererIInv, [Renderer!Next]_Renderer!vars
  PROVE  RendererIInv'
BY BeginFrameIInv, EndFrameIInv, AroundFrameIInv DEF Renderer!Next, Renderer!Loop

RendererRuns == part = "renderer" => RendererIInv

LEMMA RendererAlways ==
  ASSUME RendererAssumption
  PROVE  Spec => []RendererRuns
<1>1. Init => RendererRuns
  BY RendererInit DEF Init, RendererRuns
<1>2. RendererRuns /\ [Next]_vars => RendererRuns'
  <2> SUFFICES ASSUME RendererRuns, [Next]_vars, part' = "renderer" PROVE RendererIInv'
    BY DEF RendererRuns
  <2>1. part = "renderer" /\ [Renderer!Next]_Renderer!vars
    BY DEF Next, vars, Renderer!vars
  <2> QED  BY <2>1, RendererStep DEF RendererRuns
<1> QED  BY <1>1, <1>2, PTL DEF Spec

\* Nothing a frame in flight uses is rewritten or destroyed before the GPU is done
\* with it, whatever resize, early return or reload came between, for any number of
\* frames in flight and any windows (gpu_frame.cpp:26-34, gpu_renderer.cpp:76-83).
THEOREM NothingReusedInFlightAlways ==
  ASSUME Captures \in {0, 1}
  PROVE  Spec => []NothingReusedInFlight
<1>0. RendererAssumption
  BY PartsAssumption DEF RendererAssumption
<1>1. RendererIInv => Renderer!NothingReusedInFlight
  <2> SUFFICES ASSUME RendererIInv PROVE Renderer!NothingReusedInFlight
    OBVIOUS
  <2>0. RendererAssumption
    BY <1>0
  <2>1. /\ Len(queue) \in Nat /\ counter \in 0 .. Frames - 1 /\ Frames \in Nat
    BY <2>0, LenProperties DEF RendererIInv, Renderer!TypeOK, Renderer!Slot, RendererAssumption
  <2>2. ASSUME NEW i \in 1 .. Len(queue), frame # None
        PROVE  queue[i].slot # frame.slot
    <3>1. frame.slot = counter /\ Len(queue) < Frames
      BY <2>2 DEF RendererIInv, FrameFits
    <3>2. queue[i].slot = IF Len(queue) + 1 - i <= counter
                          THEN counter - (Len(queue) + 1 - i)
                          ELSE counter - (Len(queue) + 1 - i) + Frames
      BY DEF RendererIInv, SlotsInTurn
    <3> QED  BY <2>1, <3>1, <3>2
  <2> QED  BY <2>2 DEF RendererIInv, Untouched, Renderer!NothingReusedInFlight
<1>2. RendererRuns => NothingReusedInFlight
  BY <1>1 DEF RendererRuns, NothingReusedInFlight
<1> QED  BY <1>0, <1>2, RendererAlways, PTL

\* A capture that landed is the frame that was shown, in a copy that holds it, for
\* any windows and whatever was resized while it was under way
\* (gpu_frame.cpp:103-104, 207-228).
THEOREM CaptureIsTheFrameAlways ==
  ASSUME Captures \in {0, 1}
  PROVE  Spec => []CaptureIsTheFrame
<1>0. RendererAssumption
  BY PartsAssumption DEF RendererAssumption
<1>1. RendererRuns => CaptureIsTheFrame
  BY DEF RendererRuns, RendererIInv, OneCapture, CaptureIsTheFrame
<1> QED  BY <1>0, <1>1, RendererAlways, PTL

-----------------------------------------------------------------------------
(* The level.                                                              *)

\* Before a map is installed there is none, and what is installed then is of one text.
LevelIInv ==
  /\ pc \in {"boot", "install", "stamp", "exit", "loop", "reload", "reinstall"}
  /\ pc \in {"boot", "install"} => level = Level!NoLevel
  /\ Level!OneMap

\* A map that is read whole replaces all that was there before.
LEMMA InstalledWhole ==
  ASSUME NEW old, NEW new, NEW m, m.ok
  PROVE  Level!Installed(old, m) = Level!Installed(new, m)
BY DEF Level!Installed

LEMMA LevelStep ==
  ASSUME LevelIInv, [Level!Next]_Level!vars
  PROVE  LevelIInv'
<1>1. CASE Level!BootRead \/ Level!Report \/ Level!ReloadRead
  BY <1>1 DEF Level!BootRead, Level!Report, Level!ReloadRead, Level!Read, LevelIInv, Level!OneMap
<1>2. CASE Level!BootInstall
  <2>1. level' = Level!LevelOf(held) /\ source' = held
    BY <1>2 DEF Level!BootInstall, LevelIInv, Level!LevelOf
  <2>2. pc' \in {"stamp", "exit"}
    BY <1>2 DEF Level!BootInstall
  <2>3. Level!OneMap'
    BY <2>1, <2>2 DEF Level!OneMap, Level!LevelOf
  <2> QED  BY <2>2, <2>3 DEF LevelIInv
<1>3. CASE Level!Stamp
  BY <1>3 DEF Level!Stamp, LevelIInv, Level!OneMap
<1>4. CASE Level!Reload
  <2>1. /\ pc = "reinstall" /\ pc' = "loop"
        /\ level' = Level!Installed(level, Level!Parsed(held))
        /\ drawn' = IF Level!Parsed(held).ok THEN Level!Built(level') ELSE drawn
        /\ source' = IF Level!Parsed(held).ok THEN held ELSE source
    BY <1>4 DEF Level!Reload
  <2>2. level = Level!LevelOf(source) /\ drawn = Level!Built(level)
    BY <2>1 DEF LevelIInv, Level!OneMap
  <2>3. CASE Level!Parsed(held).ok
    <3>1. level' = Level!LevelOf(held)
      BY <2>1, <2>3, InstalledWhole DEF Level!LevelOf
    <3> QED  BY <2>1, <2>3, <3>1 DEF LevelIInv, Level!OneMap
  <2>4. CASE ~Level!Parsed(held).ok
    <3>1. level' = level
      BY <2>1, <2>4 DEF Level!Installed
    <3> QED  BY <2>1, <2>2, <2>4, <3>1 DEF LevelIInv, Level!OneMap
  <2> QED  BY <2>3, <2>4
<1>5. CASE Level!BeginSave \/ Level!EndSave \/ UNCHANGED Level!vars
  <2>1. UNCHANGED <<source, level, drawn, pc>>
    BY <1>5 DEF Level!BeginSave, Level!EndSave, Level!Write, Level!vars
  <2> QED  BY <2>1 DEF LevelIInv, Level!OneMap
<1> QED  BY <1>1, <1>2, <1>3, <1>4, <1>5 DEF Level!Next, Level!Program

\* The geometry that is played, the graph the bots walk and the geometry that is drawn
\* come from one text, the last good one read, whatever was refused in between and
\* whatever an editor does to the file (sim_level.cpp:60-68, 168-188; main.cpp:412-421).
THEOREM OneMapAlways == Spec => []OneMap
<1> DEFINE I == part = "level" => LevelIInv
<1>1. Init => I
  BY DEF Init, Level!Init, LevelIInv, Level!OneMap
<1>2. I /\ [Next]_vars => I'
  <2> SUFFICES ASSUME I, [Next]_vars, part' = "level" PROVE LevelIInv'
    OBVIOUS
  <2>1. part = "level" /\ [Level!Next]_Level!vars
    BY DEF Next, vars, Level!vars
  <2> QED  BY <2>1, LevelStep
<1>3. I => OneMap
  BY DEF LevelIInv, OneMap
<1> QED  BY <1>1, <1>2, <1>3, PTL DEF Spec

-----------------------------------------------------------------------------
(* The pool.                                                               *)

PoolAssumption ==
  /\ Capacity \in Nat
  /\ MaxGen \in Nat
  /\ None \notin Pool!Value

Taken == {h[1] : h \in {g \in DOMAIN issued : issued[g] # None}}

\* A handle is of its slot's generation just while it is good for something, and then
\* for what is in the slot.
HandlesFit ==
  \A h \in DOMAIN issued :
    /\ h[2] <= gens[h[1]]
    /\ h[2] = gens[h[1]] <=> issued[h] # None
    /\ issued[h] # None => issued[h] = slots[h[1]]

\* The list of the free slots, from its head to the end that is no slot.
Chain(L) ==
  /\ L \in Seq(0 .. Capacity) /\ Len(L) = Capacity - len + 1
  /\ L[1] = freeHead /\ L[Len(L)] = Capacity
  /\ \A i \in 1 .. Len(L) - 1 : L[i] \in Pool!Index \ Taken /\ nextFree[L[i]] = L[i + 1]
  /\ \A i, j \in 1 .. Len(L) : L[i] = L[j] => i = j
  /\ \A x \in Pool!Index \ Taken : \E i \in 1 .. Len(L) - 1 : L[i] = x

PoolIInv ==
  /\ Pool!TypeOK /\ issued \in [DOMAIN issued -> Pool!Value \cup {None}]
  /\ HandlesFit
  /\ len = Cardinality(Taken)
  /\ \E L : Chain(L)

LEMMA PoolInit == PoolAssumption /\ Pool!Init => PoolIInv
<1> SUFFICES ASSUME PoolAssumption, Pool!Init PROVE PoolIInv
  OBVIOUS
<1> USE DEF PoolAssumption
<1>1. issued = <<>> /\ DOMAIN issued = {}
  BY DEF Pool!Init
<1>2. Taken = {}
  BY <1>1 DEF Taken
<1>3. Pool!TypeOK
  <2>1. /\ slots \in [Pool!Index -> Pool!Value \cup {None}] /\ gens \in [Pool!Index -> 0 .. MaxGen]
        /\ freeHead \in 0 .. Capacity /\ len \in 0 .. Capacity
    BY DEF Pool!Init
  <2>2. nextFree \in [Pool!Index -> 0 .. Capacity]
    BY DEF Pool!Init, Pool!Index
  <2> QED  BY <1>1, <2>1, <2>2 DEF Pool!TypeOK
<1>4. issued \in [DOMAIN issued -> Pool!Value \cup {None}] /\ HandlesFit
  BY <1>1 DEF HandlesFit
<1>5. len = Cardinality(Taken)
  BY <1>2, FS_EmptySet DEF Pool!Init
<1>6. \E L : Chain(L)
  <2> DEFINE n == Capacity + 1
  <2>1. PICK L : L = [i \in 1 .. n |-> i - 1]
    BY Zenon
  <2>2. L \in [1 .. n -> 0 .. Capacity] /\ n \in Nat
    BY <2>1
  <2>3. L \in Seq(0 .. Capacity) /\ Len(L) = n
    BY <2>2
  <2>4. \A i \in 1 .. n - 1 : L[i] \in Pool!Index \ Taken /\ nextFree[L[i]] = L[i + 1]
    BY <1>2, <2>1 DEF Pool!Init, Pool!Index
  <2>5. \A x \in Pool!Index : x + 1 \in 1 .. n - 1 /\ L[x + 1] = x
    BY <2>1 DEF Pool!Index
  <2>6. L[1] = freeHead /\ L[n] = Capacity /\ n = Capacity - len + 1
    BY <2>1 DEF Pool!Init
  <2>7. \A i, j \in 1 .. n : L[i] = L[j] => i = j
    BY <2>1
  <2> HIDE DEF n
  <2>8. Chain(L)
    BY <2>3, <2>4, <2>5, <2>6, <2>7 DEF Chain
  <2> QED  BY <2>8
<1> QED  BY <1>3, <1>4, <1>5, <1>6 DEF PoolIInv

LEMMA TakenFinite ==
  ASSUME PoolAssumption, Pool!TypeOK
  PROVE  Taken \subseteq Pool!Index /\ IsFiniteSet(Taken)
<1>1. Taken \subseteq Pool!Index
  BY DEF Taken, Pool!TypeOK, Pool!Handle
<1>2. IsFiniteSet(Pool!Index)
  BY FS_Interval DEF Pool!Index, PoolAssumption
<1> QED  BY <1>1, <1>2, FS_Subset

\* insert takes the first slot off the list.
LEMMA InsertIInv ==
  ASSUME PoolAssumption, PoolIInv, NEW value \in Pool!Value, Pool!Insert(value)
  PROVE  PoolIInv'
<1> USE DEF PoolAssumption
<1>1. /\ Pool!TypeOK /\ issued \in [DOMAIN issued -> Pool!Value \cup {None}]
      /\ HandlesFit /\ len = Cardinality(Taken)
  BY DEF PoolIInv
<1>2. PICK L : Chain(L)
  BY DEF PoolIInv
<1>3. PICK x : x = freeHead
  OBVIOUS
<1>4. PICK new : new = <<x, gens[x]>>
  BY Zenon
<1>5. /\ x < Capacity /\ freeHead' = nextFree[x] /\ len' = len + 1
      /\ slots' = [slots EXCEPT ![x] = value]
      /\ issued' = [h \in DOMAIN issued \cup {new} |-> IF h = new THEN value ELSE issued[h]]
      /\ UNCHANGED <<gens, nextFree>>
  BY <1>3, <1>4 DEF Pool!Insert
<1>6. /\ x \in Pool!Index /\ Len(L) \in Nat /\ Len(L) >= 2 /\ x \notin Taken
      /\ L[1] = x /\ freeHead' = L[2]
  <2>1. x \in 0 .. Capacity /\ len \in 0 .. Capacity
    BY <1>1, <1>3 DEF Pool!TypeOK
  <2>2. Len(L) \in Nat /\ Len(L) >= 1 /\ L[1] = x /\ L[Len(L)] = Capacity
    BY <1>2, <1>3, <2>1, LenProperties DEF Chain
  <2>3. Len(L) # 1
    BY <1>5, <2>1, <2>2
  <2>4. 1 \in 1 .. Len(L) - 1
    BY <2>2, <2>3
  <2>5. L[1] \in Pool!Index \ Taken /\ nextFree[L[1]] = L[1 + 1]
    BY <1>2, <2>4 DEF Chain
  <2> QED  BY <1>5, <2>2, <2>3, <2>5
<1>7. /\ gens[x] \in 0 .. MaxGen /\ new \in Pool!Handle /\ new[1] = x /\ new[2] = gens[x]
      /\ value # None
  BY <1>1, <1>4, <1>6 DEF Pool!TypeOK, Pool!Handle
<1>8. /\ DOMAIN issued' = DOMAIN issued \cup {new} /\ issued'[new] = value
      /\ \A h \in DOMAIN issued : h # new => issued'[h] = issued[h]
      /\ issued' \in [DOMAIN issued' -> Pool!Value \cup {None}]
  BY <1>1, <1>5
<1>9. Taken' = Taken \cup {x}
  <2>1. \A h \in DOMAIN issued : issued[h] # None => h # new
    BY <1>6, <1>7 DEF Taken
  <2>2. ASSUME NEW h \in DOMAIN issued', issued'[h] # None PROVE h[1] \in Taken \cup {x}
    BY <1>7, <1>8, <2>2 DEF Taken
  <2>3. ASSUME NEW y \in Taken PROVE y \in Taken'
    <3>1. PICK h \in DOMAIN issued : issued[h] # None /\ y = h[1]
      BY DEF Taken
    <3>2. h \in DOMAIN issued' /\ issued'[h] # None
      BY <1>8, <2>1, <3>1
    <3> QED  BY <3>1, <3>2 DEF Taken
  <2>4. x \in Taken'
    BY <1>7, <1>8 DEF Taken
  <2>5. Taken' \subseteq Taken \cup {x}
    BY <2>2 DEF Taken
  <2> QED  BY <2>3, <2>4, <2>5
<1>10. len' = Cardinality(Taken')
  BY <1>1, <1>5, <1>6, <1>9, TakenFinite, FS_AddElement, Zenon
<1>11. HandlesFit'
  <2> SUFFICES ASSUME NEW h \in DOMAIN issued'
               PROVE  /\ h[2] <= gens[h[1]]
                      /\ h[2] = gens[h[1]] <=> issued'[h] # None
                      /\ issued'[h] # None => issued'[h] = slots'[h[1]]
    BY <1>5 DEF HandlesFit
  <2>1. CASE h = new
    BY <1>1, <1>5, <1>6, <1>7, <1>8, <2>1 DEF Pool!TypeOK
  <2>2. CASE h # new /\ h[1] = x
    <3>1. h \in Pool!Handle /\ h \in DOMAIN issued
      BY <1>1, <1>8, <2>2 DEF Pool!TypeOK
    <3>2. h = <<h[1], h[2]>>
      BY <3>1 DEF Pool!Handle
    <3>3. h[2] # gens[x]
      BY <1>4, <2>2, <3>2
    <3> QED  BY <1>1, <1>8, <2>2, <3>1, <3>3 DEF HandlesFit
  <2>3. CASE h # new /\ h[1] # x
    <3>1. h \in DOMAIN issued /\ h[1] \in Pool!Index
      BY <1>1, <1>8, <2>3 DEF Pool!TypeOK, Pool!Handle
    <3>2. slots'[h[1]] = slots[h[1]]
      BY <1>1, <1>5, <2>3, <3>1 DEF Pool!TypeOK
    <3> QED  BY <1>1, <1>8, <2>3, <3>1, <3>2 DEF HandlesFit
  <2> QED  BY <2>1, <2>2, <2>3
<1>12. \E M : Chain(M)'
  <2>1. PICK M : M = Tail(L)
    BY Zenon
  <2>2. /\ M \in Seq(0 .. Capacity) /\ Len(M) = Len(L) - 1
        /\ \A i \in 1 .. Len(M) : M[i] = L[i + 1]
    <3>1. L \in Seq(0 .. Capacity) /\ L # <<>>
      BY <1>2, <1>6 DEF Chain
    <3> QED  BY <2>1, <3>1, HeadTailProperties
  <2>3. Len(M) = Capacity - len' + 1 /\ M[1] = freeHead' /\ M[Len(M)] = Capacity
    <3>1. len \in Nat /\ Len(L) = Capacity - len + 1 /\ L[Len(L)] = Capacity
      BY <1>1, <1>2 DEF Chain, Pool!TypeOK
    <3>2. 1 \in 1 .. Len(M) /\ Len(M) \in 1 .. Len(M) /\ Len(M) + 1 = Len(L)
      BY <1>6, <2>2
    <3> QED  BY <1>5, <1>6, <2>2, <3>1, <3>2
  <2>4. ASSUME NEW i \in 1 .. Len(M) PROVE i + 1 \in 1 .. Len(L) /\ M[i] = L[i + 1]
    BY <1>6, <2>2
  <2>5. ASSUME NEW i \in 1 .. Len(M) - 1
        PROVE  M[i] \in Pool!Index \ Taken' /\ nextFree'[M[i]] = M[i + 1]
    <3>1. i \in 1 .. Len(M) /\ i + 1 \in 1 .. Len(M) /\ i + 1 \in 1 .. Len(L) - 1
      BY <1>6, <2>2
    <3>2. M[i] = L[i + 1] /\ M[i + 1] = L[(i + 1) + 1]
      BY <2>4, <3>1
    <3>3. L[i + 1] \in Pool!Index \ Taken /\ nextFree[L[i + 1]] = L[(i + 1) + 1]
      BY <1>2, <3>1 DEF Chain
    <3>4. 1 \in 1 .. Len(L) /\ i + 1 # 1 /\ i + 1 \in 1 .. Len(L)
      BY <1>6, <3>1
    <3>5. L[i + 1] # x
      BY <1>2, <1>6, <3>4 DEF Chain
    <3> QED  BY <1>5, <1>9, <3>2, <3>3, <3>5
  <2>6. ASSUME NEW i \in 1 .. Len(M), NEW j \in 1 .. Len(M), M[i] = M[j] PROVE i = j
    <3>1. i + 1 = j + 1
      BY <1>2, <2>4, <2>6 DEF Chain
    <3> QED  BY <3>1
  <2>7. ASSUME NEW y \in Pool!Index \ Taken' PROVE \E i \in 1 .. Len(M) - 1 : M[i] = y
    <3>1. y \in Pool!Index \ Taken /\ y # x
      BY <1>9
    <3>2. PICK i \in 1 .. Len(L) - 1 : L[i] = y
      BY <1>2, <3>1 DEF Chain
    <3>3. i # 1
      BY <1>6, <3>1, <3>2
    <3>4. i - 1 \in 1 .. Len(M) - 1 /\ i - 1 \in 1 .. Len(M) /\ (i - 1) + 1 = i
      BY <1>6, <2>2, <3>3
    <3>5. M[i - 1] = y
      BY <2>4, <3>2, <3>4, Zenon
    <3> QED  BY <3>4, <3>5
  <2>8. Chain(M)'
    BY <2>2, <2>3, <2>5, <2>6, <2>7, Zenon DEF Chain
  <2> QED  BY <2>8
<1>13. Pool!TypeOK'
  <2>1. len' \in 0 .. Capacity
    <3>1. len \in 0 .. Capacity /\ Len(L) = Capacity - len + 1
      BY <1>1, <1>2 DEF Pool!TypeOK, Chain
    <3> QED  BY <1>5, <1>6, <3>1
  <2>2. freeHead' \in 0 .. Capacity /\ slots' \in [Pool!Index -> Pool!Value \cup {None}]
    <3>1. /\ nextFree \in [Pool!Index -> 0 .. Capacity]
          /\ slots \in [Pool!Index -> Pool!Value \cup {None}]
      BY <1>1 DEF Pool!TypeOK
    <3> QED  BY <1>5, <1>6, <3>1, Zenon
  <2>3. DOMAIN issued' \subseteq Pool!Handle
    BY <1>1, <1>7, <1>8 DEF Pool!TypeOK
  <2> QED  BY <1>1, <1>5, <2>1, <2>2, <2>3 DEF Pool!TypeOK
<1> QED  BY <1>8, <1>10, <1>11, <1>12, <1>13 DEF PoolIInv

\* remove puts the slot at the head of the list, and no handle given out for it
\* resolves any more.
LEMMA RemoveIInv ==
  ASSUME PoolAssumption, PoolIInv, NEW h \in DOMAIN issued, Pool!Remove(h)
  PROVE  PoolIInv'
<1> USE DEF PoolAssumption
<1>1. /\ Pool!TypeOK /\ issued \in [DOMAIN issued -> Pool!Value \cup {None}]
      /\ HandlesFit /\ len = Cardinality(Taken)
  BY DEF PoolIInv
<1>2. PICK L : Chain(L)
  BY DEF PoolIInv
<1>3. PICK x : x = h[1]
  OBVIOUS
<1>4. /\ Pool!Get(h) # None /\ gens[x] < MaxGen
      /\ gens' = [gens EXCEPT ![x] = @ + 1] /\ nextFree' = [nextFree EXCEPT ![x] = freeHead]
      /\ freeHead' = x /\ len' = len - 1 /\ issued' = [issued EXCEPT ![h] = None]
      /\ slots' = slots
  BY <1>3 DEF Pool!Remove
<1>5. /\ h \in Pool!Handle /\ x \in Pool!Index /\ h = <<x, gens[x]>> /\ h[2] = gens[x]
      /\ gens[x] \in 0 .. MaxGen
  BY <1>1, <1>3, <1>4 DEF Pool!Get, Pool!TypeOK, Pool!Handle
<1>6. issued[h] # None /\ x \in Taken
  BY <1>1, <1>3, <1>5 DEF HandlesFit, Taken
<1>7. /\ gens' \in [Pool!Index -> 0 .. MaxGen] /\ gens'[x] = gens[x] + 1
      /\ \A y \in Pool!Index : y # x => gens'[y] = gens[y]
      /\ nextFree' \in [Pool!Index -> 0 .. Capacity] /\ nextFree'[x] = freeHead
      /\ \A y \in Pool!Index : y # x => nextFree'[y] = nextFree[y]
  BY <1>1, <1>4, <1>5 DEF Pool!TypeOK
<1>8. /\ DOMAIN issued' = DOMAIN issued /\ issued'[h] = None
      /\ \A g \in DOMAIN issued : g # h => issued'[g] = issued[g]
      /\ issued' \in [DOMAIN issued' -> Pool!Value \cup {None}]
  BY <1>1, <1>4
\* The handles to the slot, and to others.
<1>9. ASSUME NEW g \in DOMAIN issued, g # h, g[1] = x
      PROVE  g[2] < gens[x] /\ issued[g] = None
  <2>1. g \in Pool!Handle /\ g = <<g[1], g[2]>> /\ g[2] \in Nat
    BY <1>1 DEF Pool!TypeOK, Pool!Handle
  <2>2. g[2] # gens[x]
    BY <1>5, <1>9, <2>1
  <2> QED  BY <1>1, <1>5, <1>9, <2>1, <2>2 DEF HandlesFit
<1>10. HandlesFit'
  <2> SUFFICES ASSUME NEW g \in DOMAIN issued'
               PROVE  /\ g[2] <= gens'[g[1]]
                      /\ g[2] = gens'[g[1]] <=> issued'[g] # None
                      /\ issued'[g] # None => issued'[g] = slots'[g[1]]
    BY DEF HandlesFit
  <2>1. g \in DOMAIN issued /\ g[1] \in Pool!Index /\ g[2] \in Nat
    BY <1>1, <1>8 DEF Pool!TypeOK, Pool!Handle
  <2>2. CASE g = h
    BY <1>3, <1>5, <1>7, <1>8, <2>2
  <2>3. CASE g # h /\ g[1] = x
    BY <1>5, <1>7, <1>8, <1>9, <2>1, <2>3
  <2>4. CASE g # h /\ g[1] # x
    BY <1>1, <1>4, <1>7, <1>8, <2>1, <2>4 DEF HandlesFit
  <2> QED  BY <1>3, <2>2, <2>3, <2>4
<1>11. Taken' = Taken \ {x}
  <2>1. ASSUME NEW y \in Taken' PROVE y \in Taken \ {x}
    <3>1. PICK g \in DOMAIN issued' : issued'[g] # None /\ y = g[1]
      BY DEF Taken
    <3>2. g \in DOMAIN issued /\ g # h /\ issued[g] # None
      BY <1>8, <3>1
    <3>3. y # x
      BY <1>9, <3>1, <3>2
    <3> QED  BY <3>1, <3>2, <3>3 DEF Taken
  <2>2. ASSUME NEW y \in Taken \ {x} PROVE y \in Taken'
    <3>1. PICK g \in DOMAIN issued : issued[g] # None /\ y = g[1]
      BY DEF Taken
    <3>2. g # h
      BY <1>3, <3>1
    <3>3. g \in DOMAIN issued' /\ issued'[g] # None
      BY <1>8, <3>1, <3>2
    <3> QED  BY <3>1, <3>3 DEF Taken
  <2> QED  BY <2>1, <2>2
<1>12. len' = Cardinality(Taken') /\ len' \in 0 .. Capacity
  <2>1. IsFiniteSet(Taken) /\ IsFiniteSet(Taken')
    BY <1>1, <1>11, TakenFinite, FS_RemoveElement
  <2>2. Cardinality(Taken') = Cardinality(Taken) - 1
    BY <1>6, <1>11, <2>1, FS_RemoveElement
  <2>3. Cardinality(Taken') \in Nat
    BY <2>1, FS_CardinalityType
  <2>4. len \in 0 .. Capacity
    BY <1>1 DEF Pool!TypeOK
  <2> QED  BY <1>1, <1>4, <2>2, <2>3, <2>4
<1>13. \E M : Chain(M)'
  <2>1. PICK M : M = <<x>> \o L
    BY Zenon
  <2>2. /\ L \in Seq(0 .. Capacity) /\ Len(L) \in Nat /\ Len(L) >= 1
        /\ Len(L) = Capacity - len + 1 /\ len \in 0 .. Capacity
    BY <1>1, <1>2 DEF Chain, Pool!TypeOK
  <2>3. /\ M \in Seq(0 .. Capacity) /\ Len(M) = Len(L) + 1 /\ M[1] = x
        /\ \A i \in 1 .. Len(L) : M[i + 1] = L[i]
    <3>1. x \in 0 .. Capacity
      BY <1>5 DEF Pool!Index
    <3>2. <<x>> \in Seq(0 .. Capacity) /\ Len(<<x>>) = 1 /\ <<x>>[1] = x
      BY <3>1
    <3>3. /\ M \in Seq(0 .. Capacity) /\ Len(M) = 1 + Len(L)
          /\ \A i \in 1 .. 1 + Len(L) : M[i] = IF i <= 1 THEN <<x>>[i] ELSE L[i - 1]
      BY <2>1, <2>2, <3>2, ConcatProperties
    <3>4. ASSUME NEW i \in 1 .. Len(L) PROVE M[i + 1] = L[i]
      <4>1. i + 1 \in 1 .. 1 + Len(L) /\ ~(i + 1 <= 1) /\ (i + 1) - 1 = i
        BY <2>2
      <4> QED  BY <3>3, <4>1
    <3> QED  BY <2>2, <3>2, <3>3, <3>4
  <2>4. ASSUME NEW i \in 1 .. Len(M), i # 1
        PROVE  i - 1 \in 1 .. Len(L) /\ M[i] = L[i - 1]
    <3>1. i - 1 \in 1 .. Len(L) /\ (i - 1) + 1 = i
      BY <2>2, <2>3, <2>4
    <3> QED  BY <2>3, <3>1, Zenon
  <2>5. ASSUME NEW i \in 1 .. Len(L) PROVE L[i] # x
    <3>1. CASE i = Len(L)
      BY <1>2, <1>5, <3>1 DEF Chain, Pool!Index
    <3>2. CASE i # Len(L)
      <4>1. i \in 1 .. Len(L) - 1
        BY <2>2, <3>2
      <4> QED  BY <1>2, <1>6, <4>1 DEF Chain
    <3> QED  BY <3>1, <3>2
  <2>6. Len(M) = Capacity - len' + 1 /\ M[1] = freeHead' /\ M[Len(M)] = Capacity
    <3>1. Len(M) # 1 /\ Len(M) \in 1 .. Len(M) /\ Len(M) - 1 = Len(L)
      BY <2>2, <2>3
    <3>2. M[Len(M)] = L[Len(L)]
      BY <2>4, <3>1
    <3> QED  BY <1>2, <1>4, <2>2, <2>3, <3>2 DEF Chain
  <2>7. ASSUME NEW i \in 1 .. Len(M) - 1
        PROVE  M[i] \in Pool!Index \ Taken' /\ nextFree'[M[i]] = M[i + 1]
    <3>1. CASE i = 1
      <4>1. i \in 1 .. Len(L) /\ L[1] = freeHead
        BY <1>2, <2>2, <3>1 DEF Chain
      <4>2. M[i + 1] = L[i]
        BY <2>3, <4>1, Zenon
      <4>3. M[i] = x /\ M[i + 1] = freeHead
        BY <2>3, <3>1, <4>1, <4>2
      <4>4. x \in Pool!Index \ Taken' /\ nextFree'[x] = freeHead
        BY <1>5, <1>7, <1>11
      <4> QED  BY <4>3, <4>4
    <3>2. CASE i # 1
      <4>0. Len(M) = Len(L) + 1 /\ Len(L) \in Nat /\ i \in 1 .. Len(M) - 1
        BY <2>2, <2>3, Zenon
      <4>1. i \in 1 .. Len(M) /\ i - 1 \in 1 .. Len(L) - 1 /\ (i - 1) + 1 = i /\ i \in 1 .. Len(L)
        BY ONLY <4>0, <3>2
      <4>2. M[i] = L[i - 1] /\ M[i + 1] = L[i]
        BY <2>3, <2>4, <3>2, <4>1
      <4>3. L[i - 1] \in Pool!Index \ Taken /\ nextFree[L[i - 1]] = L[(i - 1) + 1]
        BY <1>2, <4>1, Zenon DEF Chain
      <4>4. L[i - 1] # x
        BY <1>6, <4>3
      <4> QED  BY <1>7, <1>11, <4>1, <4>2, <4>3, <4>4
    <3> QED  BY <3>1, <3>2
  <2>8. ASSUME NEW i \in 1 .. Len(M), NEW j \in 1 .. Len(M), M[i] = M[j] PROVE i = j
    <3>1. CASE i = 1 /\ j # 1
      BY <2>3, <2>4, <2>5, <2>8, <3>1
    <3>2. CASE i # 1 /\ j = 1
      BY <2>3, <2>4, <2>5, <2>8, <3>2, Zenon
    <3>3. CASE i # 1 /\ j # 1
      <4>1. i - 1 = j - 1
        BY <1>2, <2>4, <2>8, <3>3 DEF Chain
      <4> QED  BY <4>1
    <3> QED  BY <3>1, <3>2, <3>3
  <2>9. ASSUME NEW y \in Pool!Index \ Taken' PROVE \E i \in 1 .. Len(M) - 1 : M[i] = y
    <3>1. CASE y = x
      <4>1. 1 \in 1 .. Len(M) - 1
        BY <2>2, <2>3
      <4> QED  BY <2>3, <3>1, <4>1
    <3>2. CASE y # x
      <4>1. y \in Pool!Index \ Taken
        BY <1>11, <3>2
      <4>2. PICK i \in 1 .. Len(L) - 1 : L[i] = y
        BY <1>2, <4>1 DEF Chain
      <4>3. i \in 1 .. Len(L) /\ i + 1 \in 1 .. Len(M) - 1
        BY <2>2, <2>3
      <4>4. M[i + 1] = y
        BY <2>3, <4>2, <4>3, Zenon
      <4> QED  BY <4>3, <4>4
    <3> QED  BY <3>1, <3>2
  <2>10. Chain(M)'
    BY <2>3, <2>6, <2>7, <2>8, <2>9 DEF Chain
  <2> QED  BY <2>10
<1>14. Pool!TypeOK'
  <2>1. freeHead' \in 0 .. Capacity
    BY <1>4, <1>5 DEF Pool!Index
  <2> QED  BY <1>1, <1>4, <1>7, <1>8, <1>12, <2>1 DEF Pool!TypeOK
<1> QED  BY <1>8, <1>10, <1>12, <1>13, <1>14 DEF PoolIInv

PoolRuns == part = "pool" => PoolIInv

LEMMA PoolAlways ==
  ASSUME PoolAssumption
  PROVE  Spec => []PoolRuns
<1>1. PoolIInv /\ [Pool!Next]_Pool!vars => PoolIInv'
  <2> SUFFICES ASSUME PoolIInv, [Pool!Next]_Pool!vars PROVE PoolIInv'
    OBVIOUS
  <2>1. ASSUME NEW value \in Pool!Value, Pool!Insert(value) PROVE PoolIInv'
    BY <2>1, InsertIInv
  <2>2. ASSUME NEW h \in DOMAIN issued, Pool!Remove(h) PROVE PoolIInv'
    BY <2>2, RemoveIInv
  <2>3. CASE UNCHANGED Pool!vars
    <3>1. UNCHANGED <<slots, gens, nextFree, freeHead, len, issued>>
      BY <2>3 DEF Pool!vars
    <3>2. Taken' = Taken
      BY <3>1 DEF Taken
    <3>3. Pool!TypeOK' /\ HandlesFit'
      BY <3>1 DEF PoolIInv, Pool!TypeOK, HandlesFit
    <3>4. \A L : Chain(L) => Chain(L)'
      BY <3>1, <3>2 DEF Chain
    <3> QED  BY <3>1, <3>2, <3>3, <3>4 DEF PoolIInv
  <2> QED  BY <2>1, <2>2, <2>3 DEF Pool!Next
<1>2. Init => PoolRuns
  BY PoolInit DEF Init, PoolRuns
<1>3. PoolRuns /\ [Next]_vars => PoolRuns'
  <2> SUFFICES ASSUME PoolRuns, [Next]_vars, part' = "pool" PROVE PoolIInv'
    BY DEF PoolRuns
  <2>1. part = "pool" /\ [Pool!Next]_Pool!vars
    BY DEF Next, vars, Pool!vars
  <2> QED  BY <2>1, <1>1 DEF PoolRuns
<1> QED  BY <1>2, <1>3, PTL DEF Spec

\* Followed from its head, the list is the one there is.
LEMMA FreeIsTheChain ==
  ASSUME PoolAssumption, Pool!TypeOK, NEW L, Chain(L)
  PROVE  Pool!Free[Capacity] = L
<1> USE DEF PoolAssumption
<1> DEFINE m == Len(L)
           upto(n) == IF n + 1 <= m THEN n + 1 ELSE m
           F == [n \in 0 .. Capacity |-> SubSeq(L, 1, upto(n))]
           grown(f, n) == IF n = 0 THEN <<freeHead>>
                          ELSE LET walked == f[n - 1]
                                   last   == walked[Len(walked)]
                               IN  IF last \in Pool!Index THEN Append(walked, nextFree[last])
                                   ELSE walked
<1>1. /\ L \in Seq(0 .. Capacity) /\ m \in Nat /\ m >= 1 /\ m <= Capacity + 1
      /\ L[1] = freeHead /\ L[m] = Capacity
  BY LenProperties DEF Chain, Pool!TypeOK
<1>2. ASSUME NEW k \in 1 .. m
      PROVE  /\ SubSeq(L, 1, k) \in Seq(0 .. Capacity) /\ Len(SubSeq(L, 1, k)) = k
             /\ \A i \in 1 .. k : SubSeq(L, 1, k)[i] = L[i]
  <2>1. \A i \in 1 .. k : L[i] \in 0 .. Capacity
    BY <1>1, ElementOfSeq
  <2> QED  BY <2>1, SubSeqProperties
<1> HIDE DEF m
<1>3. ASSUME NEW n \in 0 .. Capacity PROVE F[n] = grown(F, n)
  <2>1. CASE n = 0
    <3>1. upto(n) = 1 /\ 1 \in 1 .. m
      BY <1>1, <2>1
    <3>2. SubSeq(L, 1, 1) = <<L[1]>>
      <4> DEFINE s == SubSeq(L, 1, 1)
                 t == <<L[1]>>
      <4>1. /\ s \in Seq(0 .. Capacity) /\ Len(s) = 1 /\ s[1] = L[1]
            /\ L[1] \in 0 .. Capacity
        BY <1>1, <1>2, <3>1, ElementOfSeq DEF m
      <4>2. t \in Seq(0 .. Capacity) /\ Len(t) = 1 /\ t[1] = L[1]
        BY <4>1
      <4> HIDE DEF s, t
      <4>3. \A i \in 1 .. Len(s) : s[i] = t[i]
        BY <4>1, <4>2
      <4>4. s = t
        BY <4>1, <4>2, <4>3, SeqEqual
      <4> QED  BY <4>4 DEF s, t
    <3> QED  BY <1>1, <2>1, <3>1, <3>2
  <2>2. CASE n # 0 /\ n + 1 <= m
    <3>1. /\ upto(n) = n + 1 /\ upto(n - 1) = n /\ n \in 1 .. m - 1 /\ n \in 1 .. m
          /\ n + 1 \in 1 .. m /\ n - 1 \in 0 .. Capacity
      BY <1>1, <2>2
    <3>2. F[n - 1] = SubSeq(L, 1, n) /\ F[n] = SubSeq(L, 1, n + 1)
      BY <3>1
    <3>3. /\ SubSeq(L, 1, n)[Len(SubSeq(L, 1, n))] = L[n]
          /\ L[n] \in Pool!Index /\ nextFree[L[n]] = L[n + 1]
      BY <1>2, <3>1 DEF Chain, m
    <3>4. SubSeq(L, 1, n + 1) = Append(SubSeq(L, 1, n), L[n + 1])
      <4> DEFINE s == SubSeq(L, 1, n + 1)
                 b == SubSeq(L, 1, n)
                 t == Append(b, L[n + 1])
      <4>1. /\ b \in Seq(0 .. Capacity) /\ Len(b) = n /\ \A i \in 1 .. n : b[i] = L[i]
            /\ s \in Seq(0 .. Capacity) /\ Len(s) = n + 1 /\ \A i \in 1 .. n + 1 : s[i] = L[i]
            /\ L[n + 1] \in 0 .. Capacity
        BY <1>1, <1>2, <3>1, ElementOfSeq DEF m
      <4> HIDE DEF s, b
      <4>2. /\ t \in Seq(0 .. Capacity) /\ Len(t) = n + 1 /\ t[n + 1] = L[n + 1]
            /\ \A i \in 1 .. n : t[i] = b[i]
        BY <4>1, AppendProperties
      <4> HIDE DEF t
      <4>3. \A i \in 1 .. n + 1 : s[i] = t[i]
        <5>1. n \in Nat
          BY <3>1
        <5>2. \A i \in 1 .. n + 1 : i \in 1 .. n \/ i = n + 1
          BY ONLY <5>1
        <5>3. n + 1 \in 1 .. n + 1
          BY ONLY <5>1
        <5> QED  BY <4>1, <4>2, <5>2, <5>3, Zenon
      <4>4. s = t
        BY <4>1, <4>2, <4>3, SeqEqual, SMTT(30)
      <4> QED  BY <4>4 DEF s, t, b
    <3> HIDE DEF F, upto
    <3> QED  BY <2>2, <3>2, <3>3, <3>4
  <2>3. CASE n # 0 /\ ~(n + 1 <= m)
    <3>1. upto(n) = m /\ upto(n - 1) = m /\ n - 1 \in 0 .. Capacity /\ m \in 1 .. m
      BY <1>1, <2>3
    <3>2. F[n - 1] = SubSeq(L, 1, m) /\ F[n] = SubSeq(L, 1, m)
      BY <3>1
    <3>3. SubSeq(L, 1, m)[Len(SubSeq(L, 1, m))] = Capacity
      BY <1>1, <1>2, <3>1
    <3>4. Capacity \notin Pool!Index
      BY DEF Pool!Index
    <3> HIDE DEF F, upto
    <3> QED  BY <2>3, <3>2, <3>3, <3>4, Zenon
  <2> QED  BY <2>1, <2>2, <2>3, Zenon
\* So there is a function that follows the list, and it is the only one.
<1>4. F = [n \in 0 .. Capacity |-> grown(F, n)]
  BY <1>3, Zenon
<1>5. Pool!Free = [n \in 0 .. Capacity |-> grown(Pool!Free, n)]
  BY <1>4, Zenon DEF Pool!Free
<1>6. \A n \in Nat : n <= Capacity => Pool!Free[n] = F[n]
  <2> DEFINE S == {n \in Nat : n <= Capacity => Pool!Free[n] = F[n]}
  <2>1. 0 \in S
    <3>1. 0 \in 0 .. Capacity
      OBVIOUS
    <3>2. Pool!Free[0] = grown(Pool!Free, 0) /\ F[0] = grown(F, 0)
      BY <1>3, <1>5, <3>1, Zenon
    <3> QED  BY <3>2, Zenon
  <2>2. ASSUME NEW n \in Nat, n \in S PROVE n + 1 \in S
    <3>1. SUFFICES ASSUME n + 1 <= Capacity PROVE Pool!Free[n + 1] = F[n + 1]
      OBVIOUS
    <3>2. n + 1 \in 0 .. Capacity /\ (n + 1) - 1 = n /\ n + 1 # 0 /\ Pool!Free[n] = F[n]
      BY <2>2, <3>1
    <3>3. Pool!Free[n + 1] = grown(Pool!Free, n + 1) /\ F[n + 1] = grown(F, n + 1)
      BY <1>3, <1>5, <3>2, Zenon
    <3> HIDE DEF F
    <3>4. grown(Pool!Free, n + 1) = grown(F, n + 1)
      BY <3>2
    <3> QED  BY <3>3, <3>4
  <2> HIDE DEF S
  <2>3. Nat \subseteq S
    BY <2>1, <2>2, SetInduction
  <2> QED  BY <2>3, Zenon DEF S
<1>7. F[Capacity] = L
  <2>1. upto(Capacity) = m /\ Capacity \in 0 .. Capacity
    BY <1>1
  <2>2. SubSeq(L, 1, m) = L
    BY <1>1, SubSeqFull DEF m
  <2> QED  BY <2>1, <2>2
<1> HIDE DEF F
<1>8. Capacity \in Nat /\ Capacity <= Capacity
  OBVIOUS
<1> QED  BY <1>6, <1>7, <1>8

\* After any sequence of inserts and removes, a handle ever given out gets what it was
\* given for until that is removed and null ever after, and the free list runs once
\* through the slots that are not taken, and only those, for a pool of any capacity
\* (pool.h:66-105).
THEOREM HandlesResolveAlways == Spec => []HandlesResolve
<1>0. PoolAssumption
  BY PartsAssumption DEF PoolAssumption
<1>1. PoolIInv => Pool!HandlesResolve
  <2> SUFFICES ASSUME PoolIInv PROVE Pool!HandlesResolve
    OBVIOUS
  <2>1. Pool!TypeOK /\ HandlesFit /\ len = Cardinality(Taken)
    BY DEF PoolIInv
  <2>2. PICK L : Chain(L)
    BY DEF PoolIInv
  <2>3. ASSUME NEW h \in DOMAIN issued PROVE Pool!Get(h) = issued[h]
    <3>1. h[1] \in Pool!Index
      BY <2>1 DEF Pool!TypeOK, Pool!Handle
    <3> QED  BY <2>1, <3>1 DEF HandlesFit, Pool!Get
  <2>4. Pool!Free[Capacity] = L
    BY <1>0, <2>1, <2>2, FreeIsTheChain
  <2>5. Len(L) = Capacity - len + 1 /\ L[Len(L)] = Capacity
    BY <2>2 DEF Chain
  <2>6. {L[i] : i \in 1 .. Len(L) - 1} = Pool!Index \ Taken
    BY <2>2 DEF Chain
  <2>7. \A S : Pool!Cardinality(S) = Cardinality(S)
    BY DEF Pool!Cardinality, Cardinality
  <2> QED  BY <2>1, <2>3, <2>4, <2>5, <2>6, <2>7, Zenon DEF Pool!HandlesResolve, Taken
<1>2. PoolRuns => HandlesResolve
  BY <1>1 DEF PoolRuns, HandlesResolve
<1> QED  BY <1>0, <1>2, PoolAlways, PTL

-----------------------------------------------------------------------------
(* Device memory.                                                          *)

MemoryAssumption ==
  /\ BlockSize \in Nat /\ Tlases \in Nat \ {0}
  /\ Sizes \subseteq Nat \ {0} /\ Aligns \subseteq Nat \ {0}
  /\ None \notin Memory!Piece

Block   == [type : Nat, size : Nat, used : Nat, mapped : BOOLEAN]
Wants   == {{"local", "buffer"}, {"local", "image"}, {"visible", "buffer"}}
Request == [size : Nat \ {0}, align : Nat \ {0}, props : Wants]

\* Blocks of a type there is, never empty, no fuller than they are large, and mapped if
\* the type can be.
BlocksFit(bs) ==
  /\ bs \in Seq(Block)
  /\ \A i \in DOMAIN bs : /\ bs[i].type \in DOMAIN types
                          /\ bs[i].used \in 1 .. bs[i].size
                          /\ bs[i].mapped = ("visible" \in types[bs[i].type])

\* A piece of these blocks; and one beyond all that they have given.
Lies(a, bs) ==
  /\ a \in Memory!Piece
  /\ a.block \in DOMAIN bs /\ a.to <= bs[a.block].used
  /\ a.from % a.align = 0
  /\ a.host => a.mapped
Beyond(a, bs) == a.block \in DOMAIN bs => bs[a.block].used <= a.from

\* Blocks are added and filled, never emptied.
Grown(bs, more) ==
  /\ DOMAIN bs \subseteq DOMAIN more
  /\ \A i \in DOMAIN bs : bs[i].used <= more[i].used

LEMMA UpToIs ==
  ASSUME NEW n \in Nat, NEW align \in Nat \ {0}
  PROVE  /\ Memory!UpTo(n, align) \in Nat /\ Memory!UpTo(n, align) >= n
         /\ Memory!UpTo(n, align) % align = 0
         /\ Memory!UpTo(0, align) = 0
<1> DEFINE x == n + align - 1
           q == x \div align
           y == q * align
<1>1. /\ q \in Int /\ x % align \in 0 .. align - 1 /\ x = y + (x % align)
      /\ y \in Int
  OBVIOUS
<1>2. y >= n
  BY <1>1
<1>3. y % align = 0
  <2>1. y = align * q + 0 /\ 0 \in 0 .. align - 1 /\ y \in Int
    BY <1>1
  <2> HIDE DEF y, q
  <2> QED BY <1>1, <2>1, Remainder
<1>4. Memory!UpTo(0, align) = 0
  <2>1. (0 + align - 1) \div align = 0
    OBVIOUS
  <2> QED BY <2>1 DEF Memory!UpTo
<1> QED BY <1>1, <1>2, <1>3, <1>4 DEF Memory!UpTo

LEMMA TypeFound ==
  ASSUME types \in Memory!Machines, NEW props \in Wants
  PROVE  /\ Memory!FindMemoryType(props) \in DOMAIN types \cap Nat
         /\ props \subseteq types[Memory!FindMemoryType(props)]
<1> DEFINE I == {i \in 1 .. Len(types) : props \subseteq types[i]}
<1>1. I # {} /\ I \in SUBSET Nat /\ DOMAIN types = 1 .. Len(types)
  <2> DEFINE any == {"buffer", "image"}
             local == {"local"} \cup any
             host  == {"visible"} \cup any
             both  == {"local", "visible"} \cup any
  <2>1. /\ {"local", "buffer"} \subseteq local /\ {"local", "image"} \subseteq local
        /\ {"visible", "buffer"} \subseteq host /\ \A p \in Wants : p \subseteq both
        /\ {"local", "buffer"} \subseteq {"local", "visible", "buffer"}
    BY DEF Wants
  <2>2. \/ types = <<local, host>> \/ types = <<both>> \/ types = <<local, host, both>>
        \/ types = <<{"local", "image"}, host, {"local", "visible", "buffer"}>>
    BY DEF Memory!Machines, Memory!Both
  <2>3. \/ props = {"local", "buffer"} \/ props = {"local", "image"}
        \/ props = {"visible", "buffer"}
    BY DEF Wants
  <2> HIDE DEF local, host, both
  <2>4. \E i \in 1 .. Len(types) : props \subseteq types[i]
    <3>1. CASE types = <<both>>
      BY <2>1, <3>1
    <3>2. CASE types = <<local, host>>
      BY <2>1, <2>3, <3>2
    <3>3. CASE types = <<local, host, both>>
      BY <2>1, <3>3
    <3>4. CASE types = <<{"local", "image"}, host, {"local", "visible", "buffer"}>>
      <4>1. /\ types[1] = {"local", "image"} /\ types[2] = host
            /\ types[3] = {"local", "visible", "buffer"} /\ Len(types) = 3
        BY <3>4
      <4> QED BY <2>1, <2>3, <4>1
    <3> QED BY <2>2, <3>1, <3>2, <3>3, <3>4
  <2>5. DOMAIN types = 1 .. Len(types)
    BY <2>2
  <2> QED BY <2>4, <2>5
<1>2. \E s \in I : \A r \in I : s <= r
  <2> HIDE DEF I
  <2> QED BY <1>1, LeastExists
<1>3. Memory!Min(I) \in I
  BY <1>2 DEF Memory!Min
<1>4. Memory!FindMemoryType(props) = Memory!Min(I)
  BY <1>1 DEF Memory!FindMemoryType, Memory!SelectInSeq
<1> QED BY <1>1, <1>3, <1>4

\* The first block of the type with room, if any.
FirstFit(bs, type, req) == Memory!SelectInSeq(bs, LAMBDA b : Memory!Fits(b, type, req))

LEMMA FirstFitIs ==
  ASSUME NEW bs \in Seq(Block), NEW type, NEW req
  PROVE  /\ FirstFit(bs, type, req) \in 0 .. Len(bs)
         /\ FirstFit(bs, type, req) # 0 =>
              Memory!Fits(bs[FirstFit(bs, type, req)], type, req)
<1> DEFINE I == {i \in 1 .. Len(bs) : Memory!Fits(bs[i], type, req)}
<1>1. FirstFit(bs, type, req) = IF I # {} THEN Memory!Min(I) ELSE 0
  BY DEF FirstFit, Memory!SelectInSeq
<1>2. CASE I # {}
  <2>1. I \in SUBSET Nat
    OBVIOUS
  <2>2. \E s \in I : \A r \in I : s <= r
    <3> HIDE DEF I
    <3> QED BY <1>2, <2>1, LeastExists
  <2>3. Memory!Min(I) \in I
    BY <2>2 DEF Memory!Min
  <2> QED BY <1>1, <1>2, <2>3
<1>3. CASE I = {}
  BY <1>1, <1>3
<1> QED BY <1>2, <1>3

LEMMA BlockIs ==
  ASSUME NEW b \in Block, NEW n \in Nat
  PROVE  /\ b.type \in Nat /\ b.size \in Nat /\ b.used \in Nat
         /\ [b EXCEPT !.used = n] \in Block
         /\ [b EXCEPT !.used = n]
              = [type |-> b.type, size |-> b.size, used |-> n, mapped |-> b.mapped]
BY DEF Block

\* An allocation leaves whole blocks, and gives a piece of one beyond all given before.
LEMMA AllocateStep ==
  ASSUME MemoryAssumption, types \in Memory!Machines,
         NEW st \in [blocks : Seq(Block), ranges : Seq(Memory!Piece)], BlocksFit(st.blocks),
         NEW req \in Request
  PROVE  \E a : LET out == Memory!Allocate(st, req)
                IN  /\ out = [blocks |-> out.blocks, ranges |-> Append(st.ranges, a)]
                    /\ BlocksFit(out.blocks) /\ Grown(st.blocks, out.blocks)
                    /\ Lies(a, out.blocks) /\ Beyond(a, st.blocks)
<1> DEFINE bs    == st.blocks
           type  == Memory!FindMemoryType(req.props)
           fit == FirstFit(bs, type, req)
           i     == IF fit # 0 THEN fit ELSE Len(bs) + 1
           b     == IF fit # 0 THEN bs[i] ELSE Memory!NewBlock(type, req)
           from  == Memory!UpTo(b.used, req.align)
           after == [b EXCEPT !.used = from + req.size]
           more  == IF fit # 0 THEN [bs EXCEPT ![i] = after] ELSE Append(bs, after)
           a     == [block |-> i, from |-> from, to |-> from + req.size,
                     align |-> req.align, host |-> "visible" \in req.props,
                     mapped |-> b.mapped]
<1>1. Memory!Allocate(st, req) = [blocks |-> more, ranges |-> Append(st.ranges, a)]
  BY DEF Memory!Allocate, FirstFit
<1>2. bs \in Seq(Block) /\ req.size \in Nat \ {0} /\ req.align \in Nat \ {0}
      /\ req.props \in Wants
  BY DEF Request
<1>3. type \in DOMAIN types /\ type \in Nat /\ req.props \subseteq types[type]
  BY <1>2, TypeFound, Zenon
<1> HIDE DEF type
<1>4. fit \in 0 .. Len(bs) /\ (fit # 0 => Memory!Fits(bs[fit], type, req))
  BY <1>2, FirstFitIs
<1> HIDE DEF fit
<1>5. /\ b \in Block /\ b.type = type /\ b.mapped = ("visible" \in types[type])
      /\ from \in Nat /\ from >= b.used /\ from % req.align = 0
      /\ from + req.size <= b.size
  <2>1. CASE fit # 0
    <3>1. b = bs[fit] /\ fit \in DOMAIN bs
      BY <1>2, <1>4, <2>1
    <3>2. b \in Block
      BY <1>2, <3>1
    <3>6. b.used \in Nat
      <4> HIDE DEF b
      <4> QED BY <3>2, BlockIs, Zenon
    <3>3. b.type = type /\ from + req.size <= b.size
      BY <1>4, <2>1, <3>1 DEF Memory!Fits
    <3>4. b.mapped = ("visible" \in types[type])
      BY <3>1, <3>3 DEF BlocksFit
    <3> HIDE DEF b
    <3>5. from \in Nat /\ from >= b.used /\ from % req.align = 0
      BY <1>2, <3>6, UpToIs
    <3> QED BY <3>2, <3>3, <3>4, <3>5
  <2>2. CASE fit = 0
    <3>1. b = [type |-> type, size |-> IF req.size > BlockSize THEN req.size ELSE BlockSize,
               used |-> 0, mapped |-> "visible" \in types[type]]
      BY <2>2 DEF Memory!NewBlock, Memory!Mapped
    <3> HIDE DEF b
    <3>2. b \in Block /\ b.type = type /\ b.mapped = ("visible" \in types[type])
          /\ b.used = 0 /\ req.size <= b.size
      BY <1>2, <1>3, <3>1 DEF Block, MemoryAssumption
    <3>3. from = 0
      BY <1>2, <3>2, UpToIs, Zenon
    <3>4. 0 % req.align = 0
      BY <1>2
    <3> QED BY <1>2, <3>2, <3>3, <3>4
  <2> QED BY <2>1, <2>2
<1>6. i \in 1 .. Len(bs) + 1 /\ Len(bs) \in Nat
      /\ (i \in DOMAIN bs <=> fit # 0) /\ (fit # 0 => b = bs[i])
  BY <1>2, <1>4
<1>7. after = [type |-> type, size |-> b.size, used |-> from + req.size,
               mapped |-> b.mapped]
      /\ after \in Block
  <2> HIDE DEF b, from
  <2>1. from + req.size \in Nat
    BY <1>2, <1>5
  <2> QED BY <1>5, <2>1, BlockIs
<1> HIDE DEF b, from, after
<1>8. /\ more \in Seq(Block) /\ DOMAIN more = DOMAIN bs \cup {i}
      /\ more[i] = after /\ \A j \in DOMAIN bs : j # i => more[j] = bs[j]
  <2>1. CASE fit # 0
    BY <1>2, <1>6, <1>7, <2>1
  <2>2. CASE fit = 0
    BY <1>2, <1>6, <1>7, <2>2, AppendProperties
  <2> QED BY <2>1, <2>2
<1> HIDE DEF i, more
<1>9. BlocksFit(more)
  <2>1. ASSUME NEW j \in DOMAIN more
        PROVE  /\ more[j].type \in DOMAIN types
               /\ more[j].used \in 1 .. more[j].size
               /\ more[j].mapped = ("visible" \in types[more[j].type])
    <3>1. CASE j = i
      <4>1. /\ after.type = type /\ after.size = b.size /\ after.used = from + req.size
            /\ after.mapped = b.mapped
        BY <1>7
      <4>2. b.size \in Nat
        BY <1>5, BlockIs, Zenon
      <4>3. from + req.size \in 1 .. b.size
        BY <1>2, <1>5, <4>2
      <4> QED BY <1>3, <1>5, <1>8, <3>1, <4>1, <4>3
    <3>2. CASE j # i
      BY <1>8, <2>1, <3>2 DEF BlocksFit
    <3> QED BY <3>1, <3>2
  <2> QED BY <1>8, <2>1 DEF BlocksFit
<1>10. Grown(bs, more)
  <2>1. ASSUME NEW j \in DOMAIN bs PROVE bs[j].used <= more[j].used
    <3>1. bs[j].used \in Nat
      <4>1. bs[j] \in Block
        BY <1>2
      <4> QED BY <4>1, BlockIs, Zenon
    <3>2. CASE j = i
      <4>1. more[j].used = from + req.size /\ bs[j] = b
        BY <1>6, <1>7, <1>8, <3>2
      <4> QED BY <1>2, <1>5, <3>1, <4>1
    <3>3. CASE j # i
      BY <1>8, <3>1, <3>3
    <3> QED BY <3>2, <3>3
  <2> QED BY <1>8, <2>1 DEF Grown
<1>11. Lies(a, more)
  <2>1. a \in Memory!Piece
    <3>1. b.mapped \in BOOLEAN
      BY <1>5
    <3> QED BY <1>2, <1>5, <1>6, <3>1 DEF Memory!Piece
  <2>2. a.host => a.mapped
    BY <1>2, <1>3, <1>5, Zenon
  <2>3. a.to <= more[a.block].used
    BY <1>2, <1>5, <1>7, <1>8
  <2> QED BY <1>5, <1>8, <2>1, <2>2, <2>3 DEF Lies
<1>12. Beyond(a, bs)
  BY <1>5, <1>6 DEF Beyond
<1> DEFINE out == Memory!Allocate(st, req)
<1> HIDE DEF a
<1>13. out.blocks = more /\ out = [blocks |-> out.blocks, ranges |-> Append(st.ranges, a)]
  BY <1>1
<1> HIDE DEF out
<1>14. /\ out = [blocks |-> out.blocks, ranges |-> Append(st.ranges, a)]
       /\ BlocksFit(out.blocks) /\ Grown(bs, out.blocks)
       /\ Lies(a, out.blocks) /\ Beyond(a, bs)
  BY <1>9, <1>10, <1>11, <1>12, <1>13
<1> QED BY <1>14 DEF out

\* What lies in blocks lies in them as they grow, and apart from what is beyond them.
LEMMA LiesOn ==
  ASSUME NEW bs \in Seq(Block), NEW more \in Seq(Block), Grown(bs, more),
         NEW a, Lies(a, bs)
  PROVE  Lies(a, more)
<1>1. a.block \in DOMAIN bs /\ a.block \in DOMAIN more
  BY DEF Lies, Grown
<1>2. a.to \in Nat
  BY DEF Lies, Memory!Piece
<1>3. bs[a.block].used \in Nat /\ more[a.block].used \in Nat
  <2>1. bs[a.block] \in Block /\ more[a.block] \in Block
    BY <1>1
  <2> QED BY <2>1, BlockIs, Zenon
<1>4. a.to <= bs[a.block].used /\ bs[a.block].used <= more[a.block].used
  BY <1>1 DEF Lies, Grown
<1> QED BY <1>1, <1>2, <1>3, <1>4 DEF Lies

LEMMA BeyondBoth ==
  ASSUME NEW bs \in Seq(Block), NEW more \in Seq(Block), Grown(bs, more),
         NEW a \in Memory!Piece, Beyond(a, more)
  PROVE  Beyond(a, bs)
<1> SUFFICES ASSUME a.block \in DOMAIN bs PROVE bs[a.block].used <= a.from
  BY DEF Beyond
<1>1. a.block \in DOMAIN more /\ a.from \in Nat
  BY DEF Grown, Memory!Piece
<1>2. bs[a.block].used \in Nat /\ more[a.block].used \in Nat
  <2>1. bs[a.block] \in Block /\ more[a.block] \in Block
    BY <1>1
  <2> QED BY <2>1, BlockIs, Zenon
<1>3. more[a.block].used <= a.from /\ bs[a.block].used <= more[a.block].used
  BY <1>1 DEF Beyond, Grown
<1> QED BY <1>1, <1>2, <1>3

LEMMA BeyondApart ==
  ASSUME NEW bs \in Seq(Block), NEW a, NEW b \in Memory!Piece, Lies(a, bs), Beyond(b, bs)
  PROVE  Memory!Apart(a, b) /\ Memory!Apart(b, a)
<1> SUFFICES ASSUME a.block = b.block PROVE a.to <= b.from
  BY DEF Memory!Apart
<1>1. a.block \in DOMAIN bs /\ a.to \in Nat /\ b.from \in Nat
  BY DEF Lies, Memory!Piece
<1>2. bs[a.block].used \in Nat
  <2>1. bs[a.block] \in Block
    BY <1>1
  <2> QED BY <2>1, BlockIs, Zenon
<1>3. a.to <= bs[a.block].used /\ bs[a.block].used <= b.from
  BY <1>1 DEF Lies, Beyond
<1> QED BY <1>1, <1>2, <1>3

\* n pieces given one after the other, from the blocks bs on.
Handed(bs, st, n) ==
  /\ st \in [blocks : Seq(Block), ranges : Seq(Memory!Piece)]
  /\ BlocksFit(st.blocks) /\ Grown(bs, st.blocks)
  /\ Len(st.ranges) = n
  /\ \A k \in 1 .. n : Lies(st.ranges[k], st.blocks) /\ Beyond(st.ranges[k], bs)
  /\ \A k, l \in 1 .. n : k # l => Memory!Apart(st.ranges[k], st.ranges[l])

LEMMA HandedStep ==
  ASSUME MemoryAssumption, types \in Memory!Machines,
         NEW bs \in Seq(Block), NEW n \in Nat, NEW st, Handed(bs, st, n), NEW req \in Request
  PROVE  Handed(bs, Memory!Allocate(st, req), n + 1)
<1> DEFINE out == Memory!Allocate(st, req)
<1>1. st \in [blocks : Seq(Block), ranges : Seq(Memory!Piece)] /\ BlocksFit(st.blocks)
  BY DEF Handed
<1>2. PICK a : /\ out = [blocks |-> out.blocks, ranges |-> Append(st.ranges, a)]
               /\ BlocksFit(out.blocks) /\ Grown(st.blocks, out.blocks)
               /\ Lies(a, out.blocks) /\ Beyond(a, st.blocks)
  BY <1>1, AllocateStep
<1> HIDE DEF out
<1> DEFINE old == st.blocks
           new == out.blocks
           rs  == st.ranges
<1>3. /\ old \in Seq(Block) /\ new \in Seq(Block) /\ rs \in Seq(Memory!Piece) /\ a \in Memory!Piece
      /\ Len(rs) = n /\ Grown(bs, old) /\ Grown(old, new) /\ out.ranges = Append(rs, a)
  BY <1>1, <1>2 DEF Handed, BlocksFit, Lies
<1>4. /\ Append(rs, a) \in Seq(Memory!Piece) /\ Len(Append(rs, a)) = n + 1
      /\ Append(rs, a)[n + 1] = a /\ \A k \in 1 .. n : Append(rs, a)[k] = rs[k]
  BY <1>3, AppendProperties
<1>5. out \in [blocks : Seq(Block), ranges : Seq(Memory!Piece)]
  BY <1>2, <1>3, <1>4, Zenon
<1>6. \A k \in 1 .. n : Lies(rs[k], old) /\ Beyond(rs[k], bs)
  BY DEF Handed
<1>7. \A k, l \in 1 .. n : k # l => Memory!Apart(rs[k], rs[l])
  BY DEF Handed
<1> HIDE DEF old, new, rs
<1>8. Grown(bs, new)
  <2>1. ASSUME NEW j \in DOMAIN bs PROVE bs[j].used <= new[j].used
    <3>1. j \in DOMAIN old /\ j \in DOMAIN new
      BY <1>3 DEF Grown
    <3>2. bs[j] \in Block /\ old[j] \in Block /\ new[j] \in Block
      BY <1>3, <3>1
    <3>3. bs[j].used \in Nat /\ old[j].used \in Nat /\ new[j].used \in Nat
      BY <3>2, BlockIs, Zenon
    <3>4. bs[j].used <= old[j].used /\ old[j].used <= new[j].used
      BY <1>3, <3>1 DEF Grown
    <3> QED BY <3>3, <3>4
  <2>2. DOMAIN bs \subseteq DOMAIN new
    BY <1>3 DEF Grown
  <2> QED BY <2>1, <2>2 DEF Grown
<1>9. \A k \in 1 .. n : Lies(rs[k], new)
  BY <1>3, <1>6, LiesOn
<1>10. Beyond(a, old) /\ Beyond(a, bs) /\ Lies(a, new)
  <2>1. Beyond(a, old) /\ Lies(a, new)
    BY <1>2 DEF old, new
  <2> QED BY <1>3, <2>1, BeyondBoth
<1>11. \A k \in 1 .. n : Memory!Apart(rs[k], a) /\ Memory!Apart(a, rs[k])
  BY <1>3, <1>6, <1>10, BeyondApart
<1>12. \A k \in 1 .. n + 1 : Lies(out.ranges[k], new) /\ Beyond(out.ranges[k], bs)
  <2> SUFFICES ASSUME NEW k \in 1 .. n + 1
               PROVE  Lies(out.ranges[k], new) /\ Beyond(out.ranges[k], bs)
    OBVIOUS
  <2>1. CASE k = n + 1
    BY <1>3, <1>4, <1>10, <2>1
  <2>2. CASE k \in 1 .. n
    BY <1>3, <1>4, <1>6, <1>9, <2>2
  <2> QED BY <2>1, <2>2
<1>13. \A k, l \in 1 .. n + 1 : k # l => Memory!Apart(out.ranges[k], out.ranges[l])
  <2> SUFFICES ASSUME NEW k \in 1 .. n + 1, NEW l \in 1 .. n + 1, k # l
               PROVE  Memory!Apart(out.ranges[k], out.ranges[l])
    OBVIOUS
  <2>1. CASE k \in 1 .. n /\ l \in 1 .. n
    BY <1>3, <1>4, <1>7, <2>1
  <2>2. CASE k = n + 1 /\ l \in 1 .. n
    BY <1>3, <1>4, <1>11, <2>2
  <2>3. CASE k \in 1 .. n /\ l = n + 1
    BY <1>3, <1>4, <1>11, <2>3
  <2> QED BY <2>1, <2>2, <2>3
<1>14. BlocksFit(new) /\ Len(out.ranges) = n + 1
  BY <1>2, <1>3, <1>4 DEF new
<1> QED BY <1>5, <1>8, <1>12, <1>13, <1>14 DEF Handed, new, out

\* What the allocator gives for some requests, one after the other.
LEMMA GivenIs ==
  ASSUME MemoryAssumption, types \in Memory!Machines, BlocksFit(blocks),
         NEW reqs \in Seq(Request)
  PROVE  Handed(blocks, Memory!Given(reqs), Len(reqs))
<1> DEFINE States == {s \in [blocks : Seq(Block), ranges : Seq(Memory!Piece)] : BlocksFit(s.blocks)}
           none   == [blocks |-> blocks, ranges |-> <<>>]
           req(n) == IF n < Len(reqs) THEN reqs[n + 1]
                     ELSE [size |-> 1, align |-> 1, props |-> {"local", "buffer"}]
           G == [n \in Nat |-> [s \in States |-> Memory!Allocate(s, req(n))]]
<1>1. none \in States
  BY DEF BlocksFit
<1>2. Len(reqs) \in Nat /\ \A n \in Nat : req(n) \in Request
  <2>1. [size |-> 1, align |-> 1, props |-> {"local", "buffer"}] \in Request
    BY DEF Request, Wants
  <2> QED BY <2>1
<1> HIDE DEF req
<1>3. ASSUME NEW s \in States, NEW r \in Request PROVE Memory!Allocate(s, r) \in States
  <2> DEFINE out == Memory!Allocate(s, r)
  <2>1. s \in [blocks : Seq(Block), ranges : Seq(Memory!Piece)] /\ BlocksFit(s.blocks)
    OBVIOUS
  <2>2. PICK a : /\ out = [blocks |-> out.blocks, ranges |-> Append(s.ranges, a)]
                 /\ BlocksFit(out.blocks) /\ Lies(a, out.blocks)
    BY <2>1, AllocateStep
  <2> HIDE DEF out
  <2>3. out.blocks \in Seq(Block) /\ Append(s.ranges, a) \in Seq(Memory!Piece)
    BY <2>1, <2>2 DEF BlocksFit, Lies
  <2>4. out \in States
    BY <2>2, <2>3
  <2> QED BY <2>4 DEF out
<1> HIDE DEF States
<1>4. G \in [Nat -> [States -> States]]
  BY <1>2, <1>3
<1>5. PICK f : Recurs(f, States, none, G)
  <2> HIDE DEF G, none
  <2> QED BY <1>1, <1>4, RecursionExists
<1>6. f \in [Nat -> States] /\ f[0] = none
  BY <1>5 DEF Recurs
<1>7. ASSUME NEW n \in Nat PROVE f[n + 1] = Memory!Allocate(f[n], req(n))
  <2>1. f[n + 1] = G[n][f[n]]
    <3> HIDE DEF G
    <3> QED BY <1>5 DEF Recurs
  <2> QED BY <1>6, <2>1
<1> HIDE DEF none
<1>8. ASSUME NEW k \in Nat, k # 0, k <= Len(reqs)
      PROVE  f[k] = Memory!Allocate(f[k - 1], reqs[k])
  <2>1. k - 1 \in Nat /\ (k - 1) + 1 = k /\ req(k - 1) = reqs[k]
    BY <1>2, <1>8 DEF req
  <2>2. f[(k - 1) + 1] = Memory!Allocate(f[k - 1], req(k - 1))
    BY <1>7, <2>1
  <2> QED BY <2>1, <2>2
<1> DEFINE g == [k \in 0 .. Len(reqs) |-> f[k]]
           is(h) == h = [k \in 0 .. Len(reqs) |->
                           IF k = 0 THEN none ELSE Memory!Allocate(h[k - 1], reqs[k])]
<1>9. is(g)
  <2>1. ASSUME NEW k \in 0 .. Len(reqs), k # 0
        PROVE  g[k] = Memory!Allocate(g[k - 1], reqs[k])
    <3>1. k - 1 \in 0 .. Len(reqs) /\ k \in Nat /\ k <= Len(reqs)
      BY <1>2, <2>1
    <3> QED BY <1>8, <2>1, <3>1
  <2> QED BY <1>2, <1>6, <2>1
<1> HIDE DEF g
<1> DEFINE given == CHOOSE h : is(h)
<1>10. is(given)
  <2> HIDE DEF is
  <2> QED BY <1>9
<1>11. Memory!Given(reqs) = given[Len(reqs)]
  BY DEF Memory!Given, none
<1> HIDE DEF given
<1>12. /\ given[0] = none
       /\ \A k \in 1 .. Len(reqs) : given[k] = Memory!Allocate(given[k - 1], reqs[k])
  BY <1>2, <1>10
<1> DEFINE S == {n \in Nat : n <= Len(reqs) => Handed(blocks, given[n], n)}
<1>13. 0 \in S
  <2>1. none \in [blocks : Seq(Block), ranges : Seq(Memory!Piece)] /\ BlocksFit(none.blocks)
        /\ none.blocks = blocks /\ Len(none.ranges) = 0 /\ blocks \in Seq(Block)
    BY DEF none, BlocksFit
  <2>2. Grown(blocks, blocks)
    <3>1. \A i \in DOMAIN blocks : blocks[i].used \in Nat
      <4>1. \A i \in DOMAIN blocks : blocks[i] \in Block
        BY <2>1
      <4> QED BY <4>1, BlockIs, Zenon
    <3> QED BY <3>1 DEF Grown
  <2>3. Handed(blocks, none, 0)
    BY <2>1, <2>2 DEF Handed
  <2> QED BY <1>12, <2>3
<1>14. ASSUME NEW n \in Nat, n \in S PROVE n + 1 \in S
  <2> SUFFICES ASSUME n + 1 <= Len(reqs) PROVE Handed(blocks, given[n + 1], n + 1)
    OBVIOUS
  <2>1. Handed(blocks, given[n], n) /\ n + 1 \in 1 .. Len(reqs) /\ (n + 1) - 1 = n
    BY <1>2, <1>14
  <2>2. given[n + 1] = Memory!Allocate(given[n], reqs[n + 1]) /\ reqs[n + 1] \in Request
    BY <1>12, <2>1
  <2>3. blocks \in Seq(Block)
    BY DEF BlocksFit
  <2> QED BY <2>1, <2>2, <2>3, HandedStep
<1>15. Nat \subseteq S
  <2> HIDE DEF S
  <2> QED BY <1>13, <1>14, SetInduction
<1> QED BY <1>2, <1>11, <1>15

\* Every piece that is kept or held lies in these blocks, and apart from every other.
Kinds == {"owned", "textures", "shadow", "depth", "staging"}

Held(use, bs) ==
  /\ use \in [Kinds -> Seq(Memory!Piece)]
  /\ \A u \in Kinds : \A i \in DOMAIN use[u] : Lies(use[u][i], bs)
  /\ \A u, v \in Kinds : \A i \in DOMAIN use[u], j \in DOMAIN use[v] :
       <<u, i>> # <<v, j>> => Memory!Apart(use[u][i], use[v][j])

\* Of each kind, what is kept of the old and what is added, the new ranges after the
\* off-th, no range to two kinds.
Sourced(kept, added, off, old, ranges) ==
  /\ kept \in [Kinds -> Seq(Memory!Piece)] /\ added \in [Kinds -> Seq(Memory!Piece)]
  /\ off \in [Kinds -> Nat]
  /\ \A u \in Kinds : kept[u] = old[u] \/ kept[u] = <<>>
  /\ \A u \in Kinds : \A i \in 1 .. Len(added[u]) :
       off[u] + i \in 1 .. Len(ranges) /\ added[u][i] = ranges[off[u] + i]
  /\ \A u, v \in Kinds : \A i \in 1 .. Len(added[u]), j \in 1 .. Len(added[v]) :
       u # v => off[u] + i # off[v] + j

LEMMA Placed ==
  ASSUME NEW bs \in Seq(Block), NEW old, Held(old, bs),
         NEW n \in Nat, NEW st, Handed(bs, st, n),
         NEW kept, NEW added, NEW off, Sourced(kept, added, off, old, st.ranges)
  PROVE  Held([u \in Kinds |-> kept[u] \o added[u]], st.blocks)
<1> DEFINE use == [u \in Kinds |-> kept[u] \o added[u]]
           more == st.blocks
           rs == st.ranges
           isOld(u, i) == i \in DOMAIN old[u] /\ i <= Len(kept[u]) /\ use[u][i] = old[u][i]
           isNew(u, i) == /\ i > Len(kept[u]) /\ i - Len(kept[u]) \in 1 .. Len(added[u])
                          /\ use[u][i] = rs[off[u] + (i - Len(kept[u]))]
                          /\ off[u] + (i - Len(kept[u])) \in 1 .. n
<1>1. /\ more \in Seq(Block) /\ Grown(bs, more)
      /\ \A k \in 1 .. n : Lies(rs[k], more) /\ Beyond(rs[k], bs) /\ rs[k] \in Memory!Piece
      /\ \A k, l \in 1 .. n : k # l => Memory!Apart(rs[k], rs[l])
  BY DEF Handed, Lies
<1> HIDE DEF more, rs
<1>2. ASSUME NEW u \in Kinds
      PROVE  /\ use[u] \in Seq(Memory!Piece) /\ Len(kept[u]) \in Nat
             /\ \A i \in DOMAIN use[u] : i \in Nat /\ (isOld(u, i) \/ isNew(u, i))
  <2> DEFINE prior == kept[u]
             after == added[u]
  <2>1. prior \in Seq(Memory!Piece) /\ after \in Seq(Memory!Piece) /\ use[u] = prior \o after
        /\ old[u] \in Seq(Memory!Piece)
    BY DEF Held, Sourced
  <2> HIDE DEF use, prior, after
  <2>2. /\ use[u] \in Seq(Memory!Piece) /\ Len(use[u]) = Len(prior) + Len(after)
        /\ Len(prior) \in Nat /\ Len(after) \in Nat
        /\ \A i \in 1 .. Len(use[u]) :
             use[u][i] = IF i <= Len(prior) THEN prior[i] ELSE after[i - Len(prior)]
    BY <2>1, ConcatProperties
  <2>3. ASSUME NEW i \in DOMAIN use[u] PROVE i \in Nat /\ (isOld(u, i) \/ isNew(u, i))
    <3>1. i \in 1 .. Len(use[u])
      BY <2>2
    <3>2. CASE i <= Len(prior)
      <4>1. prior = old[u] \/ prior = <<>>
        BY DEF prior, Sourced
      <4>2. use[u][i] = prior[i] /\ prior = old[u] /\ i \in 1 .. Len(old[u])
        BY <2>1, <2>2, <3>1, <3>2, <4>1
      <4> QED BY <2>1, <3>1, <3>2, <4>2 DEF prior
    <3>3. CASE i > Len(prior)
      <4> DEFINE k == i - Len(prior)
      <4>1. k \in 1 .. Len(after) /\ use[u][i] = after[k]
        BY <2>2, <3>1, <3>3
      <4> HIDE DEF k
      <4>2. after[k] = rs[off[u] + k] /\ off[u] + k \in 1 .. n
        BY <4>1 DEF after, rs, Sourced, Handed
      <4>3. k = i - Len(prior)
        BY DEF k
      <4> QED BY <3>1, <3>3, <4>1, <4>2, <4>3 DEF prior, after
    <3> QED BY <2>2, <3>1, <3>2, <3>3
  <2> QED BY <2>2, <2>3 DEF prior
<1> HIDE DEF use
<1>3. ASSUME NEW u \in Kinds, NEW i \in DOMAIN use[u]
      PROVE  Lies(use[u][i], more)
  <2>1. CASE isOld(u, i)
    <3>1. Lies(old[u][i], bs)
      BY <2>1 DEF Held
    <3> QED BY <1>1, <2>1, <3>1, LiesOn
  <2>2. CASE isNew(u, i)
    BY <1>1, <2>2
  <2> QED BY <1>2, <2>1, <2>2
<1>4. ASSUME NEW u \in Kinds, NEW v \in Kinds, NEW i \in DOMAIN use[u],
             NEW j \in DOMAIN use[v], <<u, i>> # <<v, j>>
      PROVE  Memory!Apart(use[u][i], use[v][j])
  <2>1. CASE isOld(u, i) /\ isOld(v, j)
    BY <1>4, <2>1 DEF Held
  <2>2. CASE isOld(u, i) /\ isNew(v, j)
    <3>1. Lies(old[u][i], bs)
      BY <2>2 DEF Held
    <3> QED BY <1>1, <2>2, <3>1, BeyondApart
  <2>3. CASE isNew(u, i) /\ isOld(v, j)
    <3>1. Lies(old[v][j], bs)
      BY <2>3 DEF Held
    <3> QED BY <1>1, <2>3, <3>1, BeyondApart
  <2>4. CASE isNew(u, i) /\ isNew(v, j)
    <3> DEFINE k == off[u] + (i - Len(kept[u]))
               l == off[v] + (j - Len(kept[v]))
    <3>1. k # l
      <4>1. CASE u # v
        BY <2>4, <4>1 DEF Sourced
      <4>2. CASE u = v
        <5>1. i # j /\ i \in Nat /\ j \in Nat /\ Len(kept[u]) \in Nat /\ off[u] \in Nat
          BY <1>2, <1>4, <4>2 DEF Sourced
        <5> QED BY <4>2, <5>1
      <4> QED BY <4>1, <4>2
    <3> QED BY <1>1, <2>4, <3>1
  <2> QED BY <1>2, <2>1, <2>2, <2>3, <2>4
<1>5. use \in [Kinds -> Seq(Memory!Piece)]
  <2>1. use = [u \in Kinds |-> use[u]]
    BY Zenon DEF use
  <2> QED BY <1>2, <2>1
<1>6. Held(use, more)
  BY <1>3, <1>4, <1>5 DEF Held
<1> QED BY <1>6 DEF use, more

MemoryIInv ==
  /\ types \in Memory!Machines
  /\ BlocksFit(blocks)
  /\ Held(Memory!InUse, blocks)

LEMMA MemoryInit == Memory!Init => MemoryIInv
<1> SUFFICES ASSUME Memory!Init PROVE MemoryIInv
  OBVIOUS
<1> DEFINE use == Memory!InUse
<1>1. BlocksFit(blocks)
  BY DEF Memory!Init, BlocksFit
<1>2. use = [u \in Kinds |-> <<>>]
  BY DEF Memory!Init, Memory!InUse, Memory!One, Kinds
<1> HIDE DEF use
<1>3. Held(use, blocks)
  BY <1>2 DEF Held
<1> QED BY <1>1, <1>3 DEF MemoryIInv, Memory!Init, use

\* Uses of this shape are sourced.
IsSourced(use, old, ranges) ==
  \E kept, added, off : /\ Sourced(kept, added, off, old, ranges)
                        /\ use = [u \in Kinds |-> kept[u] \o added[u]]

LEMMA TakeIInv ==
  ASSUME MemoryAssumption, MemoryIInv, NEW reqs \in Seq(Request), Memory!Take(reqs),
         IsSourced((Memory!InUse)', Memory!InUse, Memory!Given(reqs).ranges)
  PROVE  MemoryIInv'
<1> DEFINE st == Memory!Given(reqs)
           old == Memory!InUse
<1>1. types \in Memory!Machines /\ BlocksFit(blocks) /\ Held(old, blocks)
      /\ blocks \in Seq(Block) /\ Len(reqs) \in Nat
  BY DEF MemoryIInv, BlocksFit
<1>2. Handed(blocks, st, Len(reqs))
  BY <1>1, GivenIs
<1>3. blocks' = st.blocks /\ types' = types
  BY DEF Memory!Take
<1> HIDE DEF st, old
<1>4. PICK kept, added, off : Sourced(kept, added, off, old, st.ranges)
                            /\ (Memory!InUse)' = [u \in Kinds |-> kept[u] \o added[u]]
  BY Zenon DEF IsSourced, st, old
<1>5. Held((Memory!InUse)', st.blocks)
  <2>1. Held([u \in Kinds |-> kept[u] \o added[u]], st.blocks)
    BY <1>1, <1>2, <1>4, Placed, Zenon
  <2> QED BY <1>4, <2>1
<1>6. BlocksFit(st.blocks)
  BY <1>2 DEF Handed
<1>7. BlocksFit(blocks)'
  BY <1>3, <1>6 DEF BlocksFit
<1>8. Held(Memory!InUse, blocks)'
  BY <1>3, <1>5 DEF Held
<1> QED BY <1>1, <1>3, <1>7, <1>8 DEF MemoryIInv

LEMMA GivenRanges ==
  ASSUME MemoryAssumption, MemoryIInv, NEW reqs \in Seq(Request)
  PROVE  /\ Memory!Given(reqs).ranges \in Seq(Memory!Piece)
         /\ Len(Memory!Given(reqs).ranges) = Len(reqs)
         /\ Memory!InUse \in [Kinds -> Seq(Memory!Piece)]
BY GivenIs DEF Handed, MemoryIInv, Held

LEMMA Single == \A p \in Memory!Piece : <<p>> \in Seq(Memory!Piece) /\ Len(<<p>>) = 1 /\ <<p>>[1] = p
OBVIOUS

LEMMA NoMore == \A s \in Seq(Memory!Piece) : s \o <<>> = s /\ <<>> \o s = s
BY ConcatEmptySeq

\* A staged upload into something new: the first range is staging's, the other w's.
LEMMA Staged ==
  ASSUME NEW old \in [Kinds -> Seq(Memory!Piece)], NEW ranges \in Seq(Memory!Piece), Len(ranges) = 2,
         NEW w \in {"owned", "textures"}
  PROVE  IsSourced([u \in Kinds |-> IF u = w THEN old[u] \o <<ranges[2]>>
                                    ELSE IF u = "staging" THEN <<ranges[1]>> ELSE old[u]],
                   old, ranges)
<1> DEFINE use == [u \in Kinds |-> IF u = w THEN old[u] \o <<ranges[2]>>
                                   ELSE IF u = "staging" THEN <<ranges[1]>> ELSE old[u]]
           kept == [u \in Kinds |-> IF u = "staging" THEN <<>> ELSE old[u]]
           added == [u \in Kinds |-> IF u = w THEN <<ranges[2]>>
                                     ELSE IF u = "staging" THEN <<ranges[1]>> ELSE <<>>]
           off == [u \in Kinds |-> IF u = w THEN 1 ELSE 0]
<1>1. ranges[1] \in Memory!Piece /\ ranges[2] \in Memory!Piece
  <2>1. 1 \in 1 .. Len(ranges) /\ 2 \in 1 .. Len(ranges)
    OBVIOUS
  <2> QED BY <2>1, ElementOfSeq, Zenon
<1>2. use = [u \in Kinds |-> kept[u] \o added[u]]
  BY <1>1, Single, NoMore, Zenon
<1>3. kept \in [Kinds -> Seq(Memory!Piece)] /\ \A u \in Kinds : kept[u] = old[u] \/ kept[u] = <<>>
  OBVIOUS
<1>4. added \in [Kinds -> Seq(Memory!Piece)] /\ off \in [Kinds -> Nat]
  BY <1>1, Single
<1>5. ASSUME NEW u \in Kinds, NEW i \in 1 .. Len(added[u])
      PROVE  /\ off[u] + i \in 1 .. Len(ranges) /\ added[u][i] = ranges[off[u] + i]
             /\ off[u] + i = IF u = w THEN 2 ELSE 1
             /\ u = w \/ u = "staging"
  BY <1>1, Single
<1> HIDE DEF use, kept, added, off
<1>6. Sourced(kept, added, off, old, ranges)
  <2>1. ASSUME NEW u \in Kinds, NEW v \in Kinds, NEW i \in 1 .. Len(added[u]),
               NEW j \in 1 .. Len(added[v]), u # v
        PROVE  off[u] + i # off[v] + j
    <3>1. off[u] + i = (IF u = w THEN 2 ELSE 1) /\ off[v] + j = (IF v = w THEN 2 ELSE 1)
          /\ (u = w \/ u = "staging") /\ (v = w \/ v = "staging")
      BY <1>5
    <3> QED BY <2>1, <3>1
  <2> QED BY <1>3, <1>4, <1>5, <2>1 DEF Sourced
<1>7. IsSourced(use, old, ranges)
  BY <1>2, <1>6, Zenon DEF IsSourced
<1> QED BY <1>7 DEF use

\* More buffers, all of the ranges.
LEMMA Owned ==
  ASSUME NEW old \in [Kinds -> Seq(Memory!Piece)], NEW ranges \in Seq(Memory!Piece)
  PROVE  IsSourced([u \in Kinds |-> IF u = "owned" THEN old[u] \o ranges ELSE old[u]],
                   old, ranges)
<1> DEFINE added == [u \in Kinds |-> IF u = "owned" THEN ranges ELSE <<>>]
           off == [u \in Kinds |-> 0]
<1>1. [u \in Kinds |-> IF u = "owned" THEN old[u] \o ranges ELSE old[u]]
        = [u \in Kinds |-> old[u] \o added[u]]
  BY NoMore
<1>2. Sourced(old, added, off, old, ranges)
  BY DEF Sourced
<1> HIDE DEF added, off
<1> QED BY <1>1, <1>2, Zenon DEF IsSourced

\* One thing anew, in place of what there was.
LEMMA Anew ==
  ASSUME NEW old \in [Kinds -> Seq(Memory!Piece)], NEW ranges \in Seq(Memory!Piece), Len(ranges) = 1,
         NEW w \in Kinds
  PROVE  IsSourced([u \in Kinds |-> IF u = w THEN <<ranges[1]>> ELSE old[u]], old, ranges)
<1> DEFINE kept == [u \in Kinds |-> IF u = w THEN <<>> ELSE old[u]]
           added == [u \in Kinds |-> IF u = w THEN <<ranges[1]>> ELSE <<>>]
           off == [u \in Kinds |-> 0]
<1>1. ranges[1] \in Memory!Piece
  <2>1. 1 \in 1 .. Len(ranges)
    OBVIOUS
  <2> QED BY <2>1, ElementOfSeq, Zenon
<1>2. [u \in Kinds |-> IF u = w THEN <<ranges[1]>> ELSE old[u]]
        = [u \in Kinds |-> kept[u] \o added[u]]
  BY <1>1, Single, NoMore, Zenon
<1>3. kept \in [Kinds -> Seq(Memory!Piece)] /\ \A u \in Kinds : kept[u] = old[u] \/ kept[u] = <<>>
  OBVIOUS
<1>4. added \in [Kinds -> Seq(Memory!Piece)] /\ off \in [Kinds -> Nat]
  BY <1>1, Single
<1>5. ASSUME NEW u \in Kinds, NEW i \in 1 .. Len(added[u])
      PROVE  off[u] + i \in 1 .. Len(ranges) /\ added[u][i] = ranges[off[u] + i] /\ u = w
  BY <1>1, Single
<1> HIDE DEF kept, added, off
<1>6. Sourced(kept, added, off, old, ranges)
  BY <1>3, <1>4, <1>5 DEF Sourced
<1> QED BY <1>2, <1>6, Zenon DEF IsSourced

LEMMA Asked ==
  ASSUME MemoryAssumption, NEW size \in Sizes, NEW align \in Aligns
  PROVE  /\ Memory!Host(size) \in Request /\ Memory!Host(Tlases) \in Request
         /\ Memory!Local(size, align) \in Request /\ Memory!Local(1, align) \in Request
         /\ Memory!Image(size, align) \in Request
BY DEF MemoryAssumption, Request, Wants, Memory!Host, Memory!Local, Memory!Image, Memory!Request

LEMMA AskedOfHost ==
  ASSUME MemoryAssumption, NEW size \in Sizes
  PROVE  Memory!Host(size) \in Request
BY DEF MemoryAssumption, Request, Wants, Memory!Host, Memory!Request


\* What is in use, and what is after an operation.
Uses(o, t, s, d, g) ==
  [owned |-> o, textures |-> t, shadow |-> Memory!One(s), depth |-> Memory!One(d),
   staging |-> Memory!One(g)]

Place(r) == r \in Memory!Piece \cup {None}

LEMMA UsesIs ==
  ASSUME NEW o \in Seq(Memory!Piece), NEW t \in Seq(Memory!Piece),
         NEW s, NEW d, NEW g, Place(s), Place(d), Place(g)
  PROVE  /\ Uses(o, t, s, d, g) \in [Kinds -> Seq(Memory!Piece)]
         /\ Uses(o, t, s, d, g)["owned"] = o /\ Uses(o, t, s, d, g)["textures"] = t
         /\ Uses(o, t, s, d, g)["shadow"] = Memory!One(s)
         /\ Uses(o, t, s, d, g)["depth"] = Memory!One(d)
         /\ Uses(o, t, s, d, g)["staging"] = Memory!One(g)
<1>1. \A r : Place(r) => Memory!One(r) \in Seq(Memory!Piece)
  BY Single DEF Place, Memory!One
<1> QED BY <1>1 DEF Uses, Kinds

LEMMA UsesSourced ==
  ASSUME None \notin Memory!Piece,
         NEW o \in Seq(Memory!Piece), NEW t \in Seq(Memory!Piece),
         NEW s, NEW d, NEW g, Place(s), Place(d), Place(g), NEW ranges \in Seq(Memory!Piece)
  PROVE  /\ IsSourced(Uses(o \o ranges, t, s, d, g), Uses(o, t, s, d, g), ranges)
         /\ Len(ranges) = 2 =>
              /\ IsSourced(Uses(o \o <<ranges[2]>>, t, s, d, ranges[1]),
                           Uses(o, t, s, d, g), ranges)
              /\ IsSourced(Uses(o, Append(t, ranges[2]), s, d, ranges[1]),
                           Uses(o, t, s, d, g), ranges)
         /\ Len(ranges) = 1 =>
              /\ IsSourced(Uses(o, t, ranges[1], d, g), Uses(o, t, s, d, g), ranges)
              /\ IsSourced(Uses(o, t, s, ranges[1], g), Uses(o, t, s, d, g), ranges)
              /\ IsSourced(Uses(o, t, s, d, ranges[1]), Uses(o, t, s, d, g), ranges)
<1> DEFINE old == Uses(o, t, s, d, g)
<1>1. /\ old \in [Kinds -> Seq(Memory!Piece)]
      /\ old["owned"] = o /\ old["textures"] = t /\ old["shadow"] = Memory!One(s)
      /\ old["depth"] = Memory!One(d) /\ old["staging"] = Memory!One(g)
  BY UsesIs
<1> HIDE DEF old
<1>2. \A k \in 1 .. Len(ranges) : ranges[k] \in Memory!Piece
                                  /\ Memory!One(ranges[k]) = <<ranges[k]>>
  <2>1. \A k \in 1 .. Len(ranges) : ranges[k] \in Memory!Piece
    BY ElementOfSeq
  <2> QED BY <2>1 DEF Memory!One
<1>3. IsSourced(Uses(o \o ranges, t, s, d, g), old, ranges)
  <2>1. Uses(o \o ranges, t, s, d, g)
          = [u \in Kinds |-> IF u = "owned" THEN old[u] \o ranges ELSE old[u]]
    <3> DEFINE x == o \o ranges
    <3>1. x = old["owned"] \o ranges
      BY <1>1
    <3> HIDE DEF x
    <3>2. Uses(x, t, s, d, g) = [u \in Kinds |-> IF u = "owned" THEN x ELSE old[u]]
      BY <1>1 DEF Uses, Kinds
    <3> QED BY <3>1, <3>2 DEF x
  <2> QED BY <1>1, <2>1, Owned, Zenon
<1>4. ASSUME Len(ranges) = 2
      PROVE  /\ IsSourced(Uses(o \o <<ranges[2]>>, t, s, d, ranges[1]), old, ranges)
             /\ IsSourced(Uses(o, Append(t, ranges[2]), s, d, ranges[1]), old, ranges)
  <2> DEFINE now(w) == [u \in Kinds |-> IF u = w THEN old[u] \o <<ranges[2]>>
                                       ELSE IF u = "staging" THEN <<ranges[1]>> ELSE old[u]]
  <2>1. 1 \in 1 .. Len(ranges) /\ 2 \in 1 .. Len(ranges)
    BY <1>4
  <2>2. ranges[2] \in Memory!Piece /\ Memory!One(ranges[1]) = <<ranges[1]>>
    BY <1>2, <2>1
  <2>3. Append(t, ranges[2]) = t \o <<ranges[2]>>
    BY <2>2, AppendIsConcat
  <2>4. Uses(o \o <<ranges[2]>>, t, s, d, ranges[1]) = now("owned")
    <3> DEFINE x == o \o <<ranges[2]>>
    <3>1. x = old["owned"] \o <<ranges[2]>>
      BY <1>1
    <3> HIDE DEF x
    <3>2. Uses(x, t, s, d, ranges[1])
            = [u \in Kinds |-> IF u = "owned" THEN x
                              ELSE IF u = "staging" THEN <<ranges[1]>> ELSE old[u]]
      BY <1>1, <2>2 DEF Uses, Kinds
    <3> QED BY <3>1, <3>2, Zenon DEF x
  <2>5. Uses(o, t \o <<ranges[2]>>, s, d, ranges[1]) = now("textures")
    <3> DEFINE x == t \o <<ranges[2]>>
    <3>1. x = old["textures"] \o <<ranges[2]>>
      BY <1>1
    <3> HIDE DEF x
    <3>2. Uses(o, x, s, d, ranges[1])
            = [u \in Kinds |-> IF u = "textures" THEN x
                              ELSE IF u = "staging" THEN <<ranges[1]>> ELSE old[u]]
      BY <1>1, <2>2 DEF Uses, Kinds
    <3> QED BY <3>1, <3>2, Zenon DEF x
  <2>6. IsSourced(now("owned"), old, ranges) /\ IsSourced(now("textures"), old, ranges)
    BY <1>1, <1>4, Staged, Zenon
  <2> QED BY <2>3, <2>4, <2>5, <2>6
<1>5. ASSUME Len(ranges) = 1
      PROVE  /\ IsSourced(Uses(o, t, ranges[1], d, g), old, ranges)
             /\ IsSourced(Uses(o, t, s, ranges[1], g), old, ranges)
             /\ IsSourced(Uses(o, t, s, d, ranges[1]), old, ranges)
  <2> DEFINE now(w) == [u \in Kinds |-> IF u = w THEN <<ranges[1]>> ELSE old[u]]
  <2>1. 1 \in 1 .. Len(ranges)
    BY <1>5
  <2>2. Memory!One(ranges[1]) = <<ranges[1]>>
    BY <1>2, <2>1
  <2>3. /\ Uses(o, t, ranges[1], d, g) = now("shadow")
        /\ Uses(o, t, s, ranges[1], g) = now("depth")
        /\ Uses(o, t, s, d, ranges[1]) = now("staging")
    BY <1>1, <2>2 DEF Uses, Kinds
  <2>4. \A w \in Kinds : IsSourced(now(w), old, ranges)
    BY <1>1, <1>5, Anew, Zenon
  <2>5. "shadow" \in Kinds /\ "depth" \in Kinds /\ "staging" \in Kinds
    BY DEF Kinds
  <2> QED BY <2>3, <2>4, <2>5
<1> QED BY <1>3, <1>4, <1>5 DEF old

LEMMA InUseIs ==
  ASSUME MemoryIInv
  PROVE  /\ owned \in Seq(Memory!Piece) /\ textures \in Seq(Memory!Piece)
         /\ Place(shadow) /\ Place(depth) /\ Place(staging)
         /\ Memory!InUse = Uses(owned, textures, shadow, depth, staging)
<1> DEFINE use == Memory!InUse
<1>1. use = Uses(owned, textures, shadow, depth, staging)
  BY DEF Memory!InUse, Uses
<1>2. /\ use["owned"] = owned /\ use["textures"] = textures
      /\ use["shadow"] = Memory!One(shadow) /\ use["depth"] = Memory!One(depth)
      /\ use["staging"] = Memory!One(staging)
  BY DEF Memory!InUse
<1>3. use \in [Kinds -> Seq(Memory!Piece)]
  BY DEF MemoryIInv, Held
<1> HIDE DEF use
<1>4. \A u \in Kinds : use[u] \in Seq(Memory!Piece)
  BY <1>3
<1>5. ASSUME NEW r, Memory!One(r) \in Seq(Memory!Piece) PROVE Place(r)
  <2>1. CASE r = None
    BY <2>1 DEF Place
  <2>2. CASE r # None
    <3>1. <<r>> \in Seq(Memory!Piece) /\ <<r>>[1] = r /\ 1 \in 1 .. Len(<<r>>)
      BY <1>5, <2>2 DEF Memory!One
    <3>2. <<r>>[1] \in Memory!Piece
      BY <3>1, ElementOfSeq
    <3> QED BY <3>1, <3>2 DEF Place
  <2> QED BY <2>1, <2>2
<1>6. /\ owned \in Seq(Memory!Piece) /\ textures \in Seq(Memory!Piece)
      /\ Memory!One(shadow) \in Seq(Memory!Piece) /\ Memory!One(depth) \in Seq(Memory!Piece)
      /\ Memory!One(staging) \in Seq(Memory!Piece)
  BY <1>2, <1>4 DEF Kinds
<1> QED BY <1>1, <1>5, <1>6 DEF use

\* The ways to take memory: buffers for all of it, staging and something new, or one
\* thing anew.
TakesFor(ranges) ==
  \/ /\ owned' = owned \o ranges
     /\ UNCHANGED <<textures, shadow, depth, staging>>
  \/ /\ Len(ranges) = 2 /\ staging' = ranges[1]
     /\ \/ owned' = owned \o <<ranges[2]>> /\ UNCHANGED textures
        \/ textures' = Append(textures, ranges[2]) /\ UNCHANGED owned
     /\ UNCHANGED <<shadow, depth>>
  \/ /\ Len(ranges) = 1
     /\ \/ shadow' = ranges[1] /\ UNCHANGED <<depth, staging>>
        \/ depth' = ranges[1] /\ UNCHANGED <<shadow, staging>>
        \/ staging' = ranges[1] /\ UNCHANGED <<shadow, depth>>
     /\ UNCHANGED <<owned, textures>>

LEMMA TakenIInv ==
  ASSUME MemoryAssumption, MemoryIInv, NEW reqs \in Seq(Request), Memory!Take(reqs),
         TakesFor(Memory!Given(reqs).ranges)
  PROVE  MemoryIInv'
<1> DEFINE was == Uses(owned, textures, shadow, depth, staging)
           is  == Uses(owned', textures', shadow', depth', staging')
           ranges == Memory!Given(reqs).ranges
<1>1. Memory!InUse = was /\ (Memory!InUse)' = is
  BY DEF Memory!InUse, Uses
<1>2. /\ None \notin Memory!Piece
      /\ owned \in Seq(Memory!Piece) /\ textures \in Seq(Memory!Piece)
      /\ Place(shadow) /\ Place(depth) /\ Place(staging)
      /\ ranges \in Seq(Memory!Piece)
  BY InUseIs, GivenRanges DEF MemoryAssumption
<1>3. TakesFor(ranges)
  OBVIOUS
<1> HIDE DEF ranges
<1>4. IsSourced(is, was, ranges)
  <2>1. CASE owned' = owned \o ranges /\ UNCHANGED <<textures, shadow, depth, staging>>
    <3>1. IsSourced(Uses(owned \o ranges, textures, shadow, depth, staging), was, ranges)
      BY <1>2, UsesSourced, Zenon
    <3> QED BY <2>1, <3>1
  <2>2. CASE /\ Len(ranges) = 2 /\ staging' = ranges[1]
             /\ \/ owned' = owned \o <<ranges[2]>> /\ UNCHANGED textures
                \/ textures' = Append(textures, ranges[2]) /\ UNCHANGED owned
             /\ UNCHANGED <<shadow, depth>>
    <3>1. IsSourced(Uses(owned \o <<ranges[2]>>, textures, shadow, depth, ranges[1]),
                    was, ranges)
      BY <1>2, <2>2, UsesSourced, Zenon
    <3>2. IsSourced(Uses(owned, Append(textures, ranges[2]), shadow, depth, ranges[1]),
                    was, ranges)
      BY <1>2, <2>2, UsesSourced
    <3> QED BY <2>2, <3>1, <3>2, Zenon
  <2>3. CASE /\ Len(ranges) = 1
             /\ \/ shadow' = ranges[1] /\ UNCHANGED <<depth, staging>>
                \/ depth' = ranges[1] /\ UNCHANGED <<shadow, staging>>
                \/ staging' = ranges[1] /\ UNCHANGED <<shadow, depth>>
             /\ UNCHANGED <<owned, textures>>
    <3>1. /\ IsSourced(Uses(owned, textures, ranges[1], depth, staging), was, ranges)
          /\ IsSourced(Uses(owned, textures, shadow, ranges[1], staging), was, ranges)
          /\ IsSourced(Uses(owned, textures, shadow, depth, ranges[1]), was, ranges)
      BY <1>2, <2>3, UsesSourced, Zenon
    <3> QED BY <2>3, <3>1
  <2> QED BY <1>3, <2>1, <2>2, <2>3, Zenon DEF TakesFor
<1> HIDE DEF was, is
<1>5. IsSourced((Memory!InUse)', Memory!InUse, ranges)
  BY <1>1, <1>4
<1> QED BY <1>5, TakeIInv DEF ranges

LEMMA TakeStep ==
  ASSUME MemoryAssumption, MemoryIInv, NEW size \in Sizes, NEW align \in Aligns,
         \/ Memory!CreateDeviceBuffer(size, align) \/ Memory!CreateGpuBuffer(size, align)
         \/ Memory!CreateTexture(size, align) \/ Memory!CreateShadowMap(size, align)
         \/ Memory!CreateDepth(size, align) \/ Memory!CreateBlas(size, align)
         \/ Memory!CreateTlas(size, align)
  PROVE  MemoryIInv'
<1> DEFINE host  == Memory!Host(size)
           local == Memory!Local(size, align)
           image == Memory!Image(size, align)
           small == Memory!Local(1, align)
           ranges(reqs) == Memory!Given(reqs).ranges
<1>1. host \in Request /\ local \in Request /\ small \in Request /\ image \in Request
      /\ Memory!Host(Tlases) \in Request
  BY Asked
<1>2. /\ <<host, local>> \in Seq(Request) /\ Len(<<host, local>>) = 2
      /\ <<host, image>> \in Seq(Request) /\ Len(<<host, image>>) = 2
      /\ <<local>> \in Seq(Request) /\ Len(<<local>>) = 1
      /\ <<image>> \in Seq(Request) /\ Len(<<image>>) = 1
      /\ <<local, small>> \in Seq(Request)
  BY <1>1
<1>3. ASSUME NEW reqs \in Seq(Request) PROVE Len(ranges(reqs)) = Len(reqs)
  BY <1>3, GivenRanges
<1>4. CASE Memory!CreateDeviceBuffer(size, align)
  <2>1. Memory!Take(<<host, local>>) /\ TakesFor(ranges(<<host, local>>))
    BY <1>2, <1>3, <1>4, Zenon DEF Memory!CreateDeviceBuffer, Memory!Own, Memory!images, TakesFor
  <2> QED BY <1>2, <2>1, TakenIInv, Zenon
<1>5. CASE Memory!CreateGpuBuffer(size, align)
  <2>1. Memory!Take(<<local>>) /\ TakesFor(ranges(<<local>>))
    BY <1>5 DEF Memory!CreateGpuBuffer, Memory!Own, Memory!images, TakesFor
  <2> QED BY <1>2, <2>1, TakenIInv, Zenon
<1>6. CASE Memory!CreateTexture(size, align)
  <2>1. Memory!Take(<<host, image>>) /\ TakesFor(ranges(<<host, image>>))
    BY <1>2, <1>3, <1>6, Zenon DEF Memory!CreateTexture, TakesFor
  <2> QED BY <1>2, <2>1, TakenIInv, Zenon
<1>7. CASE Memory!CreateShadowMap(size, align)
  <2>1. Memory!Take(<<image>>) /\ TakesFor(ranges(<<image>>))
    BY <1>2, <1>3, <1>7, Zenon DEF Memory!CreateShadowMap, TakesFor
  <2> QED BY <1>2, <2>1, TakenIInv, Zenon
<1>8. CASE Memory!CreateDepth(size, align)
  <2>1. Memory!Take(<<image>>) /\ TakesFor(ranges(<<image>>))
    BY <1>2, <1>3, <1>8 DEF Memory!CreateDepth, TakesFor
  <2> QED BY <1>2, <2>1, TakenIInv, Zenon
<1>9. CASE Memory!CreateBlas(size, align)
  <2>1. Memory!Take(<<local, small>>) /\ TakesFor(ranges(<<local, small>>))
    BY <1>9 DEF Memory!CreateBlas, Memory!Own, Memory!images, TakesFor
  <2> QED BY <1>2, <2>1, TakenIInv, Zenon
<1>10. CASE Memory!CreateTlas(size, align)
  <2> DEFINE each == [i \in 1 .. 2 * Tlases |->
                       Memory!Local(IF i % 2 = 1 THEN size ELSE 1, align)]
             reqs == <<Memory!Host(Tlases)>> \o each
  <2>1. Memory!Take(reqs) /\ TakesFor(ranges(reqs))
    BY <1>10 DEF Memory!CreateTlas, Memory!Own, Memory!images, TakesFor
  <2>2. each \in Seq(Request)
    <3>1. \A i \in 1 .. 2 * Tlases :
            Memory!Local(IF i % 2 = 1 THEN size ELSE 1, align) \in Request
      BY <1>1
    <3> HIDE DEF small, local, image
    <3>2. 2 * Tlases \in Nat
      BY DEF MemoryAssumption
    <3> QED BY <3>1, <3>2
  <2> HIDE DEF each
  <2>3. reqs \in Seq(Request)
    BY <1>1, <2>2
  <2> QED BY <2>1, <2>3, TakenIInv, Zenon
<1> QED BY <1>4, <1>5, <1>6, <1>7, <1>8, <1>9, <1>10

LEMMA HostStep ==
  ASSUME MemoryAssumption, MemoryIInv, NEW size \in Sizes,
         Memory!CreateMappedBuffer(size) \/ Memory!UpdateDeviceBuffer(size)
  PROVE  MemoryIInv'
<1> DEFINE reqs == <<Memory!Host(size)>>
<1>1. reqs \in Seq(Request) /\ Len(reqs) = 1
  BY AskedOfHost
<1>2. Len(Memory!Given(reqs).ranges) = 1
  BY <1>1, GivenRanges
<1>3. Memory!Take(reqs) /\ TakesFor(Memory!Given(reqs).ranges)
  BY <1>2, Zenon DEF Memory!CreateMappedBuffer, Memory!UpdateDeviceBuffer, Memory!Own, Memory!images,
           TakesFor
<1> HIDE DEF reqs
<1> QED BY <1>1, <1>3, TakenIInv

\* With some of it gone, the rest is as it was.
LEMMA Dropped ==
  ASSUME NEW bs, NEW use, Held(use, bs), NEW now \in [Kinds -> Seq(Memory!Piece)],
         \A u \in Kinds : now[u] = use[u] \/ now[u] = <<>>
  PROVE  Held(now, bs)
<1>1. \A u \in Kinds : \A i \in DOMAIN now[u] : i \in DOMAIN use[u] /\ now[u][i] = use[u][i]
  OBVIOUS
<1> QED BY <1>1 DEF Held

LEMMA DropStep ==
  ASSUME MemoryIInv, Memory!DestroyDepth \/ Memory!Shutdown
  PROVE  MemoryIInv'
<1> DEFINE was == Uses(owned, textures, shadow, depth, staging)
<1>1. /\ owned \in Seq(Memory!Piece) /\ textures \in Seq(Memory!Piece)
      /\ Place(shadow) /\ Place(depth) /\ Place(staging)
      /\ Memory!InUse = was
      /\ (Memory!InUse)' = Uses(owned', textures', shadow', depth', staging')
  BY InUseIs DEF Memory!InUse, Uses
<1>2. types \in Memory!Machines /\ BlocksFit(blocks) /\ Held(was, blocks)
  BY <1>1 DEF MemoryIInv
<1>3. Place(None) /\ <<>> \in Seq(Memory!Piece) /\ Memory!One(None) = <<>>
  BY DEF Place, Memory!One
<1>4. CASE Memory!DestroyDepth
  <2> DEFINE now == Uses(owned, textures, shadow, None, staging)
  <2>1. (Memory!InUse)' = now /\ types' = types /\ blocks' = blocks
    BY <1>1, <1>4 DEF Memory!DestroyDepth
  <2>2. now \in [Kinds -> Seq(Memory!Piece)]
        /\ \A u \in Kinds : now[u] = was[u] \/ now[u] = <<>>
    BY <1>1, <1>3, UsesIs DEF Kinds
  <2> HIDE DEF now, was
  <2>3. Held(now, blocks)
    BY <1>2, <2>2, Dropped
  <2> QED BY <1>2, <2>1, <2>3 DEF MemoryIInv, BlocksFit, Held
<1>5. CASE Memory!Shutdown
  <2> DEFINE now == Uses(<<>>, <<>>, None, None, None)
  <2>1. (Memory!InUse)' = now /\ types' = types /\ blocks' = <<>>
    BY <1>1, <1>5 DEF Memory!Shutdown
  <2>2. now = [u \in Kinds |-> <<>>]
    BY <1>3 DEF Uses, Kinds
  <2> HIDE DEF now
  <2>3. Held(now, <<>>)
    BY <2>2 DEF Held
  <2>4. BlocksFit(<<>>)'
    BY DEF BlocksFit
  <2> QED BY <1>2, <2>1, <2>3, <2>4 DEF MemoryIInv
<1> QED BY <1>4, <1>5

LEMMA MemoryStep ==
  MemoryAssumption /\ MemoryIInv /\ [Memory!Next]_Memory!vars => MemoryIInv'
<1> SUFFICES ASSUME MemoryAssumption, MemoryIInv, [Memory!Next]_Memory!vars
             PROVE  MemoryIInv'
  OBVIOUS
<1>1. ASSUME NEW size \in Sizes, NEW align \in Aligns,
             \/ Memory!CreateDeviceBuffer(size, align)
             \/ Memory!CreateGpuBuffer(size, align) \/ Memory!CreateTexture(size, align)
             \/ Memory!CreateShadowMap(size, align) \/ Memory!CreateDepth(size, align)
             \/ Memory!CreateBlas(size, align) \/ Memory!CreateTlas(size, align)
      PROVE  MemoryIInv'
  BY <1>1, TakeStep
<1>2. ASSUME NEW size \in Sizes,
             Memory!CreateMappedBuffer(size) \/ Memory!UpdateDeviceBuffer(size)
      PROVE  MemoryIInv'
  BY <1>2, HostStep
<1>3. CASE Memory!DestroyDepth \/ Memory!Shutdown
  BY <1>3, DropStep
<1>4. CASE UNCHANGED Memory!vars
  <2>1. types' = types /\ blocks' = blocks /\ (Memory!InUse)' = Memory!InUse
    BY <1>4 DEF Memory!vars, Memory!InUse
  <2> QED BY <2>1 DEF MemoryIInv, BlocksFit, Held
<1> QED BY <1>1, <1>2, <1>3, <1>4 DEF Memory!Next

\* Nothing in use shares memory with anything else in use, everything lies aligned
\* within its block, and what the CPU writes to is mapped, for blocks, frames, sizes
\* and alignments of any number and value (gpu_alloc.cpp:38-100).
THEOREM MemoryIsItsOwnAlways == Spec => []MemoryIsItsOwn
<1>0. MemoryAssumption
  BY PartsAssumption DEF MemoryAssumption
<1> DEFINE I == part = "memory" => MemoryIInv
<1>1. Init => I
  BY MemoryInit DEF Init
<1>2. I /\ [Next]_vars => I'
  <2> SUFFICES ASSUME I, [Next]_vars, part' = "memory" PROVE MemoryIInv'
    OBVIOUS
  <2>1. part = "memory" /\ [Memory!Next]_Memory!vars
    BY DEF Next, vars, Memory!vars
  <2> QED BY <1>0, <2>1, MemoryStep
<1>3. I => MemoryIsItsOwn
  <2> SUFFICES ASSUME MemoryIInv PROVE Memory!MemoryIsItsOwn
    BY DEF MemoryIsItsOwn
  <2> DEFINE use == Memory!InUse
  <2>1. Held(use, blocks) /\ DOMAIN use = Kinds
    BY DEF MemoryIInv, Memory!InUse, Kinds
  <2> HIDE DEF use
  <2>2. \A u \in Kinds : \A i \in DOMAIN use[u] : Memory!LiesWell(use[u][i])
    BY <2>1 DEF Held, Lies, Memory!LiesWell
  <2> QED BY <2>1, <2>2 DEF Held, Memory!MemoryIsItsOwn, use
<1> QED BY <1>0, <1>1, <1>2, <1>3, PTL DEF Spec
-----------------------------------------------------------------------------
(* The bot.                                                                *)

Waypoint == 1 .. NodeCount

Increases(q) == \A i, j \in DOMAIN q : i < j => q[i] < q[j]

\* The waypoints can be counted.
LEMMA WaypointsFinite ==
  NodeCount \in Nat \ {0} => /\ IsFiniteSet(Waypoint) /\ Cardinality(Waypoint) = NodeCount
                             /\ \A S \in SUBSET Waypoint : IsFiniteSet(S) /\ Cardinality(S) \in Nat
<1> SUFFICES ASSUME NodeCount \in Nat \ {0}
             PROVE  /\ IsFiniteSet(Waypoint) /\ Cardinality(Waypoint) = NodeCount
                    /\ \A S \in SUBSET Waypoint : IsFiniteSet(S) /\ Cardinality(S) \in Nat
  OBVIOUS
<1>1. IsFiniteSet(1 .. NodeCount) /\ Cardinality(1 .. NodeCount) = NodeCount
  BY FS_Interval
<1>2. ASSUME NEW S \in SUBSET (1 .. NodeCount) PROVE IsFiniteSet(S) /\ Cardinality(S) \in Nat
  <2>1. IsFiniteSet(S)
    BY <1>1, FS_Subset, Zenon
  <2> QED BY <2>1, FS_CardinalityType
<1> QED BY <1>1, <1>2 DEF Waypoint

\* Numbers of a bounded set can be listed in order.
LEMMA Listed ==
  ASSUME NEW n \in Nat, NEW S \in SUBSET (1 .. n)
  PROVE  \E q \in [1 .. Cardinality(S) -> S] : Increases(q)
<1> DEFINE A == {k \in Nat : \A T \in SUBSET (1 .. k) :
                   \E q \in [1 .. Cardinality(T) -> T] : Increases(q)}
<1>1. 0 \in A
  <2> SUFFICES ASSUME NEW T \in SUBSET (1 .. 0)
               PROVE  \E q \in [1 .. Cardinality(T) -> T] : Increases(q)
    OBVIOUS
  <2>1. T = {}
    OBVIOUS
  <2>0. Cardinality(T) = 0
    BY <2>1, FS_EmptySet
  <2>2. [i \in 1 .. 0 |-> i] \in [1 .. Cardinality(T) -> T]
    BY <2>0
  <2> QED BY <2>2, Zenon DEF Increases
<1>2. ASSUME NEW k \in Nat, k \in A PROVE k + 1 \in A
  <2> SUFFICES ASSUME NEW T \in SUBSET (1 .. k + 1)
               PROVE  \E q \in [1 .. Cardinality(T) -> T] : Increases(q)
    OBVIOUS
  <2>1. CASE k + 1 \notin T
    <3>1. T \in SUBSET (1 .. k)
      BY <2>1
    <3> QED BY <1>2, <3>1
  <2>2. CASE k + 1 \in T
    <3> DEFINE U == T \ {k + 1}
               c == Cardinality(U)
    <3>1. U \in SUBSET (1 .. k)
      OBVIOUS
    <3>2. PICK q \in [1 .. c -> U] : Increases(q)
      BY <1>2, <3>1, Zenon
    <3>3. IsFiniteSet(T)
      <4>1. IsFiniteSet(1 .. k + 1)
        BY FS_Interval
      <4> QED BY <4>1, FS_Subset, Zenon
    <3>4. c \in Nat /\ Cardinality(T) = c + 1
      <4>1. Cardinality(T) \in Nat
        BY <3>3, FS_CardinalityType
      <4>2. IsFiniteSet(U) /\ c = Cardinality(T) - 1
        BY <2>2, <3>3, FS_RemoveElement
      <4>3. c \in Nat
        BY <4>2, FS_CardinalityType
      <4> QED BY <4>1, <4>2, <4>3
    <3> DEFINE r == [i \in 1 .. c + 1 |-> IF i = c + 1 THEN k + 1 ELSE q[i]]
    <3>5. r \in [1 .. Cardinality(T) -> T]
      BY <2>2, <3>2, <3>4
    <3>6. Increases(r)
      <4> SUFFICES ASSUME NEW i \in 1 .. c + 1, NEW j \in 1 .. c + 1, i < j
                   PROVE  r[i] < r[j]
        BY Zenon DEF Increases
      <4> HIDE DEF c
      <4>0. i \in 1 .. c
        BY <3>4
      <4>1. i \in 1 .. c /\ q[i] \in 1 .. k
        <5>1. q[i] \in U
          BY <3>2, <4>0
        <5> QED BY <3>1, <4>0, <5>1, Zenon
      <4>2. CASE j = c + 1
        BY <4>1, <4>2
      <4>3. CASE j # c + 1
        BY <4>1, <4>3, <3>2, <3>4 DEF Increases
      <4> QED BY <4>2, <4>3
    <3> QED BY <3>5, <3>6, Zenon
  <2> QED BY <2>1, <2>2
<1>3. Nat \subseteq A
  <2> HIDE DEF A
  <2> QED BY <1>1, <1>2, SetInduction
<1> QED BY <1>3, Zenon

\* No node is in q twice.
Distinct(q) == \A i, j \in DOMAIN q : i # j => q[i] # q[j]

\* The bot's count of a set is the count.
LEMMA BotCounts == \A S : Bot!Cardinality(S) = Cardinality(S)
BY DEF Bot!Cardinality, Cardinality

\* The neighbours are queued once each.
LEMMA AscendingIs ==
  ASSUME NodeCount \in Nat \ {0}, NEW S \in SUBSET Waypoint
  PROVE  /\ Bot!Ascending(S) \in Seq(Waypoint) /\ Distinct(Bot!Ascending(S))
         /\ \A i \in 1 .. Len(Bot!Ascending(S)) : Bot!Ascending(S)[i] \in S
         /\ \A x \in S : \E i \in 1 .. Len(Bot!Ascending(S)) : Bot!Ascending(S)[i] = x
<1> DEFINE c == Cardinality(S)
           q == Bot!Ascending(S)
<1>1. IsFiniteSet(S) /\ c \in Nat
  BY WaypointsFinite
<1>2. \E p \in [1 .. c -> S] : \A i, j \in DOMAIN p : i < j => p[i] < p[j]
  BY Listed, Zenon DEF Waypoint, Increases
<1>3. q \in [1 .. c -> S] /\ \A i, j \in DOMAIN q : i < j => q[i] < q[j]
  <2>1. q = CHOOSE p \in [1 .. c -> S] : \A i, j \in DOMAIN p : i < j => p[i] < p[j]
    BY BotCounts DEF Bot!Ascending
  <2> HIDE DEF q
  <2> QED BY <1>2, <2>1, Zenon
<1> HIDE DEF q, c
<1>4. ASSUME NEW i \in 1 .. c, NEW j \in 1 .. c, i # j PROVE q[i] # q[j]
  <2>1. i < j \/ j < i
    BY <1>1, <1>4
  <2>2. q[i] < q[j] \/ q[j] < q[i]
    BY <1>3, <2>1
  <2>3. q[i] \in Nat /\ q[j] \in Nat
    <3>1. q[i] \in Waypoint /\ q[j] \in Waypoint
      BY <1>3
    <3> QED BY <3>1 DEF Waypoint
  <2> QED BY <2>2, <2>3
<1>5. q \in Injection(1 .. c, S)
  BY <1>3, <1>4 DEF Injection, IsInjective
<1>6. Cardinality(1 .. c) = c
  BY <1>1, FS_Interval
<1>7. q \in Surjection(1 .. c, S)
  BY <1>1, <1>5, <1>6, FS_Injection DEF c
<1>8. q \in Seq(Waypoint) /\ Len(q) = c
  <2>1. q \in [1 .. c -> Waypoint]
    BY <1>3
  <2> QED BY <1>1, <2>1
<1>9. Distinct(q)
  BY <1>3, <1>4 DEF Distinct
<1> QED BY <1>1, <1>3, <1>7, <1>8, <1>9 DEF Surjection, q

\* No more than all of them are queued.
LEMMA QueueFits ==
  ASSUME NodeCount \in Nat \ {0}, NEW q \in Seq(Waypoint), Distinct(q)
  PROVE  Len(q) <= NodeCount
<1>1. Len(q) \in Nat /\ DOMAIN q = 1 .. Len(q) /\ q \in [1 .. Len(q) -> Waypoint]
  OBVIOUS
<1>2. q \in Injection(1 .. Len(q), Waypoint)
  BY <1>1 DEF Injection, IsInjective, Distinct
<1>3. Cardinality(1 .. Len(q)) <= Cardinality(Waypoint)
  BY <1>2, FS_Injection, WaypointsFinite
<1>4. Cardinality(1 .. Len(q)) = Len(q)
  BY <1>1, FS_Interval
<1> QED BY <1>3, <1>4, WaypointsFinite

\* Where the links out of B lead.
Ends(g, B) == {e[2] : e \in {e \in g : e[1] \in B}}

\* One link more, and no node that is not one.
LEMMA BallIs ==
  ASSUME NEW g \in SUBSET (Waypoint \X Waypoint), NEW n \in Waypoint
  PROVE  /\ Bot!Ball(g, n)[0] = {n}
         /\ \A k \in Nat : /\ Bot!Ball(g, n)[k] \in SUBSET Waypoint
                           /\ Bot!Ball(g, n)[k + 1] = Bot!Ball(g, n)[k] \cup Ends(g, Bot!Ball(g, n)[k])
<1> DEFINE S == SUBSET Waypoint
           G == [k \in Nat |-> [B \in S |-> B \cup Ends(g, B)]]
<1>1. {n} \in S
  OBVIOUS
<1>2. \A B \in S : B \cup Ends(g, B) \in S
  BY DEF Ends
<1>3. G \in [Nat -> [S -> S]]
  BY <1>2
<1>4. PICK f : Recurs(f, S, {n}, G)
  <2> HIDE DEF G, S
  <2> QED BY <1>1, <1>3, RecursionExists
<1>5. f \in [Nat -> S] /\ f[0] = {n}
  BY <1>4 DEF Recurs
<1>6. ASSUME NEW k \in Nat PROVE f[k + 1] = f[k] \cup Ends(g, f[k])
  <2>1. f[k + 1] = G[k][f[k]]
    <3> HIDE DEF G, S
    <3> QED BY <1>4 DEF Recurs
  <2> QED BY <1>5, <2>1
<1> HIDE DEF S
<1> DEFINE is(h) == h = [k \in Nat |-> IF k = 0 THEN {n} ELSE h[k - 1] \cup Ends(g, h[k - 1])]
<1>7. is(f)
  <2>1. ASSUME NEW k \in Nat, k # 0 PROVE f[k] = f[k - 1] \cup Ends(g, f[k - 1])
    <3>1. k - 1 \in Nat /\ (k - 1) + 1 = k
      BY <2>1
    <3>2. f[(k - 1) + 1] = f[k - 1] \cup Ends(g, f[k - 1])
      BY <1>6, <3>1
    <3> QED BY <3>1, <3>2
  <2> QED BY <1>5, <2>1
<1> DEFINE ball == CHOOSE h : is(h)
<1>8. is(ball)
  <2> HIDE DEF is
  <2> QED BY <1>7
<1>9. Bot!Ball(g, n) = ball
  BY DEF Bot!Ball, Ends
<1> HIDE DEF ball
<1>10. /\ ball[0] = {n} /\ \A k \in Nat : ball[k + 1] = ball[k] \cup Ends(g, ball[k])
  <2>1. ball = [k \in Nat |-> IF k = 0 THEN {n} ELSE ball[k - 1] \cup Ends(g, ball[k - 1])]
    BY <1>8, Zenon
  <2>2. ASSUME NEW k \in Nat PROVE ball[k + 1] = ball[k] \cup Ends(g, ball[k])
    <3>1. k + 1 \in Nat /\ k + 1 # 0 /\ (k + 1) - 1 = k
      OBVIOUS
    <3> QED BY <2>1, <3>1, Zenon
  <2> QED BY <2>1, <2>2, Zenon
<1>11. \A k \in Nat : ball[k] \in SUBSET Waypoint
  <2> DEFINE A == {k \in Nat : ball[k] \in SUBSET Waypoint}
  <2>1. 0 \in A
    BY <1>10
  <2>2. \A k \in Nat : k \in A => k + 1 \in A
    BY <1>10 DEF Ends
  <2>3. Nat \subseteq A
    <3> HIDE DEF A
    <3> QED BY <2>1, <2>2, SetInduction
  <2> QED BY <2>3
<1> QED BY <1>9, <1>10, <1>11

\* What is near a neighbour is one link further away.
LEMMA BallOfNeighbour ==
  ASSUME NEW g \in SUBSET (Waypoint \X Waypoint), NEW a \in Waypoint, NEW b \in Waypoint,
         <<a, b>> \in g
  PROVE  \A k \in Nat : Bot!Ball(g, b)[k] \subseteq Bot!Ball(g, a)[k + 1]
<1> DEFINE B == Bot!Ball(g, b)
           C == Bot!Ball(g, a)
           A == {k \in Nat : B[k] \subseteq C[k + 1]}
<1>1. /\ B[0] = {b}
      /\ \A k \in Nat : B[k] \in SUBSET Waypoint /\ B[k + 1] = B[k] \cup Ends(g, B[k])
  BY BallIs, Zenon
<1>2. /\ C[0] = {a}
      /\ \A k \in Nat : C[k] \in SUBSET Waypoint /\ C[k + 1] = C[k] \cup Ends(g, C[k])
  BY BallIs, Zenon
<1> HIDE DEF B, C
<1>3. 0 \in A
  <2>1. C[0 + 1] = {a} \cup Ends(g, {a})
    BY <1>2, Zenon
  <2>2. b \in Ends(g, {a})
    <3>1. <<a, b>> \in {e \in g : e[1] \in {a}} /\ b = <<a, b>>[2]
      OBVIOUS
    <3> QED BY <3>1 DEF Ends
  <2> QED BY <1>1, <2>1, <2>2
<1>4. ASSUME NEW k \in Nat, k \in A PROVE k + 1 \in A
  <2>1. B[k + 1] = B[k] \cup Ends(g, B[k]) /\ C[(k + 1) + 1] = C[k + 1] \cup Ends(g, C[k + 1])
    BY <1>1, <1>2
  <2>2. Ends(g, B[k]) \subseteq Ends(g, C[k + 1])
    BY <1>4 DEF Ends
  <2> QED BY <1>4, <2>1, <2>2
<1>5. Nat \subseteq A
  <2> HIDE DEF A
  <2> QED BY <1>3, <1>4, SetInduction
<1> QED BY <1>5 DEF B, C

\* The search from `start', its levels counted from there: each node that was met is
\* queued once and linked to its parent earlier in the queue, levels do not fall along
\* the queue nor span more than two from its head on, and whatever is linked to a node
\* that was taken is met, one level on at most.
Searched(g, start, q, h, par, lev) ==
  /\ q \in Seq(Waypoint) /\ h \in 0 .. Len(q)
  /\ par \in [Waypoint -> Waypoint \cup {None}] /\ lev \in [Waypoint -> Nat]
  /\ Len(q) >= 1 /\ q[1] = start /\ par[start] = start /\ lev[start] = 0
  /\ Distinct(q)
  /\ \A n \in Waypoint : par[n] # None <=> \E i \in 1 .. Len(q) : q[i] = n
  /\ \A i \in 2 .. Len(q) : \E m \in 1 .. i - 1 :
       par[q[i]] = q[m] /\ <<q[m], q[i]>> \in g /\ lev[q[i]] = lev[q[m]] + 1
  /\ \A i \in 1 .. Len(q) : lev[q[i]] < i
  /\ \A i, j \in 1 .. Len(q) : i < j => lev[q[i]] <= lev[q[j]]
  /\ h < Len(q) => \A i \in 1 .. Len(q) : lev[q[i]] <= lev[q[h + 1]] + 1
  /\ \A i \in 1 .. h : \A e \in g :
       e[1] = q[i] => par[e[2]] # None /\ lev[e[2]] <= lev[q[i]] + 1

\* What is within k links was met, at level k or before, as far as the head has come.
LEMMA Nearest ==
  ASSUME NEW g \in SUBSET (Waypoint \X Waypoint), NEW start, NEW q, NEW h, NEW par, NEW lev,
         Searched(g, start, q, h, par, lev), start \in Waypoint, None \notin Waypoint,
         NEW top \in Nat, h < Len(q) => top <= lev[q[h + 1]]
  PROVE  \A k \in Nat : k <= top =>
           \A b \in Bot!Ball(g, start)[k] : par[b] # None /\ lev[b] <= k
<1> DEFINE B == Bot!Ball(g, start)
           A == {k \in Nat : k <= top => \A b \in B[k] : par[b] # None /\ lev[b] <= k}
<1>1. /\ B[0] = {start}
      /\ \A k \in Nat : B[k] \in SUBSET Waypoint /\ B[k + 1] = B[k] \cup Ends(g, B[k])
  BY BallIs, Zenon
<1> HIDE DEF B
<1>2. 0 \in A
  BY <1>1 DEF Searched
<1>3. ASSUME NEW k \in Nat, k \in A PROVE k + 1 \in A
  <2> SUFFICES ASSUME k + 1 <= top, NEW b \in B[k + 1]
               PROVE  par[b] # None /\ lev[b] <= k + 1
    OBVIOUS
  <2>1. B[k] \in SUBSET Waypoint /\ B[k + 1] \in SUBSET Waypoint
    BY <1>1
  <2>2. lev \in [Waypoint -> Nat]
    BY DEF Searched
  <2>3. \A a \in B[k] : par[a] # None /\ lev[a] <= k
    BY <1>3
  <2>4. CASE b \in B[k]
    <3>1. lev[b] \in Nat /\ lev[b] <= k /\ par[b] # None
      BY <2>1, <2>2, <2>3, <2>4
    <3> QED BY <3>1
  <2>5. CASE b \notin B[k]
    <3>1. b \in Ends(g, B[k])
      BY <1>1, <2>5
    <3>2. PICK e \in g : e[1] \in B[k] /\ b = e[2]
      BY <3>1 DEF Ends
    <3> DEFINE a == e[1]
    <3>3. a \in Waypoint /\ par[a] # None /\ lev[a] <= k /\ lev[a] \in Nat
      BY <2>1, <2>2, <2>3, <3>2
    <3>4. PICK i \in 1 .. Len(q) : q[i] = a
      BY <3>3, Zenon DEF Searched
    <3>5. i \in 1 .. h
      <4> SUFFICES ASSUME ~(i \in 1 .. h) PROVE FALSE
        OBVIOUS
      <4>1. Len(q) \in Nat /\ h \in Nat
        BY DEF Searched
      <4>2. h < Len(q) /\ h + 1 \in 1 .. Len(q) /\ (h + 1 < i \/ h + 1 = i)
        BY <3>4, <4>1
      <4>3. lev[q[h + 1]] <= lev[q[i]]
        <5>1. q[h + 1] \in Waypoint
          BY <4>2, ElementOfSeq DEF Searched
        <5>2. lev[q[h + 1]] \in Nat
          BY <2>2, <5>1
        <5>3. CASE h + 1 = i
          BY <5>2, <5>3
        <5>4. CASE h + 1 < i
          BY <4>2, <5>4 DEF Searched
        <5> QED BY <4>2, <5>3, <5>4
      <4>4. q[h + 1] \in Waypoint
        BY <4>2, ElementOfSeq DEF Searched
      <4>5. lev[q[h + 1]] \in Nat /\ top <= lev[q[h + 1]] /\ lev[q[h + 1]] <= lev[a]
        BY <2>2, <3>4, <4>2, <4>3, <4>4
      <4> HIDE DEF a
      <4> QED BY <3>3, <4>5
    <3>6. par[b] # None /\ lev[b] <= lev[a] + 1
      BY <3>2, <3>4, <3>5, Zenon DEF Searched
    <3>7. b \in Waypoint
      BY <2>1
    <3>8. lev[b] \in Nat
      BY <2>2, <3>7
    <3> HIDE DEF a
    <3> QED BY <3>3, <3>6, <3>8
  <2> QED BY <2>4, <2>5
<1>4. Nat \subseteq A
  <2> HIDE DEF A
  <2> QED BY <1>2, <1>3, SetInduction
<1> QED BY <1>4 DEF B

\* A node is no nearer than its level.
LEMMA NoNearer ==
  ASSUME NEW g \in SUBSET (Waypoint \X Waypoint), NEW start, NEW q, NEW h, NEW par, NEW lev,
         Searched(g, start, q, h, par, lev), start \in Waypoint, None \notin Waypoint,
         NEW b \in Waypoint, par[b] # None
  PROVE  \A k \in Nat : k < lev[b] => b \notin Bot!Ball(g, start)[k]
<1> SUFFICES ASSUME NEW k \in Nat, k < lev[b], b \in Bot!Ball(g, start)[k] PROVE FALSE
  OBVIOUS
<1>1. lev \in [Waypoint -> Nat] /\ lev[b] \in Nat /\ h \in Nat /\ Len(q) \in Nat
  BY DEF Searched
<1>2. PICK i \in 1 .. Len(q) : q[i] = b
  BY DEF Searched
<1>3. h < Len(q) => k <= lev[q[h + 1]]
  <2> SUFFICES ASSUME h < Len(q) PROVE k <= lev[q[h + 1]]
    OBVIOUS
  <2>1. h + 1 \in 1 .. Len(q)
    BY <1>1
  <2>2. q[h + 1] \in Waypoint
    BY <2>1, ElementOfSeq DEF Searched
  <2>3. lev[q[h + 1]] \in Nat
    BY <1>1, <2>2
  <2>4. lev[b] <= lev[q[h + 1]] + 1
    BY <1>2, Zenon DEF Searched
  <2> QED BY <1>1, <2>3, <2>4
<1>4. k <= k /\ (k <= k => lev[b] <= k)
  <2>1. \A m \in Nat : m <= k =>
          \A c \in Bot!Ball(g, start)[m] : par[c] # None /\ lev[c] <= m
    BY <1>3, Nearest, Zenon
  <2> QED BY <2>1
<1> QED BY <1>1, <1>4

\* A search that ends without the goal met all that is within reach.
LEMMA AllMet ==
  ASSUME NEW g \in SUBSET (Waypoint \X Waypoint), NEW start, NEW q, NEW h, NEW par, NEW lev,
         Searched(g, start, q, h, par, lev), start \in Waypoint, None \notin Waypoint,
         h = Len(q), NEW b \in Waypoint, par[b] = None
  PROVE  \A k \in Nat : b \notin Bot!Ball(g, start)[k]
<1> SUFFICES ASSUME NEW k \in Nat, b \in Bot!Ball(g, start)[k] PROVE FALSE
  OBVIOUS
<1>1. h < Len(q) => k <= lev[q[h + 1]]
  BY DEF Searched
<1>2. \A m \in Nat : m <= k =>
        \A c \in Bot!Ball(g, start)[m] : par[c] # None /\ lev[c] <= m
  BY <1>1, Nearest, Zenon
<1> QED BY <1>2

\* f with x for those of S.
Marked(f, S, x) == [j \in Waypoint |-> IF j \in S THEN x ELSE f[j]]

\* One turn of the search.
LEMMA ExpandKeeps ==
  ASSUME NEW g \in SUBSET (Waypoint \X Waypoint), NEW start \in Waypoint, NEW q, NEW h,
         NEW par, NEW lev, Searched(g, start, q, h, par, lev), None \notin Waypoint, h < Len(q),
         NEW fresh, fresh = {j \in Waypoint : <<q[h + 1], j>> \in g /\ par[j] = None},
         NEW r \in Seq(Waypoint), Distinct(r), \A i \in 1 .. Len(r) : r[i] \in fresh,
         \A x \in fresh : \E i \in 1 .. Len(r) : r[i] = x
  PROVE  Searched(g, start, q \o r, h + 1, Marked(par, fresh, q[h + 1]),
                  Marked(lev, fresh, lev[q[h + 1]] + 1))
<1> DEFINE n  == q[h + 1]
           p  == q \o r
           up == [j \in Waypoint |-> IF j \in fresh THEN n ELSE par[j]]
           deep == [j \in Waypoint |-> IF j \in fresh THEN lev[n] + 1 ELSE lev[j]]
           s  == Len(q)
           t  == Len(r)
<1>1. /\ q \in Seq(Waypoint) /\ s \in Nat /\ t \in Nat /\ h \in Nat /\ h + 1 \in 1 .. s /\ s >= 1
      /\ par \in [Waypoint -> Waypoint \cup {None}] /\ lev \in [Waypoint -> Nat]
  BY DEF Searched
<1>2. n \in Waypoint /\ lev[n] \in Nat
  <2>1. n \in Waypoint
    BY <1>1, ElementOfSeq
  <2> QED BY <1>1, <2>1
<1>3. /\ p \in Seq(Waypoint) /\ Len(p) = s + t
      /\ \A i \in 1 .. s : p[i] = q[i]
      /\ \A i \in s + 1 .. s + t : p[i] = r[i - s]
  <2>1. \A i \in 1 .. s + t : p[i] = IF i <= s THEN q[i] ELSE r[i - s]
    BY <1>1, ConcatProperties
  <2> QED BY <1>1, <2>1, ConcatProperties
<1>4. \A i \in 1 .. s : q[i] \in Waypoint /\ q[i] \notin fresh /\ par[q[i]] # None
  <2>1. \A i \in 1 .. s : q[i] \in Waypoint
    BY <1>1, ElementOfSeq
  <2>2. \A i \in 1 .. s : par[q[i]] # None
    BY <2>1 DEF Searched
  <2> QED BY <2>1, <2>2
<1>5. \A i \in s + 1 .. s + t : i - s \in 1 .. t /\ p[i] \in fresh /\ p[i] \in Waypoint
  <2> SUFFICES ASSUME NEW i \in s + 1 .. s + t
               PROVE  i - s \in 1 .. t /\ p[i] \in fresh /\ p[i] \in Waypoint
    OBVIOUS
  <2>1. i - s \in 1 .. t
    BY <1>1
  <2>2. r[i - s] \in fresh
    BY <2>1
  <2> QED BY <1>3, <2>1, <2>2
<1>6. /\ up \in [Waypoint -> Waypoint \cup {None}] /\ deep \in [Waypoint -> Nat]
      /\ \A i \in 1 .. s : up[q[i]] = par[q[i]] /\ deep[q[i]] = lev[q[i]]
      /\ \A j \in fresh : up[j] = n /\ deep[j] = lev[n] + 1
      /\ \A j \in Waypoint \ fresh : up[j] = par[j] /\ deep[j] = lev[j]
  <2>1. fresh \subseteq Waypoint
    OBVIOUS
  <2>2. \A j \in Waypoint : /\ up[j] = IF j \in fresh THEN n ELSE par[j]
                            /\ deep[j] = IF j \in fresh THEN lev[n] + 1 ELSE lev[j]
    OBVIOUS
  <2>3. up \in [Waypoint -> Waypoint \cup {None}]
    BY <1>1, <1>2
  <2>4. deep \in [Waypoint -> Nat]
    BY <1>1, <1>2
  <2> HIDE DEF up, deep, n, s
  <2> QED BY <1>4, <2>1, <2>2, <2>3, <2>4, Zenon
<1> HIDE DEF p, up, deep, n
<1>7. Distinct(q) /\ DOMAIN q = 1 .. s /\ DOMAIN r = 1 .. t /\ DOMAIN p = 1 .. s + t
  BY <1>1, <1>3 DEF Searched
<1> HIDE DEF s, t
<1>8. \A i, j \in 1 .. s + t : i < j => p[i] # p[j]
  <2> SUFFICES ASSUME NEW i \in 1 .. s + t, NEW j \in 1 .. s + t, i < j PROVE p[i] # p[j]
    OBVIOUS
  <2>1. CASE j <= s
    <3>1. i \in 1 .. s /\ j \in 1 .. s /\ i # j
      BY <1>1, <2>1
    <3> QED BY <1>3, <1>7, <3>1 DEF Distinct
  <2>2. CASE i <= s /\ j > s
    <3>1. i \in 1 .. s /\ j \in s + 1 .. s + t
      BY <1>1, <2>2
    <3> QED BY <1>3, <1>4, <1>5, <3>1, Zenon
  <2>3. CASE i > s
    <3>1. i \in s + 1 .. s + t /\ j \in s + 1 .. s + t
      BY <1>1, <2>3
    <3>2. i - s \in 1 .. t /\ j - s \in 1 .. t /\ i - s # j - s
      BY <1>1, <3>1
    <3>3. r[i - s] # r[j - s]
      BY <1>7, <3>2 DEF Distinct
    <3> QED BY <1>3, <3>1, <3>3
  <2> QED BY <1>1, <2>1, <2>2, <2>3
<1>9. Distinct(p)
  <2> SUFFICES ASSUME NEW i \in 1 .. s + t, NEW j \in 1 .. s + t, i # j PROVE p[i] # p[j]
    BY <1>7 DEF Distinct
  <2>1. i < j \/ j < i
    BY <1>1
  <2> QED BY <1>8, <2>1
<1>10. p[1] = start /\ up[start] = start /\ deep[start] = 0
  <2>1. 1 \in 1 .. s /\ q[1] = start /\ par[start] = start /\ lev[start] = 0
    BY <1>1 DEF Searched
  <2> QED BY <1>3, <1>6, <2>1
<1>11. ASSUME NEW x \in Waypoint PROVE up[x] # None <=> \E i \in 1 .. s + t : p[i] = x
  <2>1. CASE x \in fresh
    <3>1. up[x] # None
      BY <1>2, <1>6, <2>1
    <3>2. PICK i \in 1 .. t : r[i] = x
      BY <2>1 DEF t
    <3>3. s + i \in s + 1 .. s + t /\ (s + i) - s = i /\ s + i \in 1 .. s + t
      BY <1>1
    <3>4. p[s + i] = x
      BY <1>3, <3>2, <3>3
    <3> QED BY <3>1, <3>3, <3>4
  <2>2. CASE x \notin fresh
    <3>1. up[x] = par[x]
      BY <1>6, <2>2
    <3>2. par[x] # None <=> \E i \in 1 .. s : q[i] = x
      BY DEF Searched, s
    <3>3. \A i \in 1 .. s : i \in 1 .. s + t /\ p[i] = q[i]
      BY <1>1, <1>3
    <3>4. ASSUME NEW i \in 1 .. s + t, p[i] = x PROVE i \in 1 .. s
      <4>1. i \notin s + 1 .. s + t
        BY <1>5, <2>2, <3>4, Zenon
      <4> QED BY <1>1, <4>1
    <3> QED BY <3>1, <3>2, <3>3, <3>4
  <2> QED BY <2>1, <2>2
<1>12. ASSUME NEW i \in 2 .. s + t
       PROVE  \E m \in 1 .. i - 1 : up[p[i]] = p[m] /\ <<p[m], p[i]>> \in g /\ deep[p[i]] = deep[p[m]] + 1
  <2>1. CASE i <= s
    <3>1. i \in 2 .. s /\ i \in 1 .. s
      BY <1>1, <2>1
    <3>2. PICK m \in 1 .. i - 1 :
            par[q[i]] = q[m] /\ <<q[m], q[i]>> \in g /\ lev[q[i]] = lev[q[m]] + 1
      BY <3>1, Zenon DEF Searched, s
    <3>3. m \in 1 .. s
      BY <1>1, <3>1
    <3>4. p[i] = q[i] /\ p[m] = q[m]
      BY <1>3, <3>1, <3>3
    <3>5. up[p[i]] = par[q[i]] /\ deep[p[i]] = lev[q[i]] /\ deep[p[m]] = lev[q[m]]
      BY <1>6, <3>1, <3>3, <3>4
    <3> QED BY <3>2, <3>4, <3>5, Zenon
  <2>2. CASE i > s
    <3>1. i \in s + 1 .. s + t /\ h + 1 \in 1 .. i - 1 /\ h + 1 \in 1 .. s
      BY <1>1, <2>2
    <3>2. p[i] \in fresh /\ p[h + 1] = n /\ up[n] = par[n] /\ deep[n] = lev[n]
      BY <1>3, <1>5, <1>6, <3>1, Zenon DEF n
    <3>3. <<n, p[i]>> \in g
      BY <3>2 DEF n
    <3>4. up[p[i]] = n /\ deep[p[i]] = lev[n] + 1
      BY <1>6, <3>2
    <3> QED BY <3>1, <3>2, <3>3, <3>4, Zenon
  <2>3. i <= s \/ i > s
    BY <1>1
  <2> QED BY <2>1, <2>2, <2>3
<1>13. /\ \A i \in 1 .. s : lev[q[i]] \in Nat /\ lev[q[i]] < i /\ lev[q[i]] <= lev[n] + 1
       /\ \A i, j \in 1 .. s : i < j => lev[q[i]] <= lev[q[j]]
       /\ lev[n] < h + 1
  BY <1>1, <1>4 DEF Searched, s, n
<1>14. /\ \A i \in 1 .. s : deep[p[i]] = lev[q[i]]
       /\ \A i \in s + 1 .. s + t : deep[p[i]] = lev[n] + 1
  BY <1>3, <1>5, <1>6, Zenon
<1>15. ASSUME NEW i \in 1 .. s + t PROVE deep[p[i]] < i /\ deep[p[i]] <= lev[n] + 1 /\ deep[p[i]] \in Nat
  <2>1. CASE i <= s
    <3>1. i \in 1 .. s
      BY <1>1, <2>1
    <3> QED BY <1>13, <1>14, <3>1
  <2>2. CASE i > s
    <3>1. i \in s + 1 .. s + t
      BY <1>1, <2>2
    <3>2. deep[p[i]] = lev[n] + 1
      BY <1>14, <3>1
    <3> QED BY <1>1, <1>2, <1>13, <2>2, <3>2
  <2> QED BY <1>1, <2>1, <2>2
<1>16. ASSUME NEW i \in 1 .. s + t, NEW j \in 1 .. s + t, i < j PROVE deep[p[i]] <= deep[p[j]]
  <2>1. CASE j <= s
    <3>1. i \in 1 .. s /\ j \in 1 .. s
      BY <1>1, <1>16, <2>1
    <3> QED BY <1>13, <1>14, <1>16, <3>1
  <2>2. CASE j > s
    <3>1. j \in s + 1 .. s + t
      BY <1>1, <2>2
    <3>2. deep[p[j]] = lev[n] + 1
      BY <1>14, <3>1
    <3> QED BY <1>15, <3>2
  <2> QED BY <1>1, <2>1, <2>2
<1>17. ASSUME h + 1 < s + t, NEW i \in 1 .. s + t
       PROVE  deep[p[i]] <= deep[p[(h + 1) + 1]] + 1
  <2>1. h + 1 \in 1 .. s + t /\ (h + 1) + 1 \in 1 .. s + t /\ h + 1 < (h + 1) + 1
    BY <1>1, <1>17
  <2>2. deep[p[h + 1]] <= deep[p[(h + 1) + 1]]
    BY <1>16, <2>1
  <2>3. deep[p[h + 1]] = lev[n]
    BY <1>1, <1>14 DEF n
  <2>4. deep[p[i]] <= lev[n] + 1 /\ deep[p[i]] \in Nat /\ deep[p[(h + 1) + 1]] \in Nat
    BY <1>15, <2>1
  <2> QED BY <1>2, <2>2, <2>3, <2>4
<1>18. ASSUME NEW i \in 1 .. h + 1, NEW e \in g, e[1] = p[i]
       PROVE  up[e[2]] # None /\ deep[e[2]] <= deep[p[i]] + 1
  <2>1. i \in 1 .. s /\ p[i] = q[i] /\ deep[p[i]] = lev[q[i]] /\ lev[q[i]] \in Nat
    BY <1>1, <1>3, <1>13, <1>14
  <2>2. e[2] \in Waypoint /\ e = <<e[1], e[2]>>
    OBVIOUS
  <2>3. CASE i <= h
    <3>1. i \in 1 .. h
      BY <1>1, <2>3
    <3>2. par[e[2]] # None /\ lev[e[2]] <= lev[q[i]] + 1
      BY <1>18, <2>1, <3>1 DEF Searched
    <3>3. e[2] \in Waypoint \ fresh
      BY <2>2, <3>2
    <3> QED BY <1>6, <2>1, <3>2, <3>3
  <2>4. CASE i = h + 1
    <3>1. q[i] = n /\ <<n, e[2]>> \in g
      BY <1>18, <2>1, <2>2, <2>4 DEF n
    <3>2. CASE e[2] \in fresh
      <4>1. up[e[2]] = n /\ deep[e[2]] = lev[n] + 1
        BY <1>6, <3>2, Zenon
      <4> QED BY <1>2, <2>1, <3>1, <4>1
    <3>3. CASE e[2] \notin fresh
      <4>1. par[e[2]] # None
        BY <2>2, <3>1, <3>3 DEF n
      <4>2. PICK m \in 1 .. s : q[m] = e[2]
        BY <2>2, <4>1 DEF Searched, s
      <4>3. lev[e[2]] <= lev[n] + 1
        BY <1>13, <4>2
      <4>4. up[e[2]] = par[e[2]] /\ deep[e[2]] = lev[e[2]]
        BY <1>6, <2>2, <3>3
      <4> QED BY <2>1, <3>1, <4>1, <4>3, <4>4
    <3> QED BY <3>2, <3>3
  <2> QED BY <1>1, <2>3, <2>4
<1>19. h + 1 \in 0 .. s + t /\ s + t >= 1
  BY <1>1
<1>20. Searched(g, start, p, h + 1, up, deep)
  <2>1. Len(p) = s + t
    BY <1>3
  <2>2. \A i \in 1 .. h + 1 : \A e \in g :
          e[1] = p[i] => up[e[2]] # None /\ deep[e[2]] <= deep[p[i]] + 1
    BY <1>18
  <2>3. \A i, j \in 1 .. Len(p) : i < j => deep[p[i]] <= deep[p[j]]
    BY <1>16, <2>1
  <2>4. h + 1 < Len(p) => \A i \in 1 .. Len(p) : deep[p[i]] <= deep[p[(h + 1) + 1]] + 1
    BY <1>17, <2>1
  <2>5. p \in Seq(Waypoint) /\ h + 1 \in 0 .. Len(p) /\ Len(p) >= 1
    BY <1>3, <1>19
  <2>6. up \in [Waypoint -> Waypoint \cup {None}] /\ deep \in [Waypoint -> Nat]
    BY <1>6
  <2>7. \A i \in 1 .. Len(p) : deep[p[i]] < i
    BY <1>15, <2>1
  <2>8. \A x \in Waypoint : up[x] # None <=> \E i \in 1 .. Len(p) : p[i] = x
    BY <1>11, <2>1
  <2>9. \A i \in 2 .. Len(p) : \E m \in 1 .. i - 1 :
          up[p[i]] = p[m] /\ <<p[m], p[i]>> \in g /\ deep[p[i]] = deep[p[m]] + 1
    BY <1>12, <2>1
  <2> QED
    BY <1>9, <1>10, <2>2, <2>3, <2>4, <2>5, <2>6, <2>7, <2>8, <2>9, Zenon DEF Searched
<1> QED
  BY <1>20 DEF p, up, deep, n, Marked

BotAssumption == NodeCount \in Nat \ {0} /\ None \notin Nat

\* The first k whose ball holds b is how far it is.
LEMMA FarIs ==
  ASSUME BotAssumption, NEW a, NEW b, NEW k \in Nat, k <= NodeCount,
         b \in Bot!Ball(links, a)[k], \A i \in Nat : i < k => b \notin Bot!Ball(links, a)[i]
  PROVE  Bot!Far(a, b) = k
<1> DEFINE B == Bot!Ball(links, a)
           P(j) == b \in B[j] /\ \A i \in 0 .. j - 1 : b \notin B[i]
           far == Bot!Far(a, b)
<1>1. Bot!Cardinality(1 .. NodeCount) = NodeCount
  BY BotCounts, WaypointsFinite DEF BotAssumption, Waypoint
<1>2. far = CHOOSE j \in 0 .. NodeCount : P(j)
  BY <1>1 DEF Bot!Far
<1> HIDE DEF far
<1>3. k \in 0 .. NodeCount
  BY DEF BotAssumption
<1> HIDE DEF B
<1>4. P(k)
  BY DEF B
<1>5. far \in 0 .. NodeCount /\ P(far)
  <2> HIDE DEF P
  <2> QED BY <1>2, <1>3, <1>4
<1>6. far \in Nat /\ ~(far < k)
  BY <1>5 DEF B, BotAssumption
<1>7. ~(k < far)
  <2> SUFFICES ASSUME k < far PROVE FALSE
    OBVIOUS
  <2>1. k \in 0 .. far - 1
    BY <1>6
  <2> QED BY <1>4, <1>5, <2>1
<1> QED BY <1>6, <1>7 DEF far

\* On the way back: the goal is as many links ahead as it is levels ahead.
OnTheWay(start, lev) ==
  /\ hop \in Waypoint /\ parent[hop] # None /\ goal \in Waypoint /\ parent[goal] # None
  /\ lev[hop] <= lev[goal] /\ goal \in Bot!Ball(links, hop)[lev[goal] - lev[hop]]
  /\ goal # start => hop # start

\* While it searches and on the way back, there are levels that fit; what it found is
\* kept until it acts.
BotIInv ==
  /\ Bot!TypeOK
  /\ pc \in {"think", "search", "back", "act"}
  /\ cmd.does = "walk" => cmd.to \in Waypoint
  /\ pc \in {"search", "back"} =>
       /\ goal \in Waypoint
       /\ \E lev : /\ Searched(links, me.at, queue, head, parent, lev)
                   /\ pc = "back" => OnTheWay(me.at, lev)
  /\ Bot!HopIsShortest

\* Whoever is not the first of the queue has a parent, one level nearer the start.
LEMMA ParentIs ==
  ASSUME NEW g, NEW start, NEW q, NEW h, NEW par, NEW lev, Searched(g, start, q, h, par, lev),
         None \notin Waypoint, NEW n \in Waypoint, par[n] # None, n # start
  PROVE  /\ par[n] \in Waypoint /\ par[par[n]] # None /\ <<par[n], n>> \in g
         /\ lev[n] = lev[par[n]] + 1 /\ lev[n] \in Nat /\ lev[par[n]] \in Nat
<1>1. PICK i \in 1 .. Len(q) : q[i] = n
  BY DEF Searched
<1>2. i \in 2 .. Len(q) /\ q \in Seq(Waypoint) /\ Len(q) \in Nat /\ lev \in [Waypoint -> Nat]
  BY <1>1 DEF Searched
<1>3. PICK m \in 1 .. i - 1 : par[n] = q[m] /\ <<q[m], n>> \in g /\ lev[n] = lev[q[m]] + 1
  BY <1>1, <1>2, Zenon DEF Searched
<1>4. m \in 1 .. Len(q)
  BY <1>2
<1>5. q[m] \in Waypoint
  BY <1>2, <1>4, ElementOfSeq
<1>6. par[q[m]] # None
  BY <1>4, <1>5 DEF Searched
<1> QED BY <1>2, <1>3, <1>5, <1>6

\* The hop arrived at is linked to the start, and one link nearer the goal.
LEMMA ArriveIsNearer ==
  ASSUME BotAssumption, links \in SUBSET (Waypoint \X Waypoint), NEW start \in Waypoint,
         NEW lev, Searched(links, start, queue, head, parent, lev), OnTheWay(start, lev),
         parent[hop] = start, goal # start
  PROVE  <<start, hop>> \in links /\ Bot!Far(hop, goal) = Bot!Far(start, goal) - 1
<1>1. None \notin Waypoint
  BY DEF BotAssumption, Waypoint
<1>2. hop \in Waypoint /\ parent[hop] # None /\ hop # start
  BY DEF OnTheWay
<1>3. <<start, hop>> \in links /\ lev[hop] = lev[start] + 1
  BY <1>1, <1>2, ParentIs
<1>4. lev[start] = 0 /\ lev \in [Waypoint -> Nat]
  BY DEF Searched
<1>5. goal \in Waypoint /\ parent[goal] # None /\ lev[goal] \in Nat
  BY <1>4 DEF OnTheWay
<1> DEFINE k == lev[goal]
<1>6. k - 1 \in Nat /\ (k - 1) + 1 = k /\ goal \in Bot!Ball(links, hop)[k - 1]
  BY <1>3, <1>4, <1>5 DEF OnTheWay
<1>7. k < NodeCount
  <2>1. PICK i \in 1 .. Len(queue) : queue[i] = goal
    BY <1>5 DEF Searched
  <2>2. k < i /\ Len(queue) \in Nat /\ Len(queue) <= NodeCount
    BY <2>1, QueueFits DEF Searched, BotAssumption
  <2> QED BY <1>5, <2>2 DEF BotAssumption
<1>8. \A j \in Nat : j < k => goal \notin Bot!Ball(links, start)[j]
  BY <1>1, <1>5, NoNearer, Zenon
<1>9. \A j \in Nat : Bot!Ball(links, hop)[j] \subseteq Bot!Ball(links, start)[j + 1]
  BY <1>2, <1>3, BallOfNeighbour
<1>10. goal \in Bot!Ball(links, start)[k]
  BY <1>6, <1>9
<1>11. \A j \in Nat : j < k - 1 => goal \notin Bot!Ball(links, hop)[j]
  <2> SUFFICES ASSUME NEW j \in Nat, j < k - 1, goal \in Bot!Ball(links, hop)[j] PROVE FALSE
    OBVIOUS
  <2>1. j + 1 \in Nat /\ j + 1 < k
    BY <1>5
  <2>2. goal \in Bot!Ball(links, start)[j + 1]
    BY <1>9
  <2> QED BY <1>8, <2>1, <2>2
<1>12. k \in Nat /\ k <= NodeCount /\ k - 1 <= NodeCount
  BY <1>5, <1>7 DEF BotAssumption
<1> HIDE DEF k
<1>13. Bot!Far(start, goal) = k
  BY <1>8, <1>10, <1>12, FarIs
<1>14. Bot!Far(hop, goal) = k - 1
  BY <1>6, <1>11, <1>12, FarIs
<1> QED BY <1>3, <1>13, <1>14

LEMMA BotInit == BotAssumption /\ Bot!Init => BotIInv
<1> SUFFICES ASSUME BotAssumption, Bot!Init PROVE BotIInv
  OBVIOUS
<1>1. Bot!Cardinality(1 .. NodeCount) = NodeCount
  BY BotCounts, WaypointsFinite DEF BotAssumption, Waypoint
<1>2. /\ links \in Bot!Graphs /\ me \in [at : 1 .. NodeCount, alive : {TRUE}]
      /\ goal = None /\ hop = None
      /\ parent = [n \in 1 .. NodeCount |-> None] /\ queue = <<>> /\ head = 0
      /\ cmd = [does |-> "nothing", to |-> None] /\ pc = "think"
  BY Zenon DEF Bot!Init, Bot!Nothing
<1>3. Len(<<>>) = 0 /\ <<>> \in Seq(1 .. NodeCount)
  OBVIOUS
<1>4. me \in [at : 1 .. NodeCount, alive : BOOLEAN]
  BY <1>2, Zenon
<1>5. Bot!TypeOK
  BY <1>1, <1>2, <1>3, <1>4 DEF Bot!TypeOK, BotAssumption
<1>6. Bot!HopIsShortest
  BY <1>2 DEF Bot!HopIsShortest
<1> QED BY <1>2, <1>5, <1>6 DEF BotIInv

\* Its types, with the waypoints counted.
BotTypes ==
  /\ links \in Bot!Graphs
  /\ me \in [at : Waypoint, alive : BOOLEAN]
  /\ goal \in Waypoint \cup {None} /\ hop \in Waypoint \cup {None}
  /\ parent \in [Waypoint -> Waypoint \cup {None}]
  /\ queue \in Seq(Waypoint) /\ Len(queue) <= NodeCount /\ head \in 0 .. Len(queue)
  /\ cmd.to \in Waypoint \cup {None}

LEMMA BotTypesAre ==
  NodeCount \in Nat \ {0} => (Bot!TypeOK <=> BotTypes) /\ (Bot!TypeOK' <=> BotTypes')
<1> SUFFICES ASSUME NodeCount \in Nat \ {0}
             PROVE  (Bot!TypeOK <=> BotTypes) /\ (Bot!TypeOK' <=> BotTypes')
  OBVIOUS
<1>1. Bot!Cardinality(1 .. NodeCount) = NodeCount
  BY BotCounts, WaypointsFinite DEF Waypoint
<1>2. Bot!TypeOK <=> BotTypes
  BY <1>1, Zenon DEF Bot!TypeOK, BotTypes, Waypoint
<1>3. Bot!TypeOK' <=> BotTypes'
  BY <1>1, Zenon DEF Bot!TypeOK, BotTypes, Waypoint
<1> QED BY <1>2, <1>3

\* The queue with the start in it is a search.
LEMMA SearchBegins ==
  ASSUME NEW g, NEW n \in Waypoint, None \notin Waypoint
  PROVE  Searched(g, n, <<n>>, 0, [j \in Waypoint |-> IF j = n THEN j ELSE None],
                  [j \in Waypoint |-> 0])
<1> DEFINE q == <<n>>
           par == [j \in Waypoint |-> IF j = n THEN j ELSE None]
           lev == [j \in Waypoint |-> 0]
<1>1. q \in Seq(Waypoint) /\ Len(q) = 1 /\ q[1] = n /\ DOMAIN q = 1 .. 1
  OBVIOUS
<1>2. /\ par \in [Waypoint -> Waypoint \cup {None}] /\ lev \in [Waypoint -> Nat]
      /\ \A j \in Waypoint : lev[j] = 0 /\ (par[j] # None <=> j = n)
      /\ par[n] = n
  OBVIOUS
<1>3. 1 .. 1 = {1} /\ 1 .. 0 = {} /\ 2 .. 1 = {} /\ 0 \in 0 .. 1
  OBVIOUS
<1> HIDE DEF q, par, lev
<1>4. Distinct(q)
  BY <1>1, <1>3 DEF Distinct
<1>5. \A i \in 1 .. Len(q) : q[i] = n
  BY <1>1, <1>3
<1>6. Searched(g, n, q, 0, par, lev)
  <2>1. /\ \A i \in 2 .. Len(q) : \E m \in 1 .. i - 1 :
             par[q[i]] = q[m] /\ <<q[m], q[i]>> \in g /\ lev[q[i]] = lev[q[m]] + 1
        /\ \A i \in 1 .. 0 : \A e \in g :
             e[1] = q[i] => par[e[2]] # None /\ lev[e[2]] <= lev[q[i]] + 1
    BY <1>1, <1>3
  <2>2. /\ \A i, j \in 1 .. Len(q) : i < j => lev[q[i]] <= lev[q[j]]
        /\ \A i \in 1 .. Len(q) : lev[q[i]] < i
        /\ 0 < Len(q) => \A i \in 1 .. Len(q) : lev[q[i]] <= lev[q[0 + 1]] + 1
    BY <1>1, <1>2, <1>3, <1>5
  <2>3. \A j \in Waypoint : par[j] # None <=> \E i \in 1 .. Len(q) : q[i] = j
    BY <1>1, <1>2, <1>3, <1>5
  <2> QED BY <1>1, <1>2, <1>3, <1>4, <2>1, <2>2, <2>3 DEF Searched
<1> QED BY <1>6 DEF q, par, lev

LEMMA BotThinks ==
  ASSUME BotAssumption, BotIInv, Bot!ThinkNothing \/ Bot!ThinkFight \/ Bot!ThinkHunt
  PROVE  BotIInv'
<1> USE DEF BotAssumption
<1>1. BotTypes /\ None \notin Waypoint
  BY BotTypesAre DEF BotIInv, Waypoint
<1>2. BotTypes' => Bot!TypeOK'
  BY BotTypesAre
<1>3. CASE Bot!ThinkNothing \/ Bot!ThinkFight
  <2>1. /\ pc' = "act" /\ cmd'.does # "walk" /\ cmd'.does # "hold" /\ cmd'.to = None
        /\ UNCHANGED <<links, me, goal, parent, queue, head, hop>>
    BY <1>3 DEF Bot!ThinkNothing, Bot!ThinkFight, Bot!search, Bot!Nothing, Bot!Fight
  <2>2. BotTypes'
    BY <1>1, <2>1 DEF BotTypes
  <2>3. Bot!HopIsShortest'
    BY <2>1 DEF Bot!HopIsShortest, BotIInv
  <2> QED BY <1>2, <2>1, <2>2, <2>3 DEF BotIInv
<1>4. CASE Bot!ThinkHunt
  <2>1. /\ goal' \in Waypoint /\ pc' = "search" /\ queue' = <<me.at>> /\ head' = 0
        /\ parent' = [j \in Waypoint |-> IF j = me.at THEN j ELSE None]
        /\ UNCHANGED <<links, me, hop, cmd>>
    BY <1>1, <1>4 DEF Bot!ThinkHunt, BotTypes, Waypoint
  <2>2. me.at \in Waypoint
    BY <1>1 DEF BotTypes
  <2> DEFINE lev == [j \in Waypoint |-> 0]
  <2>3. Searched(links, me.at, queue, head, parent, lev)'
    <3>1. Searched(links, me.at, <<me.at>>, 0,
                   [j \in Waypoint |-> IF j = me.at THEN j ELSE None], lev)
      BY <1>1, <2>2, SearchBegins
    <3> QED BY <2>1, <3>1
  <2> HIDE DEF lev
  <2>4. BotTypes'
    <3>1. /\ parent' \in [Waypoint -> Waypoint \cup {None}] /\ queue' \in Seq(Waypoint)
          /\ Len(queue') = 1 /\ head' \in 0 .. Len(queue')
      BY <2>1, <2>2
    <3> QED BY <1>1, <2>1, <3>1 DEF BotTypes
  <2>5. Bot!HopIsShortest'
    <3>1. \A i, j \in DOMAIN queue' : i # j => queue'[i] # queue'[j]
      BY <2>1
    <3> QED BY <2>1, <3>1 DEF Bot!HopIsShortest
  <2>6. (cmd.does = "walk" => cmd.to \in Waypoint)'
    BY <2>1 DEF BotIInv
  <2> QED BY <1>2, <2>1, <2>3, <2>4, <2>5, <2>6 DEF BotIInv
<1> QED BY <1>3, <1>4

LEMMA ExpandIInv == BotAssumption /\ BotIInv /\ Bot!Expand => BotIInv'
<1> SUFFICES ASSUME BotAssumption, BotIInv, Bot!Expand PROVE BotIInv'
  OBVIOUS
<1> USE DEF BotAssumption
<1>1. BotTypes /\ None \notin Waypoint
  BY BotTypesAre DEF BotIInv, Waypoint
<1> DEFINE n     == queue[head + 1]
           fresh == {j \in Bot!Linked(n) : parent[j] = None}
           r     == Bot!Ascending(fresh)
<1>2. PICK lev : Searched(links, me.at, queue, head, parent, lev)
  BY DEF BotIInv, Bot!Expand
<1>3. /\ pc = "search" /\ head < Len(queue) /\ queue' = queue \o r /\ head' = head + 1
      /\ parent' = [j \in Waypoint |-> IF j \in fresh THEN n ELSE parent[j]]
      /\ UNCHANGED <<links, me, goal, hop, cmd, pc>>
  BY DEF Bot!Expand, Waypoint
<1>4. fresh = {j \in Waypoint : <<queue[head + 1], j>> \in links /\ parent[j] = None}
  BY DEF Bot!Linked, Waypoint
<1>5. fresh \in SUBSET Waypoint
  BY <1>4, Zenon
<1> HIDE DEF fresh
<1>6. /\ r \in Seq(Waypoint) /\ Distinct(r) /\ \A i \in 1 .. Len(r) : r[i] \in fresh
      /\ \A x \in fresh : \E i \in 1 .. Len(r) : r[i] = x
  BY <1>5, AscendingIs
<1> HIDE DEF r
<1>7. links \in SUBSET (Waypoint \X Waypoint) /\ me.at \in Waypoint
  BY <1>1 DEF BotTypes, Bot!Graphs, Waypoint
<1>8. PICK lev2 : Searched(links, me.at, queue \o r, head + 1, Marked(parent, fresh, n), lev2)
  BY <1>1, <1>2, <1>3, <1>4, <1>6, <1>7, ExpandKeeps, Zenon
<1>9. Searched(links, me.at, queue, head, parent, lev2)'
  BY <1>3, <1>8 DEF Marked
<1>10. /\ queue' \in Seq(Waypoint) /\ head' \in 0 .. Len(queue') /\ Distinct(queue')
       /\ parent' \in [Waypoint -> Waypoint \cup {None}]
  BY <1>9 DEF Searched
<1>11. Len(queue') <= NodeCount
  BY <1>10, QueueFits
<1>12. BotTypes'
  BY <1>1, <1>3, <1>10, <1>11 DEF BotTypes
<1>13. Bot!TypeOK'
  BY <1>12, BotTypesAre
<1>14. Bot!HopIsShortest'
  BY <1>3, <1>10 DEF Bot!HopIsShortest, Distinct
<1>15. goal' \in Waypoint /\ (cmd.does = "walk" => cmd.to \in Waypoint)'
  BY <1>3 DEF BotIInv
<1> QED BY <1>3, <1>9, <1>13, <1>14, <1>15, Zenon DEF BotIInv

LEMMA WayBackIInv ==
  ASSUME BotAssumption, BotIInv, Bot!Found \/ Bot!Back PROVE BotIInv'
<1> USE DEF BotAssumption
<1>1. BotTypes /\ None \notin Waypoint
  BY BotTypesAre DEF BotIInv, Waypoint
<1>2. /\ links \in SUBSET (Waypoint \X Waypoint) /\ me.at \in Waypoint
      /\ UNCHANGED <<links, me, goal, parent, queue, head, cmd>>
      /\ pc' = "back" /\ goal \in Waypoint
  BY <1>1 DEF BotTypes, Bot!Graphs, Bot!Found, Bot!Back, BotIInv, Waypoint
<1>3. PICK lev : /\ Searched(links, me.at, queue, head, parent, lev)
                 /\ pc = "back" => OnTheWay(me.at, lev)
  BY DEF BotIInv, Bot!Found, Bot!Back
<1>4. lev \in [Waypoint -> Nat]
  BY <1>3 DEF Searched
<1>5. OnTheWay(me.at, lev)'
  <2>1. CASE Bot!Found
    <3>1. hop' = goal /\ parent[goal] # None
      BY <2>1 DEF Bot!Found
    <3>2. lev[goal] \in Nat
      BY <1>2, <1>4
    <3>3. lev[goal] <= lev[goal] /\ lev[goal] - lev[goal] = 0
      BY <3>2
    <3>4. Bot!Ball(links, goal)[0] = {goal}
      BY <1>2, BallIs, Zenon
    <3> QED BY <1>2, <3>1, <3>3, <3>4 DEF OnTheWay
  <2>2. CASE Bot!Back
    <3> DEFINE up == parent[hop]
    <3>1. hop' = up /\ up # me.at /\ OnTheWay(me.at, lev)
      BY <1>3, <2>2 DEF Bot!Back
    <3>2. hop \in Waypoint /\ parent[hop] # None /\ hop # me.at
      BY <1>3, <3>1, Zenon DEF OnTheWay, Searched
    <3>3. /\ up \in Waypoint /\ parent[up] # None /\ <<up, hop>> \in links
          /\ lev[hop] = lev[up] + 1 /\ lev[hop] \in Nat /\ lev[up] \in Nat
      BY <1>1, <1>3, <3>2, ParentIs
    <3> HIDE DEF up
    <3>4. /\ lev[goal] \in Nat /\ lev[hop] <= lev[goal] /\ parent[goal] # None
          /\ goal \in Bot!Ball(links, hop)[lev[goal] - lev[hop]]
      BY <1>2, <1>4, <3>1 DEF OnTheWay
    <3>5. /\ lev[up] <= lev[goal] /\ lev[goal] - lev[hop] \in Nat
          /\ lev[goal] - lev[up] = (lev[goal] - lev[hop]) + 1
      BY <3>3, <3>4
    <3>6. goal \in Bot!Ball(links, up)[lev[goal] - lev[up]]
      BY <1>2, <3>2, <3>3, <3>4, <3>5, BallOfNeighbour
    <3> QED BY <1>2, <3>1, <3>3, <3>4, <3>5, <3>6 DEF OnTheWay
  <2> QED BY <2>1, <2>2
<1>6. Searched(links, me.at, queue, head, parent, lev)'
  BY <1>2, <1>3
<1>7. hop' \in Waypoint
  BY <1>5 DEF OnTheWay
<1>8. BotTypes'
  BY <1>1, <1>2, <1>7 DEF BotTypes
<1>9. Bot!TypeOK'
  BY <1>8, BotTypesAre
<1>10. Bot!HopIsShortest'
  BY <1>2 DEF Bot!HopIsShortest, BotIInv
<1>11. goal' \in Waypoint /\ (cmd.does = "walk" => cmd.to \in Waypoint)'
  BY <1>2 DEF BotIInv
<1> QED BY <1>2, <1>5, <1>6, <1>9, <1>10, <1>11 DEF BotIInv

LEMMA SearchEndsIInv ==
  ASSUME BotAssumption, BotIInv, Bot!Arrive \/ Bot!NoRoute PROVE BotIInv'
<1> USE DEF BotAssumption
<1>1. BotTypes /\ None \notin Waypoint
  BY BotTypesAre DEF BotIInv, Waypoint
<1>2. /\ links \in SUBSET (Waypoint \X Waypoint) /\ me.at \in Waypoint
      /\ UNCHANGED <<links, me, goal, parent, queue, head, hop>>
      /\ pc' = "act" /\ goal \in Waypoint
  BY <1>1 DEF BotTypes, Bot!Graphs, Bot!Arrive, Bot!NoRoute, Bot!search, BotIInv, Waypoint
<1>3. PICK lev : /\ Searched(links, me.at, queue, head, parent, lev)
                 /\ pc = "back" => OnTheWay(me.at, lev)
  BY DEF BotIInv, Bot!Arrive, Bot!NoRoute
<1>4. \A i, j \in DOMAIN queue' : i # j => queue'[i] # queue'[j]
  BY <1>2 DEF BotIInv, Bot!HopIsShortest
<1>5. CASE Bot!Arrive
  <2>1. cmd' = [does |-> "walk", to |-> hop] /\ parent[hop] = me.at /\ OnTheWay(me.at, lev)
    BY <1>3, <1>5 DEF Bot!Arrive, Bot!Walk
  <2>2. hop \in Waypoint
    BY <2>1 DEF OnTheWay
  <2>3. goal # me.at =>
          <<me.at, hop>> \in links /\ Bot!Far(hop, goal) = Bot!Far(me.at, goal) - 1
    BY <1>2, <1>3, <2>1, ArriveIsNearer
  <2>4. goal # me.at =>
          hop \in Bot!Linked(me.at) /\ Bot!Far(hop, goal) = Bot!Far(me.at, goal) - 1
    BY <2>2, <2>3 DEF Bot!Linked, Waypoint
  <2>5. BotTypes'
    BY <1>1, <1>2, <2>1, <2>2 DEF BotTypes
  <2>6. Bot!TypeOK'
    BY <2>5, BotTypesAre
  <2>7. (Bot!Far(hop, goal) = Bot!Far(me.at, goal) - 1)
          => (Bot!Far(hop, goal) = Bot!Far(me.at, goal) - 1)'
    BY <1>2 DEF Bot!Far
  <2>8. Bot!HopIsShortest'
    BY <1>2, <1>4, <2>1, <2>4, <2>7 DEF Bot!HopIsShortest, Bot!Linked
  <2> QED BY <1>2, <2>1, <2>2, <2>6, <2>8 DEF BotIInv
<1>6. CASE Bot!NoRoute
  <2>1. cmd' = [does |-> "hold", to |-> None] /\ head = Len(queue) /\ parent[goal] = None
    BY <1>6 DEF Bot!NoRoute, Bot!Hold
  <2>2. \A k \in Nat : goal \notin Bot!Ball(links, me.at)[k]
    BY <1>1, <1>2, <1>3, <2>1, AllMet, Zenon
  <2>3. Bot!Cardinality(1 .. NodeCount) - 1 \in Nat
    <3>1. Bot!Cardinality(1 .. NodeCount) = NodeCount
      BY BotCounts, WaypointsFinite DEF Waypoint
    <3> QED BY <3>1
  <2>4. goal \notin Bot!Reach(me.at)
    BY <2>2, <2>3 DEF Bot!Reach
  <2>5. goal' \notin Bot!Reach(me.at)'
    BY <1>2, <2>4 DEF Bot!Reach
  <2>6. BotTypes'
    BY <1>1, <1>2, <2>1 DEF BotTypes
  <2>7. Bot!TypeOK'
    BY <2>6, BotTypesAre
  <2>8. Bot!HopIsShortest'
    BY <1>4, <2>1, <2>5 DEF Bot!HopIsShortest
  <2> QED BY <1>2, <2>1, <2>7, <2>8 DEF BotIInv
<1> QED BY <1>5, <1>6

LEMMA BotActs == BotAssumption /\ BotIInv /\ Bot!Act => BotIInv'
<1> SUFFICES ASSUME BotAssumption, BotIInv, Bot!Act PROVE BotIInv'
  OBVIOUS
<1> USE DEF BotAssumption
<1>1. BotTypes
  BY BotTypesAre DEF BotIInv
<1>2. /\ me' \in [at : Waypoint, alive : BOOLEAN]
      /\ goal' = None /\ parent' = [n \in Waypoint |-> None] /\ queue' = <<>> /\ head' = 0
      /\ hop' = None /\ pc' = "think" /\ UNCHANGED <<links, cmd>>
  BY DEF Bot!Act, Waypoint
<1>3. BotTypes'
  <2>1. /\ parent' \in [Waypoint -> Waypoint \cup {None}] /\ queue' \in Seq(Waypoint)
        /\ Len(queue') = 0 /\ head' \in 0 .. Len(queue')
    BY <1>2
  <2> QED BY <1>1, <1>2, <2>1 DEF BotTypes
<1>4. Bot!TypeOK'
  BY <1>3, BotTypesAre
<1>5. Bot!HopIsShortest'
  BY <1>2 DEF Bot!HopIsShortest
<1>6. (cmd.does = "walk" => cmd.to \in Waypoint)'
  BY <1>2 DEF BotIInv
<1> QED BY <1>2, <1>4, <1>5, <1>6 DEF BotIInv

LEMMA BotStep == BotAssumption /\ BotIInv /\ [Bot!Next]_Bot!vars => BotIInv'
<1> SUFFICES ASSUME BotAssumption, BotIInv, [Bot!Next]_Bot!vars PROVE BotIInv'
  OBVIOUS
<1>1. CASE UNCHANGED Bot!vars
  <2>1. UNCHANGED <<links, me, goal, parent, queue, head, hop, cmd, pc>>
    BY <1>1 DEF Bot!vars
  <2>2. BotTypes'
    BY <2>1, BotTypesAre DEF BotTypes, BotIInv, BotAssumption
  <2>3. Bot!TypeOK'
    BY <2>2, BotTypesAre DEF BotAssumption
  <2>4. Bot!HopIsShortest'
    BY <2>1, Zenon DEF BotIInv, Bot!HopIsShortest, Bot!Linked, Bot!Far, Bot!Reach
  <2>5. ASSUME NEW lev PROVE OnTheWay(me.at, lev) => OnTheWay(me.at, lev)'
    BY <2>1 DEF OnTheWay
  <2>6. ASSUME NEW lev
        PROVE  Searched(links, me.at, queue, head, parent, lev)
                 => Searched(links, me.at, queue, head, parent, lev)'
    BY <2>1
  <2> QED BY <2>1, <2>3, <2>4, <2>5, <2>6 DEF BotIInv
<1> QED BY <1>1, BotThinks, ExpandIInv, WayBackIInv, SearchEndsIInv, BotActs
        DEF Bot!Next

\* On a graph of any shape and size: no waypoint is queued twice, the hop found is a
\* link away and one nearer the goal, and a bot stands still only where there is no
\* way (sim_nav.cpp:98-123).
THEOREM HopIsShortestAlways == Spec => []HopIsShortest
<1>0. BotAssumption
  BY PartsAssumption DEF BotAssumption
<1> DEFINE I == part = "bot" => BotIInv
<1>1. Init => I
  BY <1>0, BotInit DEF Init
<1>2. I /\ [Next]_vars => I'
  <2> SUFFICES ASSUME I, [Next]_vars, part' = "bot" PROVE BotIInv'
    OBVIOUS
  <2>1. part = "bot" /\ [Bot!Next]_Bot!vars
    BY DEF Next, vars, Bot!vars
  <2> QED BY <1>0, <2>1, BotStep
<1>3. I => HopIsShortest
  BY DEF HopIsShortest, BotIInv
<1> QED BY <1>1, <1>2, <1>3, PTL DEF Spec

-----------------------------------------------------------------------------
(* The scene.                                                              *)

\* The part of PartsAssumption that its frames need.
SceneAssumption ==
  /\ SceneFrames \in Nat \ {0}
  /\ MaxInstances \in Nat /\ Rivals \in 0 .. MaxInstances - 1
  /\ MaxDraws \in Nat \ {0, 1} /\ HighestClip \in Nat /\ Submeshes \in Nat \ {0}

LEMMA SceneCounts == \A S : Scene!Cardinality(S) = Cardinality(S)
BY DEF Scene!Cardinality, Cardinality

\* How many of S are no greater than x.
Rank(S, x) == Cardinality({y \in S : y <= x})

\* A rank grows by one at each member, and by nothing in between.
LEMMA RankGrows ==
  ASSUME NEW S \in SUBSET (Nat \ {0})
  PROVE  /\ Rank(S, 0) = 0
         /\ \A x \in Nat : /\ Rank(S, x) \in Nat
                           /\ Rank(S, x + 1) = IF x + 1 \in S THEN Rank(S, x) + 1 ELSE Rank(S, x)
<1> DEFINE T(x) == {y \in S : y <= x}
<1>0. \A y \in S : y \in Nat /\ ~ (y <= 0)
  OBVIOUS
<1>1. T(0) = {}
  BY <1>0, Zenon
<1>2. ASSUME NEW x \in Nat PROVE IsFiniteSet(T(x)) /\ Cardinality(T(x)) \in Nat
  <2>1. T(x) \in SUBSET Nat /\ \A y \in T(x) : y <= x
    BY Zenon
  <2> HIDE DEF T
  <2>2. IsFiniteSet(T(x))
    BY <2>1, FS_BoundedSetOfNaturals
  <2> QED BY <2>2, FS_CardinalityType
<1>3. ASSUME NEW x \in Nat
      PROVE  Cardinality(T(x + 1)) = IF x + 1 \in S THEN Cardinality(T(x)) + 1 ELSE Cardinality(T(x))
  <2>1. CASE x + 1 \in S
    <3>0. \A y \in S : y <= x + 1 <=> y <= x \/ y = x + 1
      OBVIOUS
    <3>1. x + 1 \notin T(x)
      OBVIOUS
    <3>2. ASSUME NEW y PROVE y \in T(x + 1) <=> y \in T(x) \cup {x + 1}
      BY <2>1, <3>0, Zenon
    <3>3. T(x + 1) = T(x) \cup {x + 1}
      BY <3>2
    <3> HIDE DEF T
    <3>4. Cardinality(T(x) \cup {x + 1}) = Cardinality(T(x)) + 1
      BY <1>2, <3>1, FS_AddElement, Zenon
    <3> QED BY <2>1, <3>3, <3>4
  <2>2. CASE x + 1 \notin S
    <3>0. \A y \in S : y <= x + 1 <=> y <= x
      BY <2>2
    <3>1. T(x + 1) = T(x)
      BY <3>0, Zenon
    <3> QED BY <2>2, <3>1
  <2> QED BY <2>1, <2>2
<1>4. \A x : Rank(S, x) = Cardinality(T(x))
  BY DEF Rank
<1> HIDE DEF T
<1> QED BY <1>1, <1>2, <1>3, <1>4, FS_EmptySet

\* No rank is left out, and no two members share one.
LEMMA RanksFit ==
  ASSUME NEW n \in Nat, NEW S \in SUBSET (1 .. n)
  PROVE  /\ Cardinality(S) \in 0 .. n
         /\ \A x \in S : Rank(S, x) \in 1 .. Cardinality(S)
         /\ \A j \in 1 .. Cardinality(S) : \E x \in S : Rank(S, x) = j
         /\ \A x, y \in S : x < y => Rank(S, x) < Rank(S, y)
<1>1. S \in SUBSET (Nat \ {0}) /\ S \in SUBSET Nat
  OBVIOUS
<1>2. /\ Rank(S, 0) = 0
      /\ \A x \in Nat : /\ Rank(S, x) \in Nat
                        /\ Rank(S, x + 1) = IF x + 1 \in S THEN Rank(S, x) + 1 ELSE Rank(S, x)
  BY <1>1, RankGrows
<1>3. Rank(S, n) = Cardinality(S)
  <2>0. \A y \in S : y <= n
    OBVIOUS
  <2>1. {y \in S : y <= n} = S
    BY <2>0, Zenon
  <2> QED BY <2>1, Zenon DEF Rank
<1>4. \A x \in Nat : Rank(S, x) <= x /\ \A j \in 1 .. Rank(S, x) : \E y \in S : Rank(S, y) = j
  <2> DEFINE A == {x \in Nat : Rank(S, x) <= x
                                /\ \A j \in 1 .. Rank(S, x) : \E y \in S : Rank(S, y) = j}
  <2>1. 0 \in A
    BY <1>2
  <2>2. ASSUME NEW x \in Nat, x \in A PROVE x + 1 \in A
    <3>1. CASE x + 1 \in S
      <4>1. Rank(S, x + 1) = Rank(S, x) + 1 /\ Rank(S, x) \in Nat
        BY <1>2, <3>1
      <4>2. Rank(S, x + 1) <= x + 1
        BY <2>2, <4>1
      <4>3. ASSUME NEW j \in 1 .. Rank(S, x + 1) PROVE \E y \in S : Rank(S, y) = j
        <5>1. j = Rank(S, x + 1) \/ j \in 1 .. Rank(S, x)
          BY <4>1
        <5> QED BY <2>2, <3>1, <5>1
      <4> QED BY <4>2, <4>3
    <3>2. CASE x + 1 \notin S
      <4>1. Rank(S, x + 1) = Rank(S, x) /\ Rank(S, x) \in Nat
        BY <1>2, <3>2
      <4> QED BY <2>2, <4>1
    <3> QED BY <3>1, <3>2
  <2>3. Nat \subseteq A
    <3> HIDE DEF A
    <3> QED BY <2>1, <2>2, SetInduction
  <2> QED BY <2>3
<1>5. \A x \in Nat : \A y \in Nat : x <= y => Rank(S, x) <= Rank(S, y)
  <2> SUFFICES ASSUME NEW x \in Nat PROVE \A y \in Nat : x <= y => Rank(S, x) <= Rank(S, y)
    OBVIOUS
  <2> DEFINE A == {y \in Nat : x <= y => Rank(S, x) <= Rank(S, y)}
  <2>1. 0 \in A
    BY <1>2
  <2>2. ASSUME NEW y \in Nat, y \in A PROVE y + 1 \in A
    <3>1. Rank(S, y) <= Rank(S, y + 1) /\ Rank(S, y) \in Nat /\ Rank(S, y + 1) \in Nat
          /\ Rank(S, x) \in Nat
      BY <1>2
    <3>2. CASE x <= y
      <4>1. Rank(S, x) <= Rank(S, y)
        BY <2>2, <3>2
      <4> QED BY <3>1, <4>1
    <3>3. CASE ~(x <= y)
      <4>1. x <= y + 1 => x = y + 1
        BY <3>3
      <4> QED BY <3>1, <4>1
    <3> QED BY <3>2, <3>3
  <2>3. Nat \subseteq A
    <3> HIDE DEF A
    <3> QED BY <2>1, <2>2, SetInduction
  <2> QED BY <2>3
<1>6. ASSUME NEW x \in S PROVE /\ x - 1 \in Nat /\ Rank(S, x) = Rank(S, x - 1) + 1
                               /\ Rank(S, x - 1) \in Nat /\ Rank(S, x) <= Rank(S, n)
  <2>1. x \in Nat /\ x - 1 \in Nat /\ (x - 1) + 1 = x /\ x <= n
    OBVIOUS
  <2>2. Rank(S, (x - 1) + 1) = Rank(S, x - 1) + 1 /\ Rank(S, x - 1) \in Nat
    BY <1>2, <2>1
  <2>3. Rank(S, x) <= Rank(S, n)
    BY <1>5, <2>1
  <2> QED BY <2>1, <2>2, <2>3
<1>7. ASSUME NEW x \in S, NEW y \in S, x < y PROVE Rank(S, x) < Rank(S, y)
  <2>1. x \in Nat /\ y - 1 \in Nat /\ x <= y - 1
    BY <1>7
  <2>2. Rank(S, x) <= Rank(S, y - 1) /\ Rank(S, x) \in Nat
    BY <1>2, <1>5, <2>1
  <2>3. Rank(S, y) = Rank(S, y - 1) + 1 /\ Rank(S, y - 1) \in Nat
    BY <1>6
  <2> QED BY <2>2, <2>3
<1>8. Cardinality(S) \in 0 .. n
  <2>1. Rank(S, n) \in Nat /\ Rank(S, n) <= n
    BY <1>2, <1>4
  <2> QED BY <1>3, <2>1
<1>9. ASSUME NEW x \in S PROVE Rank(S, x) \in 1 .. Cardinality(S)
  BY <1>3, <1>6, <1>8
<1>10. ASSUME NEW j \in 1 .. Cardinality(S) PROVE \E x \in S : Rank(S, x) = j
  BY <1>3, <1>4
<1> QED BY <1>7, <1>8, <1>9, <1>10

\* A set in its order has each of its members, at its rank.
LEMMA OrderFits ==
  ASSUME NEW n \in Nat, NEW S \in SUBSET (1 .. n)
  PROVE  /\ Cardinality(S) \in 0 .. n
         /\ DOMAIN Scene!InOrder(S) = 1 .. Cardinality(S)
         /\ Scene!InOrder(S) \in Seq(1 .. n) /\ Len(Scene!InOrder(S)) = Cardinality(S)
         /\ \A k \in 1 .. Cardinality(S) : Scene!InOrder(S)[k] \in S
         /\ \A x \in S : Rank(S, x) \in 1 .. Cardinality(S) /\ Scene!InOrder(S)[Rank(S, x)] = x
<1> DEFINE of(k) == CHOOSE x \in S : Scene!Cardinality({y \in S : y <= x}) = k
           L == Scene!InOrder(S)
<1>1. L = [k \in 1 .. Cardinality(S) |-> of(k)]
  <2>1. L = [k \in 1 .. Scene!Cardinality(S) |-> of(k)]
    BY DEF Scene!InOrder
  <2> HIDE DEF L, of
  <2> QED BY <2>1, SceneCounts
<1> HIDE DEF L
<1>2. ASSUME NEW k \in 1 .. Cardinality(S) PROVE of(k) \in S /\ Rank(S, of(k)) = k
  <2>1. \E x \in S : Rank(S, x) = k
    BY RanksFit
  <2>2. \E x \in S : Scene!Cardinality({y \in S : y <= x}) = k
    BY <2>1, SceneCounts DEF Rank
  <2>3. of(k) \in S /\ Scene!Cardinality({y \in S : y <= of(k)}) = k
    BY <2>2, Zenon
  <2> QED BY <2>3, SceneCounts DEF Rank
<1> HIDE DEF of
<1>3. Cardinality(S) \in 0 .. n
  BY RanksFit
<1>4. DOMAIN L = 1 .. Cardinality(S) /\ \A k \in 1 .. Cardinality(S) : L[k] = of(k)
  BY <1>1
<1>5. L \in [1 .. Cardinality(S) -> 1 .. n]
  BY <1>1, <1>2, Zenon
<1>6. L \in Seq(1 .. n) /\ Len(L) = Cardinality(S)
  BY <1>3, <1>5
<1>7. ASSUME NEW x \in S PROVE Rank(S, x) \in 1 .. Cardinality(S) /\ L[Rank(S, x)] = x
  <2>1. Rank(S, x) \in 1 .. Cardinality(S)
    BY RanksFit, Zenon
  <2>2. of(Rank(S, x)) \in S /\ Rank(S, of(Rank(S, x))) = Rank(S, x)
    BY <1>2, <2>1
  <2>3. \A a, b \in S : a < b => Rank(S, a) < Rank(S, b)
    BY RanksFit, Zenon
  <2>4. ASSUME NEW a \in S, NEW b \in S, Rank(S, a) = Rank(S, b) PROVE a = b
    <3>1. ~(a < b) /\ ~(b < a)
      <4>1. Rank(S, a) \in Int /\ Rank(S, b) \in Int
        <5>1. Rank(S, a) \in 1 .. Cardinality(S) /\ Rank(S, b) \in 1 .. Cardinality(S)
          BY RanksFit
        <5> QED BY <1>3, <5>1
      <4> QED BY <2>3, <2>4, <4>1
    <3>2. a \in Int /\ b \in Int
      OBVIOUS
    <3> QED BY <3>1, <3>2
  <2> QED BY <1>4, <2>1, <2>2, <2>4, Zenon
<1> QED BY <1>2, <1>3, <1>4, <1>6, <1>7 DEF L

\* Those who are posed, and those whose bodies and weapons are drawn.
BodySet == {i \in Scene!Posed(world) : Scene!Rigged => i < MaxInstances}
ArmedSet == {i \in Scene!Posed(world) : Scene!Rigged /\ world.body[i].alive}

LEMMA PosedAreOthers ==
  ASSUME SceneAssumption
  PROVE  /\ Rivals \in Nat
         /\ Scene!Posed(world) \in SUBSET (1 .. Rivals)
         /\ BodySet \in SUBSET (1 .. Rivals) /\ ArmedSet \in SUBSET (1 .. Rivals)
         /\ Scene!Bodies(world) = Scene!InOrder(BodySet)
         /\ Scene!Armed(world) = Scene!InOrder(ArmedSet)
<1>1. Rivals \in Nat
  BY DEF SceneAssumption
<1>2. Scene!Posed(world) \in SUBSET (1 .. Rivals)
  BY DEF Scene!Posed
<1>3. BodySet \in SUBSET (1 .. Rivals) /\ ArmedSet \in SUBSET (1 .. Rivals)
  BY <1>2 DEF BodySet, ArmedSet
<1>4. Scene!Bodies(world) = Scene!InOrder(BodySet)
  BY DEF Scene!Bodies, BodySet
<1>5. Scene!Armed(world) = Scene!InOrder(ArmedSet)
  BY DEF Scene!Armed, ArmedSet
<1> QED BY <1>1, <1>2, <1>3, <1>4, <1>5

\* Each robot's record names one of those whose bodies show ...
LEMMA BodyOf ==
  ASSUME SceneAssumption
  PROVE  /\ Len(Scene!Bodies(world)) \in Nat
         /\ Len(Scene!Bodies(world)) * Submeshes \in Nat
         /\ \A k \in 1 .. Len(Scene!Bodies(world)) * Submeshes :
              Scene!Bodies(world)[(k - 1) \div Submeshes + 1] \in BodySet
<1> DEFINE L == Scene!Bodies(world)
<1>1. Rivals \in Nat /\ BodySet \in SUBSET (1 .. Rivals) /\ L = Scene!InOrder(BodySet)
  BY PosedAreOthers
<1> HIDE DEF L
<1>2. /\ Cardinality(BodySet) \in 0 .. Rivals /\ Len(L) = Cardinality(BodySet)
      /\ \A k \in 1 .. Cardinality(BodySet) : L[k] \in BodySet
  BY <1>1, OrderFits, Zenon
<1>3. Len(L) \in Nat /\ Submeshes \in Nat \ {0}
  BY <1>1, <1>2 DEF SceneAssumption
<1>4. ASSUME NEW n \in Nat, NEW s \in Nat \ {0}, NEW k \in 1 .. n * s
      PROVE  (k - 1) \div s + 1 \in 1 .. n
  <2> DEFINE d == (k - 1) \div s
  <2>1. k - 1 \in Nat /\ n * s \in Nat /\ k <= n * s
    OBVIOUS
  <2>2. d \in Nat /\ d * s <= k - 1
    BY <2>1
  <2> HIDE DEF d
  <2>3. ~ (n <= d)
    <3> SUFFICES ASSUME n <= d PROVE FALSE
      OBVIOUS
    <3>1. n * s <= d * s
      BY <2>2
    <3> QED BY <2>1, <2>2, <3>1
  <2>4. d + 1 \in 1 .. n
    BY <2>2, <2>3
  <2> QED BY <2>4 DEF d
<1>5. Len(L) * Submeshes \in Nat
  BY <1>3
<1>6. ASSUME NEW k \in 1 .. Len(L) * Submeshes PROVE L[(k - 1) \div Submeshes + 1] \in BodySet
  <2>1. (k - 1) \div Submeshes + 1 \in 1 .. Len(L)
    BY <1>3, <1>4
  <2> QED BY <1>2, <2>1
<1> QED BY <1>3, <1>5, <1>6 DEF L

LEMMA HudFits == \E n \in Nat : DOMAIN Scene!Hud(world) = 1 .. n
<1> DEFINE T == {"score", "health", "kills", "ammo", "grenades", "core", "union", "shroud", "respawn"}
           s(p, q) == IF p THEN q ELSE <<>>
           a == world.body[0].alive
           mm == Scene!Merged(world, 0)
           A == <<"score", "health", "kills">>
           B == s(a /\ ~mm, <<"ammo", "grenades">>)
           C == s(mm, <<"core">>)
           D == s(a /\ world.mech /\ world.pilot = None, <<"union">>)
           E == s(~a, <<"shroud", "respawn">>)
<1>1. Scene!Hud(world) = A \o B \o C \o D \o E
  BY DEF Scene!Hud
<1>2. A \in Seq(T) /\ B \in Seq(T) /\ C \in Seq(T) /\ D \in Seq(T)
      /\ E \in Seq(T)
  <2>1. /\ <<"score", "health", "kills">> \in Seq(T)
        /\ <<"ammo", "grenades">> \in Seq(T) /\ <<"shroud", "respawn">> \in Seq(T)
        /\ <<"core">> \in Seq(T) /\ <<"union">> \in Seq(T)
        /\ <<>> \in Seq(T)
    <3>1. ASSUME NEW S, NEW x \in S, NEW y \in S, NEW z \in S
          PROVE  <<>> \in Seq(S) /\ <<x>> \in Seq(S) /\ <<x, y>> \in Seq(S) /\ <<x, y, z>> \in Seq(S)
      OBVIOUS
    <3>2. "score" \in T /\ "health" \in T /\ "kills" \in T /\ "ammo" \in T
          /\ "grenades" \in T /\ "shroud" \in T /\ "respawn" \in T
          /\ "core" \in T /\ "union" \in T
      OBVIOUS
    <3> HIDE DEF T
    <3> QED BY <3>1, <3>2, Zenon
  <2> HIDE DEF T
  <2>2. ASSUME NEW p, NEW q, q \in Seq(T) PROVE (IF p THEN q ELSE <<>>) \in Seq(T)
    BY <2>1, <2>2
  <2> QED BY <2>1, <2>2
<1> HIDE DEF A, B, C, D, E, T
<1>3. A \o B \o C \o D \o E \in Seq(T)
  BY <1>2
<1> DEFINE h == A \o B \o C \o D \o E
<1> HIDE DEF h
<1>4. h \in Seq(T)
  BY <1>3 DEF h
<1>5. DOMAIN h = 1 .. Len(h) /\ Len(h) \in Nat
  BY <1>4
<1> QED BY <1>1, <1>5 DEF h

\* Every model's records are numbered from one; the gun has one.
LEMMA WantedFits ==
  ASSUME SceneAssumption, NEW m \in Scene!Models
  PROVE  \E n \in Nat : DOMAIN Scene!Wanted(world)[m] = 1 .. n /\ (m = "gun" => n = 1)
<1> DEFINE W == Scene!Wanted(world)
<1>1. \A p, t : \E n \in Nat : DOMAIN Scene!If(p, t) = 1 .. n
  <2> SUFFICES ASSUME NEW p, NEW t PROVE \E n \in Nat : DOMAIN Scene!If(p, t) = 1 .. n
    OBVIOUS
  <2>1. CASE p
    <3>1. DOMAIN Scene!If(p, t) = 1 .. 1
      BY <2>1 DEF Scene!If
    <3> QED BY <3>1
  <2>2. CASE ~p
    <3>1. DOMAIN Scene!If(p, t) = 1 .. 0
      BY <2>2 DEF Scene!If
    <3> QED BY <3>1
  <2> QED BY <2>1, <2>2
<1>2. CASE m = "gun"
  <2>1. W[m] = Scene!If(TRUE, "gun")
    BY <1>2 DEF Scene!Wanted
  <2>2. DOMAIN W[m] = 1 .. 1
    BY <2>1 DEF Scene!If
  <2> QED BY <2>2
<1>3. CASE m = "trooper"
  <2> DEFINE N == Len(Scene!Bodies(world)) * Submeshes
  <2>1. DOMAIN W[m] = 1 .. N
    BY <1>3 DEF Scene!Wanted
  <2>2. N \in Nat
    BY BodyOf
  <2> QED BY <1>3, <2>1, <2>2
<1>4. CASE m = "bot_gun"
  <2>1. DOMAIN W[m] = DOMAIN Scene!Armed(world)
    BY <1>4 DEF Scene!Wanted
  <2>2. DOMAIN Scene!Armed(world) = 1 .. Cardinality(ArmedSet) /\ Cardinality(ArmedSet) \in Nat
    BY PosedAreOthers, OrderFits
  <2> QED BY <1>4, <2>1, <2>2
<1>5. CASE m = "overlay"
  <2>1. DOMAIN W[m] = DOMAIN Scene!Hud(world)
    BY <1>5 DEF Scene!Wanted
  <2> QED BY <1>5, <2>1, HudFits
<1>6. CASE m \in {"mech", "grenade", "blast", "tracer", "tracer_vm", "hitmarker", "viewmodel"}
  <2>1. \E p, t : W[m] = Scene!If(p, t)
    <3>1. \A x \in {"mech"} : m = x => W[m] = Scene!If(world.mech /\ world.pilot # 0, "mech")
      BY DEF Scene!Wanted
    <3>2. m = "grenade" => W[m] = Scene!If(world.grenade, "grenade")
      BY DEF Scene!Wanted
    <3>3. m = "blast" => W[m] = Scene!If(Scene!Fireball(world), "blast")
      BY DEF Scene!Wanted
    <3>4. m = "tracer" => W[m] = Scene!If(world.shot \in 1 .. Rivals /\ world.body[world.shot].alive, "shot")
      BY DEF Scene!Wanted
    <3>5. m = "tracer_vm" => W[m] = Scene!If(world.shot = 0 /\ world.body[0].alive, "shot")
      BY DEF Scene!Wanted
    <3>6. m = "hitmarker" => W[m] = Scene!If(world.shot = 0, "hit")
      BY DEF Scene!Wanted
    <3>7. m = "viewmodel" => W[m] = Scene!If(TRUE, "hands")
      BY DEF Scene!Wanted
    <3> HIDE DEF W
    <3> QED BY <1>6, <3>1, <3>2, <3>3, <3>4, <3>5, <3>6, <3>7, Zenon
  <2>2. PICK p, t : W[m] = Scene!If(p, t)
    BY <2>1
  <2>3. m # "gun"
    BY <1>6
  <2> QED BY <1>1, <2>2, <2>3
<1>7. m \in {"gun", "trooper", "bot_gun", "overlay", "mech", "grenade", "blast", "tracer",
             "tracer_vm", "hitmarker", "viewmodel"}
  BY DEF Scene!Models, Scene!FirstPerson
<1> QED BY <1>2, <1>3, <1>4, <1>5, <1>6, <1>7

\* What was loaded is known, and a trooper that was not has no clips.
LoadedFits == clips \in Nat /\ ("trooper" \notin loaded => clips = 0)

\* A model's queue is numbered from one, fits its draws, and is empty unless it is loaded.
LEMMA RecordsFit ==
  ASSUME SceneAssumption, NEW m \in Scene!Models
  PROVE  \E n \in 0 .. MaxDraws :
           /\ DOMAIN Scene!Queued(world)[m] = 1 .. n
           /\ m \notin loaded => n = 0
           /\ m = "gun" => n <= 1
<1> DEFINE W == Scene!Wanted(world)[m]
           F == [k \in DOMAIN W \cap (1 .. MaxDraws) |-> W[k]]
<1>1. Scene!Queued(world)[m] = IF m \in loaded THEN F ELSE <<>>
  BY DEF Scene!Queued
<1>2. PICK n \in Nat : DOMAIN W = 1 .. n /\ (m = "gun" => n = 1)
  BY WantedFits
<1> HIDE DEF W
<1>3. MaxDraws \in Nat \ {0, 1}
  BY DEF SceneAssumption
<1>4. CASE m \notin loaded
  <2>1. DOMAIN Scene!Queued(world)[m] = 1 .. 0
    BY <1>1, <1>4
  <2> QED BY <1>3, <2>1
<1>5. CASE m \in loaded
  <2> DEFINE l == IF n < MaxDraws THEN n ELSE MaxDraws
  <2>1. (1 .. n) \cap (1 .. MaxDraws) = 1 .. l /\ l \in 0 .. MaxDraws /\ l <= n
    BY <1>2, <1>3
  <2>2. DOMAIN Scene!Queued(world)[m] = 1 .. l
    BY <1>1, <1>2, <1>5, <2>1
  <2> QED BY <1>2, <1>5, <2>1, <2>2
<1> QED BY <1>4, <1>5

\* A robot's record and its weapon's are of one that is posed; the weapon hangs off the
\* joint as this frame leaves it.
LEMMA RobotsQueued ==
  ASSUME SceneAssumption
  PROVE  /\ \A k \in DOMAIN Scene!Queued(world)["trooper"] :
              /\ "trooper" \in loaded
              /\ \E i \in BodySet : Scene!Queued(world)["trooper"][k].of = Scene!Robot(i)
         /\ \A k \in DOMAIN Scene!Queued(world)["bot_gun"] :
              \E i \in ArmedSet : Scene!Queued(world)["bot_gun"][k].hand = Scene!Hand(world, i)
<1> DEFINE Fit(q) == [k \in DOMAIN q \cap (1 .. MaxDraws) |-> q[k]]
           T == Scene!Wanted(world)["trooper"]
           G == Scene!Wanted(world)["bot_gun"]
<1>1. /\ Scene!Queued(world)["trooper"] = (IF "trooper" \in loaded THEN Fit(T) ELSE <<>>)
      /\ Scene!Queued(world)["bot_gun"] = (IF "bot_gun" \in loaded THEN Fit(G) ELSE <<>>)
  BY DEF Scene!Queued, Scene!Models, Scene!FirstPerson
<1>2. T = [k \in 1 .. Len(Scene!Bodies(world)) * Submeshes |->
             Scene!Show(Scene!Robot(Scene!Bodies(world)[(k - 1) \div Submeshes + 1]))]
  BY DEF Scene!Wanted
<1>3. G = [k \in DOMAIN Scene!Armed(world) |->
             [of |-> Scene!Robot(Scene!Armed(world)[k]),
              hand |-> Scene!Hand(world, Scene!Armed(world)[k])]]
  BY DEF Scene!Wanted
<1> HIDE DEF T, G
<1>4. ASSUME NEW k \in DOMAIN T PROVE \E i \in BodySet : T[k].of = Scene!Robot(i)
  <2> DEFINE i == Scene!Bodies(world)[(k - 1) \div Submeshes + 1]
  <2>1. k \in 1 .. Len(Scene!Bodies(world)) * Submeshes
    BY <1>2, <1>4
  <2>2. i \in BodySet
    BY <2>1, BodyOf
  <2>3. T[k].of = Scene!Robot(i)
    BY <1>2, <2>1 DEF Scene!Show
  <2> HIDE DEF i
  <2> QED BY <2>2, <2>3
<1>5. ASSUME NEW k \in DOMAIN G PROVE \E i \in ArmedSet : G[k].hand = Scene!Hand(world, i)
  <2> DEFINE A == Scene!Armed(world)
  <2>1. A = Scene!InOrder(ArmedSet) /\ ArmedSet \in SUBSET (1 .. Rivals) /\ Rivals \in Nat
    BY PosedAreOthers
  <2>2. k \in DOMAIN A /\ G[k].hand = Scene!Hand(world, A[k])
    BY <1>3, <1>5
  <2> HIDE DEF A
  <2>3. A[k] \in ArmedSet
    BY <2>1, <2>2, OrderFits
  <2> QED BY <2>2, <2>3
<1>6. ASSUME NEW q, NEW k \in DOMAIN Fit(q) PROVE k \in DOMAIN q /\ Fit(q)[k] = q[k]
  OBVIOUS
<1>7. DOMAIN <<>> = {}
  OBVIOUS
<1> HIDE DEF Fit
<1> QED BY <1>1, <1>4, <1>5, <1>6, <1>7

\* One who is posed and drawn with a rig is animated at this tick.
LEMMA PosedAreAnimated ==
  ASSUME SceneAssumption, LoadedFits, Scene!Rigged, NEW i \in Scene!Posed(world)
  PROVE  Scene!CanAnimate(i) /\ i \in Scene!Animated(world)
<1>1. clips > HighestClip
  BY DEF Scene!Rigged
<1>2. clips > 0 /\ "trooper" \in loaded
  BY <1>1 DEF LoadedFits, SceneAssumption
<1>3. i < MaxInstances
  BY PosedAreOthers DEF SceneAssumption
<1>4. Scene!CanAnimate(i)
  BY <1>2, <1>3 DEF Scene!CanAnimate
<1> QED BY <1>4 DEF Scene!Animated

\* Who is animated does not hang on the joints: once they are where the frame leaves them,
\* or if they stay, the queue would be the same again.
LEMMA QueuedKept ==
  ASSUME UNCHANGED <<loaded, clips, joint, world, blasts>>,
         attach' \in {attach, Scene!NewAttach(world)}
  PROVE  Scene!Queued(world)' = Scene!Queued(world)
<1>1. Scene!Posed(world)' = Scene!Posed(world) /\ Scene!Rigged' = Scene!Rigged
  BY DEF Scene!Posed, Scene!Rigged, Scene!Merged
<1>2. Scene!Animated(world)' = Scene!Animated(world)
  BY <1>1 DEF Scene!Animated, Scene!CanAnimate
<1>3. /\ Scene!NewAttach(world)' = Scene!NewAttach(world)
      /\ \A i : Scene!Hand(world, i)' = Scene!Hand(world, i)
  <2>1. Scene!NewAttach(world)' = Scene!NewAttach(world)
    BY <1>2, Zenon DEF Scene!NewAttach
  <2> QED BY <2>1 DEF Scene!Hand
<1>4. Scene!Bodies(world)' = Scene!Bodies(world) /\ Scene!Armed(world)' = Scene!Armed(world)
  BY <1>1 DEF Scene!Bodies, Scene!Armed
<1>5. Scene!Hud(world)' = Scene!Hud(world)
  BY DEF Scene!Hud, Scene!Merged
<1>6. Scene!Fireball(world)' = Scene!Fireball(world)
  BY DEF Scene!Fireball
<1>7. Scene!Wanted(world)' = Scene!Wanted(world)
  BY <1>3, <1>4, <1>5, <1>6 DEF Scene!Wanted
<1> QED BY <1>7 DEF Scene!Queued

\* Every slot has its regions, none past its end, and a model not loaded has no commands.
RegionsFit ==
  /\ slot \in Scene!Slot /\ DOMAIN commands = Scene!Slot
  /\ \A s \in Scene!Slot : \A r \in Scene!Region :
       /\ commands[s][r].count <= MaxDraws
       /\ r[1] \notin loaded => commands[s][r] = Scene!Nothing
SceneIInv ==
  /\ LoadedFits
  /\ RegionsFit
  /\ Scene!FrameIsOfItsWorld

\* A cull that starts from nothing leaves what it kept, each once.
LEMMA AppendedFits ==
  ASSUME MaxDraws \in Nat, NEW S \in SUBSET (1 .. MaxDraws)
  PROVE  LET B == Scene!Appended(Scene!Nothing, S)
         IN  /\ B.count = Cardinality(S)
             /\ \A k \in 1 .. MaxDraws : B.times[k] = IF k \in S THEN 1 ELSE 0
             /\ Scene!Survivors(B) = S
             /\ S = {} => B = Scene!Nothing
<1> DEFINE B == Scene!Appended(Scene!Nothing, S)
<1>1. Cardinality(S) \in Nat
  <2>1. IsFiniteSet(1 .. MaxDraws)
    BY FS_Interval
  <2> QED BY <2>1, FS_Subset, FS_CardinalityType
<1>2. B.count = 0 + Cardinality(S)
  BY SceneCounts DEF Scene!Appended, Scene!Nothing
<1>3. \A k \in 1 .. MaxDraws : B.times[k] = IF k \in S THEN 1 ELSE 0
  BY DEF Scene!Appended, Scene!Nothing
<1>4. Scene!Survivors(B) = S
  <2> HIDE DEF B
  <2>1. ASSUME NEW k PROVE k \in Scene!Survivors(B) <=> k \in S
    <3>1. CASE k \in S
      <4>1. k \in 1 .. MaxDraws /\ B.times[k] = 1
        BY <1>3, <3>1, Zenon
      <4>2. B.times[k] > 0
        BY <4>1
      <4> QED BY <3>1, <4>1, <4>2, Zenon DEF Scene!Survivors
    <3>2. CASE k \notin S
      <4>1. k \in 1 .. MaxDraws => B.times[k] = 0
        BY <1>3, <3>2, Zenon
      <4>2. k \in 1 .. MaxDraws => ~(B.times[k] > 0)
        BY <4>1
      <4> QED BY <3>2, <4>2, Zenon DEF Scene!Survivors
    <3> QED BY <3>1, <3>2
  <2> HIDE DEF Scene!Survivors
  <2> QED BY <2>1
<1>5. ASSUME S = {} PROVE B = Scene!Nothing
  <2>1. Cardinality(S) = 0
    BY <1>5, FS_EmptySet
  <2>2. B.count = 0
    BY <1>2, <2>1
  <2>3. B.times = [k \in 1 .. MaxDraws |-> 0]
    <3>1. B.times = [k \in 1 .. MaxDraws |-> Scene!Nothing.times[k] + IF k \in S THEN 1 ELSE 0]
      BY DEF Scene!Appended
    <3>2. \A k \in 1 .. MaxDraws : Scene!Nothing.times[k] + (IF k \in S THEN 1 ELSE 0) = 0
      BY <1>5 DEF Scene!Nothing
    <3> HIDE DEF B
    <3> QED BY <3>1, <3>2
  <2>4. B = [count |-> B.count, times |-> B.times]
    BY DEF Scene!Appended
  <2> HIDE DEF B
  <2> QED BY <2>2, <2>3, <2>4 DEF Scene!Nothing
<1> HIDE DEF B
<1>6. B.count = Cardinality(S)
  BY <1>1, <1>2
<1> QED BY <1>3, <1>4, <1>5, <1>6 DEF B

\* What a cull keeps of a model's queue is among its records.
LEMMA KeptFits ==
  ASSUME SceneAssumption, NEW m \in Scene!Models, NEW hidden
  PROVE  LET K == Scene!Kept(Scene!Queued(world)[m], hidden)
         IN  /\ K \in SUBSET (1 .. MaxDraws)
             /\ Cardinality(K) \in 0 .. MaxDraws
             /\ m = "gun" => Cardinality(K) <= 1
             /\ m \notin loaded => K = {}
<1> DEFINE q == Scene!Queued(world)[m]
           K == Scene!Kept(q, hidden)
<1>1. PICK n \in 0 .. MaxDraws :
        DOMAIN q = 1 .. n /\ (m \notin loaded => n = 0) /\ (m = "gun" => n <= 1)
  BY RecordsFit
<1> HIDE DEF q
<1>2. K \in SUBSET (1 .. n) /\ n \in Nat /\ MaxDraws \in Nat
  BY <1>1 DEF Scene!Kept, SceneAssumption
<1> HIDE DEF K
<1>3. Cardinality(K) \in Nat /\ Cardinality(K) <= n
  <2>1. IsFiniteSet(1 .. n) /\ Cardinality(1 .. n) = n
    BY <1>2, FS_Interval
  <2> QED BY <1>2, <2>1, FS_Subset, FS_CardinalityType
<1>4. Cardinality(K) \in 0 .. MaxDraws /\ (m = "gun" => Cardinality(K) <= 1)
  <2> DEFINE c == Cardinality(K)
  <2>1. c \in Nat /\ c <= n /\ n <= MaxDraws
    BY <1>1, <1>2, <1>3
  <2> HIDE DEF c
  <2>2. c \in 0 .. MaxDraws /\ (m = "gun" => c <= 1)
    BY <1>1, <1>2, <2>1
  <2> QED BY <2>2 DEF c
<1>5. K \in SUBSET (1 .. MaxDraws)
  BY <1>1, <1>2
<1>6. m \notin loaded => K = {}
  BY <1>1, <1>2
<1> QED BY <1>4, <1>5, <1>6 DEF K, q

\* A pass over a queue that fits leaves no more than the region holds; the gun's goes
\* over its one record twice.
LEMMA CulledFits ==
  ASSUME SceneAssumption, NEW m \in Scene!Models, NEW pass \in Scene!Passes, NEW hidden
  PROVE  LET C == Scene!Culled(Scene!Nothing, Scene!Queued(world)[m], hidden, m, pass)
         IN  /\ C.count <= MaxDraws
             /\ m \notin loaded => C = Scene!Nothing
<1> DEFINE q == Scene!Queued(world)[m]
           C == Scene!Culled(Scene!Nothing, q, hidden, m, pass)
           A(h) == Scene!Appended(Scene!Nothing, Scene!Kept(q, h))
<1>1. MaxDraws \in Nat /\ MaxDraws >= 2
  BY DEF SceneAssumption
<1>2. ASSUME NEW h
      PROVE  /\ A(h).count = Cardinality(Scene!Kept(q, h)) /\ A(h).count \in 0 .. MaxDraws
             /\ m = "gun" => A(h).count <= 1
             /\ m \notin loaded => Scene!Kept(q, h) = {} /\ A(h) = Scene!Nothing
  <2> DEFINE K == Scene!Kept(q, h)
  <2>1. /\ K \in SUBSET (1 .. MaxDraws) /\ Cardinality(K) \in 0 .. MaxDraws
        /\ m = "gun" => Cardinality(K) <= 1
        /\ m \notin loaded => K = {}
    BY KeptFits
  <2> HIDE DEF K
  <2>2. /\ Scene!Appended(Scene!Nothing, K).count = Cardinality(K)
        /\ K = {} => Scene!Appended(Scene!Nothing, K) = Scene!Nothing
    BY <1>1, <2>1, AppendedFits
  <2> QED BY <2>1, <2>2 DEF K
<1>3. \/ \E h : C = A(h)
      \/ m = "gun" /\ C = Scene!Appended(A(hidden), Scene!Kept(q, {}))
      \/ C = Scene!Nothing
  BY DEF Scene!Culled
<1>4. Scene!Nothing.count = 0
  BY DEF Scene!Nothing
<1> HIDE DEF C, q
<1>5. CASE \E h : C = A(h)
  <2> HIDE DEF A
  <2> QED BY <1>1, <1>2, <1>5 DEF C, q
<1>6. CASE m = "gun" /\ C = Scene!Appended(A(hidden), Scene!Kept(q, {}))
  <2>1. C.count = A(hidden).count + Cardinality(Scene!Kept(q, {}))
    BY <1>6, SceneCounts DEF Scene!Appended
  <2>2. A(hidden).count \in Nat /\ A(hidden).count <= 1
        /\ Cardinality(Scene!Kept(q, {})) \in Nat /\ Cardinality(Scene!Kept(q, {})) <= 1
    <3>1. A({}).count \in 0 .. MaxDraws /\ A({}).count <= 1
          /\ A({}).count = Cardinality(Scene!Kept(q, {}))
      BY <1>2, <1>6
    <3>2. A(hidden).count \in 0 .. MaxDraws /\ A(hidden).count <= 1
      BY <1>2, <1>6
    <3> HIDE DEF A
    <3> QED BY <3>1, <3>2
  <2>3. C.count <= MaxDraws
    <3> HIDE DEF A
    <3> QED BY <1>1, <2>1, <2>2
  <2>4. ASSUME m \notin loaded PROVE C = Scene!Nothing
    <3>1. A(hidden) = Scene!Nothing /\ Scene!Kept(q, {}) = {} /\ A({}) = Scene!Nothing
      BY <1>2, <2>4
    <3>2. C = Scene!Appended(Scene!Nothing, Scene!Kept(q, {}))
      BY <1>6, <3>1
    <3> QED BY <3>1, <3>2
  <2> QED BY <2>3, <2>4 DEF C, q
<1>7. CASE C = Scene!Nothing
  BY <1>1, <1>4, <1>7 DEF C, q
<1> QED BY <1>3, <1>5, <1>6, <1>7 DEF C, q

LEMMA DrawSceneIInv ==
  ASSUME SceneAssumption, SceneIInv, Scene!Draw PROVE SceneIInv'
<1> DEFINE q == Scene!Queued(world)
           recs == [m \in Scene!Models |->
                      [k \in 1 .. MaxDraws |-> IF k \in DOMAIN q[m] THEN q[m][k]
                                              ELSE records[slot][m][k]]]
           base == Scene!Filled(commands[slot])
           mats == [i \in 1 .. Rivals |-> IF i \in Scene!Animated(world) THEN world.tick
                                          ELSE matrices[slot][i]]
           skin == Scene!Skinned(world, mats, skinned[slot])
           cmds(h) == [r \in Scene!Region |->
                         Scene!Culled(base[r], q[r[1]], h, r[1], r[2])]
           show(m, t) == [k \in Scene!Survivors(t) |->
                            Scene!Shown(m, t.times[k], recs[m][k], skin)]
           seenOf(h) == [m \in Scene!Models |->
                          IF q[m] = <<>> THEN <<>> ELSE show(m, cmds(h)[<<m, "camera">>])]
<1>1. PICK hidden :
        /\ slot' = (slot + 1) % SceneFrames
        /\ commands' = [commands EXCEPT ![slot] = cmds(hidden)]
        /\ attach' = Scene!NewAttach(world)
        /\ picture' = [hidden |-> hidden, casters |-> Scene!Casters(world, cmds(hidden), recs),
                       drawn |-> seenOf(hidden)]
        /\ UNCHANGED <<loaded, clips, rt, joint, world, blasts, wentOff>>
  <2> DEFINE recsOf(p) == [m \in Scene!Models |->
                            [k \in 1 .. MaxDraws |-> IF k \in DOMAIN p[m] THEN p[m][k]
                                                    ELSE records[slot][m][k]]]
             cmdsOf(p, h) == [r \in Scene!Region |->
                               Scene!Culled(base[r], p[r[1]], h, r[1], r[2])]
             asDrawn(h, p) ==
               /\ slot' = (slot + 1) % SceneFrames
               /\ commands' = [commands EXCEPT ![slot] = cmdsOf(p, h)]
               /\ attach' = Scene!NewAttach(world)
               /\ picture' =
                    [hidden |-> h, casters |-> Scene!Casters(world, cmdsOf(p, h), recsOf(p)),
                     drawn |-> [m \in Scene!Models |->
                       IF p[m] = <<>> THEN <<>>
                       ELSE [k \in Scene!Survivors(cmdsOf(p, h)[<<m, "camera">>]) |->
                               Scene!Shown(m, cmdsOf(p, h)[<<m, "camera">>].times[k],
                                           recsOf(p)[m][k], skin)]]]
               /\ UNCHANGED <<loaded, clips, rt, joint, world, blasts, wentOff>>
  <2>1. \E h : \E p \in {q} : asDrawn(h, p)
    BY Zenon DEF Scene!Draw
  <2>2. PICK h : asDrawn(h, q)
    <3> HIDE DEF asDrawn, q
    <3> QED BY <2>1, Zenon
  <2> QED BY <2>2, Zenon
<1> DEFINE C == cmds(hidden)
<1>2. /\ UNCHANGED <<loaded, clips, rt, joint, world, blasts, wentOff>>
      /\ slot' = (slot + 1) % SceneFrames
      /\ commands' = [commands EXCEPT ![slot] = C]
      /\ attach' = Scene!NewAttach(world)
      /\ picture'.hidden = hidden
      /\ picture'.casters = Scene!Casters(world, C, recs)
      /\ picture'.drawn = seenOf(hidden)
  <2> HIDE DEF cmds, seenOf, recs, q
  <2> QED BY <1>1
<1>3. \A m \in Scene!Models :
        picture'.drawn[m] = IF q[m] = <<>> THEN <<>> ELSE show(m, C[<<m, "camera">>])
  <2> HIDE DEF cmds, show, q
  <2> QED BY <1>2
<1>4. \A r \in Scene!Region : C[r] = Scene!Culled(base[r], q[r[1]], hidden, r[1], r[2])
  <2> HIDE DEF q, base
  <2> QED BY Zenon
<1>5. Scene!Queued(world)' = q
  BY <1>2, QueuedKept, Zenon
<1> HIDE DEF q, cmds, seenOf, C
\* The counters start from nothing.
<1>6. ASSUME NEW r \in Scene!Region
      PROVE  /\ C[r] = Scene!Culled(Scene!Nothing, q[r[1]], hidden, r[1], r[2])
             /\ C[r].count <= MaxDraws
             /\ r[1] \notin loaded => C[r] = Scene!Nothing
  <2>1. r[1] \in Scene!Models /\ r[2] \in Scene!Passes
    BY DEF Scene!Region
  <2>2. base[r] = Scene!Nothing
    BY DEF Scene!Filled, SceneIInv, RegionsFit
  <2> HIDE DEF base
  <2>3. C[r] = Scene!Culled(Scene!Nothing, q[r[1]], hidden, r[1], r[2])
    BY <1>4, <2>2, Zenon
  <2> QED BY <2>1, <2>3, CulledFits DEF q
<1> HIDE DEF base
<1>7. ASSUME NEW m \in Scene!Models, NEW h
      PROVE  LET K == Scene!Kept(q[m], h)
                 B == Scene!Appended(Scene!Nothing, K)
             IN  /\ Scene!Survivors(B) = K
                 /\ \A k \in K : /\ B.times[k] = 1 /\ k \in DOMAIN q[m]
                                 /\ recs[m][k] = q[m][k]
  <2> DEFINE K == Scene!Kept(q[m], h)
  <2>1. MaxDraws \in Nat /\ K \in SUBSET (1 .. MaxDraws)
    BY KeptFits DEF q, SceneAssumption
  <2>2. \A k \in K : k \in DOMAIN q[m]
    BY DEF Scene!Kept
  <2> HIDE DEF K
  <2>3. /\ Scene!Survivors(Scene!Appended(Scene!Nothing, K)) = K
        /\ \A k \in K : Scene!Appended(Scene!Nothing, K).times[k] = 1
    BY <2>1, AppendedFits
  <2>4. \A k \in K : recs[m][k] = q[m][k]
    BY <2>1, <2>2
  <2> HIDE DEF recs
  <2> QED BY <2>2, <2>3, <2>4 DEF K
<1> HIDE DEF recs, skin
\* What is drawn is what was queued and is in sight.
<1>8. ASSUME NEW m \in Scene!Models \ {"gun"}
      PROVE  LET seen == {k \in DOMAIN q[m] : q[m][k].of \notin hidden \/ m \notin Scene!Framed}
             IN  /\ DOMAIN picture'.drawn[m] = seen
                 /\ \A k \in seen : /\ k \in DOMAIN q[m]
                                    /\ picture'.drawn[m][k] = Scene!Shown(m, 1, q[m][k], skin)
  <2> DEFINE h == IF m \in Scene!Framed THEN hidden ELSE {}
             seen == {k \in DOMAIN q[m] : q[m][k].of \notin hidden \/ m \notin Scene!Framed}
             B == Scene!Appended(Scene!Nothing, Scene!Kept(q[m], h))
  <2>1. <<m, "camera">> \in Scene!Region /\ m \in Scene!Models
    BY DEF Scene!Region, Scene!Passes
  <2>2. C[<<m, "camera">>] = B
    <3>1. C[<<m, "camera">>] = Scene!Culled(Scene!Nothing, q[m], hidden, m, "camera")
      BY <1>6, <2>1
    <3>2. m # "gun" /\ "camera" # "shadow"
      BY <1>8
    <3>3. Scene!Culled(Scene!Nothing, q[m], hidden, m, "camera") = B
      BY <3>2 DEF Scene!Culled
    <3> QED BY <3>1, <3>3
  <2>3. Scene!Kept(q[m], h) = seen
    BY DEF Scene!Kept
  <2>4. /\ Scene!Survivors(B) = seen
        /\ \A k \in seen : B.times[k] = 1 /\ k \in DOMAIN q[m] /\ recs[m][k] = q[m][k]
    <3> HIDE DEF h, seen
    <3>1. /\ Scene!Survivors(B) = Scene!Kept(q[m], h)
          /\ \A k \in Scene!Kept(q[m], h) : /\ B.times[k] = 1 /\ k \in DOMAIN q[m]
                                            /\ recs[m][k] = q[m][k]
      BY <1>7, <2>1, Zenon
    <3> QED BY <2>3, <3>1, Zenon
  <2>5. picture'.drawn[m] = IF q[m] = <<>> THEN <<>> ELSE show(m, B)
    BY <1>3, <2>2
  <2> HIDE DEF B, h
  <2>6. CASE q[m] = <<>>
    <3>1. seen = {} /\ DOMAIN picture'.drawn[m] = {}
      BY <2>5, <2>6
    <3> QED BY <3>1
  <2>7. CASE q[m] # <<>>
    <3> DEFINE d == picture'.drawn[m]
    <3>1. d = [k \in seen |-> Scene!Shown(m, B.times[k], recs[m][k], skin)]
      BY <2>4, <2>5, <2>7
    <3> HIDE DEF d, seen
    <3>2. DOMAIN d = seen /\ \A k \in seen : d[k] = Scene!Shown(m, 1, q[m][k], skin)
      BY <2>4, <3>1
    <3> QED BY <2>4, <3>2 DEF d, seen
  <2> QED BY <2>6, <2>7
<1> HIDE DEF show
\* A posed robot's vertices are of this tick, and so is its hand.
<1>9. ASSUME Scene!Rigged, NEW i \in Scene!Posed(world)
      PROVE  skin[i] = world.tick /\ (joint => Scene!Hand(world, i) = world.tick)
  <2>1. i \in 1 .. Rivals
    BY PosedAreOthers
  <2>2. Scene!CanAnimate(i) /\ i \in Scene!Animated(world)
    BY <1>9, PosedAreAnimated DEF SceneIInv
  <2>3. skin[i] = mats[i]
    BY <1>9, <2>1, <2>2 DEF skin, Scene!Skinned
  <2> QED BY <2>1, <2>2, <2>3 DEF Scene!NewAttach, Scene!Hand
<1>10. ASSUME NEW k \in DOMAIN picture'.drawn["trooper"], Scene!Rigged
       PROVE  picture'.drawn["trooper"][k].pose = world.tick
  <2>1. "trooper" \in Scene!Models \ {"gun"}
    BY DEF Scene!Models
  <2>2. k \in DOMAIN q["trooper"]
        /\ picture'.drawn["trooper"][k] = Scene!Shown("trooper", 1, q["trooper"][k], skin)
    BY <1>8, <2>1, Zenon
  <2>3. PICK i \in BodySet : q["trooper"][k].of = Scene!Robot(i)
    BY <2>2, RobotsQueued DEF q
  <2>4. picture'.drawn["trooper"][k].pose = skin[q["trooper"][k].of.robot]
    BY <1>10, <2>2 DEF Scene!Shown
  <2>5. q["trooper"][k].of.robot = i
    BY <2>3 DEF Scene!Robot
  <2> QED BY <1>9, <1>10, <2>3, <2>4, <2>5 DEF BodySet
<1>11. ASSUME NEW k \in DOMAIN picture'.drawn["bot_gun"], Scene!Rigged, joint
       PROVE  picture'.drawn["bot_gun"][k].hand = world.tick
  <2>1. "bot_gun" \in Scene!Models \ {"gun"}
    BY DEF Scene!Models
  <2>2. k \in DOMAIN q["bot_gun"]
        /\ picture'.drawn["bot_gun"][k] = Scene!Shown("bot_gun", 1, q["bot_gun"][k], skin)
    BY <1>8, <2>1, Zenon
  <2>3. PICK i \in ArmedSet : q["bot_gun"][k].hand = Scene!Hand(world, i)
    BY <2>2, RobotsQueued DEF q
  <2>4. picture'.drawn["bot_gun"][k].hand = q["bot_gun"][k].hand
    BY <2>2 DEF Scene!Shown
  <2> QED BY <1>9, <1>11, <2>3, <2>4 DEF ArmedSet
\* Everyone whose body shows casts a shadow.
<1>12. ASSUME NEW i \in Scene!Alive(world) \ {0}, NEW k \in DOMAIN q["trooper"],
              q["trooper"][k].of = Scene!Robot(i)
       PROVE  Scene!Robot(i) \in picture'.casters
  <2>1. "trooper" \in loaded
    BY <1>12, RobotsQueued DEF q
  <2>2. CASE rt
    <3>1. Scene!Robot(i) \in {Scene!Robot(j) : j \in Scene!Alive(world) \ {0}}
      BY <1>12
    <3> QED BY <1>2, <2>1, <2>2, <3>1 DEF Scene!Casters
  <2>3. CASE ~rt
    <3> DEFINE L == C[<<"trooper", "shadow">>]
    <3>1. "trooper" \in Scene!Models /\ <<"trooper", "shadow">> \in Scene!Region
      BY DEF Scene!Region, Scene!Models, Scene!Passes
    <3>2. L = Scene!Appended(Scene!Nothing, Scene!Kept(q["trooper"], {}))
      <4>1. L = Scene!Culled(Scene!Nothing, q["trooper"], hidden, "trooper", "shadow")
        BY <1>6, <3>1
      <4> HIDE DEF L
      <4> QED BY <4>1 DEF Scene!Culled
    <3>3. k \in Scene!Kept(q["trooper"], {})
      BY <1>12 DEF Scene!Kept
    <3>4. k \in Scene!Survivors(L) /\ recs["trooper"][k] = q["trooper"][k]
      BY <1>7, <3>1, <3>2, <3>3, Zenon
    <3> DEFINE G(m) == {recs[m][j].of : j \in Scene!Survivors(C[<<m, "shadow">>])}
    <3>5. Scene!Robot(i) \in G("trooper")
      BY <1>12, <3>4
    <3>6. picture'.casters = UNION {G(m) : m \in {"trooper", "mech"}}
      BY <1>2, <2>3 DEF Scene!Casters
    <3> HIDE DEF G
    <3> QED BY <3>5, <3>6
  <2> QED BY <2>2, <2>3
<1>13. RegionsFit'
  <2>1. slot \in Scene!Slot /\ DOMAIN commands = Scene!Slot
    BY DEF SceneIInv, RegionsFit
  <2>2. slot' \in Scene!Slot
    BY <1>2, <2>1 DEF Scene!Slot, SceneAssumption
  <2>3. /\ DOMAIN commands' = Scene!Slot
        /\ \A s \in Scene!Slot : commands'[s] = IF s = slot THEN C ELSE commands[s]
    BY <1>2, <2>1
  <2>4. \A s \in Scene!Slot : \A r \in Scene!Region :
          /\ commands'[s][r].count <= MaxDraws
          /\ r[1] \notin loaded => commands'[s][r] = Scene!Nothing
    BY <1>6, <2>3 DEF SceneIInv, RegionsFit
  <2> QED BY <1>2, <2>2, <2>3, <2>4 DEF RegionsFit
<1>14. Scene!FrameIsOfItsWorld'
  <2>1. /\ world' = world /\ Scene!Rigged' = Scene!Rigged /\ joint' = joint
        /\ Scene!Alive(world)' = Scene!Alive(world)
    BY <1>2 DEF Scene!Rigged, Scene!Alive
  <2> DEFINE seen(m) == {k \in DOMAIN q[m] : q[m][k].of \notin picture'.hidden \/ m \notin Scene!Framed}
  <2>2. \A s \in Scene!Slot : \A r \in Scene!Region : commands'[s][r].count <= MaxDraws
    BY <1>13 DEF RegionsFit
  <2>3. ASSUME NEW m \in Scene!Models \ {"gun"}
        PROVE  /\ DOMAIN picture'.drawn[m] = seen(m)
               /\ \A k \in seen(m) : /\ picture'.drawn[m][k].times = 1
                                     /\ picture'.drawn[m][k].of = q[m][k].of
    <3> DEFINE D == {k \in DOMAIN q[m] : q[m][k].of \notin hidden \/ m \notin Scene!Framed}
    <3>1. seen(m) = D
      BY <1>2
    <3>2. /\ DOMAIN picture'.drawn[m] = D
          /\ \A k \in D : picture'.drawn[m][k] = Scene!Shown(m, 1, q[m][k], skin)
      BY <1>8
    <3>3. \A rec : Scene!Shown(m, 1, rec, skin).of = rec.of /\ Scene!Shown(m, 1, rec, skin).times = 1
      BY DEF Scene!Shown
    <3> HIDE DEF D, seen
    <3> QED BY <3>1, <3>2, <3>3
  <2>4. \A i \in Scene!Alive(world)' \ {0} :
          (\E k \in DOMAIN q["trooper"] : q["trooper"][k].of = Scene!Robot(i))
            => Scene!Robot(i) \in picture'.casters
    BY <1>12, <2>1
  <2> HIDE DEF mats
  <2> QED BY <1>5, <1>10, <1>11, <2>1, <2>2, <2>3, <2>4 DEF Scene!FrameIsOfItsWorld
<1>15. LoadedFits'
  BY <1>2 DEF SceneIInv, LoadedFits
<1> QED BY <1>13, <1>14, <1>15 DEF SceneIInv

LEMMA NotedSceneIInv ==
  ASSUME SceneIInv, Scene!Noted PROVE SceneIInv'
<1>1. UNCHANGED <<loaded, clips, slot, commands>> /\ picture' = None
  BY DEF Scene!Noted, Scene!gpu
<1>2. LoadedFits' /\ RegionsFit'
  BY <1>1 DEF SceneIInv, LoadedFits, RegionsFit
<1>3. Scene!FrameIsOfItsWorld'
  BY <1>1 DEF Scene!FrameIsOfItsWorld
<1> QED BY <1>2, <1>3 DEF SceneIInv

LEMMA RestSceneIInv ==
  ASSUME SceneIInv, UNCHANGED Scene!vars PROVE SceneIInv'
<1>1. /\ UNCHANGED <<loaded, clips, rt, joint, slot, world, blasts, wentOff, records, commands,
                     matrices, skinned, attach, picture>>
  BY DEF Scene!vars
<1>2. LoadedFits' /\ RegionsFit'
  BY <1>1 DEF SceneIInv, LoadedFits, RegionsFit
<1>3. Scene!FrameIsOfItsWorld' = Scene!FrameIsOfItsWorld
  <2>1. Scene!Queued(world)' = Scene!Queued(world)
    BY <1>1, QueuedKept
  <2>2. Scene!Rigged' = Scene!Rigged /\ Scene!Alive(world)' = Scene!Alive(world)
    BY <1>1 DEF Scene!Rigged, Scene!Alive
  <2> QED BY <1>1, <2>1, <2>2 DEF Scene!FrameIsOfItsWorld
<1> QED BY <1>2, <1>3 DEF SceneIInv

LEMMA SceneInit ==
  ASSUME SceneAssumption, Scene!Init PROVE SceneIInv
<1>1. LoadedFits
  BY DEF SceneAssumption, Scene!Init, LoadedFits
<1>2. RegionsFit
  <2>1. slot \in Scene!Slot
    BY DEF Scene!Init, Scene!Slot, SceneAssumption
  <2>2. commands = [s \in Scene!Slot |-> [r \in Scene!Region |-> Scene!Nothing]]
    BY DEF Scene!Init
  <2>3. Scene!Nothing.count = 0 /\ 0 <= MaxDraws
    BY DEF Scene!Nothing, SceneAssumption
  <2> QED BY <2>1, <2>2, <2>3 DEF RegionsFit
<1> QED BY <1>1, <1>2 DEF Scene!Init, SceneIInv, Scene!FrameIsOfItsWorld

\* Whatever earlier frames left in a slot's records, commands and vertices, and in the
\* joints all slots share, a frame is this world's: what it draws, each once and from a
\* pose of this tick, with everyone's shadow; in whatever order the culls appended
\* (render_scene.cpp:174-300, render_queue.cpp:216-252).
THEOREM SceneIsTheWorldsAlways == Spec => []SceneIsTheWorlds
<1>0. SceneAssumption
  BY PartsAssumption DEF SceneAssumption
<1> DEFINE I == part = "scene" => SceneIInv
<1>1. Init => I
  BY <1>0, SceneInit DEF Init
<1>2. I /\ [Next]_vars => I'
  <2> SUFFICES ASSUME I, [Next]_vars, part' = "scene" PROVE SceneIInv'
    OBVIOUS
  <2>1. part = "scene"
        /\ (Scene!Step \/ Scene!Rematch \/ Scene!Draw \/ UNCHANGED Scene!vars)
    BY DEF Next, vars, Scene!vars, Scene!Next
  <2>2. Scene!Step \/ Scene!Rematch => Scene!Noted
    BY DEF Scene!Step, Scene!Rematch
  <2> QED BY <1>0, <2>1, <2>2, DrawSceneIInv, NotedSceneIInv, RestSceneIInv
<1>3. I => SceneIsTheWorlds
  BY DEF SceneIInv, SceneIsTheWorlds
<1> QED BY <1>1, <1>2, <1>3, PTL DEF Spec

-----------------------------------------------------------------------------
(* The import of a model: its joints.                                      *)

RigNode == 1 .. RigNodes

RigAssumption ==
  /\ RigNodes \in Nat \ {0} /\ None \notin Nat
  /\ None \notin [parents : UNION {[0 .. n - 1 -> Int] : n \in 1 .. RigNodes}, root : Nat]

\* A rig: what is above each node, and the joints in the file's order.
RigFits(r) ==
  /\ r.parent \in [RigNode -> RigNode \cup {0}]
  /\ r.joints \in Seq(RigNode) /\ Len(r.joints) \in 1 .. RigNodes

LEMMA RigCounted == RigNodes \in Nat \ {0} => Importer!Most = RigNodes
<1> SUFFICES ASSUME RigNodes \in Nat \ {0} PROVE Importer!Most = RigNodes
  OBVIOUS
<1>1. Cardinality(1 .. RigNodes) = RigNodes
  BY FS_Interval
<1>2. Importer!Cardinality(1 .. RigNodes) = Cardinality(1 .. RigNodes)
  BY DEF Importer!Cardinality, Cardinality
<1> QED BY <1>1, <1>2 DEF Importer!Most

\* A node's ancestors are nodes.
LEMMA AncestorsAre ==
  ASSUME RigAssumption, NEW r, RigFits(r), NEW n \in RigNode
  PROVE  Importer!Ancestors(r, n) \in Seq(RigNode)
<1> DEFINE S == {s \in Seq(RigNode) : Len(s) >= 1}
           on(k, s) == IF Len(s) < k \/ r.parent[s[k]] = 0 THEN s ELSE Append(s, r.parent[s[k]])
           G == [k \in Nat |-> [s \in S |-> on(k + 1, s)]]
<1>1. <<n>> \in S
  OBVIOUS
<1>2. ASSUME NEW k \in Nat, NEW s \in S PROVE on(k + 1, s) \in S
  <2>1. CASE Len(s) < k + 1 \/ r.parent[s[k + 1]] = 0
    BY <2>1
  <2>2. CASE ~(Len(s) < k + 1 \/ r.parent[s[k + 1]] = 0)
    <3>1. s \in Seq(RigNode) /\ Len(s) \in Nat /\ k + 1 \in 1 .. Len(s)
      BY <2>2
    <3>2. s[k + 1] \in RigNode
      BY <3>1, ElementOfSeq
    <3>3. r.parent[s[k + 1]] \in RigNode
      BY <2>2, <3>2 DEF RigFits
    <3>4. Append(s, r.parent[s[k + 1]]) \in Seq(RigNode) /\ Len(Append(s, r.parent[s[k + 1]])) = Len(s) + 1
      BY <3>1, <3>3, AppendProperties
    <3> QED BY <2>2, <3>1, <3>4
  <2> QED BY <2>1, <2>2
<1>3. G \in [Nat -> [S -> S]]
  <2> HIDE DEF on, S
  <2> QED BY <1>2
<1>4. PICK f : Recurs(f, S, <<n>>, G)
  <2> HIDE DEF G, S
  <2> QED BY <1>1, <1>3, RecursionExists
<1>5. f \in [Nat -> S] /\ f[0] = <<n>>
  BY <1>4, Zenon DEF Recurs
<1>6. ASSUME NEW k \in Nat PROVE f[k + 1] = on(k + 1, f[k])
  <2>1. f[k + 1] = G[k][f[k]]
    <3> HIDE DEF G, S
    <3> QED BY <1>4 DEF Recurs
  <2> HIDE DEF on, S
  <2> QED BY <1>5, <2>1
<1>7. ASSUME NEW k \in Nat, k # 0 PROVE f[k] = on(k, f[k - 1])
  <2>1. k - 1 \in Nat /\ (k - 1) + 1 = k
    BY <1>7
  <2> HIDE DEF on
  <2>2. f[(k - 1) + 1] = on((k - 1) + 1, f[k - 1])
    BY <1>6, <2>1
  <2> QED BY <2>1, <2>2
<1> DEFINE g == [k \in 0 .. RigNodes |-> f[k]]
           is(h) == h = [k \in 0 .. RigNodes |-> IF k = 0 THEN <<n>> ELSE on(k, h[k - 1])]
<1>8. is(g)
  <2>1. ASSUME NEW k \in 0 .. RigNodes, k # 0 PROVE g[k] = on(k, g[k - 1])
    <3>1. k \in Nat /\ k - 1 \in 0 .. RigNodes
      BY <2>1 DEF RigAssumption
    <3> HIDE DEF on
    <3> QED BY <1>7, <2>1, <3>1
  <2> HIDE DEF on
  <2>2. 0 \in 0 .. RigNodes
    BY DEF RigAssumption
  <2> QED BY <1>5, <2>1, <2>2, Zenon
<1> DEFINE up == CHOOSE h : is(h)
<1>9. is(up)
  <2> HIDE DEF is, g
  <2> QED BY <1>8
<1> HIDE DEF g
<1>10. Importer!Ancestors(r, n) = Tail(up[RigNodes])
  BY RigCounted DEF Importer!Ancestors, RigAssumption
<1> HIDE DEF up
<1>11. \A k \in Nat : k <= RigNodes => up[k] \in S
  <2> DEFINE A == {k \in Nat : k <= RigNodes => up[k] \in S}
  <2>0. up = [k \in 0 .. RigNodes |-> IF k = 0 THEN <<n>> ELSE on(k, up[k - 1])]
    BY <1>9, Zenon
  <2>1. 0 \in A
    BY <1>1, <2>0 DEF RigAssumption
  <2>2. ASSUME NEW k \in Nat, k \in A PROVE k + 1 \in A
    <3> SUFFICES ASSUME k + 1 <= RigNodes PROVE up[k + 1] \in S
      OBVIOUS
    <3>1. up[k] \in S /\ k + 1 \in 0 .. RigNodes /\ k + 1 # 0 /\ (k + 1) - 1 = k
      BY <2>2 DEF RigAssumption
    <3> HIDE DEF on, S
    <3>2. up[k + 1] = on(k + 1, up[k])
      BY <2>0, <3>1, Zenon
    <3> QED BY <1>2, <3>1, <3>2
  <2>3. Nat \subseteq A
    <3> HIDE DEF A
    <3> QED BY <2>1, <2>2, SetInduction
  <2> QED BY <2>3
<1>12. up[RigNodes] \in Seq(RigNode) /\ up[RigNodes] # <<>>
  <2>1. up[RigNodes] \in S
    <3> HIDE DEF S
    <3> QED BY <1>11 DEF RigAssumption
  <2> QED BY <2>1
<1> QED BY <1>10, <1>12, HeadTailProperties

\* The joint above another, in the skin's numbers.
Above(r, g) == Importer!JointAbove(r, r.joints[g])

LEMMA AboveIs ==
  ASSUME RigAssumption, NEW r, RigFits(r), NEW g \in 1 .. Len(r.joints)
  PROVE  Above(r, g) \in 1 .. Len(r.joints) \cup {None}
<1> DEFINE n  == r.joints[g]
           up == Importer!Ancestors(r, n)
           I  == {i \in 1 .. Len(up) : up[i] \in Importer!Range(r.joints)}
           hits == Importer!SelectInSeq(up, LAMBDA x : x \in Importer!Range(r.joints))
<1>1. n \in RigNode
  BY ElementOfSeq DEF RigFits
<1>2. up \in Seq(RigNode) /\ Len(up) \in Nat
  BY <1>1, AncestorsAre
<1> HIDE DEF n
<1>3. Above(r, g) = IF hits = 0 THEN None
                    ELSE CHOOSE h \in DOMAIN r.joints : r.joints[h] = up[hits]
  BY DEF Above, Importer!JointAbove, n
<1>4. hits # 0 => hits \in I
  <2> SUFFICES ASSUME hits # 0 PROVE hits \in I
    OBVIOUS
  <2>1. I # {} /\ hits = Importer!Min(I)
    BY DEF Importer!SelectInSeq
  <2>2. I \in SUBSET Nat
    BY <1>2
  <2>3. \E i \in I : \A j \in I : i <= j
    <3> HIDE DEF I
    <3> QED BY <2>1, <2>2, LeastExists
  <2> HIDE DEF I, hits
  <2> QED BY <2>1, <2>3 DEF Importer!Min
<1>5. CASE hits = 0
  BY <1>3, <1>5
<1>6. CASE hits # 0
  <2>1. up[hits] \in Importer!Range(r.joints)
    BY <1>4, <1>6
  <2> HIDE DEF hits, up
  <2>2. \E h \in DOMAIN r.joints : r.joints[h] = up[hits]
    BY <2>1 DEF Importer!Range
  <2>3. DOMAIN r.joints = 1 .. Len(r.joints)
    BY DEF RigFits
  <2> QED BY <1>3, <1>6, <2>2, <2>3
<1> QED BY <1>5, <1>6

\* The first `n' numbers are given, each once, and never to a joint before the one above.
Numbered(r, nums, n) ==
  /\ n \in 0 .. Len(r.joints)
  /\ nums \in [1 .. Len(r.joints) -> (0 .. n - 1) \cup {None}]
  /\ \A g, h \in 1 .. Len(r.joints) : nums[g] = nums[h] /\ nums[g] # None => g = h
  /\ \A e \in 0 .. n - 1 : \E g \in 1 .. Len(r.joints) : nums[g] = e
  /\ Cardinality({g \in 1 .. Len(r.joints) : nums[g] # None}) = n
  /\ \A g \in 1 .. Len(r.joints) : nums[g] # None /\ Above(r, g) # None =>
       nums[Above(r, g)] # None /\ nums[Above(r, g)] < nums[g]

\* The joint has to wait: so has the one above it.
Waits(r, nums, g) ==
  nums[g] = None => Above(r, g) # None /\ nums[Above(r, g)] = None

\* The parents of a rig that was taken, and who hangs on it.
RigTaken(r, nums, parents) ==
  /\ Numbered(r, nums, Len(r.joints))
  /\ DOMAIN parents = 0 .. Len(r.joints) - 1
  /\ \A g \in 1 .. Len(r.joints) :
       parents[nums[g]] = IF Above(r, g) = None THEN -1 ELSE nums[Above(r, g)]
  /\ \A e \in 0 .. Len(r.joints) - 1 : parents[e] < e

\* Some joints are all above one another.
Circular(r) ==
  \E S \in (SUBSET DOMAIN r.joints) \ {{}} : \A g \in S : Above(r, g) \in S


PrimFits(p) ==
  /\ p \in [material : {None, "steel", "paint", "glass"}, verts : Nat \ {0},
            index : {None} \cup Seq(Nat), joint : {None, 0}]
  /\ p.index # None => \A k \in 1 .. Len(p.index) : p.index[k] < p.verts

\* A track has keys, in the order of their times and none later than 4; a clip has a
\* length, and tracks.
TrackFits(a) ==
  /\ a.times \in Seq(0 .. 4) /\ Len(a.times) >= 1
  /\ \A i, j \in 1 .. Len(a.times) : i < j => a.times[i] < a.times[j]
ChannelsFit(a) == \A i \in DOMAIN a : TrackFits(a[i])
ClipFits(clip) == clip.duration \in Nat /\ \A track \in clip.tracks : TrackFits(track)

\* What is asked of a file.
SceneFits(s) ==
  /\ Len(s.prims) \in Nat \ {0} /\ DOMAIN s.prims = 1 .. Len(s.prims)
  /\ \A i \in 1 .. Len(s.prims) : PrimFits(s.prims[i])
  /\ s.rig # None => /\ RigFits(s.rig)
                     /\ \A g, h \in 1 .. Len(s.rig.joints) :
                          g # h => s.rig.joints[g] # s.rig.joints[h]
  /\ Len(s.animations) \in Nat /\ DOMAIN s.animations = 1 .. Len(s.animations)
  /\ \A c \in 1 .. Len(s.animations) : ChannelsFit(s.animations[c])

LEMMA ScenesFit ==
  ASSUME RigAssumption, NEW s \in Importer!Scenes PROVE SceneFits(s)
<1> USE DEF RigAssumption
<1>1. \A p \in Importer!Prims \cup {Importer!Plain, Importer!Motley[2], Importer!Motley[3]} : PrimFits(p)
  <2>1. \A p \in Importer!Prims : PrimFits(p)
    <3> SUFFICES ASSUME NEW p \in Importer!Prims PROVE PrimFits(p)
      OBVIOUS
    <3>1. /\ p \in [material : {None, "steel", "paint"}, verts : {1, 2},
                    index : {None, <<0, 0, 1>>}, joint : {None, 0}]
          /\ p.index # None => p.verts = 2
      BY DEF Importer!Prims, Importer!Prim
    <3> DEFINE ix == <<0, 0, 1>>
    <3>2. ix \in Seq(Nat) /\ Len(ix) = 3 /\ \A k \in 1 .. 3 : ix[k] < 2
      OBVIOUS
    <3>3. p.index = None \/ p.index = ix
      BY <3>1
    <3>4. p.index # None => p.index = ix /\ p.verts = 2
      BY <3>1, <3>3
    <3> HIDE DEF ix
    <3>7. p.material \in {None, "steel", "paint", "glass"}
      BY <3>1
    <3>8. p.verts \in Nat \ {0}
      BY <3>1
    <3>9. p.index \in {None} \cup Seq(Nat)
      BY <3>2, <3>3
    <3>5. /\ p.material \in {None, "steel", "paint", "glass"} /\ p.verts \in Nat \ {0}
          /\ p.index \in {None} \cup Seq(Nat) /\ p.joint \in {None, 0}
      BY <3>1, <3>7, <3>8, <3>9
    <3>6. p \in [material : {None, "steel", "paint", "glass"}, verts : Nat \ {0},
                 index : {None} \cup Seq(Nat), joint : {None, 0}]
      BY <3>1, <3>5
    <3> QED BY <3>2, <3>4, <3>6 DEF PrimFits
  <2>2. PrimFits(Importer!Plain) /\ PrimFits([Importer!Plain EXCEPT !.material = "glass"])
        /\ PrimFits([Importer!Plain EXCEPT !.material = "paint"])
    BY DEF PrimFits, Importer!Plain
  <2> QED BY <2>1, <2>2 DEF Importer!Motley
<1> DEFINE Fit(q) == /\ Len(q) \in Nat \ {0} /\ DOMAIN q = 1 .. Len(q)
                     /\ \A i \in 1 .. Len(q) : PrimFits(q[i])
           FitRig(r) == r # None => /\ RigFits(r)
                                    /\ \A g, h \in 1 .. Len(r.joints) :
                                         g # h => r.joints[g] # r.joints[h]
           FitTracks(a) == /\ Len(a) \in Nat /\ DOMAIN a = 1 .. Len(a)
                           /\ \A c \in 1 .. Len(a) : ChannelsFit(a[c])
<1>2. /\ \A a \in Importer!Prims : Fit(<<a>>)
      /\ \A a, b \in Importer!Prims : Fit(<<a, b>>)
      /\ Fit(<<Importer!Plain>>)
  BY <1>1
<1>3. \A n \in 2 .. 3 : Fit(SubSeq(Importer!Motley, 1, n))
  <2> SUFFICES ASSUME NEW n \in 2 .. 3 PROVE Fit(SubSeq(Importer!Motley, 1, n))
    OBVIOUS
  <2>1. /\ Importer!Motley[1] = Importer!Plain /\ Len(Importer!Motley) = 3
        /\ Importer!Motley \in Seq({Importer!Plain, Importer!Motley[2], Importer!Motley[3]})
    BY DEF Importer!Motley
  <2>2. \A i \in 1 .. n : Importer!Motley[i] \in {Importer!Plain, Importer!Motley[2], Importer!Motley[3]}
    BY <2>1
  <2>3. /\ SubSeq(Importer!Motley, 1, n) \in Seq({Importer!Plain, Importer!Motley[2], Importer!Motley[3]})
        /\ Len(SubSeq(Importer!Motley, 1, n)) = n
        /\ \A i \in 1 .. n : SubSeq(Importer!Motley, 1, n)[i] = Importer!Motley[i]
    BY <2>1, <2>2, SubSeqProperties
  <2> DEFINE q == SubSeq(Importer!Motley, 1, n)
  <2> HIDE DEF q
  <2> DEFINE P == {Importer!Plain, Importer!Motley[2], Importer!Motley[3]}
  <2>6. \A x \in P : PrimFits(x)
    BY <1>1
  <2> HIDE DEF P
  <2>7. q \in Seq(P) /\ Len(q) = n /\ \A i \in 1 .. n : q[i] \in P
    BY <2>2, <2>3 DEF q, P
  <2>4. DOMAIN q = 1 .. Len(q)
    BY <2>7
  <2>5. Fit(q)
    BY <2>4, <2>6, <2>7
  <2> QED BY <2>5 DEF q
<1>4. FitRig(None) /\ FitRig(Importer!OneBone)
  <2>1. Importer!OneBone.joints = <<1>> /\ Importer!OneBone.parent = [n \in RigNode |-> 0]
    BY DEF Importer!OneBone, RigNode
  <2>2. <<1>> \in Seq(RigNode) /\ Len(<<1>>) = 1
    BY DEF RigNode
  <2>3. RigFits(Importer!OneBone)
    BY <2>1, <2>2 DEF RigFits
  <2> QED BY <2>1, <2>2, <2>3
<1>5. \A r \in Importer!Rigs : FitRig(r)
  <2> SUFFICES ASSUME NEW r \in Importer!Rigs PROVE FitRig(r)
    OBVIOUS
  <2>1. r \in [parent : [RigNode -> RigNode \cup {0}], joints : Importer!Orders]
    BY DEF Importer!Rigs, RigNode
  <2>2. PICK k \in 1 .. RigNodes :
          r.joints \in [1 .. k -> RigNode] /\ \A i, j \in 1 .. k : i # j => r.joints[i] # r.joints[j]
    <3>1. Importer!Cardinality(1 .. RigNodes) = RigNodes
      BY RigCounted DEF Importer!Most
    <3> QED BY <2>1, <3>1, Zenon DEF Importer!Orders, RigNode
  <2>3. r.joints \in Seq(RigNode) /\ Len(r.joints) = k /\ k >= 1 /\ k \in Nat
    BY <2>2
  <2> QED BY <2>1, <2>2, <2>3 DEF RigFits
<1>6. FitTracks(<<>>) /\ FitTracks(Importer!Some) /\ FitTracks(Importer!Many)
  <2> DEFINE a == Importer!Channel(1, <<0, 2>>)
             b == Importer!Channel(2, <<0, 1>>)
             c == Importer!Channel(1, <<0, 3>>)
             d == Importer!Spline(1, <<4>>)
             e == Importer!Spline(1, <<0, 2>>)
             m == <<d, b, c>>
  <2>1. TrackFits(a) /\ TrackFits(b) /\ TrackFits(c) /\ TrackFits(d) /\ TrackFits(e)
    <3>1. /\ a.times = <<0, 2>> /\ b.times = <<0, 1>> /\ c.times = <<0, 3>>
          /\ d.times = <<4>> /\ e.times = <<0, 2>>
      BY DEF Importer!Channel, Importer!Spline
    <3> HIDE DEF a, b, c, d, e
    <3>2. TrackFits(a)
      BY <3>1 DEF TrackFits
    <3>3. TrackFits(b)
      BY <3>1 DEF TrackFits
    <3>4. TrackFits(c)
      BY <3>1 DEF TrackFits
    <3>5. TrackFits(d)
      BY <3>1 DEF TrackFits
    <3>6. TrackFits(e)
      BY <3>1 DEF TrackFits
    <3> QED BY <3>2, <3>3, <3>4, <3>5, <3>6
  <2>2. Importer!Some = <<<<a>>>> /\ Importer!Many = <<m, <<e>>>>
    BY DEF Importer!Some, Importer!Many
  <2> HIDE DEF a, b, c, d, e
  <2>3. ChannelsFit(<<a>>) /\ ChannelsFit(<<e>>) /\ ChannelsFit(m)
    BY <2>1 DEF ChannelsFit
  <2> HIDE DEF m
  <2>4. FitTracks(<<>>)
    OBVIOUS
  <2>5. FitTracks(<<<<a>>>>)
    BY <2>3
  <2>6. FitTracks(<<m, <<e>>>>)
    BY <2>3
  <2> QED BY <2>2, <2>4, <2>5, <2>6
<1> DEFINE Made(p, r, a) == s = [prims |-> p, rig |-> r, animations |-> a]
<1>7. \E p, r, a : Made(p, r, a) /\ Fit(p) /\ FitRig(r) /\ FitTracks(a)
  <2> DEFINE P1 == {<<a>> : a \in Importer!Prims}
             P2 == {<<a, b>> : a, b \in Importer!Prims}
             P3 == {SubSeq(Importer!Motley, 1, n) : n \in 2 .. 3}
             P == P1 \cup P2 \cup P3
  <2>1. \/ \E p \in P, r \in {None, Importer!OneBone} : Made(p, r, <<>>)
        \/ \E a \in {Importer!Some, Importer!Many} : Made(<<Importer!Plain>>, Importer!OneBone, a)
        \/ \E r \in Importer!Rigs : Made(<<Importer!Plain>>, r, Importer!Many)
    BY DEF Importer!Scenes
  <2> HIDE DEF Fit, FitRig, FitTracks, Made
  <2>2. ASSUME NEW p \in P PROVE Fit(p)
    <3>1. ASSUME p \in P1 PROVE Fit(p)
      BY <1>2, <3>1
    <3>2. ASSUME p \in P2 PROVE Fit(p)
      BY <1>2, <3>2
    <3>3. ASSUME p \in P3 PROVE Fit(p)
      <4>1. PICK n \in 2 .. 3 : p = SubSeq(Importer!Motley, 1, n)
        BY <3>3
      <4> QED BY <1>3, <4>1
    <3> HIDE DEF P1, P2, P3
    <3> QED BY <3>1, <3>2, <3>3
  <2> HIDE DEF P
  <2>3. CASE \E p \in P, r \in {None, Importer!OneBone} : Made(p, r, <<>>)
    BY <1>4, <1>6, <2>2, <2>3
  <2>4. CASE \E a \in {Importer!Some, Importer!Many} : Made(<<Importer!Plain>>, Importer!OneBone, a)
    BY <1>2, <1>4, <1>6, <2>4
  <2>5. CASE \E r \in Importer!Rigs : Made(<<Importer!Plain>>, r, Importer!Many)
    BY <1>2, <1>5, <1>6, <2>5
  <2> QED BY <2>1, <2>3, <2>4, <2>5
<1> HIDE DEF Fit, FitRig, FitTracks
<1>9. PICK p, r, a : Made(p, r, a) /\ Fit(p) /\ FitRig(r) /\ FitTracks(a)
  BY <1>7
<1>8. s.prims = p /\ s.rig = r /\ s.animations = a
  BY <1>9
<1> QED BY <1>8, <1>9 DEF SceneFits, Fit, FitRig, FitTracks

LEMMA NoneNumbered ==
  ASSUME RigAssumption, NEW r, RigFits(r),
         NEW nums, nums = [g \in 1 .. Len(r.joints) |-> None]
  PROVE  Numbered(r, nums, 0)
<1>1. nums \in [1 .. Len(r.joints) -> (0 .. 0 - 1) \cup {None}] /\ 0 \in 0 .. Len(r.joints)
  BY DEF RigFits
<1>2. {g \in 1 .. Len(r.joints) : nums[g] # None} = {}
  OBVIOUS
<1>3. Cardinality({g \in 1 .. Len(r.joints) : nums[g] # None}) = 0
  BY <1>2, FS_EmptySet, Zenon
<1>4. \A g \in 1 .. Len(r.joints) : nums[g] = None
  OBVIOUS
<1>5. \A e \in 0 .. 0 - 1 : \E g \in 1 .. Len(r.joints) : nums[g] = e
  OBVIOUS
<1> QED BY <1>1, <1>3, <1>4, <1>5 DEF Numbered

\* One more joint takes the next number, if the one above it has its own.
LEMMA OneMoreNumbered ==
  ASSUME RigAssumption, NEW r, RigFits(r), NEW nums, NEW n, Numbered(r, nums, n),
         n < Len(r.joints), NEW j \in 1 .. Len(r.joints), nums[j] = None,
         Above(r, j) = None \/ nums[Above(r, j)] # None,
         NEW new, new = [nums EXCEPT ![j] = n]
  PROVE  Numbered(r, new, n + 1)
<1> DEFINE J == 1 .. Len(r.joints)
           given(f) == {g \in J : f[g] # None}
<1>1. Len(r.joints) \in Nat /\ n \in Nat /\ n + 1 \in 0 .. Len(r.joints) /\ None \notin Nat
  BY DEF RigFits, Numbered, RigAssumption
<1>2. nums \in [J -> (0 .. n - 1) \cup {None}]
  BY DEF Numbered
<1>3. \A g \in J : new[g] = IF g = j THEN n ELSE nums[g]
  BY <1>2
<1>4. new \in [J -> (0 .. (n + 1) - 1) \cup {None}]
  <2>1. \A g \in J : nums[g] \in (0 .. (n + 1) - 1) \cup {None}
    BY <1>1, <1>2
  <2>2. n \in 0 .. (n + 1) - 1
    BY <1>1
  <2> QED BY <1>2, <2>1, <2>2
<1>5. \A g \in J : nums[g] # n
  BY <1>1, <1>2
<1>6. \A g, h \in J : new[g] = new[h] /\ new[g] # None => g = h
  BY <1>3, <1>5 DEF Numbered
<1>7. \A e \in 0 .. (n + 1) - 1 : \E g \in J : new[g] = e
  <2> SUFFICES ASSUME NEW e \in 0 .. (n + 1) - 1 PROVE \E g \in J : new[g] = e
    OBVIOUS
  <2>1. CASE e = n
    BY <1>3, <2>1
  <2>2. CASE e # n
    <3>1. e \in 0 .. n - 1 /\ e # None
      BY <1>1, <2>2
    <3>2. PICK g \in J : nums[g] = e
      BY <3>1 DEF Numbered
    <3> QED BY <1>3, <3>1, <3>2
  <2> QED BY <2>1, <2>2
<1>8. Cardinality(given(new)) = n + 1
  <2>1. given(new) = given(nums) \cup {j}
    BY <1>1, <1>3
  <2>2. IsFiniteSet(J)
    BY <1>1, FS_Interval
  <2>3. IsFiniteSet(given(nums))
    BY <2>2, FS_Subset
  <2>4. Cardinality(given(nums)) = n /\ j \notin given(nums)
    BY DEF Numbered
  <2> HIDE DEF given
  <2>5. Cardinality(given(nums) \cup {j}) = Cardinality(given(nums)) + 1
    BY <2>3, <2>4, FS_AddElement, Zenon
  <2> QED BY <2>1, <2>4, <2>5, Zenon
<1>9. ASSUME NEW g \in J, new[g] # None, Above(r, g) # None
      PROVE  new[Above(r, g)] # None /\ new[Above(r, g)] < new[g]
  <2>1. Above(r, g) \in J
    BY <1>9, AboveIs
  <2>2. CASE g = j
    <3>1. nums[Above(r, g)] # None /\ Above(r, g) # j
      BY <1>9, <2>2
    <3>2. new[Above(r, g)] = nums[Above(r, g)] /\ new[g] = n
      BY <1>3, <2>1, <2>2, <3>1
    <3>3. nums[Above(r, g)] \in 0 .. n - 1
      BY <1>2, <2>1, <3>1
    <3> QED BY <1>1, <3>1, <3>2, <3>3
  <2>3. CASE g # j
    <3>1. new[g] = nums[g] /\ nums[g] # None
      BY <1>3, <1>9, <2>3
    <3>2. nums[Above(r, g)] # None /\ nums[Above(r, g)] < nums[g]
      BY <1>9, <3>1 DEF Numbered
    <3>3. Above(r, g) # j
      BY <3>2
    <3>4. new[Above(r, g)] = nums[Above(r, g)]
      BY <1>3, <2>1, <3>3
    <3> QED BY <3>1, <3>2, <3>4
  <2> QED BY <2>2, <2>3
<1> QED BY <1>1, <1>4, <1>6, <1>7, <1>8, <1>9 DEF Numbered

\* When there are as many numbers as joints, each joint has one.
LEMMA AllNumbered ==
  ASSUME RigAssumption, NEW r, RigFits(r), NEW nums, Numbered(r, nums, Len(r.joints)),
         NEW g \in 1 .. Len(r.joints)
  PROVE  nums[g] \in 0 .. Len(r.joints) - 1
<1> DEFINE J == 1 .. Len(r.joints)
           S == {x \in J : nums[x] # None}
<1>1. Len(r.joints) \in Nat
  BY DEF RigFits, RigAssumption
<1>2. IsFiniteSet(J) /\ Cardinality(J) = Len(r.joints)
  BY <1>1, FS_Interval
<1>3. Cardinality(S) = Len(r.joints) /\ S \in SUBSET J
  BY DEF Numbered
<1>4. S = J
  <2> HIDE DEF S, J
  <2> QED BY <1>2, <1>3, FS_Subset
<1>5. nums[g] # None
  BY <1>4
<1> QED BY <1>5 DEF Numbered

\* A pass in which every joint had to wait found a circle.
LEMMA AllWaitInACircle ==
  ASSUME RigAssumption, NEW r, RigFits(r), NEW nums, NEW n, Numbered(r, nums, n),
         n < Len(r.joints), \A g \in 1 .. Len(r.joints) : Waits(r, nums, g)
  PROVE  Circular(r)
<1> DEFINE J == 1 .. Len(r.joints)
           S == {g \in J : nums[g] = None}
<1>1. Len(r.joints) \in Nat /\ DOMAIN r.joints = J
  BY DEF RigFits, RigAssumption
<1>2. S # {}
  <2> SUFFICES ASSUME S = {} PROVE FALSE
    OBVIOUS
  <2>1. {g \in J : nums[g] # None} = J
    OBVIOUS
  <2>2. Cardinality(J) = Len(r.joints)
    BY <1>1, FS_Interval
  <2>3. Cardinality(J) = n
    BY <2>1, Zenon DEF Numbered
  <2> QED BY <1>1, <2>2, <2>3
<1>3. ASSUME NEW g \in S PROVE Above(r, g) \in S
  <2>1. Above(r, g) # None /\ nums[Above(r, g)] = None
    BY DEF Waits
  <2> QED BY <2>1, AboveIs
<1>4. S \in (SUBSET DOMAIN r.joints) \ {{}}
  <2>1. S \subseteq DOMAIN r.joints
    BY <1>1
  <2> QED BY <1>2, <2>1
<1> HIDE DEF S
<1>5. \A g \in S : Above(r, g) \in S
  BY <1>3
<1> QED BY <1>4, <1>5 DEF Circular

Vertex == [prim : Nat, i : Nat, joint : Nat \cup {None}]

JointsIInv ==
  /\ SceneFits(scene)
  /\ pc \in {"count", "refused", "skeleton", "append", "save", "failed", "mixed", "loaded"}
  /\ at \in Nat \ {0} /\ verts \in Seq(Vertex)
  /\ pc \in {"count", "refused"} => skel = None /\ verts = <<>> /\ next = 0 /\ before = 0
  /\ pc = "skeleton" =>
       /\ scene.rig # None /\ skel = None /\ verts = <<>>
       /\ Numbered(scene.rig, remap, next) /\ before \in 0 .. next
       /\ next = before => \A g \in 1 .. Len(scene.rig.joints) : g < at => Waits(scene.rig, remap, g)
  /\ skel # None =>
       /\ scene.rig # None /\ RigTaken(scene.rig, remap, skel.parents)
       /\ \A v \in 1 .. Len(verts) : verts[v].joint \in 0 .. Len(scene.rig.joints) - 1
  /\ pc \notin {"count", "refused", "skeleton"} /\ scene.rig # None /\ skel = None =>
       Circular(scene.rig)

LEMMA JointsInit == RigAssumption /\ Importer!Init => JointsIInv
<1> SUFFICES ASSUME RigAssumption, Importer!Init PROVE JointsIInv
  OBVIOUS
<1>1. SceneFits(scene)
  BY ScenesFit DEF Importer!Init
<1>2. pc = "count" /\ at = 1 /\ verts = <<>> /\ next = 0 /\ before = 0 /\ skel = None
  BY DEF Importer!Init
<1>3. verts \in Seq(Vertex)
  BY <1>2
<1> QED BY <1>1, <1>2, <1>3 DEF JointsIInv

\* What leaves the rig and the vertices alone, within the same stages.
LEMMA JointsKept ==
  ASSUME JointsIInv, UNCHANGED <<scene, verts, remap, next, before, skel>>, at' \in Nat \ {0},
         \/ pc = "count" /\ pc' \in {"count", "refused"}
         \/ pc \notin {"count", "refused", "skeleton"}
            /\ pc' \in {"append", "save", "failed", "mixed", "loaded"}
  PROVE  JointsIInv'
<1>1. CASE pc = "count" /\ pc' \in {"count", "refused"}
  BY <1>1 DEF JointsIInv
<1>2. CASE pc \notin {"count", "refused", "skeleton"}
           /\ pc' \in {"append", "save", "failed", "mixed", "loaded"}
  BY <1>2 DEF JointsIInv
<1> QED BY <1>1, <1>2

LEMMA LayoutIInv ==
  ASSUME RigAssumption, JointsIInv, Importer!Layout PROVE JointsIInv'
<1>1. /\ pc = "count" /\ at' = 1
      /\ UNCHANGED <<scene, verts, next, before, skel>>
      /\ pc' = IF scene.rig = None THEN "append" ELSE "skeleton"
      /\ remap' = IF scene.rig = None THEN <<>> ELSE [g \in DOMAIN scene.rig.joints |-> None]
  BY DEF Importer!Layout, Importer!Joints
<1>2. skel = None /\ verts = <<>> /\ next = 0 /\ before = 0 /\ SceneFits(scene)
  BY <1>1 DEF JointsIInv
<1>3. CASE scene.rig = None
  BY <1>1, <1>2, <1>3 DEF JointsIInv
<1>4. CASE scene.rig # None
  <2>1. RigFits(scene.rig)
    BY <1>2, <1>4 DEF SceneFits
  <2>2. DOMAIN scene.rig.joints = 1 .. Len(scene.rig.joints)
    BY <2>1 DEF RigFits
  <2>3. remap' = [g \in 1 .. Len(scene.rig.joints) |-> None]
    BY <1>1, <1>4, <2>2
  <2>4. Numbered(scene.rig, remap', 0)
    BY <2>1, <2>3, NoneNumbered
  <2>5. Numbered(scene.rig, remap, next)'
    BY <1>1, <1>2, <2>4
  <2>6. ~(\E g \in 1 .. Len(scene.rig.joints) : g < 1)
    OBVIOUS
  <2>7. pc' = "skeleton" /\ verts' = <<>> /\ skel' = None /\ next' = 0 /\ before' = 0 /\ scene' = scene
    BY <1>1, <1>2, <1>4
  <2>8. verts' \in Seq(Vertex) /\ at' \in Nat \ {0} /\ before' \in 0 .. next'
    BY <1>1, <2>7
  <2>9. \A g \in 1 .. Len(scene'.rig.joints) : g < at' => Waits(scene'.rig, remap', g)
    BY <1>1, <2>6, <2>7
  <2> QED BY <1>2, <1>4, <2>5, <2>7, <2>8, <2>9 DEF JointsIInv
<1> QED BY <1>3, <1>4

LEMMA AssignIInv ==
  ASSUME RigAssumption, JointsIInv, Importer!Assign PROVE JointsIInv'
<1> DEFINE r == scene.rig
<1>1. /\ pc = "skeleton" /\ at <= Len(r.joints) /\ next < Len(r.joints) /\ at' = at + 1
      /\ UNCHANGED <<scene, pc, verts, before, skel>>
  BY DEF Importer!Assign, Importer!geometry, Importer!Joints
<1>2. /\ r # None /\ skel = None /\ verts = <<>> /\ Numbered(r, remap, next) /\ before \in 0 .. next
      /\ next = before => \A g \in 1 .. Len(r.joints) : g < at => Waits(r, remap, g)
      /\ at \in Nat \ {0} /\ SceneFits(scene)
  BY <1>1 DEF JointsIInv
<1>3. RigFits(r) /\ Len(r.joints) \in Nat /\ next \in Nat
  BY <1>2 DEF SceneFits, RigFits, Numbered, RigAssumption
<1>4. at \in 1 .. Len(r.joints) /\ at' \in Nat \ {0}
  BY <1>1, <1>2, <1>3
<1>5. Importer!Ready(at) <=> Above(r, at) = None \/ remap[Above(r, at)] # None
  BY DEF Importer!Ready, Above, Importer!Joints
<1>6. CASE remap[at] = None /\ Importer!Ready(at)
  <2>1. remap' = [remap EXCEPT ![at] = next] /\ next' = next + 1
    BY <1>6 DEF Importer!Assign
  <2>2. Numbered(r, remap', next + 1)
    <3> HIDE DEF r
    <3> QED BY <1>1, <1>2, <1>3, <1>4, <1>5, <1>6, <2>1, OneMoreNumbered, Zenon
  <2>3. Numbered(scene.rig, remap, next)'
    BY <1>1, <2>1, <2>2
  <2>4. next' # before' /\ before' \in 0 .. next'
    BY <1>1, <1>2, <1>3, <2>1
  <2>5. verts' \in Seq(Vertex) /\ verts' = <<>> /\ skel' = None /\ pc' = "skeleton" /\ scene' = scene
    BY <1>1, <1>2
  <2> QED BY <1>2, <1>4, <2>3, <2>4, <2>5 DEF JointsIInv
<1>7. CASE ~(remap[at] = None /\ Importer!Ready(at))
  <2>1. UNCHANGED <<remap, next>>
    BY <1>7 DEF Importer!Assign
  <2>2. Waits(r, remap, at)
    BY <1>5, <1>7 DEF Waits
  <2>3. next = before => \A g \in 1 .. Len(r.joints) : g < at + 1 => Waits(r, remap, g)
    <3> SUFFICES ASSUME next = before, NEW g \in 1 .. Len(r.joints), g < at + 1 PROVE Waits(r, remap, g)
      OBVIOUS
    <3>1. g < at \/ g = at
      BY <1>4
    <3> QED BY <1>2, <2>2, <3>1
  <2>4. (next = before => \A g \in 1 .. Len(r.joints) : g < at => Waits(r, remap, g))'
    BY <1>1, <2>1, <2>3
  <2>5. Numbered(scene.rig, remap, next)'
    BY <1>1, <1>2, <2>1
  <2>6. verts' \in Seq(Vertex) /\ verts' = <<>> /\ skel' = None /\ pc' = "skeleton" /\ scene' = scene
        /\ before' \in 0 .. next'
    BY <1>1, <1>2, <2>1
  <2> QED BY <1>2, <1>4, <2>4, <2>5, <2>6 DEF JointsIInv
<1> QED BY <1>6, <1>7

LEMMA PassIInv ==
  ASSUME RigAssumption, JointsIInv, Importer!Pass PROVE JointsIInv'
<1> DEFINE r == scene.rig
<1>1. /\ pc = "skeleton" /\ at > Len(r.joints) /\ next < Len(r.joints) /\ at' = 1 /\ before' = next
      /\ UNCHANGED <<scene, verts, remap, next, skel>>
      /\ IF next = before THEN pc' = "append" ELSE UNCHANGED pc
  BY DEF Importer!Pass, Importer!geometry, Importer!Joints
<1>2. /\ r # None /\ skel = None /\ verts = <<>> /\ Numbered(r, remap, next) /\ before \in 0 .. next
      /\ next = before => \A g \in 1 .. Len(r.joints) : g < at => Waits(r, remap, g)
      /\ at \in Nat \ {0} /\ SceneFits(scene)
  BY <1>1 DEF JointsIInv
<1>3. RigFits(r) /\ Len(r.joints) \in Nat /\ next \in Nat
  BY <1>2 DEF SceneFits, RigFits, Numbered, RigAssumption
<1>4. /\ at' \in Nat \ {0} /\ verts' \in Seq(Vertex) /\ verts' = <<>> /\ skel' = None
      /\ SceneFits(scene)' /\ r' = r /\ r' # None
  BY <1>1, <1>2
<1>5. CASE next = before
  <2>1. \A g \in 1 .. Len(r.joints) : Waits(r, remap, g)
    <3> SUFFICES ASSUME NEW g \in 1 .. Len(r.joints) PROVE Waits(r, remap, g)
      OBVIOUS
    <3>1. g < at
      BY <1>1, <1>2, <1>3
    <3> QED BY <1>2, <1>5, <3>1
  <2>2. Circular(r)
    <3> HIDE DEF r
    <3> QED BY <1>1, <1>2, <1>3, <2>1, AllWaitInACircle
  <2>3. Circular(scene.rig)' /\ pc' = "append"
    BY <1>1, <1>5, <2>2
  <2> QED BY <1>4, <2>3 DEF JointsIInv
<1>6. CASE next # before
  <2>1. pc' = "skeleton" /\ before' \in 0 .. next' /\ Numbered(scene.rig, remap, next)'
    BY <1>1, <1>2, <1>3, <1>6
  <2>2. \A g \in 1 .. Len(scene'.rig.joints) : g < at' => Waits(scene'.rig, remap', g)
    BY <1>1
  <2> QED BY <1>4, <2>1, <2>2 DEF JointsIInv
<1> QED BY <1>5, <1>6

LEMMA SkeletonIInv ==
  ASSUME RigAssumption, JointsIInv, Importer!Skeleton PROVE JointsIInv'
<1> DEFINE r == scene.rig
           J == 1 .. Len(r.joints)
           E == 0 .. Len(r.joints) - 1
           roots == Importer!SelectInSeq(remap, LAMBDA e : Importer!Parents[e] < 0)
           root == IF roots = 0 THEN 0 ELSE r.parent[r.joints[roots]]
<1>1. /\ pc = "skeleton" /\ next = Len(r.joints) /\ pc' = "append" /\ at' = 1
      /\ skel' = [parents |-> Importer!Parents, root |-> root]
      /\ UNCHANGED <<scene, verts, remap, next, before>>
  BY DEF Importer!Skeleton, Importer!geometry, Importer!Joints
<1>2. /\ r # None /\ skel = None /\ verts = <<>> /\ Numbered(r, remap, Len(r.joints))
      /\ SceneFits(scene)
  BY <1>1 DEF JointsIInv
<1>3. RigFits(r) /\ Len(r.joints) \in 1 .. RigNodes /\ RigNodes \in Nat /\ Len(r.joints) \in Nat
      /\ DOMAIN r.joints = J
  BY <1>2 DEF SceneFits, RigFits, RigAssumption
<1>4. \A g \in J : remap[g] \in E
  <2> HIDE DEF r
  <2> QED BY <1>2, <1>3, AllNumbered
<1>5. \A g \in J : Above(r, g) \in J \cup {None}
  <2> HIDE DEF r
  <2> QED BY <1>3, AboveIs
<1>6. /\ DOMAIN Importer!Parents = E
      /\ \A e \in E : Importer!Parents[e] =
           LET g == CHOOSE x \in J : remap[x] = e
           IN  IF Above(r, g) = None THEN -1 ELSE remap[Above(r, g)]
  BY <1>3 DEF Importer!Parents, Importer!Joints, Above
<1> HIDE DEF r
<1>7. ASSUME NEW g \in J
      PROVE  Importer!Parents[remap[g]] = IF Above(r, g) = None THEN -1 ELSE remap[Above(r, g)]
  <2>1. remap[g] \in E /\ remap[g] # None
    BY <1>3, <1>4 DEF RigAssumption
  <2>2. \A x \in J : remap[x] = remap[g] => x = g
    BY <1>2, <2>1 DEF Numbered
  <2>3. (CHOOSE x \in J : remap[x] = remap[g]) = g
    BY <2>2
  <2> QED BY <1>6, <2>1, <2>3, Zenon
<1>8. ASSUME NEW e \in E
      PROVE  Importer!Parents[e] \in Int /\ Importer!Parents[e] < e
  <2>1. PICK g \in J : remap[g] = e
    BY <1>2 DEF Numbered
  <2>2. CASE Above(r, g) = None
    BY <1>3, <1>7, <2>1, <2>2
  <2>3. CASE Above(r, g) # None
    <3>1. Above(r, g) \in J
      BY <1>5, <2>3
    <3>2. remap[Above(r, g)] \in E
      BY <1>4, <3>1
    <3>3. remap[g] # None
      BY <1>3, <2>1 DEF RigAssumption
    <3>4. remap[Above(r, g)] < remap[g]
      BY <1>2, <2>3, <3>3 DEF Numbered
    <3> QED BY <1>3, <1>7, <2>1, <2>3, <3>2, <3>4
  <2> QED BY <2>2, <2>3
<1>9. Importer!Parents \in [E -> Int]
  <2> DEFINE P == Importer!Parents
             above(g) == IF Above(r, g) = None THEN -1 ELSE remap[Above(r, g)]
             term(e) == above(CHOOSE x \in J : remap[x] = e)
  <2>1. P = [e \in E |-> term(e)]
    BY <1>3 DEF Importer!Parents, Importer!Joints, Above, r
  <2>2. \A e \in E : P[e] \in Int
    BY <1>8
  <2> HIDE DEF P, E, term
  <2>3. P \in [E -> Int]
    BY <2>1, <2>2
  <2> QED BY <2>3 DEF P
<1>10. root \in Nat
  <2> DEFINE I == {i \in 1 .. Len(remap) : Importer!Parents[remap[i]] < 0}
  <2>1. roots = IF I = {} THEN 0 ELSE Importer!Min(I)
    BY DEF Importer!SelectInSeq
  <2>2. remap \in Seq(Nat \cup {None}) /\ Len(remap) = Len(r.joints)
    <3>1. remap \in [J -> Nat \cup {None}]
      BY <1>2, <1>3 DEF Numbered
    <3> QED BY <1>3, <3>1
  <2>3. CASE roots = 0
    BY <2>3
  <2>4. CASE roots # 0
    <3>1. I # {} /\ I \in SUBSET Nat
      BY <1>3, <2>1, <2>2, <2>4
    <3>2. \E i \in I : \A j \in I : i <= j
      <4> HIDE DEF I
      <4> QED BY <3>1, LeastExists
    <3>3. roots \in I
      <4> HIDE DEF I, roots
      <4> QED BY <2>1, <3>1, <3>2, Zenon DEF Importer!Min
    <3>4. roots \in J
      BY <2>2, <3>3
    <3> HIDE DEF roots
    <3>5. r.joints[roots] \in RigNode
      BY <1>3, <3>4, ElementOfSeq DEF RigFits
    <3>6. r.parent[r.joints[roots]] \in Nat
      BY <1>3, <3>5 DEF RigFits, RigNode
    <3> QED BY <2>4, <3>6
  <2> QED BY <2>3, <2>4
<1> HIDE DEF root
<1>11. skel' # None
  <2>1. Importer!Parents \in UNION {[0 .. n - 1 -> Int] : n \in 1 .. RigNodes}
    BY <1>3, <1>9
  <2> QED BY <1>1, <1>10, <2>1 DEF RigAssumption
<1>12. RigTaken(r, remap, Importer!Parents)
  BY <1>2, <1>6, <1>7, <1>8 DEF RigTaken
<1>13. skel'.parents = Importer!Parents
  BY <1>1
<1>14. r = scene.rig /\ r' = scene'.rig
  BY DEF r
<1>15. RigTaken(scene.rig, remap, skel.parents)'
  BY <1>1, <1>12, <1>13, <1>14
<1>16. /\ SceneFits(scene)' /\ scene'.rig # None /\ verts' = <<>> /\ verts' \in Seq(Vertex)
       /\ Len(verts') = 0 /\ at' \in Nat \ {0}
  BY <1>1, <1>2, <1>14
<1> QED BY <1>1, <1>11, <1>15, <1>16 DEF JointsIInv

LEMMA AppendIInv ==
  ASSUME RigAssumption, JointsIInv, Importer!Append1 PROVE JointsIInv'
<1> DEFINE p == scene.prims[at]
           n == Len(scene.rig.joints)
           new == [i \in 1 .. p.verts |-> [prim |-> at, i |-> i - 1, joint |-> Importer!SkinOf(p)]]
<1>1. /\ pc = "append" /\ at <= Len(scene.prims) /\ at' = at + 1 /\ verts' = verts \o new
      /\ UNCHANGED <<scene, pc, remap, next, before, skel>>
  BY DEF Importer!Append1, Importer!rig
<1>2. SceneFits(scene) /\ at \in Nat \ {0} /\ verts \in Seq(Vertex)
  BY DEF JointsIInv
<1>3. p.verts \in Nat /\ p.joint \in {None, 0}
  <2>1. at \in 1 .. Len(scene.prims)
    BY <1>1, <1>2 DEF SceneFits
  <2> QED BY <1>2, <2>1 DEF SceneFits, PrimFits
<1>4. /\ skel = None => Importer!SkinOf(p) = None
      /\ skel # None => Importer!SkinOf(p) \in 0 .. n - 1 /\ n \in Nat
  <2>1. CASE skel = None
    BY <2>1 DEF Importer!SkinOf, Importer!HasSkin
  <2>2. CASE skel # None
    <3> DEFINE r == scene.rig
    <3>1. RigFits(r) /\ Numbered(r, remap, Len(r.joints))
      BY <1>2, <2>2 DEF JointsIInv, RigTaken, SceneFits
    <3>2. 1 \in 1 .. Len(r.joints) /\ Len(r.joints) \in Nat
      BY <3>1 DEF RigFits, RigAssumption
    <3> HIDE DEF r
    <3>3. remap[1] \in 0 .. Len(r.joints) - 1
      BY <3>1, <3>2, AllNumbered
    <3>4. Importer!SkinOf(p) = IF p.joint = None THEN 0 ELSE remap[p.joint + 1]
      BY <2>2 DEF Importer!SkinOf, Importer!HasSkin
    <3>5. p.joint # None => p.joint + 1 = 1
      BY <1>3
    <3>6. Importer!SkinOf(p) \in 0 .. Len(r.joints) - 1
      BY <3>2, <3>3, <3>4, <3>5
    <3> QED BY <2>2, <3>2, <3>6 DEF r
  <2> QED BY <2>1, <2>2
<1> HIDE DEF p, n
<1>5. Importer!SkinOf(p) \in Nat \cup {None}
  BY <1>4
<1>6. new \in Seq(Vertex) /\ Len(new) = p.verts
      /\ \A i \in 1 .. p.verts : new[i].joint = Importer!SkinOf(p)
  <2> DEFINE e(i) == [prim |-> at, i |-> i - 1, joint |-> Importer!SkinOf(p)]
  <2>1. \A i \in 1 .. p.verts : e(i) \in Vertex /\ e(i).joint = Importer!SkinOf(p)
    BY <1>2, <1>3, <1>5 DEF Vertex
  <2>2. new = [i \in 1 .. p.verts |-> e(i)]
    OBVIOUS
  <2> HIDE DEF new, e
  <2>3. new \in [1 .. p.verts -> Vertex] /\ \A i \in 1 .. p.verts : new[i] = e(i)
    BY <2>1, <2>2
  <2>4. new \in Seq(Vertex) /\ Len(new) = p.verts
    BY <1>3, <2>3
  <2> QED BY <2>1, <2>3, <2>4
<1> HIDE DEF new
<1>7. /\ verts' \in Seq(Vertex) /\ Len(verts') = Len(verts) + Len(new)
      /\ \A v \in 1 .. Len(verts) + Len(new) :
           verts'[v] = IF v <= Len(verts) THEN verts[v] ELSE new[v - Len(verts)]
  BY <1>1, <1>2, <1>6, ConcatProperties, Zenon
<1>8. Len(verts) \in Nat /\ Len(new) \in Nat
  BY <1>2, <1>6
<1>9. ASSUME skel # None, NEW v \in 1 .. Len(verts') PROVE verts'[v].joint \in 0 .. n - 1
  <2>1. CASE v <= Len(verts)
    <3>1. v \in 1 .. Len(verts) /\ verts'[v] = verts[v]
      BY <1>7, <1>8, <2>1
    <3> QED BY <1>9, <3>1 DEF JointsIInv, n
  <2>2. CASE ~(v <= Len(verts))
    <3>1. v - Len(verts) \in 1 .. Len(new) /\ verts'[v] = new[v - Len(verts)]
      BY <1>7, <1>8, <2>2
    <3> QED BY <1>4, <1>6, <1>9, <3>1
  <2> QED BY <2>1, <2>2
<1>10. /\ pc' = "append" /\ at' \in Nat \ {0} /\ SceneFits(scene)'
  BY <1>1, <1>2
<1>11. skel' # None =>
         /\ scene'.rig # None /\ RigTaken(scene.rig, remap, skel.parents)'
         /\ \A v \in 1 .. Len(verts') : verts'[v].joint \in 0 .. Len(scene'.rig.joints) - 1
  BY <1>1, <1>9 DEF JointsIInv, n
<1>12. (scene.rig # None /\ skel = None => Circular(scene.rig))'
  BY <1>1 DEF JointsIInv
<1> QED BY <1>7, <1>10, <1>11, <1>12 DEF JointsIInv

LEMMA JointsStep ==
  ASSUME RigAssumption, JointsIInv, [Importer!Next]_Importer!vars PROVE JointsIInv'
<1>1. CASE UNCHANGED Importer!vars
  <2>1. UNCHANGED <<scene, pc, at, verts, remap, next, before, skel>>
    BY <1>1 DEF Importer!vars, Importer!geometry, Importer!rig
  <2> QED BY <2>1 DEF JointsIInv
<1>2. at \in Nat \ {0}
  BY DEF JointsIInv
<1>3. CASE Importer!Count
  <2>1. pc = "count" /\ pc' \in {"count", "refused"} /\ at' \in {at, at + 1}
        /\ UNCHANGED <<scene, verts, remap, next, before, skel>>
    BY <1>3 DEF Importer!Count, Importer!Refuse, Importer!geometry, Importer!rig
  <2> QED BY <1>2, <2>1, JointsKept
<1>4. CASE Importer!Textures
  <2>1. pc = "append" /\ pc' = "save" /\ at' = 1
        /\ UNCHANGED <<scene, verts, remap, next, before, skel>>
    BY <1>4 DEF Importer!Textures, Importer!rig
  <2> QED BY <2>1, JointsKept
<1>5. CASE Importer!Save
  <2>1. pc = "save" /\ pc' \in {"save", "failed"} /\ at' \in {at, at + 1}
        /\ UNCHANGED <<scene, verts, remap, next, before, skel>>
    BY <1>5, Zenon DEF Importer!Save, Importer!geometry, Importer!rig
  <2> QED BY <1>2, <2>1, JointsKept
<1>6. CASE Importer!Load
  <2>1. pc \in {"save", "failed"} /\ pc' \in {"mixed", "loaded"} /\ at' = at
        /\ UNCHANGED <<scene, verts, remap, next, before, skel>>
    BY <1>6 DEF Importer!Load, Importer!geometry, Importer!rig
  <2> QED BY <1>2, <2>1, JointsKept
<1>7. CASE Importer!Play
  <2>1. pc = "loaded" /\ pc' = "loaded" /\ at' = at
        /\ UNCHANGED <<scene, verts, remap, next, before, skel>>
    BY <1>7 DEF Importer!Play, Importer!geometry, Importer!rig
  <2> QED BY <1>2, <2>1, JointsKept
<1> QED BY <1>1, <1>3, <1>4, <1>5, <1>6, <1>7, LayoutIInv, AssignIInv, PassIInv,
           SkeletonIInv, AppendIInv DEF Importer!Next

LEMMA JointsFirst ==
  ASSUME RigAssumption, JointsIInv PROVE Importer!ParentsComeFirst
<1> DEFINE r == scene.rig
           J == 1 .. Len(r.joints)
           E == 0 .. Len(r.joints) - 1
<1>1. ASSUME r # None PROVE RigFits(r) /\ DOMAIN r.joints = J
  BY <1>1 DEF JointsIInv, SceneFits, RigFits
<1>2. ASSUME skel # None
      PROVE  /\ Importer!Range(remap) = E
             /\ \A g \in DOMAIN r.joints :
                  LET up == Importer!JointAbove(r, r.joints[g])
                  IN  skel.parents[remap[g]] = IF up = None THEN -1 ELSE remap[up]
             /\ \A e \in DOMAIN skel.parents : skel.parents[e] < e
             /\ \A v \in DOMAIN verts : verts[v].joint \in DOMAIN skel.parents
  <2>1. r # None /\ RigTaken(r, remap, skel.parents) /\ verts \in Seq(Vertex)
        /\ \A v \in 1 .. Len(verts) : verts[v].joint \in E
    BY <1>2 DEF JointsIInv
  <2>2. RigFits(r) /\ DOMAIN r.joints = J
    BY <1>1, <2>1
  <2>3. Numbered(r, remap, Len(r.joints)) /\ DOMAIN skel.parents = E
    BY <2>1 DEF RigTaken
  <2>4. \A g \in J : remap[g] \in E
    <3> HIDE DEF r
    <3> QED BY <2>2, <2>3, AllNumbered
  <2>5. Importer!Range(remap) = E
    <3>1. DOMAIN remap = J /\ \A e \in E : \E g \in J : remap[g] = e
      BY <2>3 DEF Numbered
    <3> QED BY <2>4, <3>1, Zenon DEF Importer!Range
  <2>6. \A g \in J : skel.parents[remap[g]] = IF Above(r, g) = None THEN -1 ELSE remap[Above(r, g)]
    BY <2>1 DEF RigTaken
  <2>7. \A e \in DOMAIN skel.parents : skel.parents[e] < e
    BY <2>1, <2>3 DEF RigTaken
  <2>8. \A v \in DOMAIN verts : verts[v].joint \in DOMAIN skel.parents
    BY <2>1, <2>3
  <2> QED BY <2>2, <2>5, <2>6, <2>7, <2>8 DEF Above
<1>3. ASSUME Importer!Written, r # None, skel = None PROVE Circular(r)
  <2>1. pc \notin {"count", "refused", "skeleton"}
    BY <1>3 DEF Importer!Written
  <2> QED BY <1>3, <2>1 DEF JointsIInv
<1> QED BY <1>2, <1>3 DEF Importer!ParentsComeFirst, Importer!Joints, Importer!HasSkin, Circular, Above

-----------------------------------------------------------------------------
(* The import of a model: its files.                                       *)

FileAssumption == MaxImages \in Nat /\ MaxClips \in Nat /\ None \notin [of : {"old", "new", "torn"}, n : Nat]

\* A file under the name: an older model's, this import's, or half of one.
File == [of : {"old", "new", "torn"}, n : Nat]
Disk == [mesh : File \cup {None}, textures : Seq(File), skel : File \cup {None},
         skin : File \cup {None}, clips : Seq(File)]

\* The first `n' files the import writes are its own.
Saved(n) ==
  /\ n >= 1 => disk.mesh = Importer!New(0)
  /\ \A i \in 1 .. Len(textures) : i + 1 <= n =>
       i <= Len(disk.textures) /\ disk.textures[i] = Importer!New(i)
  /\ Importer!HasSkin =>
       /\ n >= Len(textures) + 2 => disk.skel = Importer!New(1)
       /\ n >= Len(textures) + 3 => disk.skin = Importer!New(1)
       /\ \A c \in 1 .. Len(clips) : c + Len(textures) + 3 <= n =>
            c <= Len(disk.clips) /\ disk.clips[c] = Importer!New(c)

\* The keys on either side of a time, the same one before the first or after the last.
Between(s) ==
  /\ s.to \in DOMAIN s.times
  /\ s.from # s.to => s.now <= s.times[s.to]
  /\ s.from # 1 => s.times[s.from] <= s.now
  /\ \A k \in DOMAIN s.times : s.times[k] <= s.now => k <= s.from

FilesIInv ==
  /\ disk \in Disk
  /\ Importer!Written =>
       /\ textures \in Seq({"metal", "colour"}) /\ Len(textures) <= MaxImages
       /\ Len(clips) \in Nat /\ DOMAIN clips = 1 .. Len(clips)
       /\ \A c \in 1 .. Len(clips) : ClipFits(clips[c])
       /\ \A b \in DOMAIN buckets : buckets[b].texture \in {None} \cup 1 .. Len(textures)
  /\ pc = "save" => at - 1 \in 0 .. Len(Importer!Files) /\ Saved(at - 1)
  /\ pc = "loaded" => Saved(Len(Importer!Files)) /\ model = Importer!Loaded(disk)
  /\ sample # None => pc = "loaded" /\ Between(sample)

LEMMA NewIs ==
  ASSUME FileAssumption, NEW k \in Nat
  PROVE  /\ Importer!New(k) \in File /\ Importer!Old(k) \in File /\ Importer!Torn \in File
         /\ Importer!Whole(Importer!New(k))
<1>1. Importer!New(k) \in File /\ Importer!Old(k) \in File /\ Importer!Torn \in File
  BY DEF Importer!New, Importer!Old, Importer!Torn, File
<1>2. Importer!New(k).of = "new" /\ Importer!Torn.of = "torn"
  BY DEF Importer!New, Importer!Torn
<1> QED BY <1>1, <1>2 DEF Importer!Whole, FileAssumption, File

\* The files, in their order.
FilesOf(ts, cs, rigged) ==
  <<"mesh">> \o [t \in DOMAIN ts |-> "texture"]
  \o (IF rigged THEN <<"skel", "skin">> \o [c \in DOMAIN cs |-> "clip"] ELSE <<>>)

LEMMA FilesThen ==
  /\ Importer!Files = FilesOf(textures, clips, Importer!HasSkin)
  /\ Importer!Files' = FilesOf(textures', clips', Importer!HasSkin')
BY DEF Importer!Files, FilesOf

LEMMA FilesAre ==
  ASSUME NEW T \in Nat, NEW C \in Nat, NEW ts, NEW cs, NEW rigged \in BOOLEAN,
         DOMAIN ts = 1 .. T, DOMAIN cs = 1 .. C
  PROVE  /\ Len(FilesOf(ts, cs, rigged)) = 1 + T + (IF rigged THEN 2 + C ELSE 0)
         /\ \A i \in 1 .. Len(FilesOf(ts, cs, rigged)) :
              FilesOf(ts, cs, rigged)[i] =
                IF i = 1 THEN "mesh" ELSE IF i <= T + 1 THEN "texture"
                ELSE IF i = T + 2 THEN "skel" ELSE IF i = T + 3 THEN "skin" ELSE "clip"
<1> DEFINE S == {"mesh", "texture", "skel", "skin", "clip"}
           a == <<"mesh">>
           b == [t \in 1 .. T |-> "texture"]
           d == <<"skel", "skin">>
           e == [c \in 1 .. C |-> "clip"]
           f == IF rigged THEN d \o e ELSE <<>>
<1>1. FilesOf(ts, cs, rigged) = a \o b \o f
  BY DEF FilesOf
<1>2. a \in Seq(S) /\ Len(a) = 1 /\ a[1] = "mesh"
  OBVIOUS
<1>3. b \in Seq(S) /\ Len(b) = T /\ \A i \in 1 .. T : b[i] = "texture"
  OBVIOUS
<1>4. d \in Seq(S) /\ Len(d) = 2 /\ d[1] = "skel" /\ d[2] = "skin"
  OBVIOUS
<1>5. e \in Seq(S) /\ Len(e) = C /\ \A i \in 1 .. C : e[i] = "clip"
  OBVIOUS
<1> HIDE DEF S, a, b, d, e
<1>6. /\ d \o e \in Seq(S) /\ Len(d \o e) = 2 + C
      /\ \A i \in 1 .. 2 + C : (d \o e)[i] = IF i <= 2 THEN d[i] ELSE e[i - 2]
  <2>1. /\ d \o e \in Seq(S) /\ Len(d \o e) = Len(d) + Len(e)
        /\ \A i \in 1 .. Len(d) + Len(e) :
             (d \o e)[i] = IF i <= Len(d) THEN d[i] ELSE e[i - Len(d)]
    BY <1>4, <1>5, ConcatProperties, Zenon
  <2> QED BY <1>4, <1>5, <2>1
<1>7. /\ f \in Seq(S) /\ Len(f) = IF rigged THEN 2 + C ELSE 0
      /\ \A i \in 1 .. Len(f) : f[i] = IF i = 1 THEN "skel" ELSE IF i = 2 THEN "skin" ELSE "clip"
  <2>1. CASE rigged
    <3>1. ASSUME NEW i \in 1 .. 2 + C
          PROVE  (d \o e)[i] = IF i = 1 THEN "skel" ELSE IF i = 2 THEN "skin" ELSE "clip"
      <4>1. CASE i = 1 \/ i = 2
        BY <1>4, <1>6, <4>1
      <4>2. CASE i > 2
        <5>1. i - 2 \in 1 .. C
          BY <4>2
        <5> QED BY <1>5, <1>6, <4>2, <5>1
      <4>3. i = 1 \/ i = 2 \/ i > 2
        OBVIOUS
      <4> QED BY <4>1, <4>2, <4>3, Zenon
    <3> QED BY <1>6, <2>1, <3>1
  <2>2. CASE ~rigged
    <3>1. f = <<>>
      BY <2>2
    <3> QED BY <2>2, <3>1
  <2> QED BY <2>1, <2>2
<1> HIDE DEF f
<1>8. /\ a \o b \in Seq(S) /\ Len(a \o b) = 1 + T
      /\ \A i \in 1 .. 1 + T : (a \o b)[i] = IF i <= 1 THEN a[i] ELSE b[i - 1]
  <2>1. /\ a \o b \in Seq(S) /\ Len(a \o b) = Len(a) + Len(b)
        /\ \A i \in 1 .. Len(a) + Len(b) :
             (a \o b)[i] = IF i <= Len(a) THEN a[i] ELSE b[i - Len(a)]
    BY <1>2, <1>3, ConcatProperties, Zenon
  <2> QED BY <1>2, <1>3, <2>1
<1>9. \A i \in 1 .. 1 + T : (a \o b)[i] = IF i = 1 THEN "mesh" ELSE "texture"
  <2> SUFFICES ASSUME NEW i \in 1 .. 1 + T
               PROVE (a \o b)[i] = IF i = 1 THEN "mesh" ELSE "texture"
    BY Zenon
  <2>1. CASE i = 1
    BY <1>2, <1>8, <2>1
  <2>2. CASE i # 1
    <3>1. i - 1 \in 1 .. T /\ ~(i <= 1)
      BY <2>2
    <3> QED BY <1>3, <1>8, <2>2, <3>1
  <2> QED BY <2>1, <2>2, Zenon
<1> DEFINE g == a \o b
<1> HIDE DEF g
<1> DEFINE N == Len(f)
<1>13. N \in Nat
  BY <1>7
<1>10. /\ Len(g \o f) = (1 + T) + Len(f)
       /\ \A i \in 1 .. (1 + T) + Len(f) : (g \o f)[i] = IF i <= 1 + T THEN g[i] ELSE f[i - (1 + T)]
  <2>1. g \in Seq(S) /\ Len(g) = 1 + T
    BY <1>8 DEF g
  <2>2. /\ Len(g \o f) = Len(g) + Len(f)
        /\ \A i \in 1 .. Len(g) + Len(f) :
             (g \o f)[i] = IF i <= Len(g) THEN g[i] ELSE f[i - Len(g)]
    <3>1. f \in Seq(S)
      BY <1>7
    <3>2. g \in Seq(S)
      BY <2>1
    <3> QED BY <3>1, <3>2, ConcatProperties
  <2> QED BY <2>1, <2>2
<1>11. Len(f) \in Nat /\ Len(FilesOf(ts, cs, rigged)) = (1 + T) + Len(f)
  BY <1>1, <1>7, <1>10 DEF g
<1>12. ASSUME NEW i \in 1 .. (1 + T) + Len(f)
       PROVE  FilesOf(ts, cs, rigged)[i] = IF i = 1 THEN "mesh" ELSE IF i <= T + 1 THEN "texture"
                                  ELSE IF i = T + 2 THEN "skel" ELSE IF i = T + 3 THEN "skin"
                                  ELSE "clip"
  <2>0. FilesOf(ts, cs, rigged)[i] = (g \o f)[i]
    BY <1>1 DEF g
  <2>1. CASE i <= 1 + T
    <3>1. i \in 1 .. 1 + T
      BY <2>1
    <3>2. (g \o f)[i] = g[i]
      BY <1>10, <2>1
    <3>3. g[i] = IF i = 1 THEN "mesh" ELSE "texture"
      BY <1>9, <3>1, Zenon DEF g
    <3>4. i <= T + 1
      BY <2>1
    <3> HIDE DEF g
    <3> QED BY <2>0, <3>2, <3>3, <3>4
  <2>2. CASE ~(i <= 1 + T)
    <3>1. i - (1 + T) \in 1 .. Len(f)
      BY <1>11, <2>2
    <3>2. (g \o f)[i] = f[i - (1 + T)]
      BY <1>10, <2>2
    <3>3. i # 1 /\ ~(i <= T + 1) /\ (i - (1 + T) = 1 <=> i = T + 2) /\ (i - (1 + T) = 2 <=> i = T + 3)
      BY <1>11, <2>2
    <3> HIDE DEF g
    <3> QED BY <1>7, <2>0, <3>1, <3>2, <3>3
  <2> QED BY <2>1, <2>2
<1> QED BY <1>7, <1>11, <1>12

\* A file put in its place among its kind.
PutIn(s, k, x, p) ==
  /\ p \in Seq(File) /\ k <= Len(p) /\ Len(s) <= Len(p) /\ p[k] = x
  /\ \A i \in 1 .. Len(s) : i # k => p[i] = s[i]

LEMMA PutIs ==
  ASSUME NEW s \in Seq(File), NEW x \in File, NEW k \in 1 .. Len(s) + 1
  PROVE  PutIn(s, k, x, Importer!Put(s, k, x))
<1> USE DEF PutIn
<1> DEFINE S == File
<1>0. Len(s) \in Nat
  OBVIOUS
<1>1. CASE k <= Len(s)
  <2>1. Importer!Put(s, k, x) = [s EXCEPT ![k] = x] /\ k \in 1 .. Len(s)
    BY <1>0, <1>1 DEF Importer!Put
  <2>2. [s EXCEPT ![k] = x] \in Seq(S) /\ Len([s EXCEPT ![k] = x]) = Len(s)
    BY <2>1, ExceptSeq
  <2>3. DOMAIN s = 1 .. Len(s)
    OBVIOUS
  <2>4. [s EXCEPT ![k] = x][k] = x /\ \A i \in 1 .. Len(s) : i # k => [s EXCEPT ![k] = x][i] = s[i]
    BY <2>1, <2>3
  <2> QED BY <1>0, <1>1, <2>1, <2>2, <2>4
<1>2. CASE ~(k <= Len(s))
  <2>1. Importer!Put(s, k, x) = Append(s, x) /\ k = Len(s) + 1
    BY <1>0, <1>2 DEF Importer!Put
  <2>2. Append(s, x) \in Seq(S) /\ Len(Append(s, x)) = Len(s) + 1
        /\ \A i \in 1 .. Len(s) : Append(s, x)[i] = s[i]
    BY AppendProperties
  <2>3. Append(s, x)[Len(s) + 1] = x
    BY AppendProperties
  <2> QED BY <1>0, <2>1, <2>2, <2>3
<1> QED BY <1>1, <1>2

\* The next file written, to its end or not, is the disk's; to its end it is the import's.
LEMMA SaveStep ==
  ASSUME FileAssumption, FilesIInv, JointsIInv, pc = "save", at <= Len(Importer!Files),
         NEW whole \in BOOLEAN, NEW n, n = at, disk' = Importer!Stored(at, whole),
         UNCHANGED <<textures, clips, skel>>
  PROVE  disk' \in Disk /\ (whole => Saved(n)')
<1> DEFINE T == Len(textures)
           C == Len(clips)
           F == Len(Importer!Files)
           S == Importer!HasSkin
<1>1. /\ T \in Nat /\ DOMAIN textures = 1 .. T /\ C \in Nat /\ DOMAIN clips = 1 .. C
      /\ disk \in Disk /\ Saved(at - 1) /\ at \in Nat \ {0}
  BY DEF FilesIInv, JointsIInv, Importer!Written
<1>2. /\ F = 1 + T + (IF S THEN 2 + C ELSE 0) /\ at \in 1 .. F /\ F \in Nat
      /\ Importer!Files[at] = IF at = 1 THEN "mesh" ELSE IF at <= T + 1 THEN "texture"
                               ELSE IF at = T + 2 THEN "skel" ELSE IF at = T + 3 THEN "skin"
                               ELSE "clip"
  <2>1. F = 1 + T + (IF S THEN 2 + C ELSE 0)
    <3>1. S \in BOOLEAN
      BY DEF Importer!HasSkin
    <3> HIDE DEF S, T, C
    <3>2. Len(FilesOf(textures, clips, S)) = 1 + T + (IF S THEN 2 + C ELSE 0)
      BY <1>1, <3>1, FilesAre
    <3> QED BY <3>2, FilesThen DEF S
  <2> DEFINE e == IF S THEN 2 + C ELSE 0
  <2>2. F = 1 + T + e /\ at <= F
    BY <2>1, Zenon
  <2> HIDE DEF F, T, C, S
  <2>3. e \in Nat
    BY <1>1
  <2> HIDE DEF e
  <2>4. F \in Nat /\ at \in 1 .. F
    BY <1>1, <2>2, <2>3
  <2>6. S \in BOOLEAN
    BY DEF S, Importer!HasSkin
  <2>5. Importer!Files[at] = IF at = 1 THEN "mesh" ELSE IF at <= T + 1 THEN "texture"
                               ELSE IF at = T + 2 THEN "skel" ELSE IF at = T + 3 THEN "skin"
                               ELSE "clip"
    BY <1>1, <2>4, <2>6, FilesAre, FilesThen DEF F, T, C, S
  <2> QED BY <2>1, <2>4, <2>5
<1> DEFINE x(k) == IF whole THEN Importer!New(k) ELSE Importer!Torn
<1>3. \A k \in Nat : x(k) \in File
  BY NewIs
<1>4. /\ disk.mesh \in File \cup {None} /\ disk.textures \in Seq(File) /\ disk.clips \in Seq(File)
      /\ disk.skel \in File \cup {None} /\ disk.skin \in File \cup {None}
      /\ disk = [mesh |-> disk.mesh, textures |-> disk.textures, skel |-> disk.skel,
                 skin |-> disk.skin, clips |-> disk.clips]
      /\ Len(disk.textures) \in Nat /\ Len(disk.clips) \in Nat
  BY <1>1 DEF Disk
<1> DEFINE c == at - 3 - T
<1>5. disk' = CASE Importer!Files[at] = "mesh"    -> [disk EXCEPT !.mesh = x(0)]
                [] Importer!Files[at] = "texture" -> [disk EXCEPT !.textures = Importer!Put(@, at - 1, x(at - 1))]
                [] Importer!Files[at] = "skel"    -> [disk EXCEPT !.skel = x(1)]
                [] Importer!Files[at] = "skin"    -> [disk EXCEPT !.skin = x(1)]
                [] Importer!Files[at] = "clip"    -> [disk EXCEPT !.clips = Importer!Put(@, c, x(c))]
  BY DEF Importer!Stored
<1>6. whole => \A k : x(k) = Importer!New(k)
  OBVIOUS
<1>7. S' = S /\ T' = T /\ C' = C
  BY DEF Importer!HasSkin
<1>8. /\ at - 1 >= 1 => disk.mesh = Importer!New(0)
      /\ \A i \in 1 .. T : i + 1 <= at - 1 => i <= Len(disk.textures) /\ disk.textures[i] = Importer!New(i)
      /\ S => /\ at - 1 >= T + 2 => disk.skel = Importer!New(1)
              /\ at - 1 >= T + 3 => disk.skin = Importer!New(1)
              /\ \A k \in 1 .. C : k + T + 3 <= at - 1 => k <= Len(disk.clips) /\ disk.clips[k] = Importer!New(k)
  BY <1>1 DEF Saved
<1> DEFINE D(m, t, k, i, p) == [mesh |-> m, textures |-> t, skel |-> k, skin |-> i, clips |-> p]
           Good(m, t, k, i, p) ==
             /\ at >= 1 => m = Importer!New(0)
             /\ \A j \in 1 .. T : j + 1 <= at => j <= Len(t) /\ t[j] = Importer!New(j)
             /\ S => /\ at >= T + 2 => k = Importer!New(1)
                     /\ at >= T + 3 => i = Importer!New(1)
                     /\ \A j \in 1 .. C : j + T + 3 <= at => j <= Len(p) /\ p[j] = Importer!New(j)
<1>9. ASSUME NEW m \in File \cup {None}, NEW t \in Seq(File), NEW k \in File \cup {None},
             NEW i \in File \cup {None}, NEW p \in Seq(File), disk' = D(m, t, k, i, p),
             whole => Good(m, t, k, i, p)
      PROVE  disk' \in Disk /\ (whole => Saved(n)')
  <2>1. disk' \in Disk
    BY <1>9 DEF Disk
  <2>2. disk'.mesh = m /\ disk'.textures = t /\ disk'.skel = k /\ disk'.skin = i /\ disk'.clips = p
    BY <1>9
  <2>3. ASSUME whole PROVE Saved(n)'
    <3> QED BY <1>7, <1>9, <2>2, <2>3 DEF Saved
  <2> QED BY <2>1, <2>3
<1> HIDE DEF x, S, T, C, F
<1>10. CASE at = 1
  <2>1. disk' = D(x(0), disk.textures, disk.skel, disk.skin, disk.clips)
    BY <1>2, <1>4, <1>5, <1>10
  <2>2. whole => Good(x(0), disk.textures, disk.skel, disk.skin, disk.clips)
    BY <1>1, <1>6, <1>10
  <2> HIDE DEF D, Good
  <2> QED BY <1>3, <1>4, <1>9, <2>1, <2>2, Zenon
<1>11. CASE at # 1 /\ at <= T + 1
  <2> DEFINE t == Importer!Put(disk.textures, at - 1, x(at - 1))
  <2>1. disk' = D(disk.mesh, t, disk.skel, disk.skin, disk.clips)
    BY <1>2, <1>4, <1>5, <1>11
  <2>2. at - 1 \in 1 .. Len(disk.textures) + 1 /\ at - 1 \in Nat
    <3>1. at = 2 \/ at - 2 \in 1 .. T
      BY <1>1, <1>11
    <3>2. at = 2 \/ at - 2 <= Len(disk.textures)
      BY <1>1, <1>8, <3>1
    <3> QED BY <1>1, <1>4, <1>11, <3>2
  <2>3. /\ t \in Seq(File) /\ at - 1 <= Len(t) /\ Len(disk.textures) <= Len(t) /\ t[at - 1] = x(at - 1)
        /\ \A i \in 1 .. Len(disk.textures) : i # at - 1 => t[i] = disk.textures[i]
    <3> DEFINE k == at - 1
               y == x(k)
               s == disk.textures
    <3>1. y \in File /\ s \in Seq(File) /\ k \in 1 .. Len(s) + 1
      BY <1>3, <1>4, <2>2
    <3> HIDE DEF k, y, s
    <3>2. PutIn(s, k, y, Importer!Put(s, k, y))
      BY <3>1, PutIs
    <3> QED BY <3>2 DEF k, y, s, PutIn
  <2> HIDE DEF t
  <2>4. ASSUME whole PROVE Good(disk.mesh, t, disk.skel, disk.skin, disk.clips)
    <3>1. \A j \in 1 .. T : j + 1 <= at => j <= Len(t) /\ t[j] = Importer!New(j)
      <4> SUFFICES ASSUME NEW j \in 1 .. T, j + 1 <= at PROVE j <= Len(t) /\ t[j] = Importer!New(j)
        OBVIOUS
      <4>1. CASE j = at - 1
        BY <1>6, <2>3, <2>4, <4>1
      <4>2. CASE j # at - 1
        <5>1. j <= Len(disk.textures) /\ disk.textures[j] = Importer!New(j)
          BY <1>1, <1>8, <4>2
        <5>2. Len(t) \in Nat /\ j \in 1 .. Len(disk.textures)
          BY <1>4, <2>3, <5>1
        <5> QED BY <1>4, <2>3, <4>2, <5>1, <5>2
      <4> QED BY <4>1, <4>2
    <3>2. at - 1 >= 1 /\ ~(at >= T + 2) /\ ~(at >= T + 3) /\ \A j \in 1 .. C : ~(j + T + 3 <= at)
      BY <1>1, <1>11
    <3> QED BY <1>8, <3>1, <3>2
  <2> HIDE DEF D, Good
  <2> QED BY <1>4, <1>9, <2>1, <2>3, <2>4, Zenon
<1>12. CASE at = T + 2
  <2>1. disk' = D(disk.mesh, disk.textures, x(1), disk.skin, disk.clips)
    <3>1. at # 1 /\ ~(at <= T + 1)
      BY <1>1, <1>12
    <3> QED BY <1>2, <1>4, <1>5, <1>12, <3>1
  <2>2. ASSUME whole PROVE Good(disk.mesh, disk.textures, x(1), disk.skin, disk.clips)
    <3>1. at - 1 >= 1 /\ ~(at >= T + 3) /\ \A j \in 1 .. C : ~(j + T + 3 <= at)
      BY <1>1, <1>12
    <3>2. \A j \in 1 .. T : j + 1 <= at - 1
      BY <1>1, <1>12
    <3> QED BY <1>6, <1>8, <2>2, <3>1, <3>2
  <2> HIDE DEF D, Good
  <2> QED BY <1>3, <1>4, <1>9, <2>1, <2>2, Zenon
<1>13. CASE at = T + 3
  <2>1. disk' = D(disk.mesh, disk.textures, disk.skel, x(1), disk.clips)
    <3>1. at # 1 /\ ~(at <= T + 1) /\ at # T + 2
      BY <1>1, <1>13
    <3> QED BY <1>2, <1>4, <1>5, <1>13, <3>1
  <2>2. ASSUME whole PROVE Good(disk.mesh, disk.textures, disk.skel, x(1), disk.clips)
    <3>1. at - 1 >= 1 /\ at - 1 >= T + 2 /\ \A j \in 1 .. C : ~(j + T + 3 <= at)
      BY <1>1, <1>13
    <3>2. \A j \in 1 .. T : j + 1 <= at - 1
      BY <1>1, <1>13
    <3> QED BY <1>6, <1>8, <2>2, <3>1, <3>2
  <2> HIDE DEF D, Good
  <2> QED BY <1>3, <1>4, <1>9, <2>1, <2>2, Zenon
<1>14. CASE at > T + 3
  <2> DEFINE p == Importer!Put(disk.clips, c, x(c))
  <2>0. S /\ c \in 1 .. C
    BY <1>1, <1>2, <1>14
  <2>1. disk' = D(disk.mesh, disk.textures, disk.skel, disk.skin, p)
    <3>1. at # 1 /\ ~(at <= T + 1) /\ at # T + 2 /\ at # T + 3
      BY <1>1, <1>14
    <3> QED BY <1>2, <1>4, <1>5, <3>1, Zenon
  <2>2. c \in 1 .. Len(disk.clips) + 1 /\ c \in Nat
    <3>1. c = 1 \/ c - 1 \in 1 .. C
      BY <1>1, <2>0
    <3>2. (c - 1) + T + 3 <= at - 1
      BY <1>1
    <3>3. c = 1 \/ c - 1 <= Len(disk.clips)
      BY <1>8, <2>0, <3>1, <3>2
    <3> HIDE DEF c
    <3> QED BY <1>1, <1>4, <2>0, <3>3
  <2>3. /\ p \in Seq(File) /\ c <= Len(p) /\ Len(disk.clips) <= Len(p) /\ p[c] = x(c)
        /\ \A i \in 1 .. Len(disk.clips) : i # c => p[i] = disk.clips[i]
    <3> DEFINE y == x(c)
               s == disk.clips
    <3>1. y \in File /\ s \in Seq(File) /\ c \in 1 .. Len(s) + 1
      BY <1>3, <1>4, <2>2
    <3> HIDE DEF c, y, s
    <3>2. PutIn(s, c, y, Importer!Put(s, c, y))
      BY <3>1, PutIs
    <3> QED BY <3>2 DEF y, s, PutIn
  <2> HIDE DEF p
  <2>4. ASSUME whole PROVE Good(disk.mesh, disk.textures, disk.skel, disk.skin, p)
    <3>1. \A j \in 1 .. C : j + T + 3 <= at => j <= Len(p) /\ p[j] = Importer!New(j)
      <4> SUFFICES ASSUME NEW j \in 1 .. C, j + T + 3 <= at PROVE j <= Len(p) /\ p[j] = Importer!New(j)
        OBVIOUS
      <4>1. CASE j = c
        <5> HIDE DEF c
        <5> QED BY <1>6, <2>3, <2>4, <4>1
      <4>2. CASE j # c
        <5>1. j + T + 3 <= at - 1
          BY <1>1, <4>2
        <5>2. j <= Len(disk.clips) /\ disk.clips[j] = Importer!New(j)
          BY <1>8, <2>0, <5>1
        <5> HIDE DEF c
        <5>3. Len(p) \in Nat /\ j \in 1 .. Len(disk.clips)
          BY <1>4, <2>3, <5>2
        <5> QED BY <1>4, <2>3, <4>2, <5>2, <5>3
      <4> QED BY <4>1, <4>2
    <3>2. at - 1 >= 1 /\ at - 1 >= T + 2 /\ at - 1 >= T + 3
      BY <1>1, <1>14
    <3>3. \A j \in 1 .. T : j + 1 <= at - 1
      BY <1>1, <1>14
    <3> QED BY <1>8, <3>1, <3>2, <3>3
  <2> HIDE DEF D, Good
  <2> QED BY <1>4, <1>9, <2>1, <2>3, <2>4, Zenon
<1>15. at = 1 \/ (at # 1 /\ at <= T + 1) \/ at = T + 2 \/ at = T + 3 \/ at > T + 3
  BY <1>1
<1> QED BY <1>10, <1>11, <1>12, <1>13, <1>14, <1>15

\* What an import counts of a material, and where it puts it.
BucketSet == [material : {None, "steel", "paint", "glass"}, verts : Nat, count : Nat, offset : Nat,
            cursor : Nat, texture : {None} \cup Nat]
BucketsFit == buckets \in Seq(BucketSet)

LEMMA FilesInit == FileAssumption /\ Importer!Init => FilesIInv
<1> SUFFICES ASSUME FileAssumption, Importer!Init PROVE FilesIInv
  OBVIOUS
<1>1. disk \in Importer!OldModel
  <2>1. Importer!Empty \in Importer!OldModel
    BY DEF Importer!OldModel
  <2> QED BY <2>1 DEF Importer!Init
<1>2. Importer!OldModel \subseteq Disk
  <2> DEFINE o(k) == Importer!Old(k)
             m == [mesh |-> o(0), textures |-> <<o(1), o(2)>>, skel |-> o(1), skin |-> o(1),
                   clips |-> <<o(1), o(2)>>]
  <2>1. o(0) \in File /\ o(1) \in File /\ o(2) \in File
    BY NewIs
  <2> HIDE DEF o
  <2>2. <<o(1), o(2)>> \in Seq(File)
    BY <2>1
  <2>3. m \in Disk
    BY <2>1, <2>2 DEF Disk
  <2>4. Importer!Empty \in Disk
    BY DEF Disk, Importer!Empty
  <2>5. Importer!OldModel = {Importer!Empty, m}
    BY DEF Importer!OldModel, o
  <2> HIDE DEF m
  <2> QED BY <2>3, <2>4, <2>5
<1>3. pc = "count" /\ sample = None
  BY DEF Importer!Init
<1> QED BY <1>1, <1>2, <1>3 DEF FilesIInv, Importer!Written

\* Before anything is written.
LEMMA FilesKept ==
  ASSUME FilesIInv, UNCHANGED <<disk, sample>>, ~Importer!Written, ~Importer!Written'
  PROVE  FilesIInv'
BY DEF FilesIInv, Importer!Written

\* The images that were loaded: no more than there is room for.
LoadIs(load, readable) ==
  load = CHOOSE h : h =
    [i \in 0 .. Len(buckets) |->
       IF i = 0 THEN <<>>
       ELSE LET image == Importer!Image(buckets[i].material)
            IN  IF image \in readable \ Importer!Range(h[i - 1]) /\ Len(h[i - 1]) < MaxImages
                THEN Append(h[i - 1], image) ELSE h[i - 1]]

LEMMA LoadedImages ==
  ASSUME FileAssumption, BucketsFit, NEW readable \in SUBSET {"metal", "colour"},
         NEW load, LoadIs(load, readable)
  PROVE  load[Len(buckets)] \in Seq({"metal", "colour"}) /\ Len(load[Len(buckets)]) <= MaxImages
<1> DEFINE N == Len(buckets)
           S == {s \in Seq({"metal", "colour"}) : Len(s) <= MaxImages}
           image(i) == Importer!Image(buckets[i].material)
           on(i, s) == IF image(i) \in readable \ Importer!Range(s) /\ Len(s) < MaxImages
                       THEN Append(s, image(i)) ELSE s
           G == [k \in Nat |-> [s \in S |-> on(k + 1, s)]]
<1>0. N \in Nat
  BY DEF BucketsFit
<1>1. <<>> \in S
  BY DEF FileAssumption
<1>2. ASSUME NEW k \in Nat, NEW s \in S PROVE on(k + 1, s) \in S
  <2>1. CASE image(k + 1) \in readable \ Importer!Range(s) /\ Len(s) < MaxImages
    <3> DEFINE x == image(k + 1)
    <3>1. x \in {"metal", "colour"} /\ s \in Seq({"metal", "colour"}) /\ Len(s) < MaxImages
      BY <2>1, Zenon
    <3> HIDE DEF x
    <3>2. Append(s, x) \in Seq({"metal", "colour"}) /\ Len(Append(s, x)) = Len(s) + 1 /\ Len(s) \in Nat
      BY <3>1, AppendProperties
    <3>3. Append(s, x) \in S
      BY <3>1, <3>2 DEF FileAssumption
    <3> QED BY <2>1, <3>3 DEF x
  <2>2. CASE ~(image(k + 1) \in readable \ Importer!Range(s) /\ Len(s) < MaxImages)
    BY <2>2
  <2> QED BY <2>1, <2>2
<1>3. G \in [Nat -> [S -> S]]
  <2> HIDE DEF on, S
  <2> QED BY <1>2
<1>4. PICK f : Recurs(f, S, <<>>, G)
  <2> HIDE DEF G, S
  <2> QED BY <1>1, <1>3, RecursionExists
<1>5. f \in [Nat -> S] /\ f[0] = <<>>
  BY <1>4 DEF Recurs
<1>6. ASSUME NEW k \in Nat PROVE f[k + 1] = on(k + 1, f[k])
  <2>1. f[k + 1] = G[k][f[k]]
    <3> HIDE DEF G, S
    <3> QED BY <1>4 DEF Recurs
  <2> HIDE DEF on, S
  <2> QED BY <1>5, <2>1
<1>7. ASSUME NEW k \in Nat, k # 0 PROVE f[k] = on(k, f[k - 1])
  <2>1. k - 1 \in Nat /\ (k - 1) + 1 = k
    BY <1>7
  <2> HIDE DEF on
  <2>2. f[(k - 1) + 1] = on((k - 1) + 1, f[k - 1])
    BY <1>6, <2>1
  <2> QED BY <2>1, <2>2
<1> DEFINE g == [k \in 0 .. N |-> f[k]]
           is(h) == h = [k \in 0 .. N |-> IF k = 0 THEN <<>> ELSE on(k, h[k - 1])]
<1>8. is(g)
  <2>1. ASSUME NEW k \in 0 .. N, k # 0 PROVE g[k] = on(k, g[k - 1])
    <3>1. k \in Nat /\ k - 1 \in 0 .. N
      BY <1>0, <2>1
    <3> HIDE DEF on
    <3> QED BY <1>7, <2>1, <3>1
  <2> HIDE DEF on
  <2>2. 0 \in 0 .. N
    BY <1>0
  <2> QED BY <1>5, <2>1, <2>2, Zenon
<1>9. is(CHOOSE h : is(h))
  <2> HIDE DEF is, g
  <2> QED BY <1>8
<1>10. load = CHOOSE h : is(h)
  BY DEF LoadIs
<1>11. is(load)
  BY <1>9, <1>10, Zenon
<1> HIDE DEF g
<1>12. \A k \in Nat : k <= N => load[k] \in S
  <2> DEFINE A == {k \in Nat : k <= N => load[k] \in S}
  <2>0. load = [k \in 0 .. N |-> IF k = 0 THEN <<>> ELSE on(k, load[k - 1])]
    BY <1>11, Zenon
  <2>1. 0 \in A
    <3> HIDE DEF on, S
    <3>1. load[0] = <<>>
      BY <1>0, <2>0
    <3> QED BY <1>1, <3>1
  <2>2. ASSUME NEW k \in Nat, k \in A PROVE k + 1 \in A
    <3> SUFFICES ASSUME k + 1 <= N PROVE load[k + 1] \in S
      OBVIOUS
    <3>1. load[k] \in S /\ k + 1 \in 0 .. N /\ k + 1 # 0 /\ (k + 1) - 1 = k
      BY <1>0, <2>2
    <3> HIDE DEF on, S
    <3>2. load[k + 1] = on(k + 1, load[k])
      BY <2>0, <3>1
    <3> QED BY <1>2, <3>1, <3>2
  <2>3. Nat \subseteq A
    <3> HIDE DEF A
    <3> QED BY <2>1, <2>2, SetInduction
  <2> QED BY <2>3
<1>13. load[N] \in S
  <2> HIDE DEF S
  <2> QED BY <1>0, <1>12
<1> QED BY <1>13

\* An animation's tracks have keys, and last a time.
LEMMA TracksFit ==
  ASSUME NEW a, ChannelsFit(a)
  PROVE  /\ \A track \in Importer!Tracks(a) : TrackFits(track)
         /\ Importer!Duration(Importer!Tracks(a)) \in Nat
<1> DEFINE T == Importer!Tracks(a)
           L == {0} \cup {Importer!LastKey(track.times) : track \in T}
<1>1. \A track \in T : TrackFits(track)
  <2> SUFFICES ASSUME NEW track \in T PROVE TrackFits(track)
    OBVIOUS
  <2> DEFINE to(i) == remap[Importer!SelectInSeq(Importer!Joints, LAMBDA x : x = a[i].node)]
             read  == {i \in DOMAIN a : a[i].read /\ a[i].node \in Importer!Range(Importer!Joints)}
  <2>1. T = {[joint |-> to(i), times |-> a[i].times] : i \in read}
    BY DEF Importer!Tracks
  <2> HIDE DEF T, to
  <2>2. PICK i \in DOMAIN a : track = [joint |-> to(i), times |-> a[i].times]
    BY <2>1
  <2> QED BY <2>2 DEF TrackFits, ChannelsFit
<1> HIDE DEF T
<1>2. L \in SUBSET (0 .. 4) /\ 0 \in L
  <2>1. ASSUME NEW track \in T PROVE Importer!LastKey(track.times) \in 0 .. 4
    BY <1>1 DEF TrackFits, Importer!LastKey
  <2> QED BY <2>1
<1> HIDE DEF L
<1>3. \E x \in L : \A y \in L : x >= y
  <2> DEFINE short == {x \in 0 .. 4 : 4 - x \in L}
  <2>1. short \in SUBSET Nat /\ 4 \in short
    BY <1>2
  <2>2. PICK s \in short : \A r \in short : s <= r
    BY <2>1, LeastExists
  <2>3. 4 - s \in L
    BY <2>2
  <2>4. ASSUME NEW y \in L PROVE 4 - s >= y
    <3>1. 4 - y \in short
      BY <1>2
    <3> HIDE DEF short
    <3>2. s <= 4 - y /\ s \in Nat /\ y \in Nat
      BY <1>2, <2>1, <2>2, <3>1
    <3> QED BY <3>2
  <2> QED BY <2>3, <2>4
<1>4. Importer!Max(L) \in L
  BY <1>3, Zenon DEF Importer!Max
<1> DEFINE most == Importer!Max(L)
<1>5. most \in Nat
  <2> HIDE DEF most
  <2>1. most \in L
    BY <1>4 DEF most
  <2> QED BY <1>2, <2>1
<1> QED BY <1>1, <1>5 DEF Importer!Duration, L, T

LEMMA TexturesFiles ==
  ASSUME FileAssumption, BucketsFit, JointsIInv, FilesIInv, Importer!Textures
  PROVE  FilesIInv' /\ BucketsFit'
<1> DEFINE N == Len(buckets)
<1>1. /\ pc = "append" /\ pc' = "save" /\ at' = 1
      /\ UNCHANGED <<scene, verts, indices, disk, model, sample, skel>>
      /\ clips' = IF Importer!HasSkin THEN Importer!Clips ELSE <<>>
  BY DEF Importer!Textures, Importer!rig
<1>2. PICK readable \in SUBSET {"metal", "colour"} :
        LET load[i \in 0 .. N] ==
              IF i = 0 THEN <<>>
              ELSE LET image == Importer!Image(buckets[i].material)
                   IN  IF image \in readable \ Importer!Range(load[i - 1]) /\ Len(load[i - 1]) < MaxImages
                       THEN Append(load[i - 1], image) ELSE load[i - 1]
            all == load[N]
        IN  /\ textures' = all
            /\ buckets' = [i \in DOMAIN buckets |->
                 [buckets[i] EXCEPT !.texture =
                    LET t == Importer!SelectInSeq(all, LAMBDA x : x = Importer!Image(buckets[i].material))
                    IN  IF t = 0 THEN None ELSE t]]
  BY Zenon DEF Importer!Textures
<1> DEFINE load == CHOOSE h : h =
             [i \in 0 .. N |->
                IF i = 0 THEN <<>>
                ELSE LET image == Importer!Image(buckets[i].material)
                     IN  IF image \in readable \ Importer!Range(h[i - 1]) /\ Len(h[i - 1]) < MaxImages
                         THEN Append(h[i - 1], image) ELSE h[i - 1]]
           all == load[N]
           hit(i) == Importer!SelectInSeq(all, LAMBDA x : x = Importer!Image(buckets[i].material))
           tex(i) == IF hit(i) = 0 THEN None ELSE hit(i)
<1>3. textures' = all /\ buckets' = [i \in DOMAIN buckets |-> [buckets[i] EXCEPT !.texture = tex(i)]]
  BY <1>2
<1>4. all \in Seq({"metal", "colour"}) /\ Len(all) <= MaxImages
  <2>1. LoadIs(load, readable)
    BY DEF LoadIs
  <2> HIDE DEF load
  <2> QED BY <2>1, LoadedImages
<1> HIDE DEF all, load
<1>5. ASSUME NEW i PROVE tex(i) \in {None} \cup 1 .. Len(all)
  <2> DEFINE I == {j \in 1 .. Len(all) : all[j] = Importer!Image(buckets[i].material)}
  <2>1. hit(i) = IF I = {} THEN 0 ELSE Importer!Min(I)
    BY DEF Importer!SelectInSeq
  <2>2. CASE hit(i) = 0
    BY <2>2
  <2>3. CASE hit(i) # 0
    <3>1. I # {} /\ I \in SUBSET Nat
      BY <1>4, <2>1, <2>3
    <3>2. \E k \in I : \A j \in I : k <= j
      <4> HIDE DEF I
      <4> QED BY <3>1, LeastExists
    <3>3. hit(i) \in I
      <4> HIDE DEF I, hit
      <4> QED BY <2>1, <3>1, <3>2, Zenon DEF Importer!Min
    <3> HIDE DEF hit
    <3> QED BY <2>3, <3>3
  <2> HIDE DEF hit
  <2> QED BY <2>2, <2>3
<1> HIDE DEF tex
<1>6. N \in Nat /\ DOMAIN buckets = 1 .. N /\ \A i \in 1 .. N : buckets[i] \in BucketSet
  BY DEF BucketsFit
<1>7. Len(all) \in Nat
  BY <1>4
<1>8. ASSUME NEW i \in 1 .. N
      PROVE  [buckets[i] EXCEPT !.texture = tex(i)] \in BucketSet
             /\ [buckets[i] EXCEPT !.texture = tex(i)].texture \in {None} \cup 1 .. Len(all)
  <2>1. tex(i) \in {None} \cup 1 .. Len(all) /\ tex(i) \in {None} \cup Nat
    BY <1>5, <1>7
  <2> QED BY <1>6, <2>1 DEF BucketSet
<1>9. buckets' \in [1 .. N -> BucketSet] /\ \A i \in 1 .. N : buckets'[i].texture \in {None} \cup 1 .. Len(all)
  BY <1>3, <1>6, <1>8, Zenon
<1>10. BucketsFit'
  BY <1>6, <1>9 DEF BucketsFit
<1>11. /\ textures' \in Seq({"metal", "colour"}) /\ Len(textures') <= MaxImages
       /\ \A b \in DOMAIN buckets' : buckets'[b].texture \in {None} \cup 1 .. Len(textures')
  BY <1>3, <1>4, <1>9, Zenon
<1>12. /\ Len(clips') \in Nat /\ DOMAIN clips' = 1 .. Len(clips')
       /\ \A c \in 1 .. Len(clips') : ClipFits(clips'[c])
  <2>1. CASE ~Importer!HasSkin
    BY <1>1, <2>1
  <2>2. CASE Importer!HasSkin
    <3> DEFINE M == IF Len(scene.animations) < MaxClips THEN Len(scene.animations) ELSE MaxClips
               tracks(c) == Importer!Tracks(scene.animations[c])
               clip(c) == [tracks |-> tracks(c), duration |-> Importer!Duration(tracks(c))]
    <3>1. clips' = [c \in 1 .. M |-> clip(c)]
      BY <1>1, <2>2 DEF Importer!Clips
    <3>2. SceneFits(scene)
      BY DEF JointsIInv
    <3>3. M \in Nat /\ \A c \in 1 .. M : c \in 1 .. Len(scene.animations)
      BY <3>2 DEF SceneFits, FileAssumption
    <3> HIDE DEF M
    <3>4. \A c \in 1 .. M : ClipFits(clip(c))
      <4> SUFFICES ASSUME NEW c \in 1 .. M PROVE ClipFits(clip(c))
        OBVIOUS
      <4>1. ChannelsFit(scene.animations[c])
        BY <3>2, <3>3 DEF SceneFits
      <4>2. (\A track \in tracks(c) : TrackFits(track)) /\ Importer!Duration(tracks(c)) \in Nat
        BY <4>1, TracksFit
      <4> QED BY <4>2 DEF ClipFits
    <3> HIDE DEF clip
    <3>5. Len(clips') = M /\ DOMAIN clips' = 1 .. M
      BY <3>1, <3>3
    <3> QED BY <3>1, <3>3, <3>4, <3>5
  <2> QED BY <2>1, <2>2
<1>13. at' - 1 \in 0 .. Len(Importer!Files') /\ Saved(0)'
  <2>1. Len(textures') \in Nat
    BY <1>11
  <2>2. at' - 1 = 0
    BY <1>1
  <2>3. Len(Importer!Files') \in Nat
    <3> DEFINE T == Len(textures')
               C == Len(clips')
               R == Importer!HasSkin'
    <3>1. T \in Nat /\ C \in Nat /\ DOMAIN textures' = 1 .. T /\ DOMAIN clips' = 1 .. C
      BY <1>11, <1>12
    <3>2. R \in BOOLEAN
      BY DEF Importer!HasSkin
    <3> HIDE DEF T, C, R
    <3>3. Len(FilesOf(textures', clips', R)) = 1 + T + (IF R THEN 2 + C ELSE 0)
      BY <3>1, <3>2, FilesAre
    <3>4. 1 + T + (IF R THEN 2 + C ELSE 0) \in Nat
      BY <3>1
    <3> QED BY <3>3, <3>4, FilesThen DEF R
  <2>4. Saved(0)'
    <3>1. \A i \in 1 .. Len(textures') : ~(i + 1 <= 0)
      BY <2>1
    <3>2. \A c \in 1 .. Len(clips') : ~(c + Len(textures') + 3 <= 0)
      BY <2>1, <1>12
    <3>3. ~(0 >= 1) /\ ~(0 >= Len(textures') + 2) /\ ~(0 >= Len(textures') + 3)
      BY <2>1
    <3> QED BY <3>1, <3>2, <3>3 DEF Saved
  <2> QED BY <2>2, <2>3, <2>4
<1>14. (at' - 1 \in 0 .. Len(Importer!Files')) /\ Saved(at - 1)'
  <2>1. at' - 1 = 0
    BY <1>1
  <2> QED BY <1>13, <2>1 DEF Saved
<1>15. disk' \in Disk /\ sample' = None /\ pc' = "save"
  BY <1>1 DEF FilesIInv
<1> QED BY <1>10, <1>11, <1>12, <1>14, <1>15 DEF FilesIInv

\* What is loaded of a row of files: those before the first that is missing or torn.
LEMMA LeadingIs ==
  ASSUME FileAssumption, NEW s \in Seq(File), NEW n \in Nat,
         \A i \in 1 .. n : i <= Len(s) /\ Importer!Whole(s[i])
  PROVE  \A i \in 1 .. n : i <= Len(Importer!Leading(s)) /\ Importer!Leading(s)[i] = s[i]
<1> DEFINE bad == Importer!SelectInSeq(s, LAMBDA f : ~Importer!Whole(f))
           I == {i \in 1 .. Len(s) : ~Importer!Whole(s[i])}
<1>1. bad = IF I = {} THEN 0 ELSE Importer!Min(I)
  BY DEF Importer!SelectInSeq
<1>2. Importer!Leading(s) = IF bad = 0 THEN s ELSE SubSeq(s, 1, bad - 1)
  BY DEF Importer!Leading
<1>3. CASE bad = 0
  BY <1>2, <1>3
<1>4. CASE bad # 0
  <2>1. I # {} /\ I \in SUBSET Nat
    BY <1>1, <1>4
  <2>2. \E i \in I : \A j \in I : i <= j
    <3> HIDE DEF I
    <3> QED BY <2>1, LeastExists
  <2>3. bad \in I
    <3> HIDE DEF I, bad
    <3> QED BY <1>1, <2>1, <2>2, Zenon DEF Importer!Min
  <2>4. bad \in 1 .. Len(s) /\ ~Importer!Whole(s[bad]) /\ Len(s) \in Nat
    BY <2>3
  <2> HIDE DEF bad
  <2>5. n <= bad - 1
    BY <2>4
  <2>6. \A i \in 1 .. bad - 1 : s[i] \in File
    BY <2>4
  <2>7. /\ Len(SubSeq(s, 1, bad - 1)) = bad - 1
        /\ \A i \in 1 .. bad - 1 : SubSeq(s, 1, bad - 1)[i] = s[i]
    BY <2>4, <2>6, SubSeqProperties
  <2> QED BY <1>2, <1>4, <2>4, <2>5, <2>7
<1> QED BY <1>3, <1>4

\* The times that have passed are the first ones.
LEMMA PastIs ==
  ASSUME NEW m \in Nat, NEW A \in SUBSET (1 .. m),
         \A i, j \in 1 .. m : i < j /\ j \in A => i \in A
  PROVE  Cardinality(A) \in 0 .. m /\ A = 1 .. Cardinality(A)
<1> DEFINE B == {n \in Nat : \A a \in A : a <= n}
<1>1. m \in B
  OBVIOUS
<1>2. PICK n \in B : \A k \in B : n <= k
  <2> HIDE DEF B
  <2>1. B \in SUBSET Nat
    BY DEF B
  <2> QED BY <1>1, <2>1, LeastExists
<1>3. n \in Nat /\ n <= m /\ \A a \in A : a <= n
  BY <1>1, <1>2
<1>4. A = 1 .. n
  <2>1. n # 0 => n \in A
    <3> SUFFICES ASSUME n # 0, n \notin A PROVE FALSE
      OBVIOUS
    <3>1. n - 1 \in Nat /\ \A a \in A : a <= n - 1
      BY <1>3
    <3>2. n - 1 \in B
      BY <3>1
    <3> QED BY <1>2, <1>3, <3>2
  <2>2. \A i \in 1 .. n : i \in A
    <3> SUFFICES ASSUME NEW i \in 1 .. n PROVE i \in A
      OBVIOUS
    <3>1. n \in 1 .. m /\ i \in 1 .. m /\ n \in A
      BY <1>3, <2>1
    <3>2. i = n \/ i < n
      BY <1>3
    <3> QED BY <3>1, <3>2
  <2>3. \A a \in A : a \in 1 .. n
    BY <1>3
  <2>4. \A x : x \in A <=> x \in 1 .. n
    BY <2>2, <2>3, Zenon
  <2> QED BY <2>4, Zenon
<1>5. Cardinality(1 .. n) = n
  BY <1>3, FS_Interval
<1> QED BY <1>3, <1>4, <1>5

LEMMA SaveFiles ==
  ASSUME FileAssumption, BucketsFit, JointsIInv, FilesIInv, Importer!Save
  PROVE  FilesIInv'
<1> DEFINE n == at
<1>1. /\ pc = "save" /\ at <= Len(Importer!Files)
      /\ UNCHANGED <<scene, buckets, skel, textures, clips, model, sample>>
      /\ \/ disk' = Importer!Stored(at, TRUE) /\ at' = at + 1 /\ UNCHANGED pc
         \/ disk' \in {disk, Importer!Stored(at, FALSE)} /\ pc' = "failed" /\ UNCHANGED at
  BY Zenon DEF Importer!Save, Importer!geometry, Importer!rig
<1>2. /\ disk \in Disk /\ textures \in Seq({"metal", "colour"}) /\ Len(textures) <= MaxImages
      /\ Len(clips) \in Nat /\ DOMAIN clips = 1 .. Len(clips)
      /\ \A c \in 1 .. Len(clips) : ClipFits(clips[c])
      /\ \A b \in DOMAIN buckets : buckets[b].texture \in {None} \cup 1 .. Len(textures)
      /\ at - 1 \in 0 .. Len(Importer!Files) /\ sample = None
  BY <1>1 DEF FilesIInv, Importer!Written
<1>3. Importer!Files' = Importer!Files
  BY <1>1 DEF Importer!Files, Importer!HasSkin
<1>4. CASE disk' = Importer!Stored(at, TRUE) /\ at' = at + 1 /\ UNCHANGED pc
  <2>1. PICK m : m = at
    OBVIOUS
  <2>2. disk' \in Disk /\ Saved(m)'
    BY <1>1, <1>4, <2>1, SaveStep, Zenon
  <2>3. at \in Nat \ {0} /\ at' - 1 = m
    BY <1>4, <2>1 DEF JointsIInv
  <2>4. Saved(at - 1)'
    BY <2>2, <2>3 DEF Saved
  <2>5. Len(Importer!Files) \in Nat
    <3>1. at - 1 \in 0 .. Len(Importer!Files) /\ at <= Len(Importer!Files)
      BY <1>1, <1>2
    <3> QED OBVIOUS
  <2>6. at' - 1 \in 0 .. Len(Importer!Files')
    BY <1>1, <1>3, <2>1, <2>3, <2>5
  <2>7. pc' = "save"
    BY <1>1, <1>4
  <2> QED BY <1>1, <1>2, <2>2, <2>4, <2>6, <2>7, Zenon DEF FilesIInv
<1>5. CASE disk' \in {disk, Importer!Stored(at, FALSE)} /\ pc' = "failed" /\ UNCHANGED at
  <2>1. disk' \in Disk
    <3>1. CASE disk' = disk
      BY <1>2, <3>1
    <3>2. CASE disk' = Importer!Stored(at, FALSE)
      <4>1. PICK m : m = at
        OBVIOUS
      <4> QED BY <1>1, <3>2, <4>1, SaveStep, Zenon
    <3> QED BY <1>5, <3>1, <3>2, Zenon
  <2> QED BY <1>1, <1>2, <1>5, <2>1 DEF FilesIInv
<1> QED BY <1>1, <1>4, <1>5, Zenon

LEMMA LoadFiles ==
  ASSUME JointsIInv, FilesIInv, Importer!Load PROVE FilesIInv'
<1>1. /\ (pc = "save" /\ at > Len(Importer!Files)) \/ pc = "failed"
      /\ model' = Importer!Loaded(disk)
      /\ pc' = IF pc = "failed" THEN "mixed" ELSE "loaded"
      /\ UNCHANGED <<scene, at, buckets, skel, textures, clips, disk, sample>>
  BY DEF Importer!Load, Importer!geometry, Importer!rig
<1>2. /\ disk \in Disk /\ textures \in Seq({"metal", "colour"}) /\ Len(textures) <= MaxImages
      /\ Len(clips) \in Nat /\ DOMAIN clips = 1 .. Len(clips)
      /\ \A c \in 1 .. Len(clips) : ClipFits(clips[c])
      /\ \A b \in DOMAIN buckets : buckets[b].texture \in {None} \cup 1 .. Len(textures)
      /\ sample = None
  BY <1>1 DEF FilesIInv, Importer!Written
<1>3. Importer!Files' = Importer!Files
  BY <1>1 DEF Importer!Files, Importer!HasSkin
<1>4. ASSUME pc' = "loaded" PROVE Saved(Len(Importer!Files))' /\ model' = Importer!Loaded(disk)'
  <2>1. pc = "save" /\ at > Len(Importer!Files) /\ at \in Nat /\ at - 1 \in 0 .. Len(Importer!Files)
    BY <1>1, <1>4 DEF FilesIInv, JointsIInv
  <2>2. at - 1 = Len(Importer!Files) /\ Saved(at - 1)
    BY <2>1 DEF FilesIInv
  <2>3. Saved(Len(Importer!Files))
    BY <2>2
  <2>4. Saved(Len(Importer!Files))'
    BY <1>1, <1>3, <2>3 DEF Saved, Importer!HasSkin
  <2>5. Importer!Loaded(disk)' = Importer!Loaded(disk)
    BY <1>1
  <2> QED BY <1>1, <2>4, <2>5
<1>5. pc' # "save" /\ sample' = None
  BY <1>1, <1>2
<1> QED BY <1>1, <1>2, <1>4, <1>5 DEF FilesIInv

LEMMA PlayFiles ==
  ASSUME JointsIInv, FilesIInv, Importer!Play PROVE FilesIInv'
<1>1. /\ pc = "loaded" /\ sample = None
      /\ UNCHANGED <<scene, pc, at, buckets, skel, textures, clips, disk, model>>
  BY DEF Importer!Play, Importer!geometry, Importer!rig
<1>2. PICK c, t, track :
        /\ c \in DOMAIN clips /\ t \in 0 .. 3 /\ track \in clips[c].tracks
        /\ LET times == track.times
               now   == Importer!Wrapped(clips[c].duration, t)
               k     == Importer!KeyBefore(times, now)
               blend == k < Len(times) /\ now > times[k]
           IN  sample' = [times |-> times, now |-> now, from |-> k,
                          to |-> IF blend THEN k + 1 ELSE k]
  BY DEF Importer!Play
<1> DEFINE times == track.times
           long  == clips[c].duration
           now   == Importer!Wrapped(long, t)
           k     == Importer!KeyBefore(times, now)
           blend == k < Len(times) /\ now > times[k]
           last  == Len(times)
<1>3. sample' = [times |-> times, now |-> now, from |-> k, to |-> IF blend THEN k + 1 ELSE k]
  BY <1>2
<1>4. TrackFits(track) /\ long \in Nat
  BY <1>1, <1>2 DEF FilesIInv, ClipFits, Importer!Written
<1> HIDE DEF times
<1>5. /\ times \in Seq(Nat) /\ last \in Nat \ {0} /\ DOMAIN times = 1 .. last
      /\ \A i \in 1 .. last : times[i] \in Nat
      /\ \A i, j \in 1 .. last : i < j => times[i] < times[j]
  BY <1>4 DEF TrackFits, times
<1> HIDE DEF long
<1>6. now \in Nat
  <2>1. CASE long > 0
    <3>1. t \in Int /\ long \in Nat \ {0}
      BY <1>2, <1>4, <2>1
    <3>2. t % long \in 0 .. long - 1
      BY <3>1, ModRange, Zenon
    <3>3. t % long \in Nat
      BY <3>1, <3>2
    <3> QED BY <2>1, <3>3 DEF Importer!Wrapped
  <2>2. CASE ~(long > 0)
    BY <1>2, <2>2 DEF Importer!Wrapped
  <2> QED BY <2>1, <2>2
<1> HIDE DEF now, last
<1> DEFINE gone == {i \in 1 .. last - 1 : times[i + 1] <= now}
<1>7. Cardinality(gone) \in 0 .. last - 1 /\ gone = 1 .. Cardinality(gone)
  <2>1. last - 1 \in Nat /\ gone \in SUBSET (1 .. last - 1)
    BY <1>5
  <2>2. ASSUME NEW i \in 1 .. last - 1, NEW j \in 1 .. last - 1, i < j, j \in gone PROVE i \in gone
    <3>1. i + 1 \in 1 .. last /\ j + 1 \in 1 .. last /\ i + 1 < j + 1
      BY <1>5, <2>2
    <3>2. times[i + 1] < times[j + 1] /\ times[i + 1] \in Nat /\ times[j + 1] \in Nat /\ times[j + 1] <= now
      BY <1>5, <2>2, <3>1
    <3>3. times[i + 1] <= now
      BY <1>6, <3>2
    <3> QED BY <3>3
  <2> HIDE DEF gone
  <2> QED BY <2>1, <2>2, PastIs
<1>8. k = 1 + Cardinality(gone)
  BY DEF Importer!KeyBefore, Importer!Cardinality, Cardinality, last
<1> HIDE DEF k
<1> DEFINE m == Cardinality(gone)
<1>9. m \in 0 .. last - 1 /\ gone = 1 .. m /\ k = 1 + m
  BY <1>7, <1>8
<1> HIDE DEF m
<1>10. k \in 1 .. last
  BY <1>5, <1>9
<1>11. k # 1 => times[k] <= now
  <2> SUFFICES ASSUME k # 1 PROVE times[k] <= now
    OBVIOUS
  <2>1. m \in 1 .. m /\ m + 1 = k /\ k = m + 1
    BY <1>5, <1>9
  <2>2. m \in gone
    <3> HIDE DEF gone
    <3> QED BY <1>9, <2>1
  <2>3. times[m + 1] <= now
    BY <2>2
  <2> QED BY <2>1, <2>3
<1>12. k < last => k + 1 \in 1 .. last /\ now <= times[k + 1]
  <2> SUFFICES ASSUME k < last PROVE k + 1 \in 1 .. last /\ now <= times[k + 1]
    OBVIOUS
  <2>3. k \in 1 .. last - 1 /\ k \notin 1 .. m /\ k + 1 \in 1 .. last
    <3> HIDE DEF gone
    <3> QED BY <1>5, <1>9
  <2>1. k \in 1 .. last - 1 /\ k \notin gone /\ k + 1 \in 1 .. last
    <3> HIDE DEF gone
    <3> QED BY <1>9, <2>3
  <2>2. ~(times[k + 1] <= now) /\ times[k + 1] \in Nat
    BY <1>5, <2>1
  <2> QED BY <1>6, <2>1, <2>2
<1>21. \A i \in 1 .. last : times[i] <= now => i <= k
  <2> SUFFICES ASSUME NEW i \in 1 .. last, times[i] <= now, i # 1 PROVE i <= k
    BY <1>5, <1>10
  <2>1. i - 1 \in 1 .. last - 1 /\ (i - 1) + 1 = i
    BY <1>5
  <2>2. i - 1 \in gone
    BY <2>1
  <2>3. i - 1 \in 1 .. m
    <3> HIDE DEF gone
    <3> QED BY <1>9, <2>2
  <2> HIDE DEF gone
  <2> QED BY <1>5, <1>9, <2>3
<1> DEFINE to == IF blend THEN k + 1 ELSE k
<1>13. to \in 1 .. last /\ (k # to => now <= times[to])
  <2>1. CASE blend
    BY <1>12, <2>1 DEF last
  <2>2. CASE ~blend
    BY <1>10, <2>2
  <2> QED BY <2>1, <2>2
<1> HIDE DEF to
<1>14. sample' = [times |-> times, now |-> now, from |-> k, to |-> to]
  BY <1>3 DEF to
<1>15. Between(sample')
  <2>1. sample'.times = times /\ sample'.now = now /\ sample'.from = k /\ sample'.to = to
    BY <1>14
  <2> QED BY <1>5, <1>11, <1>13, <1>21, <2>1 DEF Between
<1>16. Between(sample)'
  BY <1>15 DEF Between
<1>17. Importer!Files' = Importer!Files
  BY <1>1 DEF Importer!Files, Importer!HasSkin
<1>18. Saved(Len(Importer!Files))'
  BY <1>1, <1>17 DEF FilesIInv, Saved, Importer!HasSkin
<1>19. model' = Importer!Loaded(disk)' /\ pc' = "loaded"
  BY <1>1 DEF FilesIInv
<1>20. /\ disk' \in Disk
       /\ textures' \in Seq({"metal", "colour"}) /\ Len(textures') <= MaxImages
       /\ Len(clips') \in Nat /\ DOMAIN clips' = 1 .. Len(clips')
       /\ \A i \in 1 .. Len(clips') : ClipFits(clips'[i])
       /\ \A b \in DOMAIN buckets' : buckets'[b].texture \in {None} \cup 1 .. Len(textures')
  BY <1>1 DEF FilesIInv, Importer!Written
<1> QED BY <1>16, <1>18, <1>19, <1>20 DEF FilesIInv

LEMMA LoadsOwn ==
  ASSUME FileAssumption, FilesIInv PROVE Importer!LoadsItsOwn
<1> SUFFICES ASSUME pc = "loaded"
             PROVE  /\ model.mesh = Importer!New(0)
                    /\ \A b \in DOMAIN buckets :
                         buckets[b].texture # None =>
                           model.textures[buckets[b].texture] = Importer!New(buckets[b].texture)
                    /\ Importer!HasSkin =>
                         model.skel = Importer!New(1) /\ model.skin = Importer!New(1)
                         /\ \A c \in DOMAIN clips : model.clips[c] = Importer!New(c)
                    /\ sample # None => Between(sample)
  BY DEF Importer!LoadsItsOwn, Between
<1> DEFINE T == Len(textures)
           C == Len(clips)
           S == Importer!HasSkin
<1>1. /\ disk \in Disk /\ T \in Nat /\ DOMAIN textures = 1 .. T /\ C \in Nat /\ DOMAIN clips = 1 .. C
      /\ \A b \in DOMAIN buckets : buckets[b].texture \in {None} \cup 1 .. T
      /\ Saved(Len(Importer!Files)) /\ model = Importer!Loaded(disk)
      /\ sample # None => Between(sample)
  BY DEF FilesIInv, Importer!Written
<1>2. Len(Importer!Files) = 1 + T + (IF S THEN 2 + C ELSE 0)
  <2>1. S \in BOOLEAN
    BY DEF Importer!HasSkin
  <2> HIDE DEF S, T, C
  <2>2. Len(FilesOf(textures, clips, S)) = 1 + T + (IF S THEN 2 + C ELSE 0)
    BY <1>1, <2>1, FilesAre
  <2> QED BY <2>2, FilesThen DEF S
<1>3. /\ disk.mesh = Importer!New(0)
      /\ \A i \in 1 .. T : i <= Len(disk.textures) /\ disk.textures[i] = Importer!New(i)
      /\ S => /\ disk.skel = Importer!New(1) /\ disk.skin = Importer!New(1)
              /\ \A c \in 1 .. C : c <= Len(disk.clips) /\ disk.clips[c] = Importer!New(c)
  <2> DEFINE F == Len(Importer!Files)
  <2>1. F >= 1 /\ \A i \in 1 .. T : i + 1 <= F
    <3>1. CASE S
      BY <1>1, <1>2, <3>1
    <3>2. CASE ~S
      BY <1>1, <1>2, <3>2
    <3> QED BY <3>1, <3>2
  <2>2. S => F >= T + 2 /\ F >= T + 3 /\ \A c \in 1 .. C : c + T + 3 <= F
    BY <1>1, <1>2
  <2> HIDE DEF F
  <2>3. Saved(F)
    BY <1>1 DEF F
  <2> QED BY <2>1, <2>2, <2>3 DEF Saved
<1>4. \A k \in Nat : Importer!Whole(Importer!New(k))
  BY NewIs
<1>5. /\ model = [mesh |-> disk.mesh, textures |-> Importer!Leading(disk.textures),
                  skel |-> IF Importer!HasRig(disk) THEN disk.skel ELSE None,
                  skin |-> IF Importer!HasRig(disk) THEN disk.skin ELSE None,
                  clips |-> IF Importer!HasRig(disk) THEN Importer!Leading(disk.clips) ELSE <<>>]
  BY <1>1, <1>3, <1>4 DEF Importer!Loaded
<1>6. /\ model.mesh = disk.mesh /\ model.textures = Importer!Leading(disk.textures)
      /\ Importer!HasRig(disk) => /\ model.skel = disk.skel /\ model.skin = disk.skin
                                  /\ model.clips = Importer!Leading(disk.clips)
  BY <1>5
<1>7. S => Importer!HasRig(disk)
  BY <1>3, <1>4 DEF Importer!HasRig
<1>8. \A i \in 1 .. T : model.textures[i] = Importer!New(i)
  <2>1. disk.textures \in Seq(File)
    BY <1>1 DEF Disk
  <2>2. \A i \in 1 .. T : i <= Len(disk.textures) /\ Importer!Whole(disk.textures[i])
    BY <1>3, <1>4
  <2>3. \A i \in 1 .. T : Importer!Leading(disk.textures)[i] = disk.textures[i]
    BY <1>1, <2>1, <2>2, LeadingIs, Zenon
  <2> QED BY <1>3, <1>6, <2>3
<1>9. S => \A c \in 1 .. C : model.clips[c] = Importer!New(c)
  <2> SUFFICES ASSUME S PROVE \A c \in 1 .. C : model.clips[c] = Importer!New(c)
    OBVIOUS
  <2>1. disk.clips \in Seq(File)
    BY <1>1 DEF Disk
  <2>2. \A c \in 1 .. C : c <= Len(disk.clips) /\ Importer!Whole(disk.clips[c])
    BY <1>3, <1>4
  <2>3. \A c \in 1 .. C : Importer!Leading(disk.clips)[c] = disk.clips[c]
    BY <1>1, <2>1, <2>2, LeadingIs, Zenon
  <2> QED BY <1>3, <1>6, <1>7, <2>3
<1> QED BY <1>1, <1>3, <1>6, <1>7, <1>8, <1>9

-----------------------------------------------------------------------------
(* The import of a model: the regions of the index pool.                   *)

Materials == {None, "steel", "paint", "glass"}
Pairs == Seq(Nat \X Nat)

\* The indices of a primitive of a file, with its own number.
Ixs(f, i) == Importer!IndexOf(f.prims[i])
Mine(f, i) == [k \in DOMAIN Ixs(f, i) |-> <<i, Ixs(f, i)[k]>>]

LEMMA IxsAre ==
  ASSUME NEW f, SceneFits(f), NEW i \in 1 .. Len(f.prims)
  PROVE  /\ Ixs(f, i) \in Seq(Nat) /\ Len(Ixs(f, i)) \in Nat /\ DOMAIN Ixs(f, i) = 1 .. Len(Ixs(f, i))
         /\ \A k \in 1 .. Len(Ixs(f, i)) : Ixs(f, i)[k] \in 0 .. f.prims[i].verts - 1
         /\ Mine(f, i) \in Pairs /\ Len(Mine(f, i)) = Len(Ixs(f, i))
         /\ \A k \in 1 .. Len(Ixs(f, i)) : Mine(f, i)[k] = <<i, Ixs(f, i)[k]>>
         /\ f.prims[i].verts \in Nat /\ f.prims[i].material \in Materials
<1> DEFINE p == f.prims[i]
           s == Ixs(f, i)
<1>1. PrimFits(p) /\ i \in Nat
  BY DEF SceneFits
<1> HIDE DEF p
<1>2. p.verts \in Nat \ {0} /\ p.index \in {None} \cup Seq(Nat) /\ p.material \in Materials
      /\ (p.index # None => \A k \in 1 .. Len(p.index) : p.index[k] < p.verts)
  BY <1>1 DEF PrimFits, Materials
<1>3. s = IF p.index = None THEN [j \in 1 .. p.verts |-> j - 1] ELSE p.index
  BY DEF Ixs, Importer!IndexOf, p
<1> HIDE DEF s
<1>4. s \in Seq(Nat) /\ \A k \in 1 .. Len(s) : s[k] \in 0 .. p.verts - 1
  <2>1. CASE p.index = None
    <3>1. s = [j \in 1 .. p.verts |-> j - 1]
      BY <1>3, <2>1
    <3>2. \A j \in 1 .. p.verts : j - 1 \in Nat /\ j - 1 \in 0 .. p.verts - 1
      BY <1>2
    <3>3. s \in [1 .. p.verts -> Nat] /\ \A j \in 1 .. p.verts : s[j] \in 0 .. p.verts - 1
      BY <3>1, <3>2
    <3>4. s \in Seq(Nat) /\ Len(s) = p.verts
      BY <1>2, <3>3
    <3> QED BY <3>3, <3>4
  <2>2. CASE p.index # None
    <3>1. s = p.index /\ s \in Seq(Nat)
      BY <1>2, <1>3, <2>2
    <3>2. \A k \in 1 .. Len(s) : s[k] \in Nat /\ s[k] < p.verts
      BY <1>2, <2>2, <3>1
    <3> QED BY <1>2, <3>1, <3>2
  <2> QED BY <2>1, <2>2
<1>5. Len(s) \in Nat /\ DOMAIN s = 1 .. Len(s) /\ \A k \in 1 .. Len(s) : s[k] \in Nat
  BY <1>4
<1>6. Mine(f, i) = [k \in 1 .. Len(s) |-> <<i, s[k]>>]
  BY <1>5 DEF Mine, s
<1>7. Mine(f, i) \in [1 .. Len(s) -> Nat \X Nat] /\ \A k \in 1 .. Len(s) : Mine(f, i)[k] = <<i, s[k]>>
  BY <1>1, <1>5, <1>6
<1>8. Mine(f, i) \in Pairs /\ Len(Mine(f, i)) = Len(s)
  BY <1>5, <1>7 DEF Pairs
<1> QED BY <1>2, <1>4, <1>5, <1>7, <1>8 DEF p, s

\* What a region is to hold, primitive by primitive.
Wanted(f, m) ==
  LET want[i \in 0 .. Len(f.prims)] ==
        IF i = 0 THEN <<>>
        ELSE IF f.prims[i].material # m THEN want[i - 1] ELSE want[i - 1] \o Mine(f, i)
  IN  want

LEMMA WantedThere == \A m : Importer!Wanted(m) = Wanted(scene, m)
BY DEF Importer!Wanted, Wanted, Mine, Ixs

LEMMA WantedIs ==
  ASSUME NEW f, SceneFits(f), NEW m
  PROVE  /\ Wanted(f, m)[0] = <<>>
         /\ \A i \in 0 .. Len(f.prims) : Wanted(f, m)[i] \in Pairs
         /\ \A i \in 1 .. Len(f.prims) : Wanted(f, m)[i] =
              IF f.prims[i].material # m THEN Wanted(f, m)[i - 1]
              ELSE Wanted(f, m)[i - 1] \o Mine(f, i)
<1> DEFINE N == Len(f.prims)
           S == Pairs
           on(i, s) == IF f.prims[i].material # m THEN s ELSE s \o Mine(f, i)
           in(i, s) == IF i \in 1 .. N THEN on(i, s) ELSE s
           G == [k \in Nat |-> [s \in S |-> in(k + 1, s)]]
           W == Wanted(f, m)
<1>0. N \in Nat
  BY DEF SceneFits
<1>1. <<>> \in S
  BY DEF Pairs
<1>2. ASSUME NEW i \in 1 .. N, NEW s \in S PROVE on(i, s) \in S
  <2>1. Mine(f, i) \in S
    BY IxsAre
  <2>2. s \o Mine(f, i) \in S
    BY <2>1, ConcatProperties DEF Pairs
  <2> QED BY <2>2
<1>3. G \in [Nat -> [S -> S]]
  <2> HIDE DEF on, S
  <2> QED BY <1>2
<1>4. PICK r : Recurs(r, S, <<>>, G)
  <2> HIDE DEF G, S
  <2> QED BY <1>1, <1>3, RecursionExists
<1>5. r \in [Nat -> S] /\ r[0] = <<>>
  BY <1>4 DEF Recurs
<1>6. ASSUME NEW k \in Nat, k + 1 \in 1 .. N PROVE r[k + 1] = on(k + 1, r[k])
  <2>1. r[k + 1] = G[k][r[k]]
    <3> HIDE DEF G, S
    <3> QED BY <1>4, Zenon DEF Recurs
  <2> HIDE DEF on, S
  <2> QED BY <1>5, <1>6, <2>1
<1>7. ASSUME NEW k \in 1 .. N PROVE r[k] = on(k, r[k - 1])
  <2>1. k - 1 \in Nat /\ (k - 1) + 1 = k
    OBVIOUS
  <2> HIDE DEF on
  <2>2. r[(k - 1) + 1] = on((k - 1) + 1, r[k - 1])
    BY <1>6, <2>1
  <2> QED BY <2>1, <2>2
<1> DEFINE g == [k \in 0 .. N |-> r[k]]
           is(h) == h = [k \in 0 .. N |-> IF k = 0 THEN <<>> ELSE on(k, h[k - 1])]
<1>8. is(g)
  <2>1. ASSUME NEW k \in 0 .. N, k # 0 PROVE g[k] = on(k, g[k - 1])
    <3>1. k \in 1 .. N /\ k - 1 \in 0 .. N
      BY <1>0, <2>1
    <3> HIDE DEF on
    <3> QED BY <1>7, <2>1, <3>1
  <2> HIDE DEF on
  <2>2. 0 \in 0 .. N
    BY <1>0
  <2> QED BY <1>5, <2>1, <2>2, Zenon
<1>9. is(CHOOSE h : is(h))
  <2> HIDE DEF is, g
  <2> QED BY <1>8
<1>10. W = CHOOSE h : is(h)
  BY DEF Wanted
<1> HIDE DEF W, g
<1>11. W = [k \in 0 .. N |-> IF k = 0 THEN <<>> ELSE on(k, W[k - 1])]
  BY <1>9, <1>10, Zenon
<1>12. W[0] = <<>>
  <2> HIDE DEF on
  <2> QED BY <1>0, <1>11
<1>13. ASSUME NEW i \in 1 .. N PROVE W[i] = on(i, W[i - 1])
  <2> HIDE DEF on
  <2>1. i \in 0 .. N /\ i # 0
    OBVIOUS
  <2> QED BY <1>11, <2>1, Zenon
<1>14. \A k \in Nat : k <= N => W[k] \in S
  <2> DEFINE A == {k \in Nat : k <= N => W[k] \in S}
  <2>1. 0 \in A
    BY <1>1, <1>12
  <2>2. ASSUME NEW k \in Nat, k \in A PROVE k + 1 \in A
    <3> SUFFICES ASSUME k + 1 <= N PROVE W[k + 1] \in S
      OBVIOUS
    <3>1. W[k] \in S /\ k + 1 \in 1 .. N /\ (k + 1) - 1 = k
      BY <1>0, <2>2
    <3> HIDE DEF on, S
    <3>2. W[k + 1] = on(k + 1, W[k])
      BY <1>13, <3>1
    <3> QED BY <1>2, <3>1, <3>2
  <2>3. Nat \subseteq A
    <3> HIDE DEF A
    <3> QED BY <2>1, <2>2, SetInduction
  <2> QED BY <2>3
<1>15. \A i \in 0 .. N : W[i] \in Pairs
  BY <1>0, <1>14
<1> QED BY <1>12, <1>13, <1>15 DEF W

\* One more primitive of the material adds its own indices, one of another nothing.
LEMMA WantedNext ==
  ASSUME NEW f, SceneFits(f), NEW m, NEW i \in 1 .. Len(f.prims)
  PROVE  LET w == Wanted(f, m)[i - 1]
             v == Wanted(f, m)[i]
         IN  /\ w \in Pairs /\ v \in Pairs /\ Len(w) \in Nat /\ Len(v) \in Nat
             /\ f.prims[i].material # m => v = w
             /\ f.prims[i].material = m =>
                  /\ Len(v) = Len(w) + Len(Ixs(f, i))
                  /\ \A k \in 1 .. Len(w) + Len(Ixs(f, i)) :
                       v[k] = IF k <= Len(w) THEN w[k] ELSE <<i, Ixs(f, i)[k - Len(w)]>>
<1> DEFINE w == Wanted(f, m)[i - 1]
           v == Wanted(f, m)[i]
<1>1. i \in 0 .. Len(f.prims) /\ i - 1 \in 0 .. Len(f.prims) /\ Len(f.prims) \in Nat
  BY DEF SceneFits
<1>2. w \in Pairs /\ v \in Pairs
      /\ v = IF f.prims[i].material # m THEN w ELSE w \o Mine(f, i)
  BY <1>1, WantedIs
<1> HIDE DEF v, w
<1>3. Len(w) \in Nat /\ Len(v) \in Nat
  BY <1>2 DEF Pairs
<1>4. ASSUME f.prims[i].material = m
      PROVE  /\ Len(v) = Len(w) + Len(Ixs(f, i))
             /\ \A k \in 1 .. Len(w) + Len(Ixs(f, i)) :
                  v[k] = IF k <= Len(w) THEN w[k] ELSE <<i, Ixs(f, i)[k - Len(w)]>>
  <2>1. v = w \o Mine(f, i)
    BY <1>2, <1>4
  <2>2. Mine(f, i) \in Pairs /\ Len(Mine(f, i)) = Len(Ixs(f, i)) /\ Len(Ixs(f, i)) \in Nat
        /\ \A k \in 1 .. Len(Ixs(f, i)) : Mine(f, i)[k] = <<i, Ixs(f, i)[k]>>
    BY IxsAre
  <2>3. /\ Len(w \o Mine(f, i)) = Len(w) + Len(Mine(f, i))
        /\ \A k \in 1 .. Len(w) + Len(Mine(f, i)) :
             (w \o Mine(f, i))[k] = IF k <= Len(w) THEN w[k] ELSE Mine(f, i)[k - Len(w)]
    <3> DEFINE S == Nat \X Nat
    <3>1. w \in Seq(S)
      BY <1>2 DEF Pairs
    <3>2. Mine(f, i) \in Seq(S)
      BY <2>2 DEF Pairs
    <3> HIDE DEF S
    <3> QED BY <3>1, <3>2, ConcatProperties
  <2>4. ASSUME NEW k \in 1 .. Len(w) + Len(Ixs(f, i))
        PROVE  v[k] = IF k <= Len(w) THEN w[k] ELSE <<i, Ixs(f, i)[k - Len(w)]>>
    <3>1. CASE k <= Len(w)
      BY <2>1, <2>2, <2>3, <3>1
    <3>2. CASE ~(k <= Len(w))
      <4>1. k - Len(w) \in 1 .. Len(Ixs(f, i))
        BY <1>3, <2>2, <3>2
      <4> QED BY <2>1, <2>2, <2>3, <3>2, <4>1, Zenon
    <3> QED BY <3>1, <3>2
  <2> QED BY <2>1, <2>2, <2>3, <2>4
<1> QED BY <1>2, <1>3, <1>4, Zenon DEF v, w

\* A region grows from primitive to primitive, and stays empty before the first of it.
LEMMA WantedGrows ==
  ASSUME NEW f, SceneFits(f), NEW m
  PROVE  /\ \A i \in 0 .. Len(f.prims) : Len(Wanted(f, m)[i]) <= Len(Wanted(f, m)[Len(f.prims)])
         /\ \A i \in 0 .. Len(f.prims) :
              (\A j \in 1 .. i : f.prims[j].material # m) => Wanted(f, m)[i] = <<>>
<1> DEFINE N == Len(f.prims)
           W == Wanted(f, m)
<1>0. N \in Nat
  BY DEF SceneFits
<1>1. ASSUME NEW i \in 1 .. N PROVE Len(W[i - 1]) \in Nat /\ Len(W[i]) \in Nat /\ Len(W[i - 1]) <= Len(W[i])
  <2>1. Len(Ixs(f, i)) \in Nat
    BY IxsAre
  <2>2. /\ Len(W[i - 1]) \in Nat /\ Len(W[i]) \in Nat
        /\ f.prims[i].material # m => W[i] = W[i - 1]
        /\ f.prims[i].material = m => Len(W[i]) = Len(W[i - 1]) + Len(Ixs(f, i))
    BY WantedNext
  <2> HIDE DEF W
  <2> QED BY <2>1, <2>2
<1>2. W[0] = <<>> /\ \A i \in 0 .. N : W[i] \in Pairs
  BY WantedIs
<1>3. \A i \in 1 .. N : f.prims[i].material # m => W[i] = W[i - 1]
  BY WantedIs
<1> HIDE DEF W, N
<1>4. \A i \in 0 .. N : Len(W[i]) \in Nat
  BY <1>2 DEF Pairs
<1>5. \A d \in Nat : d <= N => Len(W[N - d]) <= Len(W[N])
  <2> DEFINE A == {d \in Nat : d <= N => Len(W[N - d]) <= Len(W[N])}
  <2>1. 0 \in A
    BY <1>0, <1>4
  <2>2. ASSUME NEW d \in Nat, d \in A PROVE d + 1 \in A
    <3> SUFFICES ASSUME d + 1 <= N PROVE Len(W[N - (d + 1)]) <= Len(W[N])
      OBVIOUS
    <3>1. N - d \in 1 .. N /\ (N - d) - 1 = N - (d + 1) /\ N \in 0 .. N /\ Len(W[N - d]) <= Len(W[N])
      BY <1>0, <2>2
    <3>2. Len(W[N - (d + 1)]) \in Nat /\ Len(W[N - d]) \in Nat /\ Len(W[N - (d + 1)]) <= Len(W[N - d])
      BY <1>1, <3>1
    <3> QED BY <1>4, <3>1, <3>2
  <2>3. Nat \subseteq A
    <3> HIDE DEF A
    <3> QED BY <2>1, <2>2, SetInduction
  <2> QED BY <2>3
<1>6. ASSUME NEW i \in 0 .. N PROVE Len(W[i]) <= Len(W[N])
  <2>1. N - i \in Nat /\ N - i <= N /\ N - (N - i) = i
    BY <1>0
  <2> QED BY <1>5, <2>1
<1>7. \A i \in Nat : i <= N /\ (\A j \in 1 .. i : f.prims[j].material # m) => W[i] = <<>>
  <2> DEFINE A == {i \in Nat : i <= N /\ (\A j \in 1 .. i : f.prims[j].material # m) => W[i] = <<>>}
  <2>1. 0 \in A
    BY <1>2
  <2>2. ASSUME NEW i \in Nat, i \in A PROVE i + 1 \in A
    <3> SUFFICES ASSUME i + 1 <= N, \A j \in 1 .. i + 1 : f.prims[j].material # m
                 PROVE  W[i + 1] = <<>>
      OBVIOUS
    <3>1. W[i] = <<>>
      BY <1>0, <2>2
    <3>2. i + 1 \in 1 .. N /\ i + 1 \in 1 .. i + 1 /\ (i + 1) - 1 = i
      BY <1>0
    <3> QED BY <1>3, <3>1, <3>2
  <2>3. Nat \subseteq A
    <3> HIDE DEF A
    <3> QED BY <2>1, <2>2, SetInduction
  <2> QED BY <2>3
<1> QED BY <1>0, <1>6, <1>7 DEF W, N

\* How many of the primitives were written.
Done == IF pc = "append" THEN at - 1 ELSE IF pc = "skeleton" THEN 0 ELSE Len(scene.prims)

\* What an index of the pool stands for.
Stands(vs, v, w) == v \in Nat /\ v < Len(vs) /\ vs[v + 1].prim = w[1] /\ vs[v + 1].i = w[2]

OfEach(bs) == \A b, c \in 1 .. Len(bs) : bs[b].material = bs[c].material => b = c
Has(bs, m) == \E b \in 1 .. Len(bs) : bs[b].material = m

\* While the primitives are counted.
Counted(f, bs, n) ==
  /\ n \in 0 .. Len(f.prims)
  /\ \A i \in 1 .. n : Has(bs, f.prims[i].material)
  /\ \A b \in 1 .. Len(bs) :
       bs[b].count = Len(Wanted(f, bs[b].material)[n]) /\ bs[b].cursor = 0

\* When the first `n' were written to regions that lie one after the other.
Filled(f, bs, xs, vs, n) ==
  /\ n \in 0 .. Len(f.prims)
  /\ Len(xs) \in Nat /\ DOMAIN xs = 1 .. Len(xs)
  /\ \A i \in 1 .. Len(f.prims) : Has(bs, f.prims[i].material)
  /\ \A b \in 1 .. Len(bs) :
       /\ bs[b].count = Len(Wanted(f, bs[b].material)[Len(f.prims)])
       /\ bs[b].cursor = Len(Wanted(f, bs[b].material)[n])
       /\ bs[b].offset + bs[b].count <= Len(xs)
  /\ \A b, c \in 1 .. Len(bs) : b < c => bs[b].offset + bs[b].count <= bs[c].offset
  /\ \A b \in 1 .. Len(bs) : \A k \in 1 .. bs[b].cursor :
       Stands(vs, xs[bs[b].offset + k], Wanted(f, bs[b].material)[n][k])

RegionsIInv ==
  /\ BucketsFit /\ Len(buckets) <= MaxMaterials /\ OfEach(buckets)
  /\ IF pc \in {"count", "refused"} THEN Counted(scene, buckets, at - 1)
     ELSE Filled(scene, buckets, indices, verts, Done)

LEMMA BucketOfIs ==
  ASSUME BucketsFit, NEW p
  PROVE  \/ Importer!BucketOf(p) = 0 /\ ~Has(buckets, p.material)
         \/ /\ Importer!BucketOf(p) \in 1 .. Len(buckets)
            /\ buckets[Importer!BucketOf(p)].material = p.material
<1> DEFINE hit == Importer!BucketOf(p)
           I == {b \in 1 .. Len(buckets) : buckets[b].material = p.material}
<1>1. hit = IF I = {} THEN 0 ELSE Importer!Min(I)
  BY DEF Importer!BucketOf, Importer!SelectInSeq
<1>2. CASE I = {}
  BY <1>1, <1>2 DEF Has
<1>3. CASE I # {}
  <2>1. I \in SUBSET Nat
    BY DEF BucketsFit
  <2>2. \E i \in I : \A j \in I : i <= j
    <3> HIDE DEF I
    <3> QED BY <1>3, <2>1, LeastExists
  <2>3. hit \in I
    <3> HIDE DEF I, hit
    <3> QED BY <1>1, <1>3, <2>2 DEF Importer!Min
  <2> HIDE DEF hit
  <2> QED BY <2>3 DEF I, hit
<1> QED BY <1>2, <1>3

LEMMA RegionsInit == RigAssumption /\ MaxMaterials \in Nat /\ Importer!Init => RegionsIInv
<1> SUFFICES ASSUME RigAssumption, MaxMaterials \in Nat, Importer!Init PROVE RegionsIInv
  OBVIOUS
<1>1. SceneFits(scene)
  BY ScenesFit DEF Importer!Init
<1>2. pc = "count" /\ at = 1 /\ buckets = <<>>
  BY DEF Importer!Init
<1>3. BucketsFit /\ Len(buckets) = 0
  BY <1>2 DEF BucketsFit
<1>4. Counted(scene, buckets, 0)
  BY <1>1, <1>3 DEF Counted, SceneFits
<1> QED BY <1>2, <1>3, <1>4 DEF RegionsIInv, OfEach

\* Room for a material, and what is counted of it once one more primitive is.
Counts(f, n, bs, room, i, one) ==
  /\ n \in Nat /\ n < Len(f.prims) /\ Len(bs) \in Nat
  /\ room \in Seq(BucketSet) /\ i \in 1 .. Len(room) /\ Len(bs) <= Len(room)
  /\ \A c \in 1 .. Len(bs) : room[c].material = bs[c].material
  /\ \A c \in 1 .. Len(room) : c # i =>
       c \in 1 .. Len(bs) /\ room[c] = bs[c] /\ room[c].material # f.prims[n + 1].material
  /\ one \in BucketSet /\ one.cursor = 0
  /\ one.material = f.prims[n + 1].material /\ room[i].material = one.material
  /\ one.count = Len(Wanted(f, f.prims[n + 1].material)[n]) + Len(Ixs(f, n + 1))

\* One more primitive is counted.
LEMMA CountedNext ==
  ASSUME NEW f, SceneFits(f), NEW n, NEW bs, NEW room, NEW i, NEW one,
         Counted(f, bs, n), OfEach(bs), Counts(f, n, bs, room, i, one)
  PROVE  LET new == [room EXCEPT ![i] = one]
         IN  new \in Seq(BucketSet) /\ Len(new) = Len(room) /\ OfEach(new) /\ Counted(f, new, n + 1)
<1> DEFINE new == [room EXCEPT ![i] = one]
<1>0. /\ n \in Nat /\ n < Len(f.prims) /\ Len(bs) \in Nat
      /\ room \in Seq(BucketSet) /\ i \in 1 .. Len(room) /\ Len(bs) <= Len(room)
      /\ \A c \in 1 .. Len(bs) : room[c].material = bs[c].material
      /\ \A c \in 1 .. Len(room) : c # i =>
           c \in 1 .. Len(bs) /\ room[c] = bs[c] /\ room[c].material # f.prims[n + 1].material
      /\ one \in BucketSet /\ one.cursor = 0
      /\ one.material = f.prims[n + 1].material /\ room[i].material = one.material
      /\ one.count = Len(Wanted(f, f.prims[n + 1].material)[n]) + Len(Ixs(f, n + 1))
  BY DEF Counts
<1> DEFINE j == n + 1
           p == f.prims[j]
<1>1. j \in 1 .. Len(f.prims) /\ j - 1 = n /\ Len(f.prims) \in Nat
  BY <1>0 DEF SceneFits
<1>2. Len(Ixs(f, j)) \in Nat /\ p.verts \in Nat /\ p.material \in Materials
  BY <1>1, IxsAre
<1>3. room[i] \in BucketSet /\ DOMAIN room = 1 .. Len(room) /\ Len(room) \in Nat
  BY <1>0
<1>6. new \in Seq(BucketSet) /\ Len(new) = Len(room)
  <2> DEFINE S == BucketSet
  <2>1. room \in Seq(S) /\ one \in S /\ i \in 1 .. Len(room)
    BY <1>0
  <2> HIDE DEF S
  <2>2. [room EXCEPT ![i] = one] \in Seq(S) /\ Len([room EXCEPT ![i] = one]) = Len(room)
    BY <2>1, ExceptSeq
  <2> QED BY <2>2 DEF S
<1>7. new[i] = one /\ \A c \in 1 .. Len(room) : c # i => new[c] = room[c]
  BY <1>0, <1>3
<1> HIDE DEF new
<1>8. \A c \in 1 .. Len(room) : new[c].material = room[c].material
  BY <1>0, <1>7
<1>9. OfEach(new)
  <2> SUFFICES ASSUME NEW b \in 1 .. Len(room), NEW c \in 1 .. Len(room), room[b].material = room[c].material
               PROVE  b = c
    BY <1>6, <1>8 DEF OfEach
  <2>1. CASE b = i \/ c = i
    BY <1>0, <2>1
  <2>2. CASE b # i /\ c # i
    BY <1>0, <2>2 DEF OfEach
  <2> QED BY <2>1, <2>2
<1>10. ASSUME NEW k \in 1 .. j PROVE Has(new, f.prims[k].material)
  <2>1. CASE k = j
    BY <1>0, <1>6, <1>7, <2>1 DEF Has
  <2>2. CASE k # j
    <3>1. k \in 1 .. n
      BY <1>0, <2>2
    <3>2. PICK b \in 1 .. Len(bs) : bs[b].material = f.prims[k].material
      BY <3>1 DEF Counted, Has
    <3>3. b \in 1 .. Len(room) /\ new[b].material = f.prims[k].material
      BY <1>0, <1>3, <1>8, <3>2
    <3> QED BY <1>6, <3>3 DEF Has
  <2> QED BY <2>1, <2>2
<1>11. ASSUME NEW b \in 1 .. Len(new)
       PROVE  new[b].count = Len(Wanted(f, new[b].material)[j]) /\ new[b].cursor = 0
  <2>1. CASE b = i
    <3>1. new[b].count = Len(Wanted(f, p.material)[n]) + Len(Ixs(f, j)) /\ new[b].material = p.material
          /\ new[b].cursor = 0
      BY <1>0, <1>7, <2>1, Zenon
    <3>2. Len(Wanted(f, p.material)[j]) = Len(Wanted(f, p.material)[j - 1]) + Len(Ixs(f, j))
      <4> DEFINE m == p.material
      <4>1. p.material = m
        OBVIOUS
      <4> HIDE DEF m
      <4> HIDE DEF j
      <4>2. Len(Wanted(f, m)[j]) = Len(Wanted(f, m)[j - 1]) + Len(Ixs(f, j))
        BY <1>1, <4>1, WantedNext, Zenon
      <4> QED BY <4>1, <4>2
    <3> QED BY <1>1, <3>1, <3>2, Zenon
  <2>2. CASE b # i
    <3>1. b \in 1 .. Len(bs) /\ new[b] = bs[b] /\ new[b].material # p.material
      BY <1>0, <1>6, <1>7, <2>2
    <3>2. Wanted(f, new[b].material)[j] = Wanted(f, new[b].material)[j - 1]
      <4> DEFINE m == new[b].material
      <4> HIDE DEF m
      <4>1. m # p.material
        BY <3>1 DEF m
      <4>2. Wanted(f, m)[j] = Wanted(f, m)[j - 1]
        BY <1>1, <4>1, WantedNext
      <4> QED BY <4>2 DEF m
    <3>3. bs[b].count = Len(Wanted(f, bs[b].material)[n]) /\ bs[b].cursor = 0
      BY <3>1 DEF Counted
    <3>4. Wanted(f, new[b].material)[j] = Wanted(f, new[b].material)[n]
      BY <1>1, <3>2
    <3> HIDE DEF j
    <3> QED BY <3>1, <3>3, <3>4
  <2> QED BY <2>1, <2>2
<1>12. j \in 0 .. Len(f.prims)
  BY <1>1
<1>13. Counted(f, new, n + 1)
  BY <1>6, <1>10, <1>11, <1>12 DEF Counted
<1> QED BY <1>6, <1>9, <1>13 DEF new

LEMMA BucketCounts ==
  ASSUME NEW x \in BucketSet, NEW v \in Nat, NEW c \in Nat
  PROVE  LET one == [x EXCEPT !.verts = @ + v, !.count = @ + c]
         IN  /\ one \in BucketSet /\ one.material = x.material /\ one.cursor = x.cursor
             /\ one.count = x.count + c
<1>1. x.verts + v \in Nat /\ x.count + c \in Nat
  BY DEF BucketSet
<1> QED BY <1>1, Zenon DEF BucketSet

LEMMA CountRegions ==
  ASSUME MaxMaterials \in Nat, JointsIInv, RegionsIInv, Importer!Count PROVE RegionsIInv'
<1> DEFINE n == at - 1
           p == scene.prims[at]
           b == Importer!BucketOf(p)
           room == IF b = 0 THEN Append(buckets, Importer!Bucket(p.material)) ELSE buckets
           i == IF b = 0 THEN Len(room) ELSE b
<1>1. /\ pc = "count" /\ at <= Len(scene.prims) /\ UNCHANGED scene
      /\ IF Len(room) > MaxMaterials THEN pc' = "refused" /\ UNCHANGED <<at, buckets>>
         ELSE /\ buckets' = [room EXCEPT ![i].verts = @ + p.verts,
                                         ![i].count = @ + Len(Importer!IndexOf(p))]
              /\ at' = at + 1 /\ UNCHANGED pc
  BY DEF Importer!Count, Importer!Refuse, Importer!geometry
<1>2. SceneFits(scene) /\ BucketsFit /\ Len(buckets) <= MaxMaterials /\ OfEach(buckets)
      /\ Counted(scene, buckets, n) /\ at \in Nat \ {0}
  BY <1>1 DEF RegionsIInv, JointsIInv
<1>3. CASE Len(room) > MaxMaterials
  BY <1>1, <1>2, <1>3 DEF RegionsIInv, BucketsFit
<1>4. CASE ~(Len(room) > MaxMaterials)
  <2>1. /\ buckets' = [room EXCEPT ![i].verts = @ + p.verts,
                                   ![i].count = @ + Len(Importer!IndexOf(p))]
        /\ at' = at + 1 /\ pc' = "count" /\ scene' = scene
    BY <1>1, <1>4
  <2>2. n \in Nat /\ n < Len(scene.prims) /\ n + 1 = at /\ at \in 1 .. Len(scene.prims) /\ Len(scene.prims) \in Nat
    BY <1>1, <1>2 DEF SceneFits
  <2>3. p.material \in Materials
    BY <1>2, <2>2, IxsAre, Zenon
  <2>4. Len(buckets) \in Nat /\ DOMAIN buckets = 1 .. Len(buckets) /\ buckets \in Seq(BucketSet)
    BY <1>2 DEF BucketsFit
  <2>5. /\ room \in Seq(BucketSet) /\ i \in 1 .. Len(room) /\ Len(buckets) <= Len(room)
        /\ \A c \in 1 .. Len(buckets) : room[c].material = buckets[c].material
        /\ \A c \in 1 .. Len(room) : c # i =>
             c \in 1 .. Len(buckets) /\ room[c] = buckets[c] /\ room[c].material # p.material
        /\ room[i].material = p.material /\ room[i].cursor = 0
        /\ room[i].count = Len(Wanted(scene, p.material)[n])
    <3> HIDE DEF n, p
    <3>1. CASE b = 0
      <4> DEFINE fresh == Importer!Bucket(p.material)
      <4>1. fresh \in BucketSet /\ fresh.material = p.material /\ fresh.cursor = 0 /\ fresh.count = 0
        BY <2>3 DEF Importer!Bucket, BucketSet, Materials
      <4>2. room = Append(buckets, fresh)
        BY <3>1
      <4> HIDE DEF fresh, room
      <4>3. /\ room \in Seq(BucketSet) /\ Len(room) = Len(buckets) + 1
            /\ \A c \in 1 .. Len(buckets) : room[c] = buckets[c]
            /\ room[Len(buckets) + 1] = fresh
        BY <2>4, <4>1, <4>2, AppendProperties
      <4>4. i = Len(buckets) + 1
        BY <3>1, <4>3
      <4>5. ~Has(buckets, p.material)
        <5> HIDE DEF b, i
        <5> QED BY <1>2, <2>4, <3>1, BucketOfIs DEF b
      <4> HIDE DEF i, b
      <4>6. ASSUME NEW c \in 1 .. Len(room), c # i
            PROVE  c \in 1 .. Len(buckets) /\ room[c] = buckets[c] /\ room[c].material # p.material
        <5>1. c \in 1 .. Len(buckets)
          BY <2>4, <4>3, <4>4, <4>6
        <5> QED BY <4>3, <4>5, <5>1 DEF Has
      <4>7. \A k \in 1 .. n : scene.prims[k].material # p.material
        BY <1>2, <4>5 DEF Counted
      <4>8. Wanted(scene, p.material)[n] = <<>>
        <5>1. n \in 0 .. Len(scene.prims)
          BY <1>2 DEF Counted
        <5> QED BY <1>2, <4>7, <5>1, WantedGrows
      <4>9. room[i].count = Len(Wanted(scene, p.material)[n])
        BY <4>1, <4>3, <4>4, <4>8
      <4> QED BY <2>4, <4>1, <4>3, <4>4, <4>6, <4>9
    <3>2. CASE b # 0
      <4>1. room = buckets /\ i = b
        BY <3>2
      <4>2. b \in 1 .. Len(buckets) /\ buckets[b].material = p.material
        <5> HIDE DEF b, i, room
        <5> QED BY <1>2, <3>2, BucketOfIs DEF b
      <4> HIDE DEF room, i, b
      <4>3. \A c \in 1 .. Len(buckets) : c # b => buckets[c].material # p.material
        BY <1>2, <4>2 DEF OfEach
      <4>4. buckets[b].count = Len(Wanted(scene, p.material)[n]) /\ buckets[b].cursor = 0
        BY <1>2, <4>2 DEF Counted
      <4> QED BY <2>4, <4>1, <4>2, <4>3, <4>4
    <3> QED BY <3>1, <3>2
  <2> HIDE DEF room, i, b
  <2>6. /\ buckets' \in Seq(BucketSet) /\ Len(buckets') = Len(room) /\ OfEach(buckets')
        /\ Counted(scene, buckets', n + 1)
    <3> DEFINE one == [room[i] EXCEPT !.verts = @ + p.verts, !.count = @ + Len(Importer!IndexOf(p))]
    <3>1. room[i] \in BucketSet /\ DOMAIN room = 1 .. Len(room)
      BY <2>5
    <3>2. Len(Importer!IndexOf(p)) \in Nat /\ p.verts \in Nat
      BY <1>2, <2>2, IxsAre DEF Ixs
    <3>3. /\ one \in BucketSet /\ one.material = room[i].material /\ one.cursor = room[i].cursor
          /\ one.count = room[i].count + Len(Importer!IndexOf(p))
      <4> DEFINE x == room[i]
                 v == p.verts
                 c == Len(Importer!IndexOf(p))
      <4>1. x \in BucketSet /\ v \in Nat /\ c \in Nat
        BY <3>1, <3>2
      <4> HIDE DEF x, v, c
      <4>2. LET o == [x EXCEPT !.verts = @ + v, !.count = @ + c]
            IN  /\ o \in BucketSet /\ o.material = x.material /\ o.cursor = x.cursor
                /\ o.count = x.count + c
        BY <4>1, BucketCounts, Zenon
      <4> QED BY <4>2 DEF x, v, c
    <3>4. buckets' = [room EXCEPT ![i] = one]
      BY <2>1, <2>5, <3>1, Zenon
    <3> HIDE DEF one
    <3>5. p = scene.prims[n + 1] /\ Len(Importer!IndexOf(p)) = Len(Ixs(scene, n + 1))
      BY <2>2 DEF Ixs
    <3> HIDE DEF n, p
    <3>6. Counts(scene, n, buckets, room, i, one)
      BY <2>2, <2>4, <2>5, <3>3, <3>5 DEF Counts
    <3>7. SceneFits(scene) /\ OfEach(buckets) /\ Counted(scene, buckets, n)
      BY <1>2
    <3> DEFINE new == [room EXCEPT ![i] = one]
    <3>8. new \in Seq(BucketSet) /\ Len(new) = Len(room) /\ OfEach(new) /\ Counted(scene, new, n + 1)
      BY <3>6, <3>7, CountedNext, Zenon
    <3>9. buckets' = new
      BY <3>4
    <3> HIDE DEF new
    <3> QED BY <3>8, <3>9
  <2>7. Len(buckets') <= MaxMaterials
    <3>1. Len(room) \in Nat
      BY <2>5
    <3> QED BY <1>2, <1>4, <2>6, <3>1
  <2>8. at' - 1 = n + 1
    BY <2>1, <2>2
  <2> QED BY <2>1, <2>6, <2>7, <2>8 DEF RegionsIInv, BucketsFit
<1> QED BY <1>3, <1>4

\* Where the regions end.
Sum(bs) ==
  LET sum[k \in 0 .. Len(bs)] == IF k = 0 THEN 0 ELSE sum[k - 1] + bs[k].count
  IN  sum

LEMMA SumIs ==
  ASSUME NEW bs \in Seq(BucketSet)
  PROVE  /\ Sum(bs)[0] = 0 /\ \A k \in 0 .. Len(bs) : Sum(bs)[k] \in Nat
         /\ \A k \in 1 .. Len(bs) : Sum(bs)[k] = Sum(bs)[k - 1] + bs[k].count
         /\ \A j, k \in 0 .. Len(bs) : j <= k => Sum(bs)[j] <= Sum(bs)[k]
<1> DEFINE N == Len(bs)
           on(k, s) == s + bs[k].count
           in(k, s) == IF k \in 1 .. N THEN on(k, s) ELSE s
           G == [k \in Nat |-> [s \in Nat |-> in(k + 1, s)]]
           U == Sum(bs)
<1>0. N \in Nat /\ \A k \in 1 .. N : bs[k].count \in Nat
  <2>1. \A k \in 1 .. N : bs[k] \in BucketSet
    OBVIOUS
  <2> QED BY <2>1 DEF BucketSet
<1>2. ASSUME NEW k \in 1 .. N, NEW s \in Nat PROVE on(k, s) \in Nat
  BY <1>0
<1>3. G \in [Nat -> [Nat -> Nat]]
  <2> HIDE DEF on
  <2> QED BY <1>2, Zenon
<1>4. PICK r : Recurs(r, Nat, 0, G)
  <2> HIDE DEF G
  <2> QED BY <1>3, RecursionExists, Zenon
<1>5. r \in [Nat -> Nat] /\ r[0] = 0
  BY <1>4 DEF Recurs
<1>6. ASSUME NEW k \in Nat, k + 1 \in 1 .. N PROVE r[k + 1] = on(k + 1, r[k])
  <2>1. r[k + 1] = G[k][r[k]]
    <3> HIDE DEF G
    <3> QED BY <1>4, Zenon DEF Recurs
  <2> HIDE DEF on
  <2> QED BY <1>5, <1>6, <2>1
<1>7. ASSUME NEW k \in 1 .. N PROVE r[k] = on(k, r[k - 1])
  <2>1. k - 1 \in Nat /\ (k - 1) + 1 = k
    OBVIOUS
  <2> HIDE DEF on
  <2>2. r[(k - 1) + 1] = on((k - 1) + 1, r[k - 1])
    BY <1>6, <2>1
  <2> QED BY <2>1, <2>2
<1> DEFINE g == [k \in 0 .. N |-> r[k]]
           is(h) == h = [k \in 0 .. N |-> IF k = 0 THEN 0 ELSE on(k, h[k - 1])]
<1>8. is(g)
  <2>1. ASSUME NEW k \in 0 .. N, k # 0 PROVE g[k] = on(k, g[k - 1])
    <3>1. k \in 1 .. N /\ k - 1 \in 0 .. N
      BY <1>0, <2>1
    <3> HIDE DEF on
    <3> QED BY <1>7, <2>1, <3>1
  <2> HIDE DEF on
  <2>2. 0 \in 0 .. N
    BY <1>0
  <2> QED BY <1>5, <2>1, <2>2, Zenon
<1>9. is(CHOOSE h : is(h))
  <2> HIDE DEF is, g
  <2> QED BY <1>8
<1>10. U = CHOOSE h : is(h)
  BY DEF Sum
<1> HIDE DEF U, g
<1>11. U = [k \in 0 .. N |-> IF k = 0 THEN 0 ELSE on(k, U[k - 1])]
  BY <1>9, <1>10
<1>12. U[0] = 0
  <2> HIDE DEF on
  <2> QED BY <1>0, <1>11
<1>13. ASSUME NEW i \in 1 .. N PROVE U[i] = U[i - 1] + bs[i].count
  <2>1. i \in 0 .. N /\ i # 0
    OBVIOUS
  <2> QED BY <1>11, <2>1
<1>14. \A k \in Nat : k <= N => U[k] \in Nat
  <2> DEFINE A == {k \in Nat : k <= N => U[k] \in Nat}
  <2>1. 0 \in A
    BY <1>12
  <2>2. ASSUME NEW k \in Nat, k \in A PROVE k + 1 \in A
    <3> SUFFICES ASSUME k + 1 <= N PROVE U[k + 1] \in Nat
      OBVIOUS
    <3>1. U[k] \in Nat /\ k + 1 \in 1 .. N /\ (k + 1) - 1 = k
      BY <1>0, <2>2
    <3>2. U[k + 1] = U[k] + bs[k + 1].count
      BY <1>13, <3>1
    <3> QED BY <1>0, <3>1, <3>2
  <2>3. Nat \subseteq A
    <3> HIDE DEF A
    <3> QED BY <2>1, <2>2, SetInduction
  <2> QED BY <2>3
<1>15. \A k \in 0 .. N : U[k] \in Nat
  BY <1>0, <1>14
<1>16. ASSUME NEW j \in 0 .. N PROVE \A k \in Nat : j <= k /\ k <= N => U[j] <= U[k]
  <2> DEFINE A == {k \in Nat : j <= k /\ k <= N => U[j] <= U[k]}
  <2>1. 0 \in A
    BY <1>12
  <2>2. ASSUME NEW k \in Nat, k \in A PROVE k + 1 \in A
    <3> SUFFICES ASSUME j <= k + 1, k + 1 <= N PROVE U[j] <= U[k + 1]
      OBVIOUS
    <3>1. k + 1 \in 1 .. N /\ (k + 1) - 1 = k /\ k \in 0 .. N
      BY <1>0, <2>2
    <3>2. U[k + 1] = U[k] + bs[k + 1].count
      BY <1>13, <3>1
    <3>3. U[j] \in Nat /\ U[k] \in Nat /\ U[k + 1] \in Nat /\ bs[k + 1].count \in Nat
      BY <1>0, <1>15, <3>1
    <3>4. CASE j = k + 1
      BY <3>3, <3>4
    <3>5. CASE j <= k
      <4>1. U[j] <= U[k]
        BY <2>2, <3>1, <3>5
      <4> QED BY <3>2, <3>3, <4>1
    <3> QED BY <1>0, <3>4, <3>5
  <2>3. Nat \subseteq A
    <3> HIDE DEF A
    <3> QED BY <2>1, <2>2, SetInduction
  <2> QED BY <2>3
<1>17. \A j, k \in 0 .. N : j <= k => U[j] <= U[k]
  BY <1>0, <1>16
<1> QED BY <1>12, <1>13, <1>15, <1>17 DEF U

\* What is said of the buckets goes by their materials and where they lie.
Alike(bs, cs) ==
  /\ Len(cs) = Len(bs)
  /\ \A b \in 1 .. Len(bs) : /\ cs[b].material = bs[b].material /\ cs[b].count = bs[b].count
                             /\ cs[b].cursor = bs[b].cursor /\ cs[b].offset = bs[b].offset

LEMMA FilledAlike ==
  ASSUME NEW f, NEW bs, NEW cs, NEW xs, NEW vs, NEW n, Alike(bs, cs), OfEach(bs), Filled(f, bs, xs, vs, n)
  PROVE  OfEach(cs) /\ Filled(f, cs, xs, vs, n)
<1>1. Len(cs) = Len(bs)
  BY DEF Alike
<1>2. ASSUME NEW b \in 1 .. Len(bs)
      PROVE  /\ cs[b].material = bs[b].material /\ cs[b].count = bs[b].count
             /\ cs[b].cursor = bs[b].cursor /\ cs[b].offset = bs[b].offset
  BY DEF Alike
<1>3. OfEach(cs)
  BY <1>1, <1>2 DEF OfEach
<1>4. \A m : Has(bs, m) => Has(cs, m)
  BY <1>1, <1>2 DEF Has
<1>5. /\ n \in 0 .. Len(f.prims) /\ Len(xs) \in Nat /\ DOMAIN xs = 1 .. Len(xs)
      /\ \A i \in 1 .. Len(f.prims) : Has(bs, f.prims[i].material)
  BY DEF Filled
<1>6. ASSUME NEW b \in 1 .. Len(bs)
      PROVE  /\ cs[b].count = Len(Wanted(f, cs[b].material)[Len(f.prims)])
             /\ cs[b].cursor = Len(Wanted(f, cs[b].material)[n])
             /\ cs[b].offset + cs[b].count <= Len(xs)
  BY <1>2 DEF Filled
<1>7. \A b, c \in 1 .. Len(bs) : b < c => cs[b].offset + cs[b].count <= cs[c].offset
  BY <1>2 DEF Filled
<1>8. ASSUME NEW b \in 1 .. Len(bs), NEW k \in 1 .. cs[b].cursor
      PROVE  Stands(vs, xs[cs[b].offset + k], Wanted(f, cs[b].material)[n][k])
  <2>1. k \in 1 .. bs[b].cursor
    BY <1>2
  <2>2. Stands(vs, xs[bs[b].offset + k], Wanted(f, bs[b].material)[n][k])
    BY <2>1, Zenon DEF Filled
  <2> QED BY <1>2, <2>2
<1>9. Filled(f, cs, xs, vs, n)
  BY <1>1, <1>4, <1>5, <1>6, <1>7, <1>8 DEF Filled
<1> QED BY <1>3, <1>9

\* Once the regions lie one after the other.
LEMMA LaidIs ==
  ASSUME BucketsFit
  PROVE  /\ Importer!Laid \in Seq(BucketSet) /\ Len(Importer!Laid) = Len(buckets)
         /\ \A b \in 1 .. Len(buckets) :
              /\ Importer!Laid[b].material = buckets[b].material
              /\ Importer!Laid[b].count = buckets[b].count
              /\ Importer!Laid[b].cursor = buckets[b].cursor
              /\ Importer!Laid[b].offset = Sum(buckets)[b - 1]
<1> DEFINE L == Importer!Laid
           one(b) == [buckets[b] EXCEPT !.offset = Sum(buckets)[b - 1]]
<1>1. L = [b \in DOMAIN buckets |-> one(b)]
  BY DEF Importer!Laid, Sum
<1>2. DOMAIN buckets = 1 .. Len(buckets) /\ Len(buckets) \in Nat
  BY DEF BucketsFit
<1>3. ASSUME NEW b \in 1 .. Len(buckets)
      PROVE  /\ one(b) \in BucketSet /\ one(b).material = buckets[b].material
             /\ one(b).count = buckets[b].count /\ one(b).cursor = buckets[b].cursor
             /\ one(b).offset = Sum(buckets)[b - 1]
  <2>1. buckets[b] \in BucketSet
    BY DEF BucketsFit
  <2>2. Sum(buckets)[b - 1] \in Nat
    <3>1. b - 1 \in 0 .. Len(buckets)
      OBVIOUS
    <3> QED BY <3>1, SumIs DEF BucketsFit
  <2> QED BY <2>1, <2>2, Zenon DEF BucketSet
<1> HIDE DEF one, L
<1>4. L \in [1 .. Len(buckets) -> BucketSet] /\ \A b \in 1 .. Len(buckets) : L[b] = one(b)
  BY <1>1, <1>2, <1>3
<1>5. L \in Seq(BucketSet) /\ Len(L) = Len(buckets)
  <2> DEFINE S == BucketSet
             n == Len(buckets)
  <2>1. L \in [1 .. n -> S] /\ n \in Nat
    BY <1>2, <1>4
  <2> HIDE DEF S, n
  <2>2. L \in Seq(S) /\ Len(L) = n
    BY <2>1
  <2> QED BY <2>2 DEF S, n
<1> QED BY <1>3, <1>4, <1>5 DEF L

LEMMA LayoutRegions ==
  ASSUME JointsIInv, RegionsIInv, Importer!Layout PROVE RegionsIInv'
<1> DEFINE N == Len(scene.prims)
           L == Importer!Laid
           K == Len(buckets)
           U == Sum(buckets)
<1>1. /\ pc = "count" /\ at > N /\ buckets' = L /\ at' = 1
      /\ indices' = [k \in 1 .. L[Len(L)].offset + L[Len(L)].count |-> None]
      /\ pc' \in {"append", "skeleton"} /\ UNCHANGED <<scene, verts>>
  BY DEF Importer!Layout
<1>2. SceneFits(scene) /\ BucketsFit /\ K <= MaxMaterials /\ OfEach(buckets)
      /\ Counted(scene, buckets, at - 1) /\ at \in Nat \ {0}
  BY <1>1 DEF RegionsIInv, JointsIInv
<1>3. N \in Nat \ {0} /\ K \in Nat
  BY <1>2 DEF SceneFits, BucketsFit
<1>4. at - 1 = N
  BY <1>1, <1>2, <1>3 DEF Counted
<1>5. /\ \A i \in 1 .. N : Has(buckets, scene.prims[i].material)
      /\ \A b \in 1 .. K : buckets[b].count = Len(Wanted(scene, buckets[b].material)[N]) /\ buckets[b].cursor = 0
  <2>1. Counted(scene, buckets, N)
    BY <1>2, <1>4
  <2> QED BY <2>1 DEF Counted
<1>6. K >= 1
  <2>1. Has(buckets, scene.prims[1].material)
    BY <1>3, <1>5
  <2> QED BY <1>3, <2>1 DEF Has
<1>7. /\ U[0] = 0 /\ \A k \in 0 .. K : U[k] \in Nat
      /\ \A k \in 1 .. K : U[k] = U[k - 1] + buckets[k].count
      /\ \A j, k \in 0 .. K : j <= k => U[j] <= U[k]
  BY <1>2, SumIs DEF BucketsFit
<1>8. /\ L \in Seq(BucketSet) /\ Len(L) = K
      /\ \A b \in 1 .. K : L[b].material = buckets[b].material /\ L[b].count = buckets[b].count
                           /\ L[b].cursor = buckets[b].cursor /\ L[b].offset = U[b - 1]
  BY <1>2, LaidIs
<1> HIDE DEF L, U, N, K
<1>9. \A b \in 1 .. K : L[b].offset + L[b].count = U[b]
  BY <1>7, <1>8
<1>10. indices' = [k \in 1 .. U[K] |-> None] /\ U[K] \in Nat
  BY <1>1, <1>3, <1>6, <1>7, <1>8, <1>9
<1>11. Len(indices') = U[K] /\ DOMAIN indices' = 1 .. U[K]
  BY <1>10
<1>12. \A i \in 1 .. N : Has(L, scene.prims[i].material)
  BY <1>5, <1>8 DEF Has, K
<1>13. ASSUME NEW b \in 1 .. K
       PROVE  /\ L[b].count = Len(Wanted(scene, L[b].material)[N])
              /\ L[b].cursor = Len(Wanted(scene, L[b].material)[0])
              /\ L[b].offset + L[b].count <= Len(indices') /\ L[b].cursor = 0
  <2>1. Wanted(scene, L[b].material)[0] = <<>>
    BY <1>2, WantedIs
  <2>2. L[b].offset + L[b].count <= Len(indices')
    BY <1>3, <1>7, <1>9, <1>11
  <2>3. Len(<<>>) = 0
    OBVIOUS
  <2> QED BY <1>5, <1>8, <2>1, <2>2, <2>3
<1>14. \A b, c \in 1 .. K : b < c => L[b].offset + L[b].count <= L[c].offset
  <2> SUFFICES ASSUME NEW b \in 1 .. K, NEW c \in 1 .. K, b < c PROVE L[b].offset + L[b].count <= L[c].offset
    OBVIOUS
  <2>1. b \in 0 .. K /\ c - 1 \in 0 .. K /\ b <= c - 1
    BY <1>3
  <2>2. U[b] <= U[c - 1]
    BY <1>7, <2>1
  <2> QED BY <1>8, <1>9, <2>2
<1>15. Filled(scene, L, indices', verts, 0)
  <2>1. 0 \in 0 .. N
    BY <1>3
  <2>2. \A b \in 1 .. K : \A k \in 1 .. L[b].cursor :
          Stands(verts, indices'[L[b].offset + k], Wanted(scene, L[b].material)[0][k])
    BY <1>13
  <2> QED BY <1>8, <1>10, <1>11, <1>12, <1>13, <1>14, <2>1, <2>2 DEF Filled, N
<1>16. OfEach(L)
  BY <1>2, <1>8 DEF OfEach, K
<1>17. Done' = 0
  BY <1>1 DEF Done
<1>18. Filled(scene', buckets', indices', verts', Done')
  BY <1>1, <1>15, <1>17
<1> QED BY <1>1, <1>2, <1>8, <1>16, <1>18 DEF RegionsIInv, BucketsFit, K

\* A primitive is written: its vertices at the end, its indices where its bucket's go on.
Writes(f, n, i, bs, xs, vs, cs, ys, us) ==
  LET p   == f.prims[n + 1]
      ixs == Ixs(f, n + 1)
      to  == bs[i].offset + bs[i].cursor
  IN  /\ n \in Nat /\ n < Len(f.prims) /\ i \in 1 .. Len(bs) /\ bs[i].material = p.material
      /\ bs \in Seq(BucketSet)
      /\ Len(vs) \in Nat /\ Len(us) = Len(vs) + p.verts
      /\ \A k \in 1 .. Len(vs) : us[k] = vs[k]
      /\ \A k \in 1 .. p.verts : us[Len(vs) + k].prim = n + 1 /\ us[Len(vs) + k].i = k - 1
      /\ ys = [k \in DOMAIN xs |-> IF k - to \in DOMAIN ixs THEN Len(vs) + ixs[k - to] ELSE xs[k]]
      /\ Len(cs) = Len(bs)
      /\ \A b \in 1 .. Len(bs) :
           /\ cs[b].material = bs[b].material /\ cs[b].count = bs[b].count /\ cs[b].offset = bs[b].offset
           /\ cs[b].cursor = IF b = i THEN bs[i].cursor + Len(ixs) ELSE bs[b].cursor

LEMMA FilledNext ==
  ASSUME NEW f, SceneFits(f), NEW n, NEW i, NEW bs, NEW xs, NEW vs, NEW cs, NEW ys, NEW us,
         Filled(f, bs, xs, vs, n), OfEach(bs), Writes(f, n, i, bs, xs, vs, cs, ys, us)
  PROVE  OfEach(cs) /\ Filled(f, cs, ys, us, n + 1)
<1> DEFINE p   == f.prims[n + 1]
           ixs == Ixs(f, n + 1)
           to  == bs[i].offset + bs[i].cursor
           K   == Len(bs)
           V   == Len(vs)
           N   == Len(f.prims)
           W(b, k) == Wanted(f, bs[b].material)[k]
<1>1. /\ n \in Nat /\ n < N /\ i \in 1 .. K /\ bs[i].material = p.material /\ bs \in Seq(BucketSet)
      /\ V \in Nat /\ Len(us) = V + p.verts
      /\ \A k \in 1 .. V : us[k] = vs[k]
      /\ \A k \in 1 .. p.verts : us[V + k].prim = n + 1 /\ us[V + k].i = k - 1
      /\ ys = [k \in DOMAIN xs |-> IF k - to \in DOMAIN ixs THEN V + ixs[k - to] ELSE xs[k]]
      /\ Len(cs) = K
  BY DEF Writes
<1>2. \A b \in 1 .. K :
           /\ cs[b].material = bs[b].material /\ cs[b].count = bs[b].count /\ cs[b].offset = bs[b].offset
           /\ cs[b].cursor = IF b = i THEN bs[i].cursor + Len(ixs) ELSE bs[b].cursor
  BY Zenon DEF Writes
<1>3. /\ Len(xs) \in Nat /\ DOMAIN xs = 1 .. Len(xs)
      /\ \A k \in 1 .. N : Has(bs, f.prims[k].material)
      /\ \A b \in 1 .. K : /\ bs[b].count = Len(W(b, N)) /\ bs[b].cursor = Len(W(b, n))
                           /\ bs[b].offset + bs[b].count <= Len(xs)
      /\ \A b, c \in 1 .. K : b < c => bs[b].offset + bs[b].count <= bs[c].offset
      /\ \A b \in 1 .. K : \A k \in 1 .. bs[b].cursor : Stands(vs, xs[bs[b].offset + k], W(b, n)[k])
  BY DEF Filled
<1>4. /\ N \in Nat /\ n + 1 \in 1 .. N /\ n + 1 \in 0 .. N /\ n \in 0 .. N /\ (n + 1) - 1 = n
  BY <1>1 DEF SceneFits
<1>5. /\ Len(ixs) \in Nat /\ DOMAIN ixs = 1 .. Len(ixs) /\ p.verts \in Nat
      /\ \A k \in 1 .. Len(ixs) : ixs[k] \in 0 .. p.verts - 1
  BY <1>4, IxsAre, Zenon
<1>6. ASSUME NEW b \in 1 .. K PROVE bs[b].offset \in Nat /\ bs[b].count \in Nat /\ bs[b].cursor \in Nat
  <2>1. bs[b] \in BucketSet
    BY <1>1
  <2> QED BY <2>1 DEF BucketSet
<1>7. ASSUME NEW b \in 1 .. K
      PROVE  Len(W(b, n)) <= Len(W(b, N)) /\ Len(W(b, n + 1)) <= Len(W(b, N))
  <2> DEFINE m == bs[b].material
  <2> HIDE DEF m
  <2>1. \A k \in 0 .. N : Len(Wanted(f, m)[k]) <= Len(Wanted(f, m)[N])
    BY WantedGrows, Zenon
  <2> HIDE DEF N
  <2> QED BY <1>4, <2>1 DEF m
<1>8. /\ Len(W(i, n + 1)) = Len(W(i, n)) + Len(ixs)
      /\ \A k \in 1 .. Len(W(i, n)) + Len(ixs) :
           W(i, n + 1)[k] = IF k <= Len(W(i, n)) THEN W(i, n)[k] ELSE <<n + 1, ixs[k - Len(W(i, n))]>>
  <2> DEFINE m == bs[i].material
             j == n + 1
  <2>1. f.prims[j].material = m /\ j \in 1 .. N
    BY <1>1, <1>4
  <2> HIDE DEF m, j
  <2>2. /\ Len(Wanted(f, m)[j]) = Len(Wanted(f, m)[j - 1]) + Len(Ixs(f, j))
        /\ \A k \in 1 .. Len(Wanted(f, m)[j - 1]) + Len(Ixs(f, j)) :
             Wanted(f, m)[j][k] = IF k <= Len(Wanted(f, m)[j - 1]) THEN Wanted(f, m)[j - 1][k]
                                  ELSE <<j, Ixs(f, j)[k - Len(Wanted(f, m)[j - 1])]>>
    BY <2>1, WantedNext
  <2>3. j - 1 = n
    BY <1>4 DEF j
  <2> QED BY <2>2, <2>3, Zenon DEF m, j
<1>9. ASSUME NEW b \in 1 .. K, b # i PROVE W(b, n + 1) = W(b, n)
  <2> DEFINE m == bs[b].material
             j == n + 1
  <2>1. f.prims[j].material # m /\ j \in 1 .. N
    BY <1>1, <1>4, <1>9 DEF OfEach
  <2>2. j - 1 = n
    BY <1>4
  <2> HIDE DEF m, j
  <2>3. Wanted(f, m)[j] = Wanted(f, m)[j - 1]
    BY <2>1, WantedNext
  <2> QED BY <2>2, <2>3 DEF m, j
<1> HIDE DEF p, ixs, to, K, V, N, W
<1>10. to = bs[i].offset + Len(W(i, n)) /\ to \in Nat
       /\ to + Len(ixs) <= bs[i].offset + bs[i].count /\ Len(W(i, n)) \in Nat
  <2>1. /\ bs[i].offset \in Nat /\ bs[i].count \in Nat /\ bs[i].cursor \in Nat
        /\ bs[i].cursor = Len(W(i, n)) /\ bs[i].count = Len(W(i, N))
    BY <1>1, <1>3, <1>6
  <2>2. Len(W(i, n + 1)) <= Len(W(i, N)) /\ Len(W(i, n + 1)) = Len(W(i, n)) + Len(ixs)
    BY <1>1, <1>7, <1>8
  <2>3. Len(ixs) \in Nat
    BY <1>5
  <2> QED BY <2>1, <2>2, <2>3 DEF to
<1>11. ASSUME NEW v, NEW w, Stands(vs, v, w) PROVE Stands(us, v, w)
  <2>1. v \in Nat /\ v < V /\ vs[v + 1].prim = w[1] /\ vs[v + 1].i = w[2]
    BY <1>11 DEF Stands, V
  <2>2. v + 1 \in 1 .. V /\ v < V + p.verts
    BY <1>1, <1>5, <2>1
  <2>3. us[v + 1] = vs[v + 1] /\ v < Len(us)
    BY <1>1, <2>2
  <2> QED BY <2>1, <2>3 DEF Stands
\* What was written before stays.
<1>12. ASSUME NEW b \in 1 .. K, NEW k \in 1 .. bs[b].cursor
       PROVE  Stands(us, ys[bs[b].offset + k], W(b, n)[k])
  <2> DEFINE q == bs[b].offset + k
  <2>1. bs[b].cursor <= bs[b].count /\ bs[b].offset + bs[b].count <= Len(xs)
    BY <1>3, <1>7
  <2>0. /\ bs[b].offset \in Nat /\ bs[b].count \in Nat /\ bs[b].cursor \in Nat /\ k \in Nat
        /\ 1 <= k /\ k <= bs[b].cursor /\ Len(ixs) \in Nat /\ bs[i].offset \in Nat /\ bs[i].count \in Nat
        /\ to \in Nat /\ bs[i].offset <= to /\ to + Len(ixs) <= bs[i].offset + bs[i].count
        /\ to = bs[i].offset + bs[i].cursor
    <3>1. bs[b].offset \in Nat /\ bs[b].count \in Nat /\ bs[b].cursor \in Nat /\ k \in Nat
          /\ 1 <= k /\ k <= bs[b].cursor
      BY <1>6
    <3>2. bs[i].offset \in Nat /\ bs[i].count \in Nat /\ bs[i].cursor \in Nat
      BY <1>1, <1>6
    <3>3. to = bs[i].offset + bs[i].cursor
      BY DEF to
    <3>4. to \in Nat /\ bs[i].offset <= to
      BY <3>2, <3>3
    <3> QED BY <1>5, <1>10, <3>1, <3>2, <3>3, <3>4
  <2>2. q \in DOMAIN xs
    BY <1>3, <1>6, <2>1
  <2>3. q - to \notin 1 .. Len(ixs)
    <3> DEFINE o == bs[b].offset
               u == bs[b].cursor
               c == bs[b].count
               oi == bs[i].offset
               ci == bs[i].count
               L == Len(ixs)
    <3>1. /\ o \in Nat /\ c \in Nat /\ u \in Nat /\ k \in Nat /\ 1 <= k /\ k <= u /\ u <= c /\ L \in Nat
          /\ oi \in Nat /\ ci \in Nat /\ to \in Nat /\ oi <= to /\ to + L <= oi + ci
      BY <2>0, <2>1
    <3>2. b \in Int /\ i \in Int /\ i \in 1 .. K
      BY <1>1
    <3>3. /\ b = i => to = o + u
          /\ b < i => o + c <= oi
          /\ i < b => oi + ci <= o
      BY <1>3, <2>0, <3>2, Zenon
    <3>4. q = o + k
      OBVIOUS
    <3> HIDE DEF o, u, c, oi, ci, L, q
    <3>5. CASE b = i
      BY <3>1, <3>3, <3>4, <3>5 DEF L
    <3>6. CASE b < i
      BY <3>1, <3>3, <3>4, <3>6 DEF L
    <3>7. CASE i < b
      BY <3>1, <3>3, <3>4, <3>7 DEF L
    <3> QED BY <3>2, <3>5, <3>6, <3>7
  <2> HIDE DEF q
  <2>4. ys[q] = xs[q]
    BY <1>1, <1>5, <2>2, <2>3
  <2>5. Stands(vs, xs[q], W(b, n)[k])
    BY <1>3 DEF q
  <2>6. Stands(us, xs[q], W(b, n)[k])
    BY <1>11, <2>5
  <2> QED BY <2>4, <2>6 DEF q
\* What is written now.
<1>13. ASSUME NEW k \in 1 .. Len(ixs)
       PROVE  Stands(us, ys[to + k], <<n + 1, ixs[k]>>)
  <2>1. to + k \in DOMAIN xs
    <3>1. bs[i].offset + bs[i].count <= Len(xs) /\ Len(xs) \in Nat /\ DOMAIN xs = 1 .. Len(xs)
      BY <1>1, <1>3
    <3>2. bs[i].offset \in Nat /\ bs[i].count \in Nat /\ Len(ixs) \in Nat
      BY <1>1, <1>5, <1>6, Zenon
    <3> DEFINE h == Len(ixs)
               l == Len(xs)
               e == bs[i].offset + bs[i].count
    <3>0. e \in Nat
      BY <3>2
    <3>3. h \in Nat /\ l \in Nat /\ to \in Nat /\ k \in 1 .. h /\ to + h <= e /\ e <= l
      BY <1>10, <3>1, <3>2, Zenon
    <3> HIDE DEF h, l, e, to
    <3>4. to + k \in 1 .. l
      BY <3>0, <3>3
    <3> QED BY <3>1, <3>4 DEF l
  <2>2. (to + k) - to = k
    BY <1>10
  <2>3. ys[to + k] = V + ixs[k]
    BY <1>1, <1>5, <2>1, <2>2, Zenon
  <2>4. ixs[k] \in Nat /\ ixs[k] + 1 \in 1 .. p.verts
    BY <1>5
  <2>5. us[V + (ixs[k] + 1)].prim = n + 1 /\ us[V + (ixs[k] + 1)].i = (ixs[k] + 1) - 1
    BY <1>1, <2>4, Zenon
  <2>6. V + (ixs[k] + 1) = (V + ixs[k]) + 1 /\ (ixs[k] + 1) - 1 = ixs[k] /\ V + ixs[k] \in Nat
        /\ V + ixs[k] < Len(us)
    <3>1. V \in Nat /\ Len(us) = V + p.verts /\ p.verts \in Nat
      BY <1>1, <1>5
    <3> QED BY <2>4, <3>1
  <2>7. us[(V + ixs[k]) + 1].prim = n + 1 /\ us[(V + ixs[k]) + 1].i = ixs[k]
    BY <2>5, <2>6
  <2> DEFINE w == <<n + 1, ixs[k]>>
  <2>8. w[1] = n + 1 /\ w[2] = ixs[k]
    OBVIOUS
  <2> HIDE DEF w
  <2>9. Stands(us, V + ixs[k], w)
    BY <2>6, <2>7, <2>8 DEF Stands
  <2> QED BY <2>3, <2>9 DEF w
<1>14. ASSUME NEW b \in 1 .. K
       PROVE  /\ cs[b].count = Len(Wanted(f, cs[b].material)[N])
              /\ cs[b].cursor = Len(Wanted(f, cs[b].material)[n + 1])
              /\ cs[b].offset + cs[b].count <= Len(ys)
  <2>1. Len(ys) = Len(xs)
    BY <1>1, <1>3
  <2>2. cs[b].count = Len(W(b, N)) /\ cs[b].offset + cs[b].count <= Len(ys)
    BY <1>2, <1>3, <2>1
  <2>3. cs[b].cursor = Len(W(b, n + 1))
    <3>1. CASE b = i
      BY <1>2, <1>3, <1>8, <3>1
    <3>2. CASE b # i
      BY <1>2, <1>3, <1>9, <3>2
    <3> QED BY <3>1, <3>2
  <2> QED BY <1>2, <2>2, <2>3 DEF W
<1>15. ASSUME NEW b \in 1 .. K, NEW k \in 1 .. cs[b].cursor
       PROVE  Stands(us, ys[cs[b].offset + k], Wanted(f, cs[b].material)[n + 1][k])
  <2>1. Stands(us, ys[bs[b].offset + k], W(b, n + 1)[k])
    <3>1. CASE b # i
      <4>1. k \in 1 .. bs[b].cursor
        BY <1>2, <3>1
      <4> QED BY <1>9, <1>12, <3>1, <4>1
    <3>2. CASE b = i
      <4>1. k \in 1 .. Len(W(i, n)) + Len(ixs)
        BY <1>2, <1>3, <3>2
      <4>2. CASE k <= Len(W(i, n))
        <5>1. W(i, n + 1)[k] = W(i, n)[k] /\ k \in 1 .. bs[i].cursor
          <6>1. bs[i].cursor = Len(W(i, n))
            BY <1>1, <1>3
          <6>2. k \in 1 .. bs[i].cursor
            BY <1>10, <4>1, <4>2, <6>1
          <6> QED BY <1>8, <4>1, <4>2, <6>2, Zenon
        <5>2. Stands(us, ys[bs[i].offset + k], W(i, n)[k])
          BY <1>1, <1>12, <5>1
        <5> QED BY <3>2, <5>1, <5>2
      <4>3. CASE ~(k <= Len(W(i, n)))
        <5> DEFINE h == k - Len(W(i, n))
        <5>1. h \in 1 .. Len(ixs) /\ to + h = bs[i].offset + k
          <6>1. bs[i].offset \in Nat /\ Len(ixs) \in Nat
            BY <1>1, <1>5, <1>6
          <6> DEFINE o == bs[i].offset
                     w == Len(W(i, n))
                     l == Len(ixs)
          <6>2. o \in Nat /\ l \in Nat /\ w \in Nat /\ k \in 1 .. w + l /\ ~ (k <= w)
            BY <1>10, <4>1, <4>3, <6>1, Zenon
          <6>3. to = o + w
            BY <1>10, Zenon
          <6> HIDE DEF o, w, l, to
          <6>4. k - w \in 1 .. l /\ to + (k - w) = o + k
            BY <6>2, <6>3
          <6> QED BY <6>4 DEF w, l, o
        <5>2. W(i, n + 1)[k] = <<n + 1, ixs[h]>>
          BY <1>8, <4>1, <4>3, Zenon
        <5> HIDE DEF h
        <5>3. Stands(us, ys[to + h], <<n + 1, ixs[h]>>)
          BY <1>13, <5>1
        <5> QED BY <3>2, <5>1, <5>2, <5>3
      <4> QED BY <4>2, <4>3
    <3> QED BY <3>1, <3>2
  <2> QED BY <1>2, <2>1 DEF W
<1>16. OfEach(cs)
  BY <1>1, <1>2 DEF OfEach, K
<1>17. \A k \in 1 .. N : Has(cs, f.prims[k].material)
  BY <1>1, <1>2, <1>3 DEF Has, K
<1>18. \A b, c \in 1 .. K : b < c => cs[b].offset + cs[b].count <= cs[c].offset
  BY <1>2, <1>3
<1>19. Len(ys) \in Nat /\ DOMAIN ys = 1 .. Len(ys)
  BY <1>1, <1>3
<1>20. Len(cs) = K /\ n + 1 \in 0 .. N
  BY <1>1, <1>4
<1>21. Filled(f, cs, ys, us, n + 1)
  BY <1>14, <1>15, <1>17, <1>18, <1>19, <1>20 DEF Filled, N
<1> QED BY <1>16, <1>21

LEMMA AppendRegions ==
  ASSUME JointsIInv, RegionsIInv, Importer!Append1 PROVE RegionsIInv'
<1> DEFINE n == at - 1
           p == scene.prims[at]
           b == Importer!BucketOf(p)
           ixs == Importer!IndexOf(p)
           to == buckets[b].offset + buckets[b].cursor
           new == [i \in 1 .. p.verts |-> [prim |-> at, i |-> i - 1, joint |-> Importer!SkinOf(p)]]
           K == Len(buckets)
<1>1. /\ pc = "append" /\ at <= Len(scene.prims) /\ at' = at + 1 /\ verts' = verts \o new
      /\ indices' = [k \in DOMAIN indices |->
                       IF k - to \in DOMAIN ixs THEN Len(verts) + ixs[k - to] ELSE indices[k]]
      /\ buckets' = [buckets EXCEPT ![b].cursor = @ + Len(ixs)]
      /\ UNCHANGED <<scene, pc>>
  BY DEF Importer!Append1
<1>2. SceneFits(scene) /\ BucketsFit /\ K <= MaxMaterials /\ OfEach(buckets)
      /\ Filled(scene, buckets, indices, verts, n) /\ at \in Nat \ {0} /\ verts \in Seq(Vertex)
  BY <1>1 DEF RegionsIInv, JointsIInv, Done
<1>3. /\ n \in Nat /\ n < Len(scene.prims) /\ n + 1 = at /\ at \in 1 .. Len(scene.prims)
      /\ Len(scene.prims) \in Nat
  BY <1>1, <1>2 DEF SceneFits
<1>5. p.verts \in Nat /\ p = scene.prims[n + 1] /\ ixs = Ixs(scene, n + 1)
      /\ ixs \in Seq(Nat) /\ Len(ixs) \in Nat
  BY <1>2, <1>3, IxsAre, Zenon DEF Ixs
<1>6. b \in 1 .. K /\ buckets[b].material = p.material
  <2>1. Has(buckets, p.material)
    BY <1>2, <1>3 DEF Filled
  <2> HIDE DEF p
  <2> QED BY <1>2, <2>1, BucketOfIs
<1> HIDE DEF b, p, ixs, n
<1>7. Len(new) = p.verts /\ new \in Seq([prim : Nat, i : Nat, joint : {Importer!SkinOf(p)}])
      /\ \A i \in 1 .. p.verts : new[i].prim = n + 1 /\ new[i].i = i - 1
  <2> DEFINE e(i) == [prim |-> at, i |-> i - 1, joint |-> Importer!SkinOf(p)]
             S == [prim : Nat, i : Nat, joint : {Importer!SkinOf(p)}]
  <2>1. \A i \in 1 .. p.verts : e(i) \in S /\ e(i).prim = n + 1 /\ e(i).i = i - 1
    BY <1>2, <1>3, <1>5
  <2>2. new = [i \in 1 .. p.verts |-> e(i)]
    OBVIOUS
  <2> HIDE DEF new, e, S
  <2>3. new \in [1 .. p.verts -> S] /\ \A i \in 1 .. p.verts : new[i] = e(i)
    BY <2>1, <2>2
  <2>4. new \in Seq(S) /\ Len(new) = p.verts
    BY <1>5, <2>3
  <2> QED BY <2>1, <2>3, <2>4 DEF S
<1> HIDE DEF new
<1>8. /\ Len(verts) \in Nat /\ Len(verts') = Len(verts) + p.verts
      /\ \A v \in 1 .. Len(verts) + p.verts :
           verts'[v] = IF v <= Len(verts) THEN verts[v] ELSE new[v - Len(verts)]
  <2> DEFINE S == Vertex \cup [prim : Nat, i : Nat, joint : {Importer!SkinOf(p)}]
  <2>1. verts \in Seq(S) /\ new \in Seq(S)
    <3> DEFINE A == [prim : Nat, i : Nat, joint : {Importer!SkinOf(p)}]
    <3>1. verts \in Seq(Vertex) /\ new \in Seq(A)
      BY <1>2, <1>7
    <3> HIDE DEF A
    <3>2. verts \in Seq(Vertex \cup A)
      BY <3>1
    <3>3. new \in Seq(Vertex \cup A)
      BY <3>1
    <3> QED BY <3>2, <3>3 DEF A
  <2> HIDE DEF S
  <2>2. /\ Len(verts \o new) = Len(verts) + Len(new)
        /\ \A v \in 1 .. Len(verts) + Len(new) :
             (verts \o new)[v] = IF v <= Len(verts) THEN verts[v] ELSE new[v - Len(verts)]
    BY <2>1, ConcatProperties
  <2>3. Len(verts) \in Nat
    BY <1>2
  <2>4. verts' = verts \o new /\ Len(new) = p.verts
    BY <1>1, <1>7, Zenon
  <2> QED BY <2>2, <2>3, <2>4
<1>9. ASSUME NEW k \in 1 .. Len(verts) PROVE verts'[k] = verts[k]
  <2> DEFINE V == Len(verts)
             P == p.verts
  <2>1. V \in Nat /\ P \in Nat /\ k \in 1 .. V
    BY <1>5, <1>8, <1>9
  <2> HIDE DEF V, P
  <2>2. k \in 1 .. V + P /\ k <= V
    BY <2>1
  <2> QED BY <1>8, <2>2 DEF V, P
<1>10. ASSUME NEW k \in 1 .. p.verts
       PROVE  verts'[Len(verts) + k].prim = n + 1 /\ verts'[Len(verts) + k].i = k - 1
  <2> DEFINE V == Len(verts)
  <2>1. V + k \in 1 .. V + p.verts /\ ~(V + k <= V) /\ (V + k) - V = k
    BY <1>5, <1>8
  <2>2. verts'[V + k] = new[k]
    BY <1>8, <2>1
  <2> QED BY <1>7, <2>2
<1>11. buckets \in Seq(BucketSet) /\ K \in Nat /\ DOMAIN buckets = 1 .. K
  BY <1>2 DEF BucketsFit
<1>12. /\ buckets' \in Seq(BucketSet) /\ Len(buckets') = K
       /\ \A c \in 1 .. K :
            /\ buckets'[c].material = buckets[c].material /\ buckets'[c].count = buckets[c].count
            /\ buckets'[c].offset = buckets[c].offset
            /\ buckets'[c].cursor = IF c = b THEN buckets[b].cursor + Len(ixs) ELSE buckets[c].cursor
  <2> DEFINE x == buckets[b]
             one == [x EXCEPT !.cursor = @ + Len(ixs)]
  <2>1. x \in BucketSet
    BY <1>6, <1>11
  <2>2. /\ one \in BucketSet /\ one.material = x.material /\ one.count = x.count /\ one.offset = x.offset
        /\ one.cursor = x.cursor + Len(ixs)
    <3> HIDE DEF x
    <3>1. x.cursor + Len(ixs) \in Nat
      BY <1>5, <2>1 DEF BucketSet
    <3> QED BY <2>1, <3>1 DEF BucketSet
  <2>3. buckets' = [buckets EXCEPT ![b] = one]
    BY <1>1
  <2> HIDE DEF one
  <2>4. buckets'[b] = one /\ \A c \in 1 .. K : c # b => buckets'[c] = buckets[c]
    BY <1>6, <1>11, <2>3
  <2>5. buckets' \in Seq(BucketSet) /\ Len(buckets') = K
    <3> DEFINE S == BucketSet
    <3>1. buckets \in Seq(S) /\ one \in S
      BY <1>11, <2>2
    <3> HIDE DEF S
    <3>2. [buckets EXCEPT ![b] = one] \in Seq(S) /\ Len([buckets EXCEPT ![b] = one]) = Len(buckets)
      BY <1>6, <3>1, ExceptSeq
    <3> QED BY <2>3, <3>2 DEF S
  <2> QED BY <2>2, <2>4, <2>5
<1>13. Writes(scene, n, b, buckets, indices, verts, buckets', indices', verts')
  BY <1>1, <1>3, <1>5, <1>6, <1>8, <1>9, <1>10, <1>11, <1>12, Zenon DEF Writes
<1>14. OfEach(buckets') /\ Filled(scene, buckets', indices', verts', n + 1)
  BY <1>2, <1>13, FilledNext
<1>15. Done' = n + 1
  BY <1>1, <1>3 DEF Done
<1> QED BY <1>1, <1>2, <1>12, <1>14, <1>15 DEF RegionsIInv, BucketsFit

LEMMA TexturesRegions ==
  ASSUME JointsIInv, RegionsIInv, Importer!Textures, BucketsFit' PROVE RegionsIInv'
<1>1. /\ pc = "append" /\ at > Len(scene.prims) /\ pc' = "save"
      /\ UNCHANGED <<scene, verts, indices>>
  BY DEF Importer!Textures
<1>2. \E t : buckets' = [i \in DOMAIN buckets |-> [buckets[i] EXCEPT !.texture = t[i]]]
  <2>1. PICK all : buckets' = [i \in DOMAIN buckets |->
                 [buckets[i] EXCEPT !.texture =
                    LET t == Importer!SelectInSeq(all, LAMBDA x : x = Importer!Image(buckets[i].material))
                    IN  IF t = 0 THEN None ELSE t]]
    BY Zenon DEF Importer!Textures
  <2> DEFINE tex(i) == LET t == Importer!SelectInSeq(all, LAMBDA x : x = Importer!Image(buckets[i].material))
                       IN  IF t = 0 THEN None ELSE t
             f == [i \in DOMAIN buckets |-> tex(i)]
  <2>2. buckets' = [i \in DOMAIN buckets |-> [buckets[i] EXCEPT !.texture = tex(i)]]
    BY <2>1
  <2> HIDE DEF tex
  <2>3. buckets' = [i \in DOMAIN buckets |-> [buckets[i] EXCEPT !.texture = f[i]]]
    BY <2>2
  <2> HIDE DEF f
  <2> QED BY <2>3, Zenon
<1>3. PICK t : buckets' = [i \in DOMAIN buckets |-> [buckets[i] EXCEPT !.texture = t[i]]]
  BY <1>2, Zenon
<1>4. SceneFits(scene) /\ BucketsFit /\ Len(buckets) <= MaxMaterials /\ OfEach(buckets)
      /\ Filled(scene, buckets, indices, verts, at - 1) /\ at \in Nat \ {0}
  BY <1>1 DEF RegionsIInv, JointsIInv, Done
<1>5. at - 1 = Len(scene.prims)
  <2>1. at - 1 \in 0 .. Len(scene.prims) /\ Len(scene.prims) \in Nat
    BY <1>4 DEF Filled, SceneFits
  <2> QED BY <1>1, <1>4, <2>1
<1>6. Len(buckets) \in Nat /\ DOMAIN buckets = 1 .. Len(buckets)
      /\ \A b \in 1 .. Len(buckets) : buckets[b] \in BucketSet
  BY <1>4 DEF BucketsFit
<1>7. Len(buckets') = Len(buckets)
  BY <1>3, <1>6
<1>8. ASSUME NEW b \in 1 .. Len(buckets)
      PROVE  /\ buckets'[b].material = buckets[b].material /\ buckets'[b].count = buckets[b].count
             /\ buckets'[b].cursor = buckets[b].cursor /\ buckets'[b].offset = buckets[b].offset
  <2> DEFINE x == buckets[b]
  <2>1. x \in BucketSet /\ buckets'[b] = [x EXCEPT !.texture = t[b]]
    BY <1>3, <1>6
  <2> HIDE DEF x
  <2>2. LET y == [x EXCEPT !.texture = t[b]]
        IN  y.material = x.material /\ y.count = x.count /\ y.cursor = x.cursor /\ y.offset = x.offset
    BY <2>1 DEF BucketSet
  <2> QED BY <2>1, <2>2 DEF x
<1>9. Alike(buckets, buckets')
  BY <1>7, <1>8 DEF Alike
<1>10. OfEach(buckets') /\ Filled(scene, buckets', indices, verts, at - 1)
  BY <1>4, <1>9, FilledAlike
<1>11. Done' = at - 1
  BY <1>1, <1>5 DEF Done
<1>12. Filled(scene, buckets', indices, verts, Done')
  BY <1>10, <1>11
<1> QED BY <1>1, <1>4, <1>7, <1>10, <1>12 DEF RegionsIInv

\* The steps that leave the regions alone.
LEMMA RegionsKept ==
  ASSUME RegionsIInv, UNCHANGED <<scene, buckets, indices, verts>>,
         \/ pc = "skeleton" /\ (pc' = "skeleton" \/ (pc' = "append" /\ at' = 1))
         \/ pc \in {"save", "failed", "mixed", "loaded"} /\ pc' \in {"save", "failed", "mixed", "loaded"}
  PROVE  RegionsIInv'
<1>1. pc \notin {"count", "refused"} /\ pc' \notin {"count", "refused"}
  OBVIOUS
<1>2. Done' = Done
  BY DEF Done
<1>3. BucketsFit' /\ OfEach(buckets') /\ Len(buckets') <= MaxMaterials
  BY DEF RegionsIInv, BucketsFit
<1>4. Filled(scene, buckets, indices, verts, Done)
  BY <1>1 DEF RegionsIInv
<1>5. Filled(scene', buckets', indices', verts', Done')
  BY <1>2, <1>4
<1> QED BY <1>1, <1>3, <1>5 DEF RegionsIInv

LEMMA RegionsFilled ==
  ASSUME JointsIInv, RegionsIInv, RigAssumption PROVE Importer!RegionsAreFilled
<1> SUFFICES ASSUME Importer!Written, NEW b \in DOMAIN buckets
             PROVE  LET got == [k \in 1 .. buckets[b].count |->
                                  LET v == indices[buckets[b].offset + k]
                                  IN  IF v = None THEN <<>> ELSE <<verts[v + 1].prim, verts[v + 1].i>>]
                    IN  /\ buckets[b].cursor = buckets[b].count
                        /\ got = Importer!Wanted(buckets[b].material)[Len(scene.prims)]
  BY Zenon DEF Importer!RegionsAreFilled
<1> DEFINE N == Len(scene.prims)
           w == Wanted(scene, buckets[b].material)[N]
           v(k) == indices[buckets[b].offset + k]
           g(k) == IF v(k) = None THEN <<>> ELSE <<verts[v(k) + 1].prim, verts[v(k) + 1].i>>
           got == [k \in 1 .. buckets[b].count |-> g(k)]
<1>1. pc \in {"save", "failed", "mixed", "loaded"}
  BY DEF Importer!Written
<1>2. SceneFits(scene) /\ BucketsFit /\ Filled(scene, buckets, indices, verts, N)
  BY <1>1 DEF RegionsIInv, JointsIInv, Done
<1>3. b \in 1 .. Len(buckets)
  BY <1>2 DEF BucketsFit
<1>4. /\ buckets[b].count = Len(w) /\ buckets[b].cursor = Len(w)
      /\ \A k \in 1 .. buckets[b].cursor : Stands(verts, v(k), w[k])
  BY <1>2, <1>3, Zenon DEF Filled
<1>5. w \in Pairs
  <2>1. N \in 0 .. N
    BY <1>2 DEF SceneFits
  <2> QED BY <1>2, <2>1, WantedIs
<1>6. Len(w) \in Nat /\ DOMAIN w = 1 .. Len(w) /\ (\A k \in 1 .. Len(w) : w[k] \in Nat \X Nat)
      /\ w = [k \in 1 .. Len(w) |-> w[k]]
  <2> DEFINE s == w
  <2>1. s \in Seq(Nat \X Nat)
    BY <1>5 DEF Pairs
  <2> HIDE DEF s
  <2>2. Len(s) \in Nat /\ DOMAIN s = 1 .. Len(s) /\ (\A k \in 1 .. Len(s) : s[k] \in Nat \X Nat)
        /\ s = [k \in 1 .. Len(s) |-> s[k]]
    BY <2>1
  <2> QED BY <2>2 DEF s
<1>7. ASSUME NEW k \in 1 .. Len(w) PROVE g(k) = w[k]
  <2> HIDE DEF w, v
  <2>1. v(k) \in Nat /\ verts[v(k) + 1].prim = w[k][1] /\ verts[v(k) + 1].i = w[k][2]
    BY <1>4 DEF Stands
  <2>2. v(k) # None
    BY <2>1 DEF RigAssumption
  <2>3. g(k) = <<w[k][1], w[k][2]>>
    BY <2>1, <2>2
  <2>4. w[k] = <<w[k][1], w[k][2]>>
    <3>1. w[k] \in Nat \X Nat
      BY <1>6
    <3> QED BY <3>1
  <2> QED BY <2>3, <2>4
<1> HIDE DEF w, g
<1>8. got = w
  BY <1>4, <1>6, <1>7
<1>9. Importer!Wanted(buckets[b].material)[Len(scene.prims)] = w
  BY WantedThere DEF w
<1> QED BY <1>4, <1>8, <1>9 DEF g

\* A file is read, counted, laid out, written and loaded by one invariant each.
ImporterIInv == JointsIInv /\ FilesIInv /\ RegionsIInv

LEMMA ImporterInit ==
  RigAssumption /\ FileAssumption /\ MaxMaterials \in Nat /\ Importer!Init => ImporterIInv
BY JointsInit, FilesInit, RegionsInit DEF ImporterIInv

LEMMA ImporterKept ==
  ASSUME RigAssumption, FileAssumption, MaxMaterials \in Nat, ImporterIInv,
         [Importer!Next]_Importer!vars
  PROVE  ImporterIInv'
<1>0. JointsIInv /\ FilesIInv /\ RegionsIInv /\ BucketsFit
  BY DEF ImporterIInv, RegionsIInv
<1>1. JointsIInv'
  BY <1>0, JointsStep
<1>2. CASE UNCHANGED Importer!vars
  <2>1. UNCHANGED <<scene, pc, at, buckets, verts, indices, skel, textures, clips, disk, model, sample>>
    BY <1>2 DEF Importer!vars, Importer!geometry, Importer!rig
  <2>2. Importer!Files' = Importer!Files
    BY <2>1 DEF Importer!Files, Importer!HasSkin
  <2>3. FilesIInv'
    <3> HIDE DEF Importer!Files
    <3> QED BY <1>0, <2>1, <2>2 DEF FilesIInv, Saved, Importer!Written, Importer!HasSkin
  <2>4. RegionsIInv'
    BY <1>0, <2>1 DEF RegionsIInv, BucketsFit, Done
  <2> QED BY <1>1, <2>3, <2>4 DEF ImporterIInv
<1>3. CASE Importer!Count
  <2>1. pc = "count" /\ pc' \in {"count", "refused"} /\ UNCHANGED <<disk, sample>>
    BY <1>3 DEF Importer!Count, Importer!Refuse
  <2>2. FilesIInv'
    BY <1>0, <2>1, FilesKept DEF Importer!Written
  <2> QED BY <1>0, <1>1, <1>3, <2>2, CountRegions DEF ImporterIInv
<1>4. CASE Importer!Layout
  <2>1. pc = "count" /\ pc' \in {"append", "skeleton"} /\ UNCHANGED <<disk, sample>>
    BY <1>4 DEF Importer!Layout
  <2>2. FilesIInv'
    BY <1>0, <2>1, FilesKept DEF Importer!Written
  <2> QED BY <1>0, <1>1, <1>4, <2>2, LayoutRegions DEF ImporterIInv
<1>5. CASE Importer!Assign \/ Importer!Pass \/ Importer!Skeleton
  <2>1. /\ pc = "skeleton" /\ (pc' = "skeleton" \/ (pc' = "append" /\ at' = 1))
        /\ UNCHANGED <<scene, buckets, verts, indices, disk, sample>>
    BY <1>5 DEF Importer!Assign, Importer!Pass, Importer!Skeleton, Importer!geometry
  <2>2. FilesIInv'
    BY <1>0, <2>1, FilesKept DEF Importer!Written
  <2>3. RegionsIInv'
    BY <1>0, <2>1, RegionsKept
  <2> QED BY <1>1, <2>2, <2>3 DEF ImporterIInv
<1>6. CASE Importer!Append1
  <2>1. pc = "append" /\ pc' = "append" /\ UNCHANGED <<disk, sample>>
    BY <1>6 DEF Importer!Append1
  <2>2. FilesIInv'
    BY <1>0, <2>1, FilesKept DEF Importer!Written
  <2> QED BY <1>0, <1>1, <1>6, <2>2, AppendRegions DEF ImporterIInv
<1>7. CASE Importer!Textures
  <2>1. FilesIInv' /\ BucketsFit'
    BY <1>0, <1>7, TexturesFiles
  <2>2. RegionsIInv'
    BY <1>0, <1>7, <2>1, TexturesRegions
  <2> QED BY <1>1, <2>1, <2>2 DEF ImporterIInv
<1>8. CASE Importer!Save
  <2>1. pc = "save" /\ pc' \in {"save", "failed"} /\ UNCHANGED <<scene, buckets, verts, indices>>
    BY <1>8, Zenon DEF Importer!Save, Importer!geometry
  <2>2. RegionsIInv'
    BY <1>0, <2>1, RegionsKept
  <2> QED BY <1>0, <1>1, <1>8, <2>2, SaveFiles DEF ImporterIInv
<1>9. CASE Importer!Load
  <2>1. pc \in {"save", "failed"} /\ pc' \in {"mixed", "loaded"} /\ UNCHANGED <<scene, buckets, verts, indices>>
    BY <1>9 DEF Importer!Load, Importer!geometry
  <2>2. RegionsIInv'
    BY <1>0, <2>1, RegionsKept
  <2> QED BY <1>0, <1>1, <1>9, <2>2, LoadFiles DEF ImporterIInv
<1>10. CASE Importer!Play
  <2>1. pc = "loaded" /\ pc' = "loaded" /\ UNCHANGED <<scene, buckets, verts, indices>>
    BY <1>10 DEF Importer!Play, Importer!geometry
  <2>2. RegionsIInv'
    BY <1>0, <2>1, RegionsKept
  <2> QED BY <1>0, <1>1, <1>10, <2>2, PlayFiles DEF ImporterIInv
<1> QED BY <1>2, <1>3, <1>4, <1>5, <1>6, <1>7, <1>8, <1>9, <1>10 DEF Importer!Next

\* Whatever rig and meshes a file has, an import fills every region of the index pool
\* with its material's primitives in their order, gives the joints numbers in which
\* parents come first, and is loaded as it was saved when it came to its end
\* (asset_import.cpp:131-309, asset_skin.cpp:39-132, um_import.cpp:56-105).
THEOREM ImportIsFaithfulAlways == Spec => []ImportIsFaithful
<1>0. RigAssumption /\ FileAssumption /\ MaxMaterials \in Nat
  BY PartsAssumption DEF RigAssumption, FileAssumption
<1> DEFINE I == part = "importer" => ImporterIInv
<1>1. Init => I
  BY <1>0, ImporterInit DEF Init
<1>2. I /\ [Next]_vars => I'
  <2> SUFFICES ASSUME I, [Next]_vars, part' = "importer" PROVE ImporterIInv'
    OBVIOUS
  <2>1. part = "importer" /\ [Importer!Next]_Importer!vars
    BY DEF Next, vars, Importer!vars, Importer!geometry, Importer!rig
  <2> QED BY <1>0, <2>1, ImporterKept
<1>3. I => ImportIsFaithful
  <2> SUFFICES ASSUME ImporterIInv
               PROVE  Importer!RegionsAreFilled /\ Importer!ParentsComeFirst /\ Importer!LoadsItsOwn
    BY DEF ImportIsFaithful
  <2>1. JointsIInv /\ FilesIInv /\ RegionsIInv
    BY DEF ImporterIInv
  <2> QED BY <1>0, <2>1, JointsFirst, LoadsOwn, RegionsFilled
<1> QED BY <1>1, <1>2, <1>3, PTL DEF Spec

-----------------------------------------------------------------------------
(* The types: what a part's invariant does not say of them already.        *)

\* The level: its texts are of directives.
Directive == [word : {"spawn", "box", "cbox", "node", "bux"},
              what : {"", "s", "t", "p", "q", "fence", "hut", "wall"}, whole : BOOLEAN]
Text == Seq(Directive)

LevelAssumption ==
  /\ MaxBoxes \in Nat /\ MaxNodes \in Nat /\ MaxWrites \in Nat \ {0}

LevelCounted(l) ==
  /\ l.shown \in 0 .. Len(l.boxes)
  /\ Len(l.boxes) <= MaxBoxes /\ Len(l.nodes) <= MaxNodes

LevelTypes ==
  /\ file \in [text : Text, time : 1 .. MaxWrites]
  /\ saving \in Level!Texts \cup {None} /\ held \in Text \cup {None}
  /\ LevelCounted(level)
  /\ known \in 0 .. MaxWrites
  /\ pc \in {"boot", "install", "stamp", "exit", "loop", "reload", "reinstall"}

LEMMA LevelCounts == \A S : Level!Cardinality(S) = Cardinality(S)
BY DEF Level!Cardinality, Cardinality

\* The texts an editor may save are texts.
LEMMA TextsAre ==
  ASSUME NEW t \in Level!Texts
  PROVE  t \in Text /\ Len(t) \in Nat /\ Len(t) >= 2
<1>1. ASSUME NEW w \in {"spawn", "box", "cbox", "node", "bux"},
             NEW a \in {"s", "t", "p", "q", "fence", "hut", "wall"}
      PROVE  Level!D(w, a) \in Directive
  BY DEF Level!D, Directive
<1>2. CASE t = Level!Open
  <2>1. Level!D("spawn", "s") \in Directive /\ Level!D("node", "p") \in Directive
        /\ Level!D("cbox", "fence") \in Directive /\ Level!D("node", "q") \in Directive
        /\ Level!D("box", "hut") \in Directive
    BY <1>1
  <2> HIDE DEF Directive
  <2> QED BY <1>2, <2>1 DEF Level!Open, Text
<1>3. CASE t = Level!Walled
  <2>1. Level!D("box", "wall") \in Directive /\ Level!D("node", "q") \in Directive
        /\ Level!D("node", "p") \in Directive /\ Level!D("spawn", "t") \in Directive
    BY <1>1
  <2> QED BY <1>3, <2>1 DEF Level!Walled, Text
<1>4. CASE t = Level!Crowded
  <2>1. Level!D("node", "p") \in Directive /\ Level!D("box", "hut") \in Directive
        /\ Level!D("cbox", "fence") \in Directive /\ Level!D("box", "wall") \in Directive
    BY <1>1
  <2> QED BY <1>4, <2>1 DEF Level!Crowded, Text
<1>5. CASE t = Level!Garbled
  <2>1. Level!D("spawn", "t") \in Directive /\ Level!D("bux", "hut") \in Directive
    BY <1>1
  <2> QED BY <1>5, <2>1 DEF Level!Garbled, Text
<1> QED BY <1>2, <1>3, <1>4, <1>5 DEF Level!Texts

\* What it writes first: nothing, or a part, whose last directive may be cut.
LEMMA PartsAreTexts ==
  ASSUME NEW t \in Level!Texts, NEW n \in {1, Len(t) - 1}
  PROVE  /\ SubSeq(t, 1, n) \in Text
         /\ Append(SubSeq(t, 1, n), Level!Cut(t[n + 1].word)) \in Text
<1>1. t \in Seq(Directive) /\ Len(t) \in Nat /\ Len(t) >= 2
  BY TextsAre DEF Text
<1>2. n \in 1 .. Len(t) - 1 /\ n + 1 \in 1 .. Len(t) /\ 1 \in 1 .. Len(t) + 1 /\ n \in 0 .. Len(t)
  BY <1>1
<1>3. SubSeq(t, 1, n) \in Seq(Directive)
  <2>1. \A i \in 1 .. n : t[i] \in Directive
    BY <1>1, <1>2
  <2> QED BY <1>1, <1>2, <2>1, SubSeqProperties
<1>4. t[n + 1] \in Directive
  BY <1>1, <1>2
<1>5. Level!Cut(t[n + 1].word) \in Directive
  BY <1>4 DEF Level!Cut, Directive
<1> QED BY <1>3, <1>5, AppendProperties DEF Text

\* A sequence that is counted off has the length it is counted to.
LEMMA CountedOff ==
  ASSUME NEW n \in Nat, NEW S, NEW f \in [1 .. n -> S]
  PROVE  f \in Seq(S) /\ Len(f) = n
OBVIOUS

\* Where a text has these words.
Places(text, words) == {i \in DOMAIN text : text[i].word \in words}

LEMMA PlacesAre ==
  ASSUME NEW text \in Text, NEW words
  PROVE  IsFiniteSet(Places(text, words)) /\ Cardinality(Places(text, words)) \in Nat
<1>1. DOMAIN text = 1 .. Len(text) /\ Len(text) \in Nat
  BY DEF Text
<1>2. IsFiniteSet(1 .. Len(text))
  BY <1>1, FS_Interval
<1>3. Places(text, words) \subseteq 1 .. Len(text)
  BY <1>1 DEF Places
<1> QED BY <1>2, <1>3, FS_Subset, FS_CardinalityType

LEMMA OfIs ==
  ASSUME NEW text \in Text, NEW words
  PROVE  /\ Len(Level!Of(text, words)) = Cardinality(Places(text, words))
         /\ DOMAIN Level!Whats(Level!Of(text, words)) = 1 .. Cardinality(Places(text, words))
<1> DEFINE n == Cardinality(Places(text, words))
           f == Level!Of(text, words)
<1>1. DOMAIN f = 1 .. n /\ f = [k \in 1 .. n |-> f[k]]
  BY LevelCounts DEF Level!Of, Places
<1>2. n \in Nat
  BY PlacesAre
<1> HIDE DEF n, f
<1>3. f \in [1 .. n -> {f[k] : k \in 1 .. n}]
  BY <1>1
<1>4. Len(f) = n
  BY <1>2, <1>3, CountedOff
<1>5. DOMAIN Level!Whats(f) = 1 .. n
  BY <1>1 DEF Level!Whats
<1> QED BY <1>4, <1>5 DEF n, f

LEMMA WhatsAre ==
  ASSUME NEW text \in Text, NEW words
  PROVE  /\ Level!Whats(Level!Of(text, words)) \in
              Seq({Level!Whats(Level!Of(text, words))[i] : i \in DOMAIN Level!Whats(Level!Of(text, words))})
         /\ Len(Level!Whats(Level!Of(text, words))) = Cardinality(Places(text, words))
<1> DEFINE n == Cardinality(Places(text, words))
           f == Level!Whats(Level!Of(text, words))
           S == {f[i] : i \in DOMAIN f}
<1>1. DOMAIN f = 1 .. n /\ n \in Nat
  BY OfIs, PlacesAre
<1>2. f = [k \in DOMAIN f |-> f[k]]
  BY DEF Level!Whats
<1> HIDE DEF f, n
<1>3. f \in [1 .. n -> S]
  BY <1>1, <1>2
<1> HIDE DEF S
<1>4. f \in Seq(S) /\ Len(f) = n
  BY <1>1, <1>3, CountedOff
<1> QED BY <1>4 DEF f, n, S

\* What is installed has no more boxes than were counted, and shows no more than it has.
LEMMA InstalledFits ==
  ASSUME LevelAssumption, NEW text \in Text \cup {None}, NEW old, LevelCounted(old)
  PROVE  LevelCounted(Level!Installed(old, Level!Parsed(text)))
<1> DEFINE m == Level!Parsed(text)
           new == Level!Installed(old, m)
           boxes == Places(text, {"box"})
           cboxes == Places(text, {"cbox"})
           see == Level!Whats(Level!Of(text, {"box"}))
           hit == Level!Whats(Level!Of(text, {"cbox"}))
           S == {see[i] : i \in DOMAIN see}
           T == {hit[i] : i \in DOMAIN hit}
           node == Level!Whats(Level!Of(text, {"node"}))
<1>1. CASE ~m.ok
  <2>1. Level!Installed(old, m) = old
    BY <1>1 DEF Level!Installed
  <2> HIDE DEF m
  <2>2. LevelCounted(Level!Installed(old, m))
    BY <2>1
  <2> QED BY <2>2 DEF m
<1>2. CASE m.ok
  <2>1. text # None /\ Level!Parses(text)
    BY <1>2 DEF Level!Parsed
  <2>2. text \in Text
    BY <2>1
  <2>3. m.visible = see /\ m.collision = hit /\ m.nodes = node
    BY <2>1 DEF Level!Parsed
  <2>4. new.shown = Len(see) /\ new.boxes = see \o hit /\ new.nodes = node
    <3> HIDE DEF m, see, hit, node
    <3> QED BY <1>2, <2>3 DEF Level!Installed
  <2> HIDE DEF new, m
  <2>5. /\ see \in Seq(S) /\ Len(see) = Cardinality(boxes)
        /\ hit \in Seq(T) /\ Len(hit) = Cardinality(cboxes)
        /\ Len(node) = Cardinality(Places(text, {"node"}))
    BY <2>2, WhatsAre
  <2>6. Cardinality(Places(text, {"box", "cbox"})) = Cardinality(boxes) + Cardinality(cboxes)
    <3>1. IsFiniteSet(boxes) /\ IsFiniteSet(cboxes)
      BY <2>2, PlacesAre
    <3>2. boxes \cap cboxes = {} /\ Places(text, {"box", "cbox"}) = boxes \cup cboxes
      BY DEF Places
    <3>3. Cardinality({}) = 0
      BY FS_EmptySet
    <3>4. Cardinality(boxes) \in Nat /\ Cardinality(cboxes) \in Nat
      BY <2>2, PlacesAre
    <3> HIDE DEF boxes, cboxes
    <3>5. Cardinality(boxes \cup cboxes) = Cardinality(boxes) + Cardinality(cboxes) - 0
      BY <3>1, <3>2, <3>3, FS_Union
    <3>6. Cardinality(Places(text, {"box", "cbox"})) = Cardinality(boxes \cup cboxes)
      BY <3>2
    <3> QED BY <3>4, <3>5, <3>6
  <2>7. /\ Cardinality(Places(text, {"box", "cbox"})) <= MaxBoxes
        /\ Cardinality(Places(text, {"node"})) <= MaxNodes
    BY <2>1, <2>2, OfIs DEF Level!Parses
  <2> HIDE DEF see, hit, node, boxes, cboxes, S, T
  <2>8. Len(see) \in Nat /\ Len(hit) \in Nat
    BY <2>5
  <2>9. Len(see \o hit) = Len(see) + Len(hit)
    <3>1. see \in Seq(S \cup T) /\ hit \in Seq(S \cup T)
      BY <2>5
    <3> QED BY <3>1, ConcatProperties
  <2>10. new.shown \in 0 .. Len(new.boxes)
    BY <2>4, <2>8, <2>9
  <2>11. Len(new.boxes) <= MaxBoxes
    BY <2>4, <2>5, <2>6, <2>7, <2>9
  <2>12. Len(new.nodes) <= MaxNodes
    BY <2>4, <2>5, <2>7
  <2>13. LevelCounted(new)
    BY <2>10, <2>11, <2>12 DEF LevelCounted
  <2> QED BY <2>13 DEF new, m
<1> QED BY <1>1, <1>2

LEMMA LevelTypesInit ==
  ASSUME LevelAssumption, Level!Init PROVE LevelTypes
<1>1. Level!Open \in Text
  BY TextsAre DEF Level!Texts
<1>2. file \in [text : Text, time : 1 .. MaxWrites]
  BY <1>1 DEF Level!Init, LevelAssumption
<1>3. LevelCounted(level)
  <2>1. level.shown = 0 /\ level.boxes = <<>> /\ level.nodes = <<>>
    BY DEF Level!Init, Level!NoLevel
  <2> QED BY <2>1 DEF LevelCounted, LevelAssumption
<1> QED BY <1>2, <1>3 DEF Level!Init, LevelTypes, LevelAssumption

LEMMA LevelTypesStep ==
  ASSUME LevelAssumption, LevelTypes, [Level!Next]_Level!vars PROVE LevelTypes'
<1> USE DEF LevelAssumption
<1>1. /\ file.text \in Text /\ file.time \in 1 .. MaxWrites
      /\ saving \in Level!Texts \cup {None} /\ held \in Text \cup {None}
      /\ LevelCounted(level) /\ known \in 0 .. MaxWrites
      /\ file \in [text : Text, time : 1 .. MaxWrites]
      /\ file.time \in 0 .. MaxWrites
      /\ pc \in {"boot", "install", "stamp", "exit", "loop", "reload", "reinstall"}
  BY DEF LevelTypes
<1>2. CASE Level!BootRead \/ Level!ReloadRead
  <2>1. /\ held' \in {file.text, None} /\ pc' \in {"install", "reinstall"}
        /\ UNCHANGED <<file, saving, level, known>>
    BY <1>2 DEF Level!BootRead, Level!ReloadRead, Level!Read
  <2>2. held' \in Text \cup {None}
    BY <1>1, <2>1
  <2> QED BY <1>1, <2>1, <2>2 DEF LevelTypes, LevelCounted
<1>3. CASE Level!BootInstall \/ Level!Reload
  <2>1. /\ held' = None /\ pc' \in {"stamp", "exit", "loop"}
        /\ level' = Level!Installed(level, Level!Parsed(held))
        /\ UNCHANGED <<file, saving, known>>
    BY <1>3 DEF Level!BootInstall, Level!Reload
  <2>2. LevelCounted(level')
    BY <1>1, <2>1, InstalledFits
  <2> QED BY <1>1, <2>1, <2>2 DEF LevelTypes, LevelCounted
<1>4. CASE Level!Stamp \/ Level!Report
  <2>1. /\ known' = file.time /\ pc' \in {"loop", "reload"}
        /\ UNCHANGED <<file, saving, level, held>>
    BY <1>4 DEF Level!Stamp, Level!Report
  <2> QED BY <1>1, <2>1 DEF LevelTypes, LevelCounted
<1>5. ASSUME NEW text \in Text, Level!Write(text), saving' \in Level!Texts \cup {None}
      PROVE  LevelTypes'
  <2>1. /\ file' = [text |-> text, time |-> file.time + 1] /\ file.time < MaxWrites
        /\ UNCHANGED <<level, known, held, pc>>
    BY <1>5 DEF Level!Write
  <2>2. file.time + 1 \in 1 .. MaxWrites
    BY <1>1, <2>1
  <2>3. file' \in [text : Text, time : 1 .. MaxWrites]
    BY <1>5, <2>1, <2>2
  <2> QED BY <1>1, <1>5, <2>1, <2>3 DEF LevelTypes, LevelCounted
<1>6. CASE Level!BeginSave
  <2>1. saving' \in Level!Texts
    BY <1>6 DEF Level!BeginSave
  <2>2. <<>> \in Text
    BY DEF Text
  <2>3. \/ Level!Write(<<>>)
        \/ \E n \in {1, Len(saving') - 1} :
             \/ Level!Write(SubSeq(saving', 1, n))
             \/ Level!Write(Append(SubSeq(saving', 1, n), Level!Cut(saving'[n + 1].word)))
    BY <1>6 DEF Level!BeginSave
  <2>4. \A n \in {1, Len(saving') - 1} :
          /\ SubSeq(saving', 1, n) \in Text
          /\ Append(SubSeq(saving', 1, n), Level!Cut(saving'[n + 1].word)) \in Text
    BY <2>1, PartsAreTexts
  <2> HIDE DEF Text
  <2> QED BY <1>5, <2>1, <2>2, <2>3, <2>4
<1>7. CASE Level!EndSave
  <2>1. saving # None /\ Level!Write(saving) /\ saving' = None
    BY <1>7 DEF Level!EndSave
  <2>2. saving \in Text
    BY <1>1, <2>1, TextsAre
  <2> QED BY <1>5, <2>1, <2>2
<1>8. CASE UNCHANGED Level!vars
  BY <1>1, <1>8 DEF Level!vars, LevelTypes, LevelCounted
<1> QED BY <1>2, <1>3, <1>4, <1>6, <1>7, <1>8 DEF Level!Next, Level!Program

\* The memory.
MemoryTypes ==
  Len(blocks) <= MaxBlocks /\ Len(owned) <= MaxBuffers /\ Len(textures) <= MaxTextures

LEMMA MemoryTypesInit ==
  ASSUME MaxBlocks \in Nat, MaxBuffers \in Nat, MaxTextures \in Nat, Memory!Init
  PROVE  MemoryTypes
BY DEF Memory!Init, MemoryTypes

\* Each operation asserts that there is room for what it adds.
LEMMA MemoryTypesStep ==
  ASSUME MaxBlocks \in Nat, MaxBuffers \in Nat, MaxTextures \in Nat, MemoryTypes,
         [Memory!Next]_Memory!vars
  PROVE  MemoryTypes'
<1>1. ASSUME NEW reqs, Memory!Take(reqs) PROVE Len(blocks)' <= MaxBlocks
  BY <1>1 DEF Memory!Take
<1>2. ASSUME NEW reqs, Memory!Own(reqs) PROVE Len(owned)' <= MaxBuffers
  BY <1>2 DEF Memory!Own
<1>3. ASSUME NEW size, NEW align,
             \/ Memory!CreateDeviceBuffer(size, align)
             \/ Memory!CreateGpuBuffer(size, align)
             \/ Memory!CreateBlas(size, align) \/ Memory!CreateTlas(size, align)
             \/ Memory!CreateMappedBuffer(size)
      PROVE  MemoryTypes'
  <2>1. \E reqs : Memory!Take(reqs)
    BY <1>3 DEF Memory!CreateDeviceBuffer, Memory!CreateGpuBuffer, Memory!CreateBlas,
                Memory!CreateTlas, Memory!CreateMappedBuffer
  <2>2. \E reqs : Memory!Own(reqs)
    BY <1>3 DEF Memory!CreateDeviceBuffer, Memory!CreateGpuBuffer, Memory!CreateBlas,
                Memory!CreateTlas, Memory!CreateMappedBuffer
  <2>3. UNCHANGED textures
    BY <1>3 DEF Memory!CreateDeviceBuffer, Memory!CreateGpuBuffer, Memory!CreateBlas,
                Memory!CreateTlas, Memory!CreateMappedBuffer, Memory!images
  <2> QED BY <1>1, <1>2, <2>1, <2>2, <2>3 DEF MemoryTypes
<1>4. ASSUME NEW size, NEW align,
             \/ Memory!CreateTexture(size, align) \/ Memory!UpdateDeviceBuffer(size)
             \/ Memory!CreateShadowMap(size, align) \/ Memory!CreateDepth(size, align)
      PROVE  MemoryTypes'
  <2>1. \E reqs : Memory!Take(reqs)
    BY <1>4 DEF Memory!CreateTexture, Memory!UpdateDeviceBuffer, Memory!CreateShadowMap,
                Memory!CreateDepth
  <2>2. UNCHANGED owned
    BY <1>4 DEF Memory!CreateTexture, Memory!UpdateDeviceBuffer, Memory!CreateShadowMap,
                Memory!CreateDepth
  <2>3. Len(textures)' <= MaxTextures
    BY <1>4 DEF Memory!CreateTexture, Memory!UpdateDeviceBuffer, Memory!CreateShadowMap,
                Memory!CreateDepth, Memory!images, MemoryTypes
  <2> QED BY <1>1, <2>1, <2>2, <2>3 DEF MemoryTypes
<1>5. CASE Memory!DestroyDepth
  BY <1>5 DEF Memory!DestroyDepth, MemoryTypes
<1>6. CASE Memory!Shutdown
  BY <1>6 DEF Memory!Shutdown, MemoryTypes
<1>7. CASE UNCHANGED Memory!vars
  BY <1>7 DEF Memory!vars, MemoryTypes
<1> QED BY <1>3, <1>4, <1>5, <1>6, <1>7 DEF Memory!Next

LEMMA MemoryTypesHold ==
  ASSUME MemoryIInv, MemoryTypes PROVE Memory!TypeOK
<1>1. Memory!InUse \in [Kinds -> Seq(Memory!Piece)]
  BY DEF MemoryIInv, Held
<1>2. /\ Memory!InUse.owned = owned /\ Memory!InUse.textures = textures
      /\ Memory!InUse.shadow = Memory!One(shadow) /\ Memory!InUse.depth = Memory!One(depth)
      /\ Memory!InUse.staging = Memory!One(staging)
  BY DEF Memory!InUse
<1> DEFINE use == Memory!InUse
<1> HIDE DEF use
<1>3. /\ use.owned \in Seq(Memory!Piece) /\ use.textures \in Seq(Memory!Piece)
      /\ use.shadow \in Seq(Memory!Piece) /\ use.depth \in Seq(Memory!Piece)
      /\ use.staging \in Seq(Memory!Piece)
  BY <1>1 DEF Kinds, use
<1>4. ASSUME NEW r, Memory!One(r) \in Seq(Memory!Piece) PROVE r \in Memory!Piece \cup {None}
  <2>1. CASE r # None
    <3>1. <<r>> \in Seq(Memory!Piece)
      BY <1>4, <2>1 DEF Memory!One
    <3>2. <<r>>[1] \in Memory!Piece
      BY <3>1
    <3> QED BY <3>2
  <2> QED BY <2>1
<1>5. {shadow, depth, staging} \subseteq Memory!Piece \cup {None}
  BY <1>2, <1>3, <1>4 DEF use
<1>6. owned \in Seq(Memory!Piece) /\ textures \in Seq(Memory!Piece)
  BY <1>2, <1>3 DEF use
<1>7. types \in Memory!Machines /\ \A i \in DOMAIN blocks : blocks[i].used \in 1 .. blocks[i].size
  BY DEF MemoryIInv, BlocksFit
<1> QED BY <1>5, <1>6, <1>7 DEF Memory!TypeOK, MemoryTypes

\* The scene: a world and what a tick makes of it.
WorldAssumption ==
  /\ Rivals \in Nat \ {0} /\ Respawn \in Nat /\ MaxTicks \in Nat

LEMMA AgedFits ==
  ASSUME Respawn \in Nat, NEW b \in Scene!Body PROVE Scene!Aged(b) \in Scene!Body
<1>1. b.alive \in BOOLEAN /\ b.wait \in 0 .. Respawn
  BY DEF Scene!Body
<1>2. CASE b.alive \/ b.wait > 1
  <2>1. Scene!Aged(b) = [alive |-> b.alive, wait |-> IF b.alive THEN 0 ELSE b.wait - 1]
    BY <1>2 DEF Scene!Aged, Scene!Body
  <2>2. (IF b.alive THEN 0 ELSE b.wait - 1) \in 0 .. Respawn
    BY <1>1, <1>2
  <2> QED BY <1>1, <2>1, <2>2 DEF Scene!Body
<1>3. CASE ~(b.alive \/ b.wait > 1)
  BY <1>3 DEF Scene!Aged, Scene!Body
<1> QED BY <1>2, <1>3

LEMMA AfterFits ==
  ASSUME WorldAssumption, NEW w \in Scene!World, w.tick < MaxTicks, NEW x \in Scene!After(w)
  PROVE  x \in Scene!World
<1> USE DEF WorldAssumption
<1> DEFINE v == Scene!Aging(w)
           bodies == [i \in Scene!Players |-> Scene!Aged(w.body[i])]
<1>1. /\ w.tick \in 0 .. MaxTicks /\ w.body \in [Scene!Players -> Scene!Body]
      /\ w.pilot \in Scene!Players \cup {None} /\ w.mech \in BOOLEAN /\ w.grenade \in BOOLEAN
  BY DEF Scene!World, Scene!Tick
<1>2. v = [tick |-> w.tick + 1, body |-> bodies, pilot |-> w.pilot, mech |-> w.mech,
           grenade |-> w.grenade, shot |-> None]
  <2>1. w = [tick |-> w.tick, body |-> w.body, pilot |-> w.pilot, mech |-> w.mech,
             grenade |-> w.grenade, shot |-> w.shot]
    BY DEF Scene!World
  <2>2. v = [w EXCEPT !.tick = w.tick + 1, !.body = bodies, !.shot = None]
    BY <2>1 DEF Scene!Aging
  <2> HIDE DEF v, bodies
  <2> QED BY <2>1, <2>2
<1>3. bodies \in [Scene!Players -> Scene!Body]
  BY <1>1, AgedFits
<1>4. w.tick + 1 \in Scene!Tick
  BY <1>1 DEF Scene!Tick
<1>5. {0, 1} \subseteq Scene!Players
  BY DEF Scene!Players
<1>6. Scene!Dead \in Scene!Body
  BY DEF Scene!Dead, Scene!Body
<1> HIDE DEF bodies
<1>7. /\ v \in Scene!World /\ v.pilot \in Scene!Players \cup {None}
      /\ v.body = bodies /\ v.grenade \in BOOLEAN /\ v.mech \in BOOLEAN
  BY <1>1, <1>2, <1>3, <1>4 DEF Scene!World
<1> HIDE DEF v
<1>8. \/ x = v
      \/ x = [v EXCEPT !.grenade = ~@]
      \/ x = [v EXCEPT !.mech = ~@, !.pilot = None]
      \/ \E i \in Scene!Alive(w) :
           x = [v EXCEPT !.body[i] = Scene!Dead, !.pilot = IF @ = i THEN None ELSE @,
                         !.shot = IF i = 0 THEN 1 ELSE 0]
      \/ \E i \in {p \in Scene!Alive(w) : w.mech /\ w.pilot \in {p, None}} :
           x = [v EXCEPT !.pilot = IF @ = i THEN None ELSE i]
  BY DEF Scene!After, v
<1>9. \A i \in Scene!Alive(w) : i \in Scene!Players
  BY DEF Scene!Alive
<1>10. CASE x = [v EXCEPT !.grenade = ~@]
  BY <1>7, <1>10 DEF Scene!World
<1>11. CASE x = [v EXCEPT !.mech = ~@, !.pilot = None]
  BY <1>7, <1>11 DEF Scene!World
<1>12. ASSUME NEW i \in Scene!Players,
              x = [v EXCEPT !.body[i] = Scene!Dead, !.pilot = IF @ = i THEN None ELSE @,
                            !.shot = IF i = 0 THEN 1 ELSE 0]
       PROVE  x \in Scene!World
  <2> DEFINE gone == [bodies EXCEPT ![i] = Scene!Dead]
             pilot == IF v.pilot = i THEN None ELSE v.pilot
             shot == IF i = 0 THEN 1 ELSE 0
  <2>1. gone \in [Scene!Players -> Scene!Body]
    BY <1>3, <1>6
  <2>2. pilot \in Scene!Players \cup {None} /\ shot \in Scene!Players \cup {None}
    BY <1>5, <1>7
  <2>3. x = [v EXCEPT !.body = gone, !.pilot = pilot, !.shot = shot]
    BY <1>7, <1>12
  <2> HIDE DEF gone, pilot, shot
  <2> QED BY <1>7, <2>1, <2>2, <2>3 DEF Scene!World
<1>13. ASSUME NEW i \in Scene!Players, x = [v EXCEPT !.pilot = IF @ = i THEN None ELSE i]
       PROVE  x \in Scene!World
  BY <1>7, <1>13 DEF Scene!World
<1> QED BY <1>7, <1>8, <1>9, <1>10, <1>11, <1>12, <1>13

\* A match that starts anew is a world.
LEMMA FreshFits == ASSUME WorldAssumption, NEW t \in Scene!Tick PROVE Scene!Fresh(t) \in Scene!World
<1>1. [alive |-> TRUE, wait |-> 0] \in Scene!Body
  BY DEF WorldAssumption, Scene!Body
<1> QED BY <1>1 DEF Scene!Fresh, Scene!World

LEMMA SceneTypesInit ==
  ASSUME WorldAssumption, SceneAssumption, Scene!Init PROVE Scene!TypeOK
<1> DEFINE D == 1 .. MaxDraws
<1>1. world \in Scene!World
  <2>1. 0 \in Scene!Tick
    BY DEF WorldAssumption, Scene!Tick
  <2> QED BY <2>1, FreshFits DEF Scene!Init
<1>2. Scene!Nothing \in [count : Nat, times : [D -> Nat]]
  BY DEF Scene!Nothing
<1> HIDE DEF D
<1>3. \A s \in Scene!Slot : \A r \in Scene!Region :
        commands[s][r] \in [count : Nat, times : [D -> Nat]]
  BY <1>2 DEF Scene!Init
<1>4. slot \in Scene!Slot
  BY DEF Scene!Init, Scene!Slot, SceneAssumption
<1> QED BY <1>1, <1>3, <1>4 DEF Scene!Init, Scene!TypeOK, D

\* What a cull appends to nothing is counted.
LEMMA CulledTypes ==
  ASSUME SceneAssumption, NEW m \in Scene!Models, NEW pass, NEW hidden
  PROVE  Scene!Culled(Scene!Nothing, Scene!Queued(world)[m], hidden, m, pass)
           \in [count : Nat, times : [1 .. MaxDraws -> Nat]]
<1> DEFINE q == Scene!Queued(world)[m]
           T == [count : Nat, times : [1 .. MaxDraws -> Nat]]
           C == Scene!Culled(Scene!Nothing, q, hidden, m, pass)
<1>1. Scene!Nothing \in T
  BY DEF Scene!Nothing
<1>2. ASSUME NEW b \in T, NEW h PROVE Scene!Appended(b, Scene!Kept(q, h)) \in T
  <2> DEFINE K == Scene!Kept(q, h)
  <2>1. Cardinality(K) \in Nat
    BY KeptFits
  <2> HIDE DEF K
  <2>2. b.count + Scene!Cardinality(K) \in Nat
    BY <2>1, SceneCounts
  <2>3. [k \in 1 .. MaxDraws |-> b.times[k] + IF k \in K THEN 1 ELSE 0] \in [1 .. MaxDraws -> Nat]
    <3>1. b.times \in [1 .. MaxDraws -> Nat]
      OBVIOUS
    <3>2. ASSUME NEW k \in 1 .. MaxDraws PROVE b.times[k] + (IF k \in K THEN 1 ELSE 0) \in Nat
      <4>1. b.times[k] \in Nat /\ (IF k \in K THEN 1 ELSE 0) \in Nat
        BY <3>1
      <4> QED BY <4>1
    <3> QED BY <3>2
  <2>4. Scene!Appended(b, K) \in T
    BY <2>2, <2>3 DEF Scene!Appended
  <2> QED BY <2>4 DEF K
<1>3. \/ \E h : C = Scene!Appended(Scene!Nothing, Scene!Kept(q, h))
      \/ C = Scene!Appended(Scene!Appended(Scene!Nothing, Scene!Kept(q, hidden)), Scene!Kept(q, {}))
      \/ C = Scene!Nothing
  BY DEF Scene!Culled
<1> HIDE DEF T, q, C
<1> QED BY <1>1, <1>2, <1>3 DEF T, q, C

\* A frame's commands are counted by record, its joints and matrices are this tick's or an
\* earlier one's.
LEMMA DrawTypes ==
  ASSUME WorldAssumption, SceneAssumption, SceneIInv, Scene!TypeOK, Scene!Draw
  PROVE  Scene!TypeOK'
<1> DEFINE T == Scene!Tick \cup {None}
           D == [count : Nat, times : [1 .. MaxDraws -> Nat]]
           q == Scene!Queued(world)
           mats == [i \in 1 .. Rivals |-> IF i \in Scene!Animated(world) THEN world.tick
                                          ELSE matrices[slot][i]]
           skin == Scene!Skinned(world, mats, skinned[slot])
           cmds(h) == [r \in Scene!Region |->
                         Scene!Culled(Scene!Filled(commands[slot])[r], q[r[1]], h, r[1], r[2])]
<1>1. PICK hidden : commands' = [commands EXCEPT ![slot] = cmds(hidden)]
  <2> DEFINE queued(h, p) ==
        commands' = [commands EXCEPT ![slot] =
          [r \in Scene!Region |->
             Scene!Culled(Scene!Filled(commands[slot])[r], p[r[1]], h, r[1], r[2])]]
  <2>1. \E h : \E p \in {q} : queued(h, p)
    BY Zenon DEF Scene!Draw
  <2>2. PICK h : queued(h, q)
    <3> HIDE DEF queued, q
    <3> QED BY <2>1, Zenon
  <2> QED BY <2>2, Zenon
<1>2. /\ attach' = Scene!NewAttach(world) /\ matrices' = [matrices EXCEPT ![slot] = mats]
      /\ skinned' = [skinned EXCEPT ![slot] = skin] /\ slot' = (slot + 1) % SceneFrames
      /\ UNCHANGED <<world, blasts, wentOff>>
  BY Zenon DEF Scene!Draw
<1>3. /\ world \in Scene!World /\ blasts \in T /\ wentOff \in T /\ world.tick \in T
      /\ matrices \in [Scene!Slot -> [1 .. Rivals -> T]]
      /\ skinned \in [Scene!Slot -> [1 .. Rivals -> T]]
      /\ attach \in [1 .. Rivals -> T] /\ slot \in Scene!Slot
  BY DEF Scene!TypeOK, Scene!World
<1> HIDE DEF T, q
<1>4. mats \in [1 .. Rivals -> T]
  BY <1>3
<1> HIDE DEF mats
<1>5. Scene!NewAttach(world) \in [1 .. Rivals -> T]
  BY <1>3 DEF Scene!NewAttach
<1>6. skin \in [1 .. Rivals -> T]
  <2>1. skinned[slot] \in [1 .. Rivals -> T]
    BY <1>3
  <2> QED BY <1>4, <2>1 DEF Scene!Skinned
<1> HIDE DEF skin
<1>7. ASSUME NEW s \in Scene!Slot, NEW r \in Scene!Region PROVE commands'[s][r] \in D
  <2>1. DOMAIN commands = Scene!Slot
    BY DEF SceneIInv, RegionsFit
  <2>2. commands'[s] = IF s = slot THEN cmds(hidden) ELSE commands[s]
    <3> HIDE DEF cmds
    <3> QED BY <1>1, <1>3, <2>1
  <2>3. CASE s = slot
    <3>1. r[1] \in Scene!Models
      BY DEF Scene!Region
    <3>2. Scene!Filled(commands[slot])[r] = Scene!Nothing
      BY <1>3 DEF Scene!Filled, SceneIInv, RegionsFit
    <3>3. commands'[s][r] = Scene!Culled(Scene!Filled(commands[slot])[r], q[r[1]], hidden, r[1], r[2])
      BY <2>2, <2>3, Zenon
    <3>4. commands'[s][r] = Scene!Culled(Scene!Nothing, q[r[1]], hidden, r[1], r[2])
      BY <3>2, <3>3, Zenon
    <3> QED BY <3>1, <3>4, CulledTypes DEF q
  <2>4. CASE s # slot
    <3> HIDE DEF D
    <3>1. commands[s][r] \in D
      BY DEF Scene!TypeOK, D
    <3> QED BY <2>2, <2>4, <3>1
  <2> QED BY <2>3, <2>4
<1>8. slot' \in Scene!Slot
  BY <1>2, <1>3 DEF Scene!Slot, SceneAssumption
<1>9. /\ world' \in Scene!World /\ blasts' \in T /\ wentOff' \in T
      /\ matrices' \in [Scene!Slot -> [1 .. Rivals -> T]]
      /\ skinned' \in [Scene!Slot -> [1 .. Rivals -> T]]
      /\ attach' \in [1 .. Rivals -> T]
  BY <1>2, <1>3, <1>4, <1>5, <1>6
<1> HIDE DEF cmds
<1> QED BY <1>7, <1>8, <1>9 DEF Scene!TypeOK, T

LEMMA StepTypes ==
  ASSUME WorldAssumption, Scene!TypeOK,
         Scene!Step \/ Scene!Rematch \/ UNCHANGED Scene!vars
  PROVE  Scene!TypeOK'
<1>1. CASE Scene!Step \/ Scene!Rematch
  <2>1. world.tick < MaxTicks /\ world \in Scene!World
        /\ (world' \in Scene!After(world) \/ world' = Scene!Fresh(world.tick + 1))
    BY <1>1 DEF Scene!Step, Scene!Rematch, Scene!TypeOK
  <2>2. world' \in Scene!World
    <3>1. world.tick + 1 \in Scene!Tick
      BY <2>1 DEF Scene!World, Scene!Tick, WorldAssumption
    <3> QED BY <2>1, <3>1, AfterFits, FreshFits
  <2>3. /\ blasts' \in {blasts, world'.tick} /\ wentOff' \in {wentOff, world'.tick}
        /\ UNCHANGED <<slot, commands, matrices, skinned, attach>>
    BY <1>1 DEF Scene!Step, Scene!Rematch, Scene!Noted, Scene!NoteEvents, Scene!gpu
  <2>4. world'.tick \in Scene!Tick
    BY <2>2 DEF Scene!World
  <2> QED BY <2>2, <2>3, <2>4 DEF Scene!TypeOK
<1>2. CASE UNCHANGED Scene!vars
  BY <1>2 DEF Scene!vars, Scene!TypeOK
<1> QED BY <1>1, <1>2

\* The import: how far the joints and the textures were numbered.
ImporterTypes ==
  /\ next \in 0 .. RigNodes /\ before \in 0 .. next
  /\ ~Importer!Written => textures = <<>>

LEMMA ImporterTypesInit ==
  ASSUME RigAssumption, Importer!Init PROVE ImporterTypes
BY DEF RigAssumption, Importer!Init, ImporterTypes

LEMMA ImporterTypesStep ==
  ASSUME RigAssumption, JointsIInv, ImporterTypes, [Importer!Next]_Importer!vars
  PROVE  ImporterTypes'
<1> USE DEF RigAssumption
<1>1. CASE Importer!Assign
  <2>1. /\ pc = "skeleton" /\ next < Len(scene.rig.joints) /\ next' \in {next, next + 1}
        /\ UNCHANGED <<pc, before, textures>>
    BY <1>1 DEF Importer!Assign, Importer!Joints
  <2>2. Len(scene.rig.joints) \in 1 .. RigNodes
    BY <2>1 DEF JointsIInv, SceneFits, RigFits
  <2>3. next' \in 0 .. RigNodes /\ before' \in 0 .. next'
    BY <2>1, <2>2 DEF ImporterTypes
  <2> QED BY <2>1, <2>3 DEF ImporterTypes, Importer!Written
<1>2. CASE Importer!Pass
  BY <1>2 DEF Importer!Pass, ImporterTypes, Importer!Written
<1>3. CASE Importer!Count \/ Importer!Layout \/ Importer!Skeleton \/ Importer!Append1
  BY <1>3 DEF Importer!Count, Importer!Refuse, Importer!Layout, Importer!Skeleton,
              Importer!Append1, Importer!rig, ImporterTypes, Importer!Written
<1>4. CASE Importer!Textures \/ Importer!Save \/ Importer!Load \/ Importer!Play
  <2>1. UNCHANGED <<next, before>> /\ Importer!Written'
    BY <1>4 DEF Importer!Textures, Importer!Save, Importer!Load, Importer!Play,
                Importer!rig, Importer!Written
  <2> QED BY <2>1 DEF ImporterTypes
<1>5. CASE UNCHANGED Importer!vars
  BY <1>5 DEF Importer!vars, Importer!rig, ImporterTypes, Importer!Written
<1> QED BY <1>1, <1>2, <1>3, <1>4, <1>5 DEF Importer!Next

LEMMA ImporterTypesHold ==
  ASSUME RigAssumption, FileAssumption, ImporterIInv, ImporterTypes PROVE Importer!TypeOK
<1>1. Importer!Most = RigNodes
  BY RigCounted DEF RigAssumption
<1>2. Len(textures) <= MaxImages
  <2>1. CASE Importer!Written
    BY <2>1 DEF ImporterIInv, FilesIInv
  <2>2. CASE ~Importer!Written
    <3>1. Len(textures) = 0
      BY <2>2 DEF ImporterTypes
    <3> QED BY <3>1 DEF FileAssumption
  <2> QED BY <2>1, <2>2
<1> QED BY <1>1, <1>2 DEF Importer!TypeOK, ImporterIInv, JointsIInv, RegionsIInv, ImporterTypes

\* Whichever part runs, what it keeps stays within its types, and every queue and table
\* within its bound (the TypeOK of each part).
THEOREM PartsTypeOKAlways ==
  ASSUME RendererAssumption
  PROVE  Spec => []PartsTypeOK
<1>0. /\ MemoryAssumption /\ PoolAssumption /\ LevelAssumption /\ BotAssumption /\ SceneAssumption
      /\ RigAssumption /\ FileAssumption /\ WorldAssumption
      /\ MaxMaterials \in Nat /\ MaxBlocks \in Nat /\ MaxBuffers \in Nat /\ MaxTextures \in Nat
  BY PartsAssumption DEF MemoryAssumption, PoolAssumption, LevelAssumption, BotAssumption, SceneAssumption,
                         RigAssumption, FileAssumption, WorldAssumption
<1> DEFINE M == part = "memory" => MemoryIInv /\ MemoryTypes
           L == part = "level" => LevelTypes
           B == part = "bot" => BotIInv
           S == part = "scene" => SceneIInv /\ Scene!TypeOK
           I == part = "importer" => ImporterIInv /\ ImporterTypes
<1>1. Init => M /\ L /\ B /\ S /\ I
  <2> SUFFICES ASSUME Init PROVE M /\ L /\ B /\ S /\ I
    OBVIOUS
  <2>1. M
    BY <1>0, MemoryInit, MemoryTypesInit DEF Init
  <2>2. L
    BY <1>0, LevelTypesInit DEF Init
  <2>3. B
    BY <1>0, BotInit DEF Init
  <2>4. S
    BY <1>0, SceneInit, SceneTypesInit DEF Init
  <2>5. I
    BY <1>0, ImporterInit, ImporterTypesInit DEF Init
  <2> QED BY <2>1, <2>2, <2>3, <2>4, <2>5
<1>2. M /\ [Next]_vars => M'
  <2> SUFFICES ASSUME M, [Next]_vars, part' = "memory" PROVE MemoryIInv' /\ MemoryTypes'
    OBVIOUS
  <2>1. part = "memory" /\ [Memory!Next]_Memory!vars
    BY DEF Next, vars, Memory!vars
  <2> QED BY <1>0, <2>1, MemoryStep, MemoryTypesStep
<1>3. L /\ [Next]_vars => L'
  <2> SUFFICES ASSUME L, [Next]_vars, part' = "level" PROVE LevelTypes'
    OBVIOUS
  <2>1. part = "level" /\ [Level!Next]_Level!vars
    BY DEF Next, vars, Level!vars
  <2> QED BY <1>0, <2>1, LevelTypesStep
<1>4. B /\ [Next]_vars => B'
  <2> SUFFICES ASSUME B, [Next]_vars, part' = "bot" PROVE BotIInv'
    OBVIOUS
  <2>1. part = "bot" /\ [Bot!Next]_Bot!vars
    BY DEF Next, vars, Bot!vars
  <2> QED BY <1>0, <2>1, BotStep
<1>5. S /\ [Next]_vars => S'
  <2> SUFFICES ASSUME S, [Next]_vars, part' = "scene" PROVE SceneIInv' /\ Scene!TypeOK'
    OBVIOUS
  <2>1. part = "scene"
        /\ (Scene!Step \/ Scene!Rematch \/ Scene!Draw \/ UNCHANGED Scene!vars)
    BY DEF Next, vars, Scene!vars, Scene!Next
  <2>2. Scene!Step \/ Scene!Rematch => Scene!Noted
    BY DEF Scene!Step, Scene!Rematch
  <2> QED BY <1>0, <2>1, <2>2, DrawSceneIInv, NotedSceneIInv, RestSceneIInv, DrawTypes, StepTypes
<1>6. I /\ [Next]_vars => I'
  <2> SUFFICES ASSUME I, [Next]_vars, part' = "importer" PROVE ImporterIInv' /\ ImporterTypes'
    OBVIOUS
  <2>1. part = "importer" /\ [Importer!Next]_Importer!vars
    BY DEF Next, vars, Importer!vars, Importer!geometry, Importer!rig
  <2>2. JointsIInv
    BY <2>1 DEF ImporterIInv
  <2> QED BY <1>0, <2>1, <2>2, ImporterKept, ImporterTypesStep
<1>7. RendererRuns /\ PoolRuns /\ M /\ L /\ B /\ S /\ I => PartsTypeOK
  <2> SUFFICES ASSUME RendererRuns, PoolRuns, M, L, B, S, I PROVE PartsTypeOK
    OBVIOUS
  <2>1. part = "renderer" => Renderer!TypeOK
    BY DEF RendererRuns, RendererIInv
  <2>2. part = "pool" => Pool!TypeOK
    BY DEF PoolRuns, PoolIInv
  <2>3. part = "memory" => Memory!TypeOK
    BY MemoryTypesHold
  <2>4. part = "level" => Level!TypeOK
    BY DEF LevelTypes, LevelCounted, Level!TypeOK
  <2>5. part = "bot" => Bot!TypeOK
    BY DEF BotIInv
  <2>6. part = "importer" => Importer!TypeOK
    BY <1>0, ImporterTypesHold
  <2> QED BY <2>1, <2>2, <2>3, <2>4, <2>5, <2>6 DEF PartsTypeOK
<1>8. (Spec => []RendererRuns) /\ (Spec => []PoolRuns)
  BY <1>0, RendererAlways, PoolAlways
<1> HIDE DEF M, L, B, S, I
<1> QED BY <1>1, <1>2, <1>3, <1>4, <1>5, <1>6, <1>7, <1>8, PTL DEF Spec
=============================================================================
