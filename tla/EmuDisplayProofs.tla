-------------------------- MODULE EmuDisplayProofs --------------------------
(***************************************************************************)
(* The hand-over between frames, user interface and renderer is sound for  *)
(* every length of the renderer's pipe.                                    *)
(***************************************************************************)
EXTENDS EmuDisplay, TLAPS

\* When frames run and where draws may be: a task runs only while emulation is
\* shown, a frame only while a task runs, and the renderer works on something.
ModeInv ==
    /\ running => showing
    /\ framePc # "idle" => running
    /\ stopping => running
    /\ emuWin = IF hasExtra THEN Extra ELSE Main
    /\ stage # "idle" => queue # << >>

\* Who owns the windows, also those that do not exist.
WindowInv ==
    /\ \A w \in Windows : w # emuWin \/ ~running => enabled[w] /\ evThread[w] = "main"
    /\ DrawnByOneThread

\* WaitIsAnswered from the moment the draw is posted.
AnswerInv ==
    framePc \in {"drawWait", "drawn"} /\ waiting => \E i \in DOMAIN queue : WillNotify(i)

DisplayInv ==
    TypeOK /\ ModeInv /\ WindowInv /\ PresentWaitExact /\ AnswerInv /\ DrawPhaseEnds

-----------------------------------------------------------------------------
(* The renderer's pipe. *)

LEMMA Posted ==
    ASSUME NEW S, NEW q \in Seq(S), NEW d \in S
    PROVE  /\ Append(q, d) \in Seq(S)
           /\ Append(q, d) # << >>
           /\ DOMAIN Append(q, d) = 1..(Len(q) + 1)
           /\ \A i \in DOMAIN q : Append(q, d)[i] = q[i]
           /\ Append(q, d)[Len(q) + 1] = d
           /\ q = << >> => Len(q) = 0
OBVIOUS

LEMMA Carried ==
    ASSUME NEW S, NEW q \in Seq(S), q # << >>
    PROVE  /\ Tail(q) \in Seq(S)
           /\ Head(q) \in S
           /\ Head(q) = q[1]
           /\ 1 \in DOMAIN q
           /\ \A i \in DOMAIN q : i # 1 => i - 1 \in DOMAIN Tail(q) /\ Tail(q)[i - 1] = q[i]
OBVIOUS

LEMMA ModeIsOne == \A w : AsyncMode(w) \in {"present", "full"}
BY DEF AsyncMode

LEMMA DrawTyped ==
    ASSUME TypeOK, NEW w \in Windows, NEW t \in Threads, Draw(w, t)
    PROVE  /\ needed' \in [Windows -> BOOLEAN]
           /\ drawPhase' \in [Windows -> {"ready", "draw"}]
           /\ queue' \in Seq(Draws)
           /\ queue' # << >>
<1>1. [win |-> w, by |-> t, mode |-> AsyncMode(w)] \in Draws
  BY ModeIsOne DEF Draws
<1>2. queue' \in Seq(Draws) /\ queue' # << >>
  BY <1>1, Posted DEF Draw, TypeOK
<1> QED BY <1>2 DEF Draw, TypeOK

LEMMA MoveTyped ==
    ASSUME NEW en \in [Windows -> BOOLEAN], NEW a \in Windows, NEW b \in Windows
    PROVE  MoveDrawEvent(en, a, b) \in [Windows -> BOOLEAN]
BY DEF MoveDrawEvent

-----------------------------------------------------------------------------
(* Types and modes. *)

LEMMA InitHolds == Init => DisplayInv
<1> SUFFICES ASSUME Init PROVE DisplayInv
  OBVIOUS
<1>1. TypeOK
  <2>1. queue \in Seq(Draws) /\ emuWin \in Existing
    BY DEF Init, Existing
  <2>2. /\ evThread \in [Windows -> Threads]
        /\ enabled \in [Windows -> BOOLEAN]
        /\ needed \in [Windows -> BOOLEAN]
        /\ drawPhase \in [Windows -> {"ready", "draw"}]
    BY DEF Init, Threads
  <2> QED BY <2>1, <2>2 DEF Init, TypeOK
<1>2. ModeInv /\ WindowInv
  BY DisplayAssumption DEF Init, ModeInv, WindowInv, DrawnByOneThread
<1>3. PresentWaitExact /\ AnswerInv /\ DrawPhaseEnds
  BY DEF Init, PresentWaitExact, AnswerInv, DrawPhaseEnds
<1> QED BY <1>1, <1>2, <1>3 DEF DisplayInv

\* The window of the emulation exists, and its frames have a thread.
LEMMA EmuWindow ==
    ASSUME TypeOK
    PROVE  emuWin \in Windows /\ FrameThread \in Threads
BY DEF TypeOK, Existing, Windows, FrameThread

LEMMA TypeKept == ASSUME DisplayInv, Next PROVE TypeOK'
<1> USE DEF viewVars, taskVars, winVars, waitVars, renderVars
<1>0. TypeOK
  BY DEF DisplayInv
<1>1. CASE Start
  BY <1>0, <1>1, EmuWindow DEF Start, StartTask, TypeOK, Existing, Threads
<1>2. CASE BeginStop
  BY <1>0, <1>2 DEF BeginStop, TypeOK, Existing
<1>3. CASE FinishStop
  BY <1>0, <1>3 DEF FinishStop, TypeOK, Existing, Threads
<1>4. CASE AddExtra
  <2> DEFINE unblocked == [enabled EXCEPT ![Main] = TRUE]
  <2>1. unblocked \in [Windows -> BOOLEAN]
    BY <1>0 DEF TypeOK
  <2> HIDE DEF unblocked
  <2>2. MoveDrawEvent(unblocked, Main, Extra) \in [Windows -> BOOLEAN]
    BY <2>1, MoveTyped DEF Windows
  <2>3. enabled' \in [Windows -> BOOLEAN]
    BY <1>4, <2>2 DEF AddExtra, unblocked
  <2> QED BY <1>0, <1>4, <2>3, ZenonT(30) DEF AddExtra, TypeOK, Existing, Windows, Threads
<1>5. CASE DismissExtra
  <2> DEFINE moved == MoveDrawEvent(enabled, Extra, Main)
  <2>1. moved \in [Windows -> BOOLEAN]
    BY <1>0, MoveTyped DEF TypeOK, Windows
  <2>2. enabled' = [moved EXCEPT ![Extra] = TRUE]
        /\ needed' = [needed EXCEPT ![Main] = @ \/ moved[Main], ![Extra] = FALSE]
    BY <1>5 DEF DismissExtra
  <2> HIDE DEF moved
  <2>3. enabled' \in [Windows -> BOOLEAN] /\ needed' \in [Windows -> BOOLEAN]
    BY <1>0, <2>1, <2>2 DEF TypeOK, Windows
  <2> QED BY <1>0, <1>5, <2>3, ZenonT(30) DEF DismissExtra, TypeOK, Existing, Windows, Threads
<1>6. CASE UIDrawn
  BY <1>0, <1>6 DEF UIDrawn, TypeOK, Existing
<1>7. ASSUME NEW w \in Windows, PostDraw(w) PROVE TypeOK'
  BY <1>0, <1>7 DEF PostDraw, TypeOK, Existing
<1>8. ASSUME NEW w \in Windows, UIDraw(w) PROVE TypeOK'
  <2>1. Draw(w, "main") /\ "main" \in Threads
    BY <1>8 DEF UIDraw, Threads
  <2>2. /\ needed' \in [Windows -> BOOLEAN]
        /\ drawPhase' \in [Windows -> {"ready", "draw"}]
        /\ queue' \in Seq(Draws)
    BY <1>0, <2>1, DrawTyped
  <2> QED BY <1>0, <1>8, <2>2 DEF UIDraw, TypeOK, Existing
<1>9. CASE BeginFrame
  BY <1>0, <1>9 DEF BeginFrame, TypeOK, Existing
<1>10. CASE DrawFrame
  <2>1. Draw(emuWin, FrameThread)
    BY <1>10 DEF DrawFrame
  <2>2. /\ needed' \in [Windows -> BOOLEAN]
        /\ drawPhase' \in [Windows -> {"ready", "draw"}]
        /\ queue' \in Seq(Draws)
    BY <1>0, <2>1, DrawTyped, EmuWindow
  <2> QED BY <1>0, <1>10, <2>2 DEF DrawFrame, TypeOK, Existing
<1>11. CASE FrameDrawn
  BY <1>0, <1>11 DEF FrameDrawn, TypeOK, Existing
<1>12. CASE EndFrame
  BY <1>0, <1>12 DEF EndFrame, TypeOK, Existing
<1>13. CASE RenderBegin
  BY <1>0, <1>13 DEF RenderBegin, TypeOK, Existing
<1>14. CASE RenderDrawn
  <2>1. queue # << >>
    BY <1>14 DEF RenderDrawn, DisplayInv, ModeInv
  <2>2. Head(queue) \in Draws
    <3>1. queue \in Seq(Draws)
      BY <1>0 DEF TypeOK
    <3> QED BY <2>1, <3>1, Carried
  <2>3. Head(queue).by \in Threads
    BY <2>2 DEF Draws
  <2> QED BY <1>0, <1>14, <2>3 DEF RenderDrawn, TypeOK, Existing
<1>15. CASE RenderPresented
  BY <1>0, <1>15, ZenonT(30) DEF RenderPresented, TypeOK, Existing
<1>16. CASE RenderNotify
  <2>1. queue # << >>
    BY <1>16 DEF RenderNotify, DisplayInv, ModeInv
  <2>2. Tail(queue) \in Seq(Draws)
    <3>1. queue \in Seq(Draws)
      BY <1>0 DEF TypeOK
    <3> QED BY <2>1, <3>1, Carried
  <2>3. sem' \in Nat /\ waiting' \in BOOLEAN
    <3>1. CASE emul /\ waiting
      <4>1. waiting' = FALSE /\ sem' = sem + 1
        BY <1>16, <3>1 DEF RenderNotify
      <4>2. sem \in Nat
        BY <1>0 DEF TypeOK
      <4>3. sem' \in Nat
        BY <4>1, <4>2
      <4>4. waiting' \in BOOLEAN
        BY <4>1
      <4> QED BY <4>3, <4>4
    <3>2. CASE ~(emul /\ waiting)
      BY <1>0, <1>16, <3>2 DEF RenderNotify, TypeOK
    <3> QED BY <3>1, <3>2
  <2> QED BY <1>0, <1>16, <2>2, <2>3 DEF RenderNotify, TypeOK, Existing
<1> QED BY <1>1, <1>2, <1>3, <1>4, <1>5, <1>6, <1>7, <1>8, <1>9, <1>10, <1>11, <1>12, <1>13,
           <1>14, <1>15, <1>16 DEF Next, UI, Frame, Render

LEMMA ModeKept == ASSUME DisplayInv, Next PROVE ModeInv'
<1> USE DEF viewVars, taskVars, winVars, waitVars, renderVars
<1>0. ModeInv /\ TypeOK
  BY DEF DisplayInv
<1>1. CASE Start \/ BeginStop \/ FinishStop \/ AddExtra \/ DismissExtra \/ UIDrawn
  <2>1. CASE Start \/ BeginStop \/ UIDrawn
    BY <1>0, <2>1 DEF Start, StartTask, BeginStop, UIDrawn, ModeInv
  <2>2. CASE FinishStop
    BY <1>0, <2>2 DEF FinishStop, ModeInv
  <2>3. CASE AddExtra
    BY <1>0, <2>3 DEF AddExtra, ModeInv
  <2>4. CASE DismissExtra
    BY <1>0, <2>4 DEF DismissExtra, ModeInv
  <2> QED BY <1>1, <2>1, <2>2, <2>3, <2>4
<1>2. ASSUME NEW w \in Windows, PostDraw(w) PROVE ModeInv'
  BY <1>0, <1>2 DEF PostDraw, ModeInv
<1>3. ASSUME NEW w \in Windows, UIDraw(w) PROVE ModeInv'
  <2>1. Draw(w, "main") /\ "main" \in Threads
    BY <1>3 DEF UIDraw, Threads
  <2>2. queue' # << >>
    BY <1>0, <2>1, DrawTyped
  <2> QED BY <1>0, <1>3, <2>2 DEF UIDraw, ModeInv
<1>4. CASE BeginFrame \/ FrameDrawn \/ EndFrame
  BY <1>0, <1>4 DEF BeginFrame, FrameDrawn, EndFrame, ModeInv
<1>5. CASE DrawFrame
  <2>1. queue' # << >>
    BY <1>0, <1>5, DrawTyped, EmuWindow DEF DrawFrame
  <2> QED BY <1>0, <1>5, <2>1 DEF DrawFrame, ModeInv
<1>6. CASE Render
  BY <1>0, <1>6 DEF Render, RenderBegin, RenderDrawn, RenderPresented, RenderNotify, ModeInv
<1> QED BY <1>1, <1>2, <1>3, <1>4, <1>5, <1>6 DEF Next, UI, Frame

-----------------------------------------------------------------------------
(* The windows. *)

LEMMA WindowKept == ASSUME DisplayInv, Next PROVE WindowInv'
<1> USE DEF viewVars, taskVars, winVars, waitVars, renderVars
<1>0. WindowInv /\ ModeInv /\ TypeOK
  BY DEF DisplayInv
<1>1. CASE Start
  BY <1>0, <1>1, EmuWindow
     DEF Start, StartTask, WindowInv, DrawnByOneThread, FrameThread, TypeOK
<1>2. CASE FinishStop
  BY <1>0, <1>2, EmuWindow DEF FinishStop, WindowInv, DrawnByOneThread, TypeOK
<1>3. CASE AddExtra
  <2> DEFINE unblocked == [enabled EXCEPT ![Main] = TRUE]
  <2>1. emuWin = Main /\ emuWin' = Extra /\ enabled' = MoveDrawEvent(unblocked, Main, Extra)
        /\ evThread' = [evThread EXCEPT ![Main] = "main"]
    BY <1>0, <1>3 DEF AddExtra, ModeInv
  <2>2. enabled[Extra] /\ evThread[Extra] = "main"
    BY <1>0, <2>1, DisplayAssumption DEF WindowInv, Windows
  <2>3. unblocked \in [Windows -> BOOLEAN] /\ \A w \in Windows : unblocked[w]
    BY <1>0, <2>2 DEF TypeOK, Windows
  <2> HIDE DEF unblocked
  <2>4. \A w \in Windows : enabled'[w]
    BY <2>1, <2>3 DEF MoveDrawEvent, Windows
  <2>5. \A w \in Windows : evThread'[w] = "main"
    BY <1>0, <2>1, <2>2 DEF TypeOK, Windows
  <2> QED BY <2>1, <2>4, <2>5 DEF WindowInv, DrawnByOneThread, FrameThread, Windows
<1>4. CASE DismissExtra
  <2> DEFINE moved == MoveDrawEvent(enabled, Extra, Main)
  <2>1. /\ emuWin = Extra /\ emuWin' = Main /\ running' = running
        /\ enabled' = [moved EXCEPT ![Extra] = TRUE]
        /\ evThread' = [evThread EXCEPT ![Extra] = "main"]
    BY <1>0, <1>4 DEF DismissExtra, ModeInv
  <2>2. enabled[Main] /\ evThread[Main] = "main"
    BY <1>0, <2>1, DisplayAssumption DEF WindowInv, Windows
  <2>3. moved \in [Windows -> BOOLEAN]
    BY <1>0, MoveTyped DEF TypeOK, Windows
  <2>4. ~running => moved[Main]
    BY <1>0, <2>2, DisplayAssumption DEF MoveDrawEvent, WindowInv, TypeOK, Windows
  <2> HIDE DEF moved
  <2>5. enabled'[Extra] /\ enabled'[Main] = moved[Main]
    BY <2>1, <2>3, DisplayAssumption DEF Windows
  <2>6. \A w \in Windows : evThread'[w] = "main"
    BY <1>0, <2>1, <2>2 DEF TypeOK, Windows
  <2> QED BY <2>1, <2>4, <2>5, <2>6 DEF WindowInv, DrawnByOneThread, FrameThread, Windows
<1>5. CASE BeginStop \/ UIDrawn
  BY <1>0, <1>5 DEF BeginStop, UIDrawn, WindowInv, DrawnByOneThread, FrameThread
<1>6. ASSUME NEW w \in Windows, PostDraw(w) PROVE WindowInv'
  BY <1>0, <1>6 DEF PostDraw, WindowInv, DrawnByOneThread, FrameThread, TypeOK
<1>7. ASSUME NEW w \in Windows, UIDraw(w) PROVE WindowInv'
  BY <1>0, <1>7, EmuWindow DEF UIDraw, Draw, WindowInv, DrawnByOneThread, FrameThread, TypeOK
<1>8. CASE DrawFrame
  BY <1>0, <1>8, EmuWindow DEF DrawFrame, Draw, WindowInv, DrawnByOneThread, FrameThread, TypeOK
<1>9. CASE BeginFrame \/ FrameDrawn \/ EndFrame
  BY <1>0, <1>9 DEF BeginFrame, FrameDrawn, EndFrame, WindowInv, DrawnByOneThread, FrameThread
<1>10. CASE Render
  BY <1>0, <1>10 DEF Render, RenderBegin, RenderDrawn, RenderPresented, RenderNotify, WindowInv,
       DrawnByOneThread, FrameThread
<1> QED BY <1>1, <1>2, <1>3, <1>4, <1>5, <1>6, <1>7, <1>8, <1>9, <1>10 DEF Next, UI, Frame

-----------------------------------------------------------------------------
(* The wait for the present. *)

LEMMA PresentKept == ASSUME DisplayInv, Next PROVE PresentWaitExact'
<1> USE DEF viewVars, taskVars, winVars, waitVars, renderVars
<1>0. PresentWaitExact /\ ModeInv /\ sem \in Nat /\ waiting \in BOOLEAN /\ shouldWait \in BOOLEAN
  BY DEF DisplayInv, TypeOK
<1>1. CASE Start
  BY <1>0, <1>1 DEF Start, StartTask, PresentWaitExact, ModeInv
<1>2. CASE BeginStop \/ FinishStop \/ AddExtra \/ DismissExtra \/ UIDrawn
  <2>1. UNCHANGED <<waiting, sem, framePc, shouldWait>>
    BY <1>2 DEF BeginStop, FinishStop, AddExtra, DismissExtra, UIDrawn
  <2> QED BY <1>0, <2>1 DEF PresentWaitExact
<1>3. ASSUME NEW w \in Windows, PostDraw(w) \/ UIDraw(w) PROVE PresentWaitExact'
  BY <1>0, <1>3 DEF PostDraw, UIDraw, PresentWaitExact
<1>4. CASE Frame
  BY <1>0, <1>4 DEF Frame, BeginFrame, DrawFrame, FrameDrawn, EndFrame, PresentWaitExact
<1>5. CASE Render
  BY <1>0, <1>5 DEF Render, RenderBegin, RenderDrawn, RenderPresented, RenderNotify,
       PresentWaitExact
<1> QED BY <1>1, <1>2, <1>3, <1>4, <1>5 DEF Next, UI

\* A new draw takes nothing from those that are queued.
LEMMA StillAnswered ==
    ASSUME DisplayInv, NEW w \in Windows, NEW t \in Threads, Draw(w, t),
           UNCHANGED <<showing, stage, emul>>,
           \E i \in DOMAIN queue : WillNotify(i)
    PROVE  (\E i \in DOMAIN queue : WillNotify(i))'
<1>1. PICK i \in DOMAIN queue : WillNotify(i)
  OBVIOUS
<1> DEFINE d == [win |-> w, by |-> t, mode |-> AsyncMode(w)]
<1>2. d \in Draws /\ queue \in Seq(Draws) /\ queue' = Append(queue, d)
  BY ModeIsOne DEF Draws, DisplayInv, TypeOK, Draw
<1> HIDE DEF d
<1>3. i \in DOMAIN queue' /\ queue'[i] = queue[i]
  BY <1>2, Posted
<1>4. IF i = 1 /\ stage' # "idle" THEN emul' ELSE queue'[i].win = Extra \/ showing'
  BY <1>1, <1>3 DEF WillNotify
<1> QED BY <1>3, <1>4 DEF WillNotify

LEMMA AnswerKept == ASSUME DisplayInv, Next PROVE AnswerInv'
<1> USE DEF viewVars, taskVars, winVars, waitVars, renderVars
<1>0. AnswerInv /\ ModeInv /\ TypeOK
  BY DEF DisplayInv
<1>1. CASE Start \/ FinishStop \/ BeginFrame \/ EndFrame
  BY <1>0, <1>1 DEF Start, StartTask, FinishStop, BeginFrame, EndFrame, AnswerInv, ModeInv
<1>2. CASE BeginStop \/ AddExtra \/ DismissExtra \/ UIDrawn \/ FrameDrawn
  <2>1. /\ UNCHANGED <<waiting, showing, queue, stage, emul>>
        /\ framePc' \in {"drawWait", "drawn"} => framePc \in {"drawWait", "drawn"}
    BY <1>2 DEF BeginStop, AddExtra, DismissExtra, UIDrawn, FrameDrawn
  <2> QED BY <1>0, <2>1 DEF AnswerInv, WillNotify
<1>3. ASSUME NEW w \in Windows, PostDraw(w) PROVE AnswerInv'
  BY <1>0, <1>3 DEF PostDraw, AnswerInv, WillNotify
<1>4. ASSUME NEW w \in Windows, UIDraw(w) PROVE AnswerInv'
  <2>1. /\ Draw(w, "main") /\ "main" \in Threads
        /\ UNCHANGED <<showing, stage, emul, framePc, waiting>>
    BY <1>4 DEF UIDraw, Threads
  <2> SUFFICES ASSUME framePc' \in {"drawWait", "drawn"}, waiting'
               PROVE  (\E i \in DOMAIN queue : WillNotify(i))'
    BY DEF AnswerInv
  <2>2. \E i \in DOMAIN queue : WillNotify(i)
    BY <1>0, <2>1 DEF AnswerInv
  <2> QED BY <2>1, <2>2, StillAnswered
<1>5. CASE DrawFrame
  <2> DEFINE d == [win |-> emuWin, by |-> FrameThread, mode |-> AsyncMode(emuWin)]
  <2>1. d \in Draws /\ queue \in Seq(Draws) /\ queue' = Append(queue, d)
    BY <1>0, <1>5, EmuWindow, ModeIsOne DEF Draws, TypeOK, Draw, DrawFrame
  <2>2. /\ showing' /\ stage' = stage
        /\ stage # "idle" => queue # << >>
    BY <1>0, <1>5 DEF DrawFrame, ModeInv
  <2> HIDE DEF d
  <2>3. PICK n \in DOMAIN queue' : n = 1 => queue = << >>
    BY <2>1, Posted
  <2>4. WillNotify(n)'
    BY <2>2, <2>3 DEF WillNotify
  <2> QED BY <2>3, <2>4 DEF AnswerInv
<1>6. CASE RenderBegin
  <2>1. /\ UNCHANGED <<framePc, waiting, queue, showing>>
        /\ queue # << >> /\ queue \in Seq(Draws)
        /\ stage = "idle" /\ stage' = "drawing"
        /\ emul' = (Head(queue).win = Extra \/ showing)
    BY <1>0, <1>6 DEF RenderBegin, TypeOK
  <2>2. Head(queue) = queue[1]
    BY <2>1, Carried
  <2>3. ASSUME NEW i \in DOMAIN queue, WillNotify(i) PROVE WillNotify(i)'
    BY <2>1, <2>2, <2>3 DEF WillNotify
  <2> QED BY <1>0, <2>1, <2>3 DEF AnswerInv
<1>7. CASE RenderDrawn \/ RenderPresented
  <2>1. /\ UNCHANGED <<framePc, waiting, queue, showing, emul>>
        /\ stage # "idle" /\ stage' # "idle"
    BY <1>7 DEF RenderDrawn, RenderPresented
  <2>2. ASSUME NEW i \in DOMAIN queue, WillNotify(i) PROVE WillNotify(i)'
    BY <2>1, <2>2 DEF WillNotify
  <2> QED BY <1>0, <2>1, <2>2 DEF AnswerInv
<1>8. CASE RenderNotify
  <2>1. /\ stage = "presented" /\ stage' = "idle" /\ queue' = Tail(queue)
        /\ UNCHANGED <<framePc, showing>>
        /\ emul /\ waiting => ~waiting'
        /\ waiting' => waiting
    BY <1>8 DEF RenderNotify
  <2>2. queue \in Seq(Draws) /\ queue # << >>
    BY <1>0, <2>1 DEF TypeOK, ModeInv
  <2> SUFFICES ASSUME framePc' \in {"drawWait", "drawn"}, waiting'
               PROVE  (\E i \in DOMAIN queue : WillNotify(i))'
    BY DEF AnswerInv
  <2>3. PICK i \in DOMAIN queue : WillNotify(i)
    BY <1>0, <2>1 DEF AnswerInv
  <2>4. i # 1
    BY <2>1, <2>3 DEF WillNotify
  <2>5. queue[i].win = Extra \/ showing
    BY <2>3, <2>4 DEF WillNotify
  <2>6. i - 1 \in DOMAIN queue' /\ queue'[i - 1] = queue[i]
    BY <2>1, <2>2, <2>4, Carried
  <2>7. WillNotify(i - 1)'
    BY <2>1, <2>5, <2>6 DEF WillNotify
  <2> QED BY <2>6, <2>7
<1> QED BY <1>1, <1>2, <1>3, <1>4, <1>5, <1>6, <1>7, <1>8 DEF Next, UI, Frame, Render

-----------------------------------------------------------------------------
(* The draw phases. *)

LEMMA DrawEnds ==
    ASSUME DisplayInv, NEW w \in Windows, NEW t \in Threads, Draw(w, t), UNCHANGED stage
    PROVE  DrawPhaseEnds'
<1> DEFINE d == [win |-> w, by |-> t, mode |-> AsyncMode(w)]
           n == Len(queue) + 1
<1>1. d \in Draws /\ d.win = w /\ queue \in Seq(Draws) /\ queue' = Append(queue, d)
  BY ModeIsOne DEF Draws, DisplayInv, TypeOK, Draw
<1> HIDE DEF d
<1>2. n \in DOMAIN queue' /\ queue'[n].win = w /\ (n = 1 => queue = << >>)
  BY <1>1, Posted
<1>3. n = 1 => stage' # "presented"
  BY <1>2 DEF DisplayInv, ModeInv
<1>4. ASSUME NEW v \in Windows, v # w, drawPhase'[v] = "draw"
      PROVE  \E i \in DOMAIN queue' : queue'[i].win = v /\ (i = 1 => stage' # "presented")
  <2>1. drawPhase[v] = "draw"
    BY <1>4 DEF Draw, DisplayInv, TypeOK
  <2>2. PICK i \in DOMAIN queue : queue[i].win = v /\ (i = 1 => stage # "presented")
    BY <2>1 DEF DisplayInv, DrawPhaseEnds
  <2>3. i \in DOMAIN queue' /\ queue'[i] = queue[i]
    BY <1>1, Posted
  <2> QED BY <2>2, <2>3
<1> QED BY <1>2, <1>3, <1>4 DEF DrawPhaseEnds

LEMMA PhaseKept == ASSUME DisplayInv, Next PROVE DrawPhaseEnds'
<1> USE DEF viewVars, taskVars, winVars, waitVars, renderVars
<1>0. DrawPhaseEnds /\ ModeInv /\ TypeOK
  BY DEF DisplayInv
<1>1. CASE UNCHANGED <<drawPhase, queue, stage>>
  BY <1>0, <1>1 DEF DrawPhaseEnds
<1>2. CASE Start \/ BeginStop \/ FinishStop \/ AddExtra \/ DismissExtra \/ UIDrawn
  BY <1>1, <1>2 DEF Start, BeginStop, FinishStop, AddExtra, DismissExtra, UIDrawn
<1>3. ASSUME NEW w \in Windows, PostDraw(w) PROVE DrawPhaseEnds'
  BY <1>1, <1>3 DEF PostDraw
<1>4. ASSUME NEW w \in Windows, UIDraw(w) PROVE DrawPhaseEnds'
  <2>1. Draw(w, "main") /\ "main" \in Threads /\ UNCHANGED stage
    BY <1>4 DEF UIDraw, Threads
  <2> QED BY <2>1, DrawEnds
<1>5. CASE BeginFrame \/ FrameDrawn \/ EndFrame
  BY <1>1, <1>5 DEF BeginFrame, FrameDrawn, EndFrame
<1>6. CASE DrawFrame
  <2>1. Draw(emuWin, FrameThread) /\ UNCHANGED stage
    BY <1>6 DEF DrawFrame
  <2> QED BY <1>0, <2>1, EmuWindow, DrawEnds
<1>7. CASE RenderBegin \/ RenderDrawn
  BY <1>0, <1>7 DEF RenderBegin, RenderDrawn, DrawPhaseEnds
<1>8. CASE RenderPresented
  <2>1. /\ stage = "presenting" /\ queue' = queue
        /\ drawPhase' = [drawPhase EXCEPT ![Head(queue).win] = "ready"]
    BY <1>8 DEF RenderPresented
  <2>2. Head(queue) = queue[1]
    BY <1>0, <2>1, Carried DEF TypeOK, ModeInv
  <2>3. ASSUME NEW w \in Windows, drawPhase'[w] = "draw"
        PROVE  drawPhase[w] = "draw" /\ w # queue[1].win
    BY <1>0, <2>1, <2>2, <2>3 DEF TypeOK
  <2> QED BY <1>0, <2>1, <2>3 DEF DrawPhaseEnds
<1>9. CASE RenderNotify
  <2>1. /\ stage = "presented" /\ stage' = "idle" /\ queue' = Tail(queue)
        /\ UNCHANGED drawPhase
    BY <1>9 DEF RenderNotify
  <2>2. queue \in Seq(Draws) /\ queue # << >>
    BY <1>0, <2>1 DEF TypeOK, ModeInv
  <2>3. ASSUME NEW w \in Windows, drawPhase'[w] = "draw"
        PROVE  \E i \in DOMAIN queue' : queue'[i].win = w
    <3>1. PICK i \in DOMAIN queue : queue[i].win = w /\ i # 1
      BY <1>0, <2>1, <2>3 DEF DrawPhaseEnds
    <3>2. i - 1 \in DOMAIN queue' /\ queue'[i - 1] = queue[i]
      BY <2>1, <2>2, <3>1, Carried
    <3> QED BY <3>1, <3>2
  <2> QED BY <2>1, <2>3 DEF DrawPhaseEnds
<1> QED BY <1>2, <1>3, <1>4, <1>5, <1>6, <1>7, <1>8, <1>9 DEF Next, UI, Frame, Render

-----------------------------------------------------------------------------
\* The inductive invariant of the three threads holds in every reachable state.
THEOREM DisplayInvariance == Spec => []DisplayInv
<1>1. DisplayInv /\ [Next]_vars => DisplayInv'
  <2> SUFFICES ASSUME DisplayInv, [Next]_vars PROVE DisplayInv'
    OBVIOUS
  <2>1. CASE Next
    BY <2>1, TypeKept, ModeKept, WindowKept, PresentKept, AnswerKept, PhaseKept DEF DisplayInv
  <2>2. CASE UNCHANGED vars
    BY <2>2 DEF vars, viewVars, taskVars, winVars, waitVars, renderVars, DisplayInv, TypeOK,
         Existing, ModeInv, WindowInv, DrawnByOneThread, FrameThread, PresentWaitExact, AnswerInv,
         WillNotify, DrawPhaseEnds
  <2> QED BY <2>1, <2>2
<1> QED BY InitHolds, <1>1, PTL DEF Spec

\* Every variable keeps its type; the emulation's window always exists.
THEOREM DisplayTypeCorrect == Spec => []TypeOK
<1>1. DisplayInv => TypeOK
  BY DEF DisplayInv
<1> QED BY DisplayInvariance, <1>1, PTL

\* A waiting frame is released exactly once, whatever else is drawn.
THEOREM DisplayPresentWaitExact == Spec => []PresentWaitExact
<1>1. DisplayInv => PresentWaitExact
  BY DEF DisplayInv
<1> QED BY DisplayInvariance, <1>1, PTL

\* A frame waits only while the renderer has a draw that will release it.
THEOREM DisplayWaitIsAnswered == Spec => []WaitIsAnswered
<1>1. DisplayInv => WaitIsAnswered
  BY DEF DisplayInv, AnswerInv, WaitIsAnswered
<1> QED BY DisplayInvariance, <1>1, PTL

\* A window in the draw phase has a draw that will end it.
THEOREM DisplayDrawPhaseEnds == Spec => []DrawPhaseEnds
<1>1. DisplayInv => DrawPhaseEnds
  BY DEF DisplayInv
<1> QED BY DisplayInvariance, <1>1, PTL

\* The emulation thread's window is drawn by it alone.
THEOREM DisplayDrawnByOneThread == Spec => []DrawnByOneThread
<1>1. DisplayInv => DrawnByOneThread
  BY DEF DisplayInv, WindowInv
<1> QED BY DisplayInvariance, <1>1, PTL

\* All other windows stay with the user interface.
THEOREM DisplayUIKeepsOtherWindows == Spec => []UIKeepsOtherWindows
<1>1. DisplayInv => UIKeepsOtherWindows
  BY DEF DisplayInv, WindowInv, UIKeepsOtherWindows, Existing, Windows
<1> QED BY DisplayInvariance, <1>1, PTL

=============================================================================
