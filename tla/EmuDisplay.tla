----------------------------- MODULE EmuDisplay -----------------------------
(***************************************************************************)
(* How frames reach the screen: the thread that runs the emulation's       *)
(* frames (EmuSystemTask.cc), the main thread that draws the user          *)
(* interface (EmuViewController.cc, Window.cc), and the renderer thread     *)
(* that carries out what both post to it (RendererTask, GLTask).           *)
(*                                                                         *)
(* A draw of a window is posted either "present", and its thread waits      *)
(* until the renderer has drawn and is about to present, or "full", and it *)
(* does not wait.  With low latency video the frame itself waits until the *)
(* renderer has presented: waitingForPresent_ and framePresentedSem.        *)
(*                                                                         *)
(* The emulation is shown on the main window or on an extra window that    *)
(* comes and goes with a second screen.  A window's events are delivered   *)
(* on one thread (drawEvent.attach): the emulation thread's for the window *)
(* it was started on, else the main thread's, so that after a change of    *)
(* window the frames run on the main thread.                               *)
(*                                                                         *)
(* Every frame that is to be shown is drawn once, windows have surfaces,   *)
(* no redraw is synchronous, and the extra window goes away only after its *)
(* draws.  Frames are driven by the screen or by the renderer: a frame may *)
(* start whenever the last one has ended.                                  *)
(***************************************************************************)
EXTENDS Naturals, Sequences

CONSTANTS
    Main, Extra,   \* the windows
    MaxDraws       \* what the renderer's command pipe holds

Windows == {Main, Extra}

Threads == {"main", "emu"}

ASSUME DisplayAssumption == Main # Extra /\ MaxDraws \in Nat

VARIABLES
    showing,     \* showingEmulation
    running,     \* systemTask was started
    stopping,    \* the main thread waits in stop()
    hiding,      \* ... and shows the menu after that
    hasExtra,    \* the extra window exists
    emuWin,      \* the window of emuView and, while running, winPtr
    evThread,    \* per window: the thread its events are delivered on
    enabled,     \* per window: drawEventEnabled
    needed,      \* per window: drawNeeded
    drawPhase,   \* per window
    shouldWait,  \* shouldWaitForPresent
    waiting,     \* waitingForPresent_
    sem,         \* framePresentedSem
    framePc,     \* where the emulation's frame is
    uiPc,        \* where the main thread's own draw is
    replies,     \* the threads whose draw-complete semaphore was released
    queue,       \* draws posted to the renderer, the one it works on first
    stage,       \* how far that one is
    emul         \* that one shows the emulation

viewVars == <<showing, hasExtra, emuWin>>
taskVars == <<running, stopping, hiding, shouldWait>>
winVars == <<evThread, enabled>>
waitVars == <<waiting, sem>>
renderVars == <<stage, emul>>

vars == <<viewVars, taskVars, winVars, needed, drawPhase, waitVars, framePc, uiPc,
          replies, queue, renderVars>>

Draws == [win : Windows, by : Threads, mode : {"present", "full"}]

Existing == IF hasExtra THEN Windows ELSE {Main}

TypeOK ==
    /\ showing \in BOOLEAN
    /\ running \in BOOLEAN /\ stopping \in BOOLEAN /\ hiding \in BOOLEAN
    /\ hasExtra \in BOOLEAN
    /\ emuWin \in Existing
    /\ evThread \in [Windows -> Threads]
    /\ enabled \in [Windows -> BOOLEAN]
    /\ needed \in [Windows -> BOOLEAN]
    /\ drawPhase \in [Windows -> {"ready", "draw"}]
    /\ shouldWait \in BOOLEAN /\ waiting \in BOOLEAN
    /\ sem \in Nat
    /\ framePc \in {"idle", "draw", "drawWait", "drawn"}
    /\ uiPc \in {"idle", "drawWait"}
    /\ replies \subseteq Threads
    /\ queue \in Seq(Draws)
    /\ stage \in {"idle", "drawing", "presenting", "presented"}
    /\ emul \in BOOLEAN

Init ==
    /\ showing = FALSE
    /\ running = FALSE /\ stopping = FALSE /\ hiding = FALSE
    /\ hasExtra = FALSE /\ emuWin = Main
    /\ evThread = [w \in Windows |-> "main"]
    /\ enabled = [w \in Windows |-> TRUE]
    /\ needed = [w \in Windows |-> FALSE]
    /\ drawPhase = [w \in Windows |-> "ready"]
    /\ shouldWait = FALSE /\ waiting = FALSE /\ sem = 0
    /\ framePc = "idle" /\ uiPc = "idle" /\ replies = {}
    /\ queue = << >> /\ stage = "idle" /\ emul = FALSE

-----------------------------------------------------------------------------
\* The thread that runs the frames.
FrameThread == evThread[emuWin]

\* The main thread is in its event loop.
MainFree == uiPc = "idle" /\ ~stopping /\ (framePc # "idle" => FrameThread # "main")

\* drawMainWindow and drawExtraWindow: AUTO becomes "present".
AsyncMode(w) ==
    IF (IF w = Main THEN waiting ELSE showing) THEN "full" ELSE "present"

\* Window::draw of w by thread t.
Draw(w, t) ==
    /\ Len(queue) < MaxDraws
    /\ needed' = [needed EXCEPT ![w] = FALSE]
    /\ drawPhase' = [drawPhase EXCEPT ![w] = "draw"]
    /\ queue' = Append(queue, [win |-> w, by |-> t, mode |-> AsyncMode(w)])

\* moveEmuViewToWindow: the state of the draw event moves along while the
\* emulation is shown.
MoveDrawEvent(en, from, to) ==
    IF showing THEN [en EXCEPT ![to] = en[from], ![from] = TRUE] ELSE en

-----------------------------------------------------------------------------
(* Bugs the code could have: each breaks a property when it takes the place *)
(* of the definition its name starts with.                                 *)

\* The UI is not blocked from posting draws.
StartTask_KeepsDrawEvent ==
    /\ running' = TRUE
    /\ evThread' = [evThread EXCEPT ![emuWin] = "emu"]
    /\ shouldWait' \in BOOLEAN
    /\ needed' = [needed EXCEPT ![emuWin] = FALSE]
    /\ UNCHANGED <<enabled, stopping, hiding>>

\* The menu is shown before the emulation thread has stopped.
BeginStop_HidesFirst ==
    /\ MainFree /\ running
    /\ stopping' = TRUE
    /\ hiding' \in BOOLEAN
    /\ showing' = ~hiding'
    /\ UNCHANGED <<running, shouldWait, hasExtra, emuWin, winVars, needed, drawPhase,
                   waitVars, framePc, uiPc, replies, queue, renderVars>>

\* The UI stays blocked after the emulation thread has stopped.
FinishStop_KeepsBlocked ==
    /\ stopping /\ framePc = "idle"
    /\ running' = FALSE /\ stopping' = FALSE
    /\ evThread' = [evThread EXCEPT ![emuWin] = "main"]
    /\ showing' = ~hiding
    /\ UNCHANGED <<hiding, shouldWait, hasExtra, emuWin, enabled, needed, drawPhase, waitVars,
                   framePc, uiPc, replies, queue, renderVars>>

\* The emulation's view stays on a window that goes away.
DismissExtra_KeepsView ==
    /\ MainFree /\ hasExtra
    /\ running => framePc = "idle"
    /\ \A i \in DOMAIN queue : queue[i].win # Extra
    /\ hasExtra' = FALSE
    /\ UNCHANGED <<showing, emuWin, taskVars, winVars, needed, drawPhase, waitVars, framePc,
                   uiPc, replies, queue, renderVars>>

\* The emulation thread does not read its command port.
FinishStop_NotRead ==
    /\ stopping /\ framePc = "idle" /\ FrameThread = "main"
    /\ running' = FALSE /\ stopping' = FALSE
    /\ enabled' = [enabled EXCEPT ![emuWin] = TRUE]
    /\ needed' = [needed EXCEPT ![emuWin] = TRUE]
    /\ showing' = ~hiding
    /\ UNCHANGED <<evThread, hiding, shouldWait, hasExtra, emuWin, drawPhase, waitVars,
                   framePc, uiPc, replies, queue, renderVars>>

\* A frame that need not wait goes straight to the next one.
EndFrame_RunsOn ==
    /\ framePc = "drawn"
    /\ IF shouldWait THEN sem > 0 /\ sem' = sem - 1 ELSE UNCHANGED sem
    /\ framePc' = IF shouldWait THEN "idle" ELSE "draw"
    /\ UNCHANGED <<viewVars, taskVars, winVars, needed, drawPhase, waiting, uiPc, replies,
                   queue, renderVars>>

\* The window is not told that it may draw again.
RenderPresented_NotReady ==
    /\ stage = "presenting"
    /\ stage' = "presented"
    /\ UNCHANGED <<viewVars, taskVars, winVars, needed, drawPhase, waitVars, framePc, uiPc,
                   replies, queue, emul>>

\* The waiting flag stays set.
RenderNotify_KeepsWaiting ==
    /\ stage = "presented"
    /\ stage' = "idle"
    /\ queue' = Tail(queue)
    /\ sem' = IF emul /\ waiting THEN sem + 1 ELSE sem
    /\ UNCHANGED <<viewVars, taskVars, winVars, needed, drawPhase, waiting, framePc, uiPc,
                   replies, emul>>

\* run() releases the semaphore as well: it is not marked as notified.
RenderNotify_RepliesAgain ==
    /\ stage = "presented"
    /\ stage' = "idle"
    /\ queue' = Tail(queue)
    /\ IF emul /\ waiting
         THEN waiting' = FALSE /\ sem' = sem + 1
         ELSE UNCHANGED waitVars
    /\ replies' = IF Head(queue).mode = "present" THEN replies \union {Head(queue).by}
                  ELSE replies
    /\ UNCHANGED <<viewVars, taskVars, winVars, needed, drawPhase, framePc, uiPc, emul>>

\* A frame's draw does not wait to be drawn.
DrawFrame_NoWait ==
    /\ framePc = "draw"
    /\ Draw(emuWin, FrameThread)
    /\ framePc' = "drawn"
    /\ UNCHANGED <<viewVars, taskVars, winVars, waitVars, uiPc, replies, renderVars>>

-----------------------------------------------------------------------------
(* The main thread: what is shown, and where. *)

\* EmuSystemTask::start.
StartTask ==
    /\ running' = TRUE
    /\ evThread' = [evThread EXCEPT ![emuWin] = "emu"]
    /\ enabled' = [enabled EXCEPT ![emuWin] = FALSE]
    /\ needed' = [needed EXCEPT ![emuWin] = FALSE]
    /\ shouldWait' \in BOOLEAN
    /\ UNCHANGED <<stopping, hiding>>

\* showEmulation, or the focus returns to emulation that is paused.
Start ==
    /\ MainFree /\ ~running
    /\ showing' = TRUE
    /\ StartTask
    /\ UNCHANGED <<hasExtra, emuWin, drawPhase, waitVars, framePc, uiPc, replies, queue,
                   renderVars>>

\* showUI, or the focus is lost: EmuSystemTask::stop waits for the thread.
BeginStop ==
    /\ MainFree /\ running
    /\ stopping' = TRUE
    /\ hiding' \in BOOLEAN
    /\ UNCHANGED <<running, shouldWait, viewVars, winVars, needed, drawPhase, waitVars,
                   framePc, uiPc, replies, queue, renderVars>>

FinishStop ==
    /\ stopping /\ framePc = "idle"
    /\ running' = FALSE /\ stopping' = FALSE
    /\ evThread' = [evThread EXCEPT ![emuWin] = "main"]
    /\ enabled' = [enabled EXCEPT ![emuWin] = TRUE]
    /\ needed' = [needed EXCEPT ![emuWin] = TRUE]
    /\ showing' = ~hiding
    /\ UNCHANGED <<hiding, shouldWait, hasExtra, emuWin, drawPhase, waitVars, framePc, uiPc,
                   replies, queue, renderVars>>

\* setEmuViewOnExtraWindow: a running task is told between two frames.
AddExtra ==
    LET unblocked == [enabled EXCEPT ![Main] = TRUE] IN
    /\ MainFree /\ ~hasExtra
    /\ running => framePc = "idle"
    /\ hasExtra' = TRUE /\ emuWin' = Extra
    /\ evThread' = [evThread EXCEPT ![Main] = "main"]
    /\ enabled' = MoveDrawEvent(unblocked, Main, Extra)
    /\ needed' = [needed EXCEPT ![Main] = TRUE]
    /\ UNCHANGED <<showing, taskVars, drawPhase, waitVars, framePc, uiPc, replies, queue,
                   renderVars>>

\* The extra window is dismissed.
DismissExtra ==
    LET moved == MoveDrawEvent(enabled, Extra, Main) IN
    /\ MainFree /\ hasExtra
    /\ running => framePc = "idle"
    /\ \A i \in DOMAIN queue : queue[i].win # Extra
    /\ hasExtra' = FALSE /\ emuWin' = Main
    /\ evThread' = [evThread EXCEPT ![Extra] = "main"]
    /\ enabled' = [moved EXCEPT ![Extra] = TRUE]
    /\ needed' = [needed EXCEPT ![Main] = @ \/ moved[Main], ![Extra] = FALSE]
    /\ UNCHANGED <<showing, taskVars, drawPhase, waitVars, framePc, uiPc, replies, queue,
                   renderVars>>

-----------------------------------------------------------------------------
(* The main thread: draws of the user interface. *)

\* Window::postDraw.
PostDraw(w) ==
    /\ MainFree /\ w \in Existing
    /\ enabled[w] /\ ~needed[w]
    /\ needed' = [needed EXCEPT ![w] = TRUE]
    /\ UNCHANGED <<viewVars, taskVars, winVars, drawPhase, waitVars, framePc, uiPc, replies,
                   queue, renderVars>>

\* The window's drawEvent: dispatchOnDraw.
UIDraw(w) ==
    /\ MainFree /\ w \in Existing /\ evThread[w] = "main"
    /\ needed[w] /\ drawPhase[w] # "draw"
    /\ Draw(w, "main")
    /\ uiPc' = IF AsyncMode(w) = "present" THEN "drawWait" ELSE "idle"
    /\ UNCHANGED <<viewVars, taskVars, winVars, waitVars, framePc, replies, renderVars>>

UIDrawn ==
    /\ uiPc = "drawWait" /\ "main" \in replies
    /\ uiPc' = "idle" /\ replies' = replies \ {"main"}
    /\ UNCHANGED <<viewVars, taskVars, winVars, needed, drawPhase, waitVars, framePc, queue,
                   renderVars>>

-----------------------------------------------------------------------------
(* The thread that runs the frames: advanceFrames, drawWindowNow. *)

\* setWaitForPresent.
BeginFrame ==
    /\ running /\ framePc = "idle"
    /\ FrameThread = "main" => MainFree
    /\ framePc' = "draw"
    /\ waiting' = shouldWait
    /\ UNCHANGED <<viewVars, taskVars, winVars, needed, drawPhase, sem, uiPc, replies, queue,
                   renderVars>>

\* The frame is finished: Window::drawNow.
DrawFrame ==
    /\ framePc = "draw"
    /\ Draw(emuWin, FrameThread)
    /\ framePc' = IF AsyncMode(emuWin) = "present" THEN "drawWait" ELSE "drawn"
    /\ UNCHANGED <<viewVars, taskVars, winVars, waitVars, uiPc, replies, renderVars>>

FrameDrawn ==
    /\ framePc = "drawWait" /\ FrameThread \in replies
    /\ framePc' = "drawn" /\ replies' = replies \ {FrameThread}
    /\ UNCHANGED <<viewVars, taskVars, winVars, needed, drawPhase, waitVars, uiPc, queue,
                   renderVars>>

\* framePresentedSem.acquire().
EndFrame ==
    /\ framePc = "drawn"
    /\ IF shouldWait THEN sem > 0 /\ sem' = sem - 1 ELSE UNCHANGED sem
    /\ framePc' = "idle"
    /\ UNCHANGED <<viewVars, taskVars, winVars, needed, drawPhase, waiting, uiPc, replies,
                   queue, renderVars>>

-----------------------------------------------------------------------------
(* The renderer thread. *)

\* The draw function starts: it reads showingEmulation here.
RenderBegin ==
    /\ stage = "idle" /\ queue # << >>
    /\ stage' = "drawing"
    /\ emul' = (Head(queue).win = Extra \/ showing)
    /\ UNCHANGED <<viewVars, taskVars, winVars, needed, drawPhase, waitVars, framePc, uiPc,
                   replies, queue>>

\* notifyDrawComplete.
RenderDrawn ==
    /\ stage = "drawing"
    /\ stage' = "presenting"
    /\ replies' = IF Head(queue).mode = "present" THEN replies \union {Head(queue).by}
                  ELSE replies
    /\ UNCHANGED <<viewVars, taskVars, winVars, needed, drawPhase, waitVars, framePc, uiPc,
                   queue, emul>>

\* doPresent, then notifyPresentComplete: Window::postFrameReady.
RenderPresented ==
    /\ stage = "presenting"
    /\ stage' = "presented"
    /\ drawPhase' = [drawPhase EXCEPT ![Head(queue).win] = "ready"]
    /\ UNCHANGED <<viewVars, taskVars, winVars, needed, waitVars, framePc, uiPc, replies,
                   queue, emul>>

\* notifyWindowPresented.
RenderNotify ==
    /\ stage = "presented"
    /\ stage' = "idle"
    /\ queue' = Tail(queue)
    /\ IF emul /\ waiting
         THEN waiting' = FALSE /\ sem' = sem + 1
         ELSE UNCHANGED waitVars
    /\ UNCHANGED <<viewVars, taskVars, winVars, needed, drawPhase, framePc, uiPc, replies,
                   emul>>

UI == Start \/ BeginStop \/ FinishStop \/ AddExtra \/ DismissExtra \/ UIDrawn
      \/ \E w \in Windows : PostDraw(w) \/ UIDraw(w)

Frame == BeginFrame \/ DrawFrame \/ FrameDrawn \/ EndFrame

Render == RenderBegin \/ RenderDrawn \/ RenderPresented \/ RenderNotify

Next == UI \/ Frame \/ Render

Spec == Init /\ [][Next]_vars

\* Each thread goes on when it can; the event loop of the emulation thread
\* does not serve frames forever without reading its command port.
Fairness ==
    /\ WF_vars(Render)
    /\ WF_vars(DrawFrame \/ FrameDrawn \/ EndFrame)
    /\ WF_vars(UIDrawn)
    /\ SF_vars(FinishStop)

FairSpec == Spec /\ Fairness

-----------------------------------------------------------------------------
\* A frame that waits is released once: the flag and the semaphore together
\* hold one release exactly during such a frame, whatever else is drawn.  So
\* the binary semaphore never overflows, and no frame finds a release that an
\* earlier one left behind (EmuSystemTask.cc:422,467).
PresentWaitExact ==
    (IF waiting THEN 1 ELSE 0) + sem = (IF framePc # "idle" /\ shouldWait THEN 1 ELSE 0)

\* The draw i of the queue will release a waiting frame.
WillNotify(i) ==
    IF i = 1 /\ stage # "idle" THEN emul ELSE queue[i].win = Extra \/ showing

\* A frame that is drawn and waits has a draw before the renderer that shows
\* the emulation: it cannot wait for nothing (EmuSystemTask.cc:450).
WaitIsAnswered == framePc = "drawn" /\ waiting => \E i \in DOMAIN queue : WillNotify(i)

\* A window in the draw phase has a draw that will make it ready; without one
\* it would never draw again (Window.cc:316,346).
DrawPhaseEnds ==
    \A w \in Windows : drawPhase[w] = "draw" =>
        \E i \in DOMAIN queue : queue[i].win = w /\ (i = 1 => stage # "presented")

\* The emulation thread has its window to itself (EmuSystemTask.cc:46, "block
\* UI from posting draws"), through starts, stops and moves to other windows.
DrawnByOneThread ==
    running /\ FrameThread = "emu" => ~enabled[emuWin] /\ ~needed[emuWin]

\* All other windows, and every window without emulation, are the UI's
\* (EmuSystemTask.cc:174, "allow UI to post draws again").
UIKeepsOtherWindows ==
    \A w \in Existing : w # emuWin \/ ~running => enabled[w] /\ evThread[w] = "main"

\* Thread t waits until its draw is drawn.
WaitsForDraw(t) ==
    \/ t = "main" /\ uiPc = "drawWait"
    \/ t = FrameThread /\ framePc = "drawWait"

\* The draw i of the queue will release its thread's semaphore.
WillReply(i) == queue[i].mode = "present" /\ (i = 1 => stage \in {"idle", "drawing"})

\* The semaphore of a draw is on the stack of the thread that waits for it, and
\* present() releases it in place of run() (RendererTask.cc:349): it is released
\* once and while that thread waits, and no thread waits without a draw of its
\* own in the queue or its release.
DrawRepliesReachTheirWaiter ==
    /\ \A t \in replies : WaitsForDraw(t)
    /\ \A i \in DOMAIN queue :
          WillReply(i) => WaitsForDraw(queue[i].by) /\ queue[i].by \notin replies
    /\ \A i, j \in DOMAIN queue :
          WillReply(i) /\ WillReply(j) /\ queue[i].by = queue[j].by => i = j
    /\ \A t \in Threads : WaitsForDraw(t) =>
          t \in replies \/ \E i \in DOMAIN queue : WillReply(i) /\ queue[i].by = t

\* On the main window draws do not pile up, although the user interface does not
\* wait for its draws while a frame on the extra window waits for the present,
\* and a frame may be released by an earlier draw than its own.
MainDrawsKeepPace == ~hasExtra => Len(queue) <= 4

\* Every frame ends, and stopping the emulation returns.
FrameEnds == framePc # "idle" ~> framePc = "idle"

StopReturns == stopping ~> ~stopping

=============================================================================
