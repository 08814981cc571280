--------------------------- MODULE EmuSystemTask ---------------------------
(***************************************************************************)
(* The emulation thread of EmuFramework (EmuSystemTask.cc/.hh) and the     *)
(* thread that commands it.                                                *)
(*                                                                         *)
(* The main thread starts and stops the emulation thread, and takes a      *)
(* SuspendContext before it touches the emulated system (save states,      *)
(* resets, options, messages).  Commands travel through a pipe; a command  *)
(* that waits carries the address of a binary semaphore on the sender's    *)
(* stack.  The emulation thread handles commands from its event loop, so   *)
(* between two frames; after a Suspend or SetWindow command it blocks in   *)
(* suspendSem until the owning context ends.                               *)
(***************************************************************************)
EXTENDS Naturals, Sequences

CONSTANTS
    Windows,         \* windows the emulation may be shown on
    NoWindow,        \* winPtr when no emulation thread runs
    MaxContexts,     \* bound: nesting of SuspendContext objects
    CloseInContext,  \* system code may close the content inside a context (MSX.emu)
    RequestInFrame   \* a turbo key may reach suspend() from a frame (TurboInput.cc)

ASSUME ConstantsAssumption ==
    /\ NoWindow \notin Windows
    /\ MaxContexts \in Nat
    /\ CloseInContext \in BOOLEAN
    /\ RequestInFrame \in BOOLEAN

VARIABLES
    mainPc,       \* where the main thread is
    contexts,     \* its live SuspendContext objects, innermost last: TRUE owns the task
    emuPc,        \* where the emulation thread is
    started,      \* threadId_ # 0, what isStarted() reads
    isSuspended,
    winPtr,
    onFrame,      \* per window: how many of each frame delegate it has
    frameThread,  \* the thread whose event loop delivers frame events
    commandPort,  \* the pipe
    replySem,     \* per waiting thread: its reply semaphore's counter
    startSem,     \* the semaphore of makeThreadSync
    suspendSem

taskVars == <<mainPc, contexts, emuPc, started, isSuspended, winPtr, onFrame,
              frameThread, commandPort, replySem, startSem, suspendSem>>

Threads == {"main", "emu"}

MainPcs == {"loop", "starting", "awaitReply", "joining", "frame"}

EmuPcs == {"none", "init", "loop", "frame", "suspended", "selfWait", "exited"}

\* CommandMessage: the command and the thread whose semaphore semPtr points to.
Messages ==
    [command : {"suspend", "exit"}, win : {NoWindow}, sem : Threads \union {"none"}]
    \union [command : {"setWindow"}, win : Windows, sem : Threads]

\* onFrameDelayed, onFrameUpdate and onFrameCalibrate.
Delegates == {"delayed", "update", "calibrate"}

Owns(ctxs) == \E i \in DOMAIN ctxs : ctxs[i]

TypeOK ==
    /\ mainPc \in MainPcs
    /\ contexts \in Seq(BOOLEAN)
    /\ emuPc \in EmuPcs
    /\ started \in BOOLEAN
    /\ isSuspended \in BOOLEAN
    /\ winPtr \in Windows \union {NoWindow}
    /\ onFrame \in [Windows -> [Delegates -> Nat]]
    /\ frameThread \in Threads
    /\ commandPort \in Seq(Messages)
    /\ replySem \in [Threads -> Nat]
    /\ startSem \in Nat
    /\ suspendSem \in Nat

Init ==
    /\ mainPc = "loop"
    /\ contexts = << >>
    /\ emuPc = "none"
    /\ started = FALSE
    /\ isSuspended = FALSE
    /\ winPtr = NoWindow
    /\ onFrame = [w \in Windows |-> [d \in Delegates |-> 0]]
    /\ frameThread = "main"
    /\ commandPort = << >>
    /\ replySem = [t \in Threads |-> 0]
    /\ startSem = 0
    /\ suspendSem = 0

-----------------------------------------------------------------------------
(* The command port. *)

\* MessagePort::send(msg, MessageReplyMode::wait) by thread t: the message is
\* put with a fresh semaphore, which t then acquires.
SendWait(t, command, w) ==
    /\ commandPort' = Append(commandPort, [command |-> command, win |-> w, sem |-> t])
    /\ replySem' = [replySem EXCEPT ![t] = 0]

\* The event loop reads the next message of the given command.
Receive(command) ==
    /\ emuPc = "loop"
    /\ commandPort # << >>
    /\ Head(commandPort).command = command
    /\ commandPort' = Tail(commandPort)

Reply(t) == replySem' = [replySem EXCEPT ![t] = @ + 1]

-----------------------------------------------------------------------------
(* The delegates of a window: a multiset, of which one is removed at a time. *)

AddOnFrame(ds, d) == [ds EXCEPT ![d] = @ + 1]

RemoveFirst(ds, d) == [ds EXCEPT ![d] = IF @ = 0 THEN 0 ELSE @ - 1]

\* removeOnFrame(): one of each kind.
RemoveOnFrame(ds) == [d \in Delegates |-> RemoveFirst(ds, d)[d]]

\* calibrateScreenFrameRate(): whether the rate of the screen is measured
\* depends on options and on what is known of it; insertion is unique.
Calibrated(ds) ==
    {RemoveFirst(ds, "calibrate"), [ds EXCEPT !["calibrate"] = IF @ = 0 THEN 1 ELSE @]}

\* A frame runs all delegates: onFrameDelayed adds itself with less delay, or
\* onFrameUpdate when there is none left, and is removed; onFrameCalibrate is
\* removed when it has found a rate or given up.
AfterFrame(ds) ==
    LET ran == {ds} \union IF ds["delayed"] = 0 THEN {}
                           ELSE {RemoveFirst(AddOnFrame(ds, "update"), "delayed")}
    IN  ran \union {RemoveFirst(r, "calibrate") : r \in ran}

-----------------------------------------------------------------------------
(* Bugs the code could have: each one breaks a property of a run when it   *)
(* takes the place of the definition its name starts with.                 *)

\* The thread does not wait for a context to end.
HandleSuspend_NoWait ==
    /\ Receive("suspend")
    /\ isSuspended' = TRUE
    /\ Reply(Head(commandPort).sem)
    /\ UNCHANGED <<mainPc, contexts, emuPc, started, winPtr, onFrame, frameThread,
                   startSem, suspendSem>>

HandleSetWindow_NoWait ==
    /\ Receive("setWindow")
    /\ isSuspended' = TRUE
    /\ winPtr' = Head(commandPort).win
    /\ Reply(Head(commandPort).sem)
    /\ UNCHANGED <<mainPc, contexts, emuPc, started, onFrame, frameThread, startSem,
                   suspendSem>>

\* removeOnFrame() comes after setWindowInternal(), so on the new window.
HandleSetWindow_RemovesLate ==
    /\ Receive("setWindow")
    /\ isSuspended' = TRUE
    /\ winPtr' = Head(commandPort).win
    /\ onFrame' = [onFrame EXCEPT ![winPtr'] = AddOnFrame(RemoveOnFrame(@), "update")]
    /\ frameThread' \in Threads
    /\ Reply(Head(commandPort).sem)
    /\ emuPc' = "suspended"
    /\ UNCHANGED <<mainPc, contexts, started, startSem, suspendSem>>

\* The Suspend command leaves isSuspended unset, so that resume() does nothing.
HandleSuspend_FlagUnset ==
    /\ Receive("suspend")
    /\ Reply(Head(commandPort).sem)
    /\ emuPc' = "suspended"
    /\ UNCHANGED <<mainPc, contexts, started, isSuspended, winPtr, onFrame, frameThread,
                   startSem, suspendSem>>

\* suspendSem is decremented before it was released.
Resumed_Early ==
    /\ emuPc = "suspended"
    /\ suspendSem' = suspendSem - 1
    /\ emuPc' = "loop"
    /\ UNCHANGED <<mainPc, contexts, started, isSuspended, winPtr, onFrame,
                   frameThread, commandPort, replySem, startSem>>

\* suspend() and setWindow() send without MessageReplyMode::wait.
Suspend_Async ==
    /\ mainPc = "loop"
    /\ Len(contexts) < MaxContexts
    /\ started /\ ~isSuspended
    /\ SendWait("main", "suspend", NoWindow)
    /\ contexts' = Append(contexts, TRUE)
    /\ UNCHANGED <<mainPc, emuPc, started, isSuspended, winPtr, onFrame,
                   frameThread, startSem, suspendSem>>

SetWindow_Async(w) ==
    /\ mainPc = "loop"
    /\ contexts = << >>
    /\ started
    /\ commandPort' = Append(commandPort,
                             [command |-> "setWindow", win |-> w, sem |-> "main"])
    /\ contexts' = << TRUE >>
    /\ UNCHANGED <<mainPc, emuPc, started, isSuspended, winPtr, onFrame,
                   frameThread, replySem, startSem, suspendSem>>

\* A nested suspend() returns {this} as well.
SuspendNothing_Owning ==
    /\ mainPc = "loop"
    /\ Len(contexts) < MaxContexts
    /\ ~started \/ isSuspended
    /\ contexts' = Append(contexts, started)
    /\ UNCHANGED <<mainPc, emuPc, started, isSuspended, winPtr, onFrame,
                   frameThread, commandPort, replySem, startSem, suspendSem>>

\* resume() releases without looking at isSuspended.
EndContext_AlwaysReleases ==
    /\ mainPc = "loop"
    /\ contexts # << >>
    /\ contexts' = SubSeq(contexts, 1, Len(contexts) - 1)
    /\ isSuspended' = FALSE
    /\ suspendSem' = IF started THEN suspendSem + 1 ELSE suspendSem
    /\ UNCHANGED <<mainPc, emuPc, started, winPtr, onFrame, frameThread,
                   commandPort, replySem, startSem>>

\* resume() leaves isSuspended set.
EndContext_StaysSuspended ==
    /\ mainPc = "loop"
    /\ contexts # << >>
    /\ contexts' = SubSeq(contexts, 1, Len(contexts) - 1)
    /\ suspendSem' = IF contexts[Len(contexts)] /\ started THEN suspendSem + 1
                                                           ELSE suspendSem
    /\ UNCHANGED <<mainPc, emuPc, started, isSuspended, winPtr, onFrame, frameThread,
                   commandPort, replySem, startSem>>

\* The thread's preamble forgets sem.release().
EmuInit_NoRelease ==
    /\ emuPc = "init"
    /\ started' = TRUE
    /\ frameThread' = "emu"
    /\ onFrame' = [onFrame EXCEPT ![winPtr] = AddOnFrame(@, "delayed")]
    /\ emuPc' = "loop"
    /\ UNCHANGED <<mainPc, contexts, isSuspended, winPtr, commandPort, replySem,
                   startSem, suspendSem>>

-----------------------------------------------------------------------------
(* The main thread. *)

\* start(): returns at once when started, else spawns the thread and waits
\* in makeThreadSync for it to be ready.
Start(w) ==
    /\ mainPc = "loop"
    /\ ~started
    /\ winPtr' = w
    /\ emuPc' = "init"
    /\ mainPc' = "starting"
    /\ UNCHANGED <<contexts, started, isSuspended, onFrame, frameThread,
                   commandPort, replySem, startSem, suspendSem>>

StartReturn ==
    /\ mainPc = "starting"
    /\ startSem > 0
    /\ startSem' = startSem - 1
    /\ mainPc' = "loop"
    /\ UNCHANGED <<contexts, emuPc, started, isSuspended, winPtr, onFrame,
                   frameThread, commandPort, replySem, suspendSem>>

\* suspend() with nothing to suspend: the context it returns is empty.
SuspendNothing ==
    /\ mainPc = "loop"
    /\ Len(contexts) < MaxContexts
    /\ ~started \/ isSuspended
    /\ contexts' = Append(contexts, FALSE)
    /\ UNCHANGED <<mainPc, emuPc, started, isSuspended, winPtr, onFrame,
                   frameThread, commandPort, replySem, startSem, suspendSem>>

Suspend ==
    /\ mainPc = "loop"
    /\ Len(contexts) < MaxContexts
    /\ started /\ ~isSuspended
    /\ SendWait("main", "suspend", NoWindow)
    /\ mainPc' = "awaitReply"
    /\ UNCHANGED <<contexts, emuPc, started, isSuspended, winPtr, onFrame,
                   frameThread, startSem, suspendSem>>

\* setWindow(): its callers hold no context (assume(!isSuspended)).
SetWindow(w) ==
    /\ mainPc = "loop"
    /\ contexts = << >>
    /\ MaxContexts > 0
    /\ started
    /\ SendWait("main", "setWindow", w)
    /\ mainPc' = "awaitReply"
    /\ UNCHANGED <<contexts, emuPc, started, isSuspended, winPtr, onFrame,
                   frameThread, startSem, suspendSem>>

\* The reply arrives: suspend() and setWindow() return an owning context.
ReplyReceived ==
    /\ mainPc = "awaitReply"
    /\ replySem["main"] > 0
    /\ replySem' = [replySem EXCEPT !["main"] = @ - 1]
    /\ contexts' = Append(contexts, TRUE)
    /\ mainPc' = "loop"
    /\ UNCHANGED <<emuPc, started, isSuspended, winPtr, onFrame, frameThread,
                   commandPort, startSem, suspendSem>>

\* updateScreenFrameRate(), which the handler of a change of the screen's frame
\* rate calls inside a context.
UpdateScreenFrameRate ==
    /\ mainPc = "loop" /\ contexts # << >>
    /\ winPtr # NoWindow
    /\ \E ds \in Calibrated(onFrame[winPtr]) : onFrame' = [onFrame EXCEPT ![winPtr] = ds]
    /\ UNCHANGED <<mainPc, contexts, emuPc, started, isSuspended, winPtr, frameThread,
                   commandPort, replySem, startSem, suspendSem>>

\* ~SuspendContext() and its resume(), then EmuSystemTask::resume().
EndContext ==
    /\ mainPc = "loop"
    /\ contexts # << >>
    /\ contexts' = SubSeq(contexts, 1, Len(contexts) - 1)
    /\ IF contexts[Len(contexts)] /\ started /\ isSuspended
         THEN isSuspended' = FALSE /\ suspendSem' = suspendSem + 1
         ELSE UNCHANGED <<isSuspended, suspendSem>>
    /\ UNCHANGED <<mainPc, emuPc, started, winPtr, onFrame, frameThread,
                   commandPort, replySem, startSem>>

\* stop(): the Exit command carries no semaphore; the thread is joined.
Stop ==
    /\ mainPc = "loop"
    /\ CloseInContext \/ ~Owns(contexts)
    /\ started
    /\ commandPort' = Append(commandPort,
                             [command |-> "exit", win |-> NoWindow, sem |-> "none"])
    /\ mainPc' = "joining"
    /\ UNCHANGED <<contexts, emuPc, started, isSuspended, winPtr, onFrame,
                   frameThread, replySem, startSem, suspendSem>>

\* stop() after taskThread.join(): frame events come back to this thread.
StopReturn ==
    /\ mainPc = "joining"
    /\ emuPc = "exited"
    /\ emuPc' = "none"
    /\ winPtr' = NoWindow
    /\ frameThread' = "main"
    /\ mainPc' = "loop"
    /\ UNCHANGED <<contexts, started, isSuspended, onFrame, commandPort,
                   replySem, startSem, suspendSem>>

-----------------------------------------------------------------------------
(* The emulation thread. *)

\* The thread's preamble up to sem.release().
EmuInit ==
    /\ emuPc = "init"
    /\ started' = TRUE
    /\ frameThread' = "emu"
    /\ \E ds \in Calibrated(onFrame[winPtr]) :
          onFrame' = [onFrame EXCEPT ![winPtr] = AddOnFrame(ds, "delayed")]
    /\ startSem' = startSem + 1
    /\ emuPc' = "loop"
    /\ UNCHANGED <<mainPc, contexts, isSuspended, winPtr, commandPort, replySem,
                   suspendSem>>

HandleSuspend ==
    /\ Receive("suspend")
    /\ isSuspended' = TRUE
    /\ Reply(Head(commandPort).sem)
    /\ emuPc' = "suspended"
    /\ UNCHANGED <<mainPc, contexts, started, winPtr, onFrame, frameThread,
                   startSem, suspendSem>>

\* The delegates move to the new window, whose frame events were attached by
\* the thread that made the window and are not re-attached here: which loop
\* delivers them afterwards depends on the platform's frame timer.
HandleSetWindow ==
    LET removed == [onFrame EXCEPT ![winPtr] = RemoveOnFrame(@)] IN
    /\ Receive("setWindow")
    /\ isSuspended' = TRUE
    /\ winPtr' = Head(commandPort).win
    /\ onFrame' = [removed EXCEPT ![winPtr'] = AddOnFrame(@, "update")]
    /\ frameThread' \in Threads
    /\ Reply(Head(commandPort).sem)
    /\ emuPc' = "suspended"
    /\ UNCHANGED <<mainPc, contexts, started, startSem, suspendSem>>

HandleExit ==
    /\ Receive("exit")
    /\ onFrame' = [onFrame EXCEPT ![winPtr] = RemoveOnFrame(@)]
    /\ started' = FALSE
    /\ emuPc' = "exited"
    /\ UNCHANGED <<mainPc, contexts, isSuspended, winPtr, frameThread, replySem,
                   startSem, suspendSem>>

\* suspendSem.acquire() returns.
Resumed ==
    /\ emuPc = "suspended"
    /\ suspendSem > 0
    /\ suspendSem' = suspendSem - 1
    /\ emuPc' = "loop"
    /\ UNCHANGED <<mainPc, contexts, started, isSuspended, winPtr, onFrame,
                   frameThread, commandPort, replySem, startSem>>

-----------------------------------------------------------------------------
(* Frame events, delivered to winPtr's delegates by frameThread's loop. *)

HasDelegate == winPtr # NoWindow /\ \E d \in Delegates : onFrame[winPtr][d] > 0

EmuFrameBegin ==
    /\ frameThread = "emu" /\ emuPc = "loop"
    /\ HasDelegate
    /\ emuPc' = "frame"
    /\ UNCHANGED <<mainPc, contexts, started, isSuspended, winPtr, onFrame,
                   frameThread, commandPort, replySem, startSem, suspendSem>>

MainFrameBegin ==
    /\ frameThread = "main" /\ mainPc = "loop" /\ contexts = << >>
    /\ HasDelegate
    /\ mainPc' = "frame"
    /\ UNCHANGED <<contexts, emuPc, started, isSuspended, winPtr, onFrame,
                   frameThread, commandPort, replySem, startSem, suspendSem>>

RunDelegates ==
    \E ds \in AfterFrame(onFrame[winPtr]) : onFrame' = [onFrame EXCEPT ![winPtr] = ds]

EmuFrameEnd ==
    /\ emuPc = "frame"
    /\ RunDelegates
    /\ emuPc' = "loop"
    /\ UNCHANGED <<mainPc, contexts, started, isSuspended, winPtr, frameThread,
                   commandPort, replySem, startSem, suspendSem>>

MainFrameEnd ==
    /\ mainPc = "frame"
    /\ RunDelegates
    /\ mainPc' = "loop"
    /\ UNCHANGED <<contexts, emuPc, started, isSuspended, winPtr, frameThread,
                   commandPort, replySem, startSem, suspendSem>>

\* turboActions.update() presses a key whose handler calls suspend().
EmuFrameRequest ==
    /\ RequestInFrame
    /\ emuPc = "frame"
    /\ started /\ ~isSuspended
    /\ SendWait("emu", "suspend", NoWindow)
    /\ emuPc' = "selfWait"
    /\ UNCHANGED <<mainPc, contexts, started, isSuspended, winPtr, onFrame,
                   frameThread, startSem, suspendSem>>

-----------------------------------------------------------------------------
MainNext ==
    \/ \E w \in Windows : Start(w) \/ SetWindow(w)
    \/ StartReturn \/ SuspendNothing \/ Suspend \/ ReplyReceived \/ EndContext
    \/ UpdateScreenFrameRate \/ Stop \/ StopReturn \/ MainFrameBegin \/ MainFrameEnd

Handle == HandleSuspend \/ HandleSetWindow \/ HandleExit

EmuNext ==
    \/ EmuInit \/ Handle \/ Resumed
    \/ EmuFrameBegin \/ EmuFrameEnd \/ EmuFrameRequest

Next == MainNext \/ EmuNext

\* A blocked thread that may go on does; frames end; an event loop with a
\* readable pipe dispatches it even when frame events are ready as well.
Fairness ==
    /\ WF_taskVars(EmuInit) /\ WF_taskVars(StartReturn)
    /\ WF_taskVars(ReplyReceived) /\ WF_taskVars(StopReturn)
    /\ WF_taskVars(Resumed) /\ SF_taskVars(Handle)
    /\ WF_taskVars(EmuFrameEnd) /\ WF_taskVars(MainFrameEnd)

Spec == Init /\ [][Next]_taskVars

FairSpec == Spec /\ Fairness

-----------------------------------------------------------------------------
FrameRunning == emuPc \in {"frame", "selfWait"} \/ mainPc = "frame"

\* While a context owns the task the emulation thread is parked, so nothing
\* the holder does to the system can overlap a frame (EmuApp::loadState,
\* saveState, setRunSpeed, softReset ... all rely on it).
ContextExcludesFrames ==
    Owns(contexts) => emuPc = "suspended" /\ isSuspended /\ ~FrameRunning

\* A message's semPtr points into the stack of a thread that is still waiting
\* there, and is released once: no reply goes to a dead or reused semaphore.
RepliesReachTheirWaiter ==
    /\ \A i \in DOMAIN commandPort :
          /\ commandPort[i].sem = "main" => mainPc = "awaitReply" /\ replySem["main"] = 0
          /\ commandPort[i].sem = "emu" => emuPc = "selfWait" /\ replySem["emu"] = 0
          /\ commandPort[i].sem = "none" => mainPc = "joining"
    /\ \A i, j \in DOMAIN commandPort : commandPort[i].sem = commandPort[j].sem => i = j
    /\ replySem["main"] > 0 => mainPc = "awaitReply"

\* std::binary_semaphore counts to one; a second release is undefined.
SemaphoresBinary ==
    suspendSem <= 1 /\ startSem <= 1 /\ \A t \in Threads : replySem[t] <= 1

\* A wake-up left in suspendSem belongs to a suspension that is still to be
\* woken: no later Suspend command can be undone by a stale release.
WakeUpsMatchSuspensions ==
    suspendSem > 0 => emuPc = "suspended" /\ ~isSuspended /\ ~Owns(contexts)

\* Outside a request of its own the main thread leaves no command in the
\* pipe, so the next emulation thread starts from an empty one.
NoStaleCommand ==
    mainPc \in {"loop", "starting", "frame"} /\ emuPc # "selfWait" => commandPort = << >>

\* Frames are run by one delegate, on winPtr, from the start of the thread to its
\* exit, and measured by at most one: neither a change of window nor a stop, in
\* whatever phase of the start-up delay, leaves one behind that would run frames
\* twice or after the stop (EmuSystemTask.cc:214-259).
OneFrameDelegate ==
    \A w \in Windows :
        LET here == IF started /\ w = winPtr THEN 1 ELSE 0
        IN  /\ onFrame[w]["delayed"] + onFrame[w]["update"] = here
            /\ onFrame[w]["calibrate"] <= here

Posted(t) == \E i \in DOMAIN commandPort : commandPort[i].sem = t

\* The emulation thread comes back to its event loop without the main thread's help.
ReachesItsLoop ==
    \/ emuPc \in {"loop", "frame"}
    \/ emuPc = "suspended" /\ suspendSem > 0

\* Whatever the main thread waits for has happened or will: its command is in the
\* pipe of a thread that will read it.  A frame that waits for itself and a close
\* inside a context are the only exceptions (EmuSystemTask.cc:106-165).
WaitsAreServed ==
    /\ mainPc = "starting" => emuPc = "init" \/ startSem > 0
    /\ mainPc = "awaitReply" /\ replySem["main"] = 0 =>
          /\ Posted("main")
          /\ ReachesItsLoop \/ (RequestInFrame /\ emuPc = "selfWait")
    /\ mainPc = "joining" /\ emuPc # "exited" =>
          /\ Posted("none")
          /\ \/ ReachesItsLoop
             \/ RequestInFrame /\ emuPc = "selfWait"
             \/ CloseInContext /\ Owns(contexts)

\* Emulation resumes when the outermost context ends, never when a nested
\* one does.
OnlyOutermostResumes ==
    [][suspendSem' > suspendSem => Owns(contexts) /\ ~Owns(contexts')]_taskVars

\* start(), suspend(), setWindow() and stop() return.
RequestsReturn ==
    mainPc \in {"starting", "awaitReply", "joining"} ~> mainPc = "loop"

\* The thread that waits for a reply of the emulation thread is not the
\* emulation thread: the rule stop() asserts (assume(threadId_ !=
\* thisThreadId()), EmuSystemTask.cc:159).
RequesterIsNotEmuThread == emuPc # "selfWait"

\* "errors are fatal and require the existing game to close" (MSX.emu
\* Main.cc:466): a close requested inside a context completes.
FatalErrorsClose == (mainPc = "joining" /\ Owns(contexts)) ~> mainPc = "loop"

\* The task implements exclusive use of the system.
Access == INSTANCE SystemAccess
              WITH live <- started, frame <- FrameRunning, context <- Owns(contexts)

ImplementsAccess == Access!Spec
=============================================================================
