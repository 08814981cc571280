------------------------ MODULE EmuSystemTaskProofs ------------------------
(***************************************************************************)
(* Proofs about EmuSystemTask for every set of windows, every nesting      *)
(* bound and both values of CloseInContext and RequestInFrame.             *)
(***************************************************************************)
EXTENDS EmuSystemTask, SequenceTheorems, TLAPS

AtMostOneOwner(ctxs) ==
    \A i, j \in DOMAIN ctxs : ctxs[i] /\ ctxs[j] => i = j

\* Start-up: the semaphore of makeThreadSync is released once, to a main
\* thread that is still in start().
StartInv ==
    /\ emuPc = "init" => mainPc = "starting" /\ startSem = 0 /\ ~started
    /\ startSem > 0 => mainPc = "starting" /\ startSem = 1
    /\ mainPc = "starting" => ~Owns(contexts)

\* What isStarted() says, seen from each thread's place.
LifeInv ==
    /\ started <=> emuPc \in {"loop", "frame", "suspended", "selfWait"}
    /\ emuPc = "exited" => mainPc = "joining" /\ commandPort = << >>
    /\ mainPc = "awaitReply" => started
    /\ mainPc = "frame" => frameThread = "main" /\ contexts = << >> /\ started
    /\ emuPc \in {"frame", "selfWait"} => frameThread = "emu"

\* Who holds a suspended task, and who will wake it.
SuspendInv ==
    /\ emuPc # "suspended" => ~isSuspended /\ suspendSem = 0
    /\ isSuspended => suspendSem = 0
    /\ isSuspended <=> Owns(contexts) \/ replySem["main"] = 1
    /\ suspendSem <= 1
    /\ mainPc = "awaitReply" => ~Owns(contexts)
    /\ replySem["main"] <= 1
    /\ AtMostOneOwner(contexts)

\* What the pipe holds.
PortInv ==
    /\ RepliesReachTheirWaiter
    /\ \A i \in DOMAIN commandPort :
          commandPort[i].sem = "none" <=> commandPort[i].command = "exit"
    /\ replySem["emu"] = 0

\* Where the frame delegates are.
DelegateInv ==
    /\ started \/ emuPc = "init" => winPtr \in Windows
    /\ winPtr # NoWindow => started \/ emuPc \in {"init", "exited"}
    /\ OneFrameDelegate

IInv == TypeOK /\ StartInv /\ LifeInv /\ SuspendInv /\ PortInv /\ DelegateInv

-----------------------------------------------------------------------------
\* A context pushed on the stack owns the task or leaves its ownership as is.
LEMMA PushContext ==
    ASSUME NEW ctxs \in Seq(BOOLEAN), NEW b \in BOOLEAN
    PROVE  /\ Append(ctxs, b) \in Seq(BOOLEAN)
           /\ Owns(Append(ctxs, b)) <=> Owns(ctxs) \/ b
           /\ AtMostOneOwner(ctxs) /\ (b => ~Owns(ctxs))
                => AtMostOneOwner(Append(ctxs, b))
<1> DEFINE new == Append(ctxs, b)
<1>1. new \in Seq(BOOLEAN) /\ Len(new) = Len(ctxs) + 1
  OBVIOUS
<1>2. DOMAIN new = DOMAIN ctxs \union {Len(ctxs) + 1} /\ Len(ctxs) + 1 \notin DOMAIN ctxs
  BY <1>1
<1>3. (\A i \in DOMAIN ctxs : new[i] = ctxs[i]) /\ new[Len(ctxs) + 1] = b
  OBVIOUS
<1> HIDE DEF new
<1>4. Owns(new) <=> Owns(ctxs) \/ b
  BY <1>2, <1>3, Zenon DEF Owns
<1>5. AtMostOneOwner(ctxs) /\ (b => ~Owns(ctxs)) => AtMostOneOwner(new)
  BY <1>2, <1>3 DEF Owns, AtMostOneOwner
<1> QED BY <1>1, <1>4, <1>5 DEF new

\* A context popped from the stack takes the ownership with it when it has it.
LEMMA PopContext ==
    ASSUME NEW ctxs \in Seq(BOOLEAN), ctxs # << >>, AtMostOneOwner(ctxs)
    PROVE  LET rest == SubSeq(ctxs, 1, Len(ctxs) - 1)
           IN  /\ rest \in Seq(BOOLEAN)
               /\ AtMostOneOwner(rest)
               /\ ctxs[Len(ctxs)] => Owns(ctxs) /\ ~Owns(rest)
               /\ ~ctxs[Len(ctxs)] => (Owns(rest) <=> Owns(ctxs))
<1> DEFINE rest == SubSeq(ctxs, 1, Len(ctxs) - 1)
           n == Len(ctxs)
<1>1. n \in Nat /\ n > 0 /\ DOMAIN ctxs = 1..n
  OBVIOUS
<1>2. rest \in Seq(BOOLEAN) /\ Len(rest) = n - 1
  BY <1>1
<1>3. DOMAIN ctxs = DOMAIN rest \union {n} /\ n \notin DOMAIN rest
  BY <1>1, <1>2
<1>4. \A i \in DOMAIN rest : rest[i] = ctxs[i]
  BY <1>1, <1>2
<1> HIDE DEF rest, n
<1>5. AtMostOneOwner(rest)
  BY <1>3, <1>4 DEF AtMostOneOwner
<1>6. ctxs[n] => Owns(ctxs) /\ ~Owns(rest)
  BY <1>3, <1>4 DEF AtMostOneOwner, Owns
<1>7. ~ctxs[n] => (Owns(rest) <=> Owns(ctxs))
  BY <1>3, <1>4 DEF Owns
<1> QED BY <1>2, <1>5, <1>6, <1>7 DEF rest, n

\* The messages left after a read are those that were behind its head.
LEMMA PortTail ==
    ASSUME NEW port \in Seq(Messages), port # << >>
    PROVE  /\ Head(port) = port[1] /\ 1 \in DOMAIN port /\ Head(port) \in Messages
           /\ Tail(port) \in Seq(Messages)
           /\ \A i \in DOMAIN Tail(port) :
                 i + 1 \in DOMAIN port /\ i + 1 # 1 /\ Tail(port)[i] = port[i + 1]
OBVIOUS

\* A sent message is behind those the pipe already holds.
LEMMA PortAppend ==
    ASSUME NEW port \in Seq(Messages), NEW m \in Messages
    PROVE  /\ Append(port, m) \in Seq(Messages)
           /\ DOMAIN Append(port, m) = DOMAIN port \union {Len(port) + 1}
           /\ Len(port) + 1 \notin DOMAIN port
           /\ \A i \in DOMAIN port : Append(port, m)[i] = port[i]
           /\ Append(port, m)[Len(port) + 1] = m
OBVIOUS

\* While the emulation thread is in its event loop the pipe holds at most one
\* command: the main thread's, which waits for its reply or for the exit.
LEMMA OneCommand ==
    ASSUME IInv, emuPc = "loop", commandPort # << >>
    PROVE  /\ Tail(commandPort) = << >>
           /\ Head(commandPort).command # "exit" =>
                 /\ Head(commandPort).sem = "main" /\ mainPc = "awaitReply"
                 /\ replySem["main"] = 0 /\ ~Owns(contexts)
           /\ Head(commandPort).command = "exit" => mainPc = "joining"
<1>1. /\ 1 \in DOMAIN commandPort /\ Head(commandPort) = commandPort[1]
      /\ commandPort \in Seq(Messages)
  BY PortTail DEF IInv, TypeOK
<1>2. \A i \in DOMAIN commandPort :
         \/ commandPort[i].sem = "main" /\ mainPc = "awaitReply"
         \/ commandPort[i].sem = "none" /\ mainPc = "joining"
  <2> TAKE i \in DOMAIN commandPort
  <2>1. commandPort[i] \in Messages
    BY <1>1
  <2>2. commandPort[i].sem \in {"main", "emu", "none"}
    BY <2>1 DEF Messages, Threads
  <2> QED BY <2>2 DEF IInv, PortInv, RepliesReachTheirWaiter
<1>3. \A i \in DOMAIN commandPort : i = 1
  BY <1>1, <1>2 DEF IInv, PortInv, RepliesReachTheirWaiter
<1>4. Len(commandPort) = 1
  <2>1. Len(commandPort) \in DOMAIN commandPort
    BY <1>1
  <2> QED BY <1>3, <2>1
<1>5. Tail(commandPort) = << >>
  <2>1. Tail(commandPort) \in Seq(Messages) /\ Len(Tail(commandPort)) = 0
    BY <1>1, <1>4, HeadTailProperties
  <2> QED BY <2>1, EmptySeq
<1> QED
  BY <1>1, <1>2, <1>5 DEF IInv, PortInv, SuspendInv, RepliesReachTheirWaiter

-----------------------------------------------------------------------------
\* Multisets of delegates are closed under the operations on them.
LEMMA DelegateTypes ==
    ASSUME NEW ds \in [Delegates -> Nat], NEW d \in Delegates
    PROVE  /\ AddOnFrame(ds, d) \in [Delegates -> Nat]
           /\ RemoveFirst(ds, d) \in [Delegates -> Nat]
           /\ RemoveOnFrame(ds) \in [Delegates -> Nat]
<1>1. \A e \in Delegates : RemoveFirst(ds, e) \in [Delegates -> Nat]
  BY DEF RemoveFirst
<1> QED BY <1>1 DEF AddOnFrame, RemoveOnFrame

\* Measuring the frame rate leaves the delegates that run frames alone.
LEMMA CalibratedDelegates ==
    ASSUME NEW ds \in [Delegates -> Nat], NEW new \in Calibrated(ds),
           ds["calibrate"] <= 1
    PROVE  /\ new \in [Delegates -> Nat]
           /\ new["delayed"] = ds["delayed"] /\ new["update"] = ds["update"]
           /\ new["calibrate"] <= 1
BY DEF Calibrated, RemoveFirst, Delegates

\* A frame replaces the delegate that ran it, or keeps it.
LEMMA FrameDelegates ==
    ASSUME NEW ds \in [Delegates -> Nat], NEW new \in AfterFrame(ds)
    PROVE  /\ new \in [Delegates -> Nat]
           /\ new["delayed"] + new["update"] = ds["delayed"] + ds["update"]
           /\ new["calibrate"] <= ds["calibrate"]
<1> DEFINE moved == RemoveFirst(AddOnFrame(ds, "update"), "delayed")
<1>1. /\ moved \in [Delegates -> Nat]
      /\ ds["delayed"] # 0 => moved["delayed"] + moved["update"] = ds["delayed"] + ds["update"]
      /\ moved["calibrate"] = ds["calibrate"]
  BY DEF AddOnFrame, RemoveFirst, Delegates
<1>2. PICK r \in {ds, moved} :
        /\ r = moved => ds["delayed"] # 0 \/ r = ds
        /\ new = r \/ new = RemoveFirst(r, "calibrate")
  BY DEF AfterFrame
<1>3. /\ r \in [Delegates -> Nat] /\ r["calibrate"] = ds["calibrate"]
      /\ r["delayed"] + r["update"] = ds["delayed"] + ds["update"]
  BY <1>1, <1>2
<1> HIDE DEF moved
<1>4. /\ RemoveFirst(r, "calibrate") \in [Delegates -> Nat]
      /\ RemoveFirst(r, "calibrate")["delayed"] = r["delayed"]
      /\ RemoveFirst(r, "calibrate")["update"] = r["update"]
      /\ RemoveFirst(r, "calibrate")["calibrate"] <= r["calibrate"]
  BY <1>3 DEF RemoveFirst, Delegates
<1>5. r["calibrate"] \in Nat
  BY <1>3 DEF Delegates
<1> QED BY <1>2, <1>3, <1>4, <1>5

\* A step that leaves the delegates, their window and the thread's life alone.
LEMMA DelegatesKept ==
    ASSUME IInv, UNCHANGED <<onFrame, started, winPtr>>,
           emuPc' = emuPc \/ (started /\ emuPc' # "init")
    PROVE  DelegateInv'
BY DEF IInv, DelegateInv, OneFrameDelegate

\* A step that changes the delegates of winPtr only, and those that run frames
\* keep their number.
LEMMA DelegatesReplaced ==
    ASSUME IInv, started, UNCHANGED <<started, winPtr>>, NEW ds \in [Delegates -> Nat],
           onFrame' = [onFrame EXCEPT ![winPtr] = ds],
           ds["delayed"] + ds["update"] = 1, ds["calibrate"] <= 1
    PROVE  DelegateInv' /\ onFrame' \in [Windows -> [Delegates -> Nat]]
<1>1. winPtr \in Windows /\ onFrame \in [Windows -> [Delegates -> Nat]]
  BY DEF IInv, TypeOK, DelegateInv
<1>2. onFrame' \in [Windows -> [Delegates -> Nat]]
  BY <1>1
<1>3. OneFrameDelegate'
  BY <1>1 DEF IInv, DelegateInv, OneFrameDelegate
<1> QED BY <1>1, <1>2, <1>3 DEF DelegateInv

\* A window has delegates only while the thread runs.
LEMMA DelegatesOfRunningThread == IInv /\ HasDelegate => started
<1> SUFFICES ASSUME IInv, HasDelegate, ~started PROVE FALSE
  OBVIOUS
<1>1. winPtr \in Windows /\ onFrame[winPtr] \in [Delegates -> Nat]
  BY DEF IInv, TypeOK, HasDelegate
<1>2. /\ onFrame[winPtr]["delayed"] + onFrame[winPtr]["update"] = 0
      /\ onFrame[winPtr]["calibrate"] <= 0
  BY <1>1 DEF IInv, DelegateInv, OneFrameDelegate
<1>3. \A d \in Delegates : onFrame[winPtr][d] = 0
  BY <1>1, <1>2 DEF Delegates
<1> QED BY <1>3 DEF HasDelegate

\* A frame of a thread that runs.
LEMMA DelegatesAfterFrame ==
    ASSUME IInv, started, UNCHANGED <<started, winPtr>>, RunDelegates
    PROVE  DelegateInv' /\ onFrame' \in [Windows -> [Delegates -> Nat]]
<1>1. PICK ds \in AfterFrame(onFrame[winPtr]) : onFrame' = [onFrame EXCEPT ![winPtr] = ds]
  BY DEF RunDelegates
<1>2. winPtr \in Windows /\ onFrame[winPtr] \in [Delegates -> Nat]
  BY DEF IInv, TypeOK, DelegateInv
<1>3. /\ onFrame[winPtr]["delayed"] + onFrame[winPtr]["update"] = 1
      /\ onFrame[winPtr]["calibrate"] <= 1
  BY <1>2 DEF IInv, DelegateInv, OneFrameDelegate
<1>4. /\ ds \in [Delegates -> Nat]
      /\ ds["delayed"] + ds["update"] = 1
      /\ ds["calibrate"] <= onFrame[winPtr]["calibrate"]
  BY <1>2, <1>3, FrameDelegates
<1>5. ds["calibrate"] <= 1
  BY <1>2, <1>3, <1>4 DEF Delegates
<1> QED BY <1>1, <1>4, <1>5, DelegatesReplaced

-----------------------------------------------------------------------------
\* The empty stack of contexts and the empty pipe have their types.
LEMMA EmptyTypes == << >> \in Seq(BOOLEAN) /\ << >> \in Seq(Messages)
OBVIOUS

LEMMA InitInv == Init => IInv
<1> SUFFICES ASSUME Init PROVE IInv
  OBVIOUS
<1> USE DEF Init
<1>1. TypeOK
  BY EmptyTypes DEF TypeOK, MainPcs, EmuPcs, Threads
<1>2. StartInv /\ LifeInv
  BY DEF StartInv, LifeInv, Owns
<1>5. DelegateInv
  BY DEF DelegateInv, OneFrameDelegate, Delegates
<1>3. SuspendInv
  BY DEF SuspendInv, Owns, AtMostOneOwner, Threads
<1>4. PortInv
  BY DEF PortInv, RepliesReachTheirWaiter, Threads
<1> QED BY <1>1, <1>2, <1>3, <1>4, <1>5 DEF IInv

-----------------------------------------------------------------------------
(* One lemma per action of the main thread. *)

LEMMA StartPreserves == ASSUME IInv, NEW w \in Windows, Start(w) PROVE IInv'
<1> USE DEF IInv, Start
<1>1. TypeOK'
  BY DEF TypeOK, MainPcs, EmuPcs
<1>2. StartInv' /\ LifeInv'
  BY DEF TypeOK, StartInv, LifeInv, SuspendInv
<1>3. SuspendInv'
  BY DEF LifeInv, SuspendInv
<1>4. PortInv'
  BY DEF LifeInv, PortInv, RepliesReachTheirWaiter
<1>d. DelegateInv'
  BY DEF LifeInv, StartInv, DelegateInv, OneFrameDelegate, TypeOK
<1> QED BY <1>1, <1>2, <1>3, <1>4, <1>d

LEMMA StartReturnPreserves == ASSUME IInv, StartReturn PROVE IInv'
<1> USE DEF IInv, StartReturn
<1>1. TypeOK'
  BY DEF TypeOK, MainPcs
<1>2. StartInv' /\ LifeInv'
  BY DEF TypeOK, StartInv, LifeInv
<1>3. SuspendInv'
  BY DEF SuspendInv
<1>4. PortInv'
  BY DEF PortInv, RepliesReachTheirWaiter
<1>d. DelegateInv'
  BY DelegatesKept DEF LifeInv
<1> QED BY <1>1, <1>2, <1>3, <1>4, <1>d

LEMMA SuspendNothingPreserves == ASSUME IInv, SuspendNothing PROVE IInv'
<1> USE DEF IInv, SuspendNothing
<1>1. /\ TypeOK' /\ (Owns(contexts)' <=> Owns(contexts))
      /\ AtMostOneOwner(contexts)'
  BY PushContext DEF TypeOK, SuspendInv
<1>2. StartInv' /\ LifeInv'
  BY DEF StartInv, LifeInv
<1>3. SuspendInv'
  BY <1>1 DEF SuspendInv
<1>4. PortInv'
  BY DEF PortInv, RepliesReachTheirWaiter
<1>d. DelegateInv'
  BY DelegatesKept DEF LifeInv
<1> QED BY <1>1, <1>2, <1>3, <1>4, <1>d

LEMMA SuspendPreserves == ASSUME IInv, Suspend PROVE IInv'
<1> USE DEF IInv, Suspend
<1> DEFINE m == [command |-> "suspend", win |-> NoWindow, sem |-> "main"]
<1>m. m \in Messages /\ commandPort' = Append(commandPort, m)
  BY DEF Messages, Threads, SendWait
<1>1. TypeOK' /\ replySem' = [replySem EXCEPT !["main"] = 0]
  BY <1>m, PortAppend DEF TypeOK, MainPcs, Threads, SendWait
<1>2. StartInv' /\ LifeInv'
  BY DEF StartInv, LifeInv
<1>3. SuspendInv'
  BY <1>1 DEF TypeOK, LifeInv, SuspendInv, PortInv, RepliesReachTheirWaiter, Owns, Threads
<1>4. PortInv'
  BY <1>1, <1>m, PortAppend DEF TypeOK, PortInv, RepliesReachTheirWaiter, Threads
<1>d. DelegateInv'
  BY DelegatesKept DEF LifeInv
<1> QED BY <1>1, <1>2, <1>3, <1>4, <1>d

LEMMA SetWindowPreserves == ASSUME IInv, NEW w \in Windows, SetWindow(w) PROVE IInv'
<1> USE DEF IInv, SetWindow
<1> DEFINE m == [command |-> "setWindow", win |-> w, sem |-> "main"]
<1>m. m \in Messages /\ commandPort' = Append(commandPort, m)
  BY DEF Messages, Threads, SendWait
<1>1. TypeOK' /\ replySem' = [replySem EXCEPT !["main"] = 0]
  BY <1>m, PortAppend DEF TypeOK, MainPcs, Threads, SendWait
<1>2. StartInv' /\ LifeInv'
  BY DEF StartInv, LifeInv
<1>3. SuspendInv'
  BY <1>1 DEF TypeOK, LifeInv, SuspendInv, PortInv, RepliesReachTheirWaiter, Owns, Threads
<1>4. PortInv'
  BY <1>1, <1>m, PortAppend DEF TypeOK, PortInv, RepliesReachTheirWaiter, Threads
<1>d. DelegateInv'
  BY DelegatesKept DEF LifeInv
<1> QED BY <1>1, <1>2, <1>3, <1>4, <1>d

LEMMA ReplyReceivedPreserves == ASSUME IInv, ReplyReceived PROVE IInv'
<1> USE DEF IInv, ReplyReceived
<1>1. /\ replySem["main"] = 1 /\ ~Owns(contexts)
      /\ replySem' \in [Threads -> Nat]
      /\ replySem'["main"] = 0 /\ replySem'["emu"] = replySem["emu"]
  BY DEF TypeOK, SuspendInv, Threads
<1>2. contexts' \in Seq(BOOLEAN) /\ Owns(contexts)' /\ AtMostOneOwner(contexts)'
  BY <1>1, PushContext DEF TypeOK, SuspendInv
<1>3. TypeOK'
  BY <1>1, <1>2 DEF TypeOK, MainPcs
<1>4. StartInv' /\ LifeInv'
  BY DEF StartInv, LifeInv, SuspendInv
<1>5. SuspendInv'
  BY <1>1, <1>2 DEF TypeOK, SuspendInv
<1>6. PortInv'
  BY <1>1 DEF PortInv, RepliesReachTheirWaiter
<1>d. DelegateInv'
  BY DelegatesKept DEF LifeInv
<1> QED BY <1>1, <1>2, <1>3, <1>4, <1>5, <1>6, <1>d

LEMMA UpdateScreenFrameRatePreserves == ASSUME IInv, UpdateScreenFrameRate PROVE IInv'
<1> USE DEF IInv, UpdateScreenFrameRate
<1>o. DelegateInv' /\ onFrame' \in [Windows -> [Delegates -> Nat]]
  <2>1. PICK ds \in Calibrated(onFrame[winPtr]) : onFrame' = [onFrame EXCEPT ![winPtr] = ds]
    OBVIOUS
  <2>2. /\ started /\ winPtr \in Windows /\ onFrame[winPtr] \in [Delegates -> Nat]
    BY DEF TypeOK, StartInv, LifeInv, DelegateInv
  <2>3. /\ onFrame[winPtr]["delayed"] + onFrame[winPtr]["update"] = 1
        /\ onFrame[winPtr]["calibrate"] <= 1
    BY <2>2 DEF DelegateInv, OneFrameDelegate
  <2>4. /\ ds \in [Delegates -> Nat] /\ ds["calibrate"] <= 1
        /\ ds["delayed"] + ds["update"] = 1
    BY <2>2, <2>3, CalibratedDelegates
  <2> QED BY <2>1, <2>2, <2>4, DelegatesReplaced
<1>1. TypeOK'
  BY <1>o DEF TypeOK
<1>2. StartInv' /\ LifeInv'
  BY DEF StartInv, LifeInv
<1>3. SuspendInv'
  BY DEF SuspendInv
<1>4. PortInv'
  BY DEF PortInv, RepliesReachTheirWaiter
<1> QED BY <1>1, <1>2, <1>3, <1>4, <1>o

LEMMA EndContextPreserves == ASSUME IInv, EndContext PROVE IInv'
<1> USE DEF IInv, EndContext
<1>u. UNCHANGED <<mainPc, emuPc, replySem>> /\ mainPc = "loop"
  OBVIOUS
<1>1. /\ contexts' \in Seq(BOOLEAN) /\ AtMostOneOwner(contexts)'
      /\ contexts[Len(contexts)] => Owns(contexts) /\ ~Owns(contexts)'
      /\ ~contexts[Len(contexts)] => (Owns(contexts)' <=> Owns(contexts))
  BY PopContext DEF TypeOK, SuspendInv
<1>2. contexts[Len(contexts)] \in BOOLEAN
  BY DEF TypeOK
<1>3. isSuspended' \in BOOLEAN
  BY <1>2, Zenon DEF TypeOK
<1>4. suspendSem' \in Nat
  BY <1>2 DEF TypeOK
<1>5. TypeOK'
  BY <1>1, <1>3, <1>4 DEF TypeOK
<1>6. StartInv' /\ LifeInv'
  BY <1>1 DEF StartInv, LifeInv
<1>7. SuspendInv'
  <2>1. ~(replySem["main"] = 1)
    BY DEF PortInv, RepliesReachTheirWaiter
  <2>2. CASE contexts[Len(contexts)]
    <3>1. isSuspended /\ started /\ suspendSem = 0 /\ emuPc = "suspended"
      <4>1. Owns(contexts)
        BY <1>1, <2>2
      <4> HIDE DEF EndContext
      <4> QED BY <4>1, Zenon DEF LifeInv, SuspendInv
    <3>2. isSuspended' = FALSE /\ suspendSem' = 1
      BY <2>2, <3>1
    <3> HIDE DEF EndContext
    <3> QED BY <1>1, <1>u, <2>1, <2>2, <3>1, <3>2 DEF SuspendInv
  <2>3. CASE ~contexts[Len(contexts)]
    <3>1. UNCHANGED <<isSuspended, suspendSem>>
      BY <2>3
    <3> HIDE DEF EndContext
    <3> QED BY <1>1, <1>u, <2>3, <3>1 DEF SuspendInv
  <2> QED BY <1>2, <2>2, <2>3
<1>8. PortInv'
  BY DEF PortInv, RepliesReachTheirWaiter
<1>d. DelegateInv'
  BY DelegatesKept DEF LifeInv
<1> QED BY <1>1, <1>2, <1>3, <1>4, <1>5, <1>6, <1>7, <1>8, <1>d

LEMMA StopPreserves == ASSUME IInv, Stop PROVE IInv'
<1> USE DEF IInv, Stop
<1> DEFINE m == [command |-> "exit", win |-> NoWindow, sem |-> "none"]
<1>m. m \in Messages /\ commandPort' = Append(commandPort, m)
  BY DEF Messages, Threads
<1>1. TypeOK'
  BY <1>m, PortAppend DEF TypeOK, MainPcs
<1>2. StartInv' /\ LifeInv'
  BY DEF StartInv, LifeInv
<1>3. SuspendInv'
  BY DEF SuspendInv
<1>4. PortInv'
  BY <1>m, PortAppend DEF TypeOK, PortInv, RepliesReachTheirWaiter
<1>d. DelegateInv'
  BY DelegatesKept DEF LifeInv
<1> QED BY <1>1, <1>2, <1>3, <1>4, <1>d

LEMMA StopReturnPreserves == ASSUME IInv, StopReturn PROVE IInv'
<1> USE DEF IInv, StopReturn
<1>1. TypeOK'
  BY DEF TypeOK, MainPcs, EmuPcs, Threads
<1>2. StartInv' /\ LifeInv'
  BY DEF StartInv, LifeInv
<1>3. SuspendInv'
  BY DEF LifeInv, SuspendInv
<1>4. PortInv'
  BY DEF LifeInv, PortInv, RepliesReachTheirWaiter
<1>d. DelegateInv'
  BY DEF LifeInv, DelegateInv, OneFrameDelegate, TypeOK
<1> QED BY <1>1, <1>2, <1>3, <1>4, <1>d

LEMMA MainFrameBeginPreserves == ASSUME IInv, MainFrameBegin PROVE IInv'
<1> USE DEF IInv, MainFrameBegin
<1>1. TypeOK'
  BY DEF TypeOK, MainPcs
<1>2. StartInv' /\ LifeInv'
  BY DelegatesOfRunningThread DEF StartInv, LifeInv
<1>3. SuspendInv'
  BY DEF SuspendInv
<1>4. PortInv'
  BY DEF PortInv, RepliesReachTheirWaiter
<1>d. DelegateInv'
  BY DelegatesKept DEF LifeInv
<1> QED BY <1>1, <1>2, <1>3, <1>4, <1>d

LEMMA MainFrameEndPreserves == ASSUME IInv, MainFrameEnd PROVE IInv'
<1> USE DEF IInv, MainFrameEnd
<1>o. DelegateInv' /\ onFrame' \in [Windows -> [Delegates -> Nat]]
  BY DelegatesAfterFrame DEF LifeInv
<1>1. TypeOK'
  BY <1>o DEF TypeOK, MainPcs
<1>2. StartInv' /\ LifeInv'
  BY DEF StartInv, LifeInv
<1>3. SuspendInv'
  BY DEF SuspendInv
<1>4. PortInv'
  BY DEF PortInv, RepliesReachTheirWaiter
<1>d. DelegateInv'
  BY <1>o
<1> QED BY <1>1, <1>2, <1>3, <1>4, <1>d

-----------------------------------------------------------------------------
(* One lemma per action of the emulation thread. *)

LEMMA EmuInitPreserves == ASSUME IInv, EmuInit PROVE IInv'
<1> USE DEF IInv, EmuInit
<1>o. DelegateInv' /\ onFrame' \in [Windows -> [Delegates -> Nat]]
  <2>1. PICK ds \in Calibrated(onFrame[winPtr]) :
          onFrame' = [onFrame EXCEPT ![winPtr] = AddOnFrame(ds, "delayed")]
    OBVIOUS
  <2>2. /\ winPtr \in Windows /\ onFrame[winPtr] \in [Delegates -> Nat]
        /\ onFrame[winPtr]["calibrate"] <= 0
        /\ onFrame[winPtr]["delayed"] + onFrame[winPtr]["update"] = 0
    BY DEF TypeOK, StartInv, DelegateInv, OneFrameDelegate
  <2>3. onFrame[winPtr]["calibrate"] <= 1
    BY <2>2 DEF Delegates
  <2>4. /\ ds \in [Delegates -> Nat] /\ ds["calibrate"] <= 1
        /\ ds["delayed"] + ds["update"] = 0
    BY <2>2, <2>3, CalibratedDelegates
  <2>5. /\ AddOnFrame(ds, "delayed") \in [Delegates -> Nat]
        /\ AddOnFrame(ds, "delayed")["calibrate"] <= 1
        /\ AddOnFrame(ds, "delayed")["delayed"] + AddOnFrame(ds, "delayed")["update"] = 1
    BY <2>4 DEF AddOnFrame, Delegates
  <2>6. onFrame' \in [Windows -> [Delegates -> Nat]]
    BY <2>1, <2>2, <2>5 DEF TypeOK
  <2>7. OneFrameDelegate'
    BY <2>1, <2>2, <2>5 DEF TypeOK, StartInv, DelegateInv, OneFrameDelegate
  <2> QED BY <2>2, <2>6, <2>7 DEF DelegateInv
<1>1. TypeOK'
  BY <1>o DEF TypeOK, EmuPcs, Threads
<1>2. StartInv' /\ LifeInv'
  BY DEF StartInv, LifeInv
<1>3. SuspendInv'
  BY DEF SuspendInv
<1>4. PortInv'
  BY DEF PortInv, RepliesReachTheirWaiter
<1>d. DelegateInv'
  BY <1>o
<1> QED BY <1>1, <1>2, <1>3, <1>4, <1>d

LEMMA HandleSuspendPreserves == ASSUME IInv, HandleSuspend PROVE IInv'
<1> USE DEF IInv, HandleSuspend
<1>h. /\ emuPc = "loop" /\ mainPc = "awaitReply" /\ replySem["main"] = 0
      /\ ~Owns(contexts) /\ Head(commandPort).sem = "main" /\ commandPort' = << >>
  BY OneCommand DEF Receive
<1>r. /\ replySem' \in [Threads -> Nat]
      /\ replySem'["main"] = 1 /\ replySem'["emu"] = replySem["emu"]
  BY <1>h DEF TypeOK, Reply, Threads
<1>1. TypeOK'
  BY <1>h, <1>r, EmptyTypes DEF TypeOK, EmuPcs, Threads
<1>2. StartInv' /\ LifeInv'
  BY <1>h DEF StartInv, LifeInv
<1>3. SuspendInv'
  BY <1>h, <1>r DEF SuspendInv
<1>4. PortInv'
  BY <1>h, <1>r DEF PortInv, RepliesReachTheirWaiter
<1>d. DelegateInv'
  BY <1>h, DelegatesKept DEF LifeInv
<1> QED BY <1>1, <1>2, <1>3, <1>4, <1>d

LEMMA HandleSetWindowPreserves == ASSUME IInv, HandleSetWindow PROVE IInv'
<1> USE DEF IInv, HandleSetWindow
<1>h. /\ emuPc = "loop" /\ mainPc = "awaitReply" /\ replySem["main"] = 0
      /\ ~Owns(contexts) /\ Head(commandPort).sem = "main" /\ commandPort' = << >>
  BY OneCommand DEF Receive
<1>r. /\ replySem' \in [Threads -> Nat]
      /\ replySem'["main"] = 1 /\ replySem'["emu"] = replySem["emu"]
  BY <1>h DEF TypeOK, Reply, Threads
<1>w. winPtr' \in Windows
  BY PortTail DEF TypeOK, Receive, Messages
<1>o. DelegateInv' /\ onFrame' \in [Windows -> [Delegates -> Nat]]
  <2> DEFINE removed == [onFrame EXCEPT ![winPtr] = RemoveOnFrame(@)]
  <2>1. started /\ started' /\ winPtr \in Windows
    BY <1>h DEF LifeInv, DelegateInv
  <2>2. removed \in [Windows -> [Delegates -> Nat]]
    <3>1. RemoveOnFrame(onFrame[winPtr]) \in [Delegates -> Nat]
      BY <2>1, DelegateTypes DEF TypeOK, Delegates
    <3> HIDE DEF HandleSetWindow
    <3> QED BY <2>1, <3>1 DEF TypeOK
  <2>3. \A w \in Windows : \A e \in Delegates : removed[w][e] = 0
    <3> HIDE DEF HandleSetWindow
    <3> QED BY <2>1 DEF TypeOK, DelegateInv, OneFrameDelegate, Delegates, RemoveOnFrame,
                        RemoveFirst
  <2>4. onFrame' = [removed EXCEPT ![winPtr'] = AddOnFrame(removed[winPtr'], "update")]
    OBVIOUS
  <2> HIDE DEF removed, HandleSetWindow
  <2>5. AddOnFrame(removed[winPtr'], "update") \in [Delegates -> Nat]
    BY <1>w, <2>2, DelegateTypes DEF Delegates
  <2>6. onFrame' \in [Windows -> [Delegates -> Nat]]
    BY <1>w, <2>2, <2>4, <2>5
  <2>7. OneFrameDelegate'
    <3>1. ASSUME NEW w \in Windows, w # winPtr'
          PROVE  \A e \in Delegates : onFrame'[w][e] = 0
      BY <1>w, <2>2, <2>3, <2>4, <3>1
    <3>2. /\ onFrame'[winPtr']["update"] = 1
          /\ onFrame'[winPtr']["delayed"] = 0 /\ onFrame'[winPtr']["calibrate"] = 0
      BY <1>w, <2>2, <2>3, <2>4 DEF AddOnFrame, Delegates
    <3> QED BY <2>1, <3>1, <3>2 DEF OneFrameDelegate, Delegates
  <2> QED BY <1>w, <2>1, <2>6, <2>7 DEF DelegateInv
<1>1. TypeOK'
  BY <1>h, <1>r, <1>w, <1>o, EmptyTypes DEF TypeOK, EmuPcs, Threads
<1>2. StartInv' /\ LifeInv'
  BY <1>h DEF StartInv, LifeInv
<1>3. SuspendInv'
  BY <1>h, <1>r DEF SuspendInv
<1>4. PortInv'
  BY <1>h, <1>r DEF PortInv, RepliesReachTheirWaiter
<1>d. DelegateInv'
  BY <1>o
<1> QED BY <1>1, <1>2, <1>3, <1>4, <1>d

LEMMA HandleExitPreserves == ASSUME IInv, HandleExit PROVE IInv'
<1> USE DEF IInv, HandleExit
<1>1. emuPc = "loop" /\ mainPc = "joining" /\ commandPort' = << >>
  BY OneCommand DEF Receive
<1>o. onFrame' \in [Windows -> [Delegates -> Nat]]
  <2>1. winPtr \in Windows
    BY <1>1 DEF LifeInv, DelegateInv
  <2>2. RemoveOnFrame(onFrame[winPtr]) \in [Delegates -> Nat]
    BY <2>1, DelegateTypes DEF TypeOK, Delegates
  <2> QED BY <2>1, <2>2 DEF TypeOK
<1>2. TypeOK'
  BY <1>1, <1>o, EmptyTypes DEF TypeOK, EmuPcs
<1>3. StartInv' /\ LifeInv'
  BY <1>1 DEF StartInv, LifeInv
<1>4. SuspendInv'
  BY <1>1 DEF SuspendInv
<1>5. PortInv'
  BY <1>1 DEF PortInv, RepliesReachTheirWaiter
<1>d. DelegateInv'
  <2>1. started /\ winPtr \in Windows /\ started' = FALSE /\ emuPc' = "exited"
    BY <1>1 DEF LifeInv, DelegateInv
  <2>2. \A w \in Windows : \A e \in Delegates : onFrame'[w][e] = 0
    BY <2>1 DEF TypeOK, DelegateInv, OneFrameDelegate, Delegates, RemoveOnFrame, RemoveFirst
  <2> QED BY <2>1, <2>2 DEF DelegateInv, OneFrameDelegate, Delegates
<1> QED BY <1>1, <1>2, <1>3, <1>4, <1>5, <1>d

LEMMA ResumedPreserves == ASSUME IInv, Resumed PROVE IInv'
<1> USE DEF IInv, Resumed
<1>1. TypeOK'
  BY DEF TypeOK, EmuPcs
<1>2. StartInv' /\ LifeInv'
  BY DEF StartInv, LifeInv
<1>3. SuspendInv'
  BY DEF TypeOK, SuspendInv
<1>4. PortInv'
  BY DEF PortInv, RepliesReachTheirWaiter
<1>d. DelegateInv'
  BY DelegatesKept DEF LifeInv
<1> QED BY <1>1, <1>2, <1>3, <1>4, <1>d

LEMMA EmuFrameBeginPreserves == ASSUME IInv, EmuFrameBegin PROVE IInv'
<1> USE DEF IInv, EmuFrameBegin
<1>1. TypeOK'
  BY DEF TypeOK, EmuPcs
<1>2. StartInv' /\ LifeInv'
  BY DEF StartInv, LifeInv
<1>3. SuspendInv'
  BY DEF SuspendInv
<1>4. PortInv'
  BY DEF PortInv, RepliesReachTheirWaiter
<1>d. DelegateInv'
  BY DelegatesKept DEF LifeInv
<1> QED BY <1>1, <1>2, <1>3, <1>4, <1>d

LEMMA EmuFrameEndPreserves == ASSUME IInv, EmuFrameEnd PROVE IInv'
<1> USE DEF IInv, EmuFrameEnd
<1>o. DelegateInv' /\ onFrame' \in [Windows -> [Delegates -> Nat]]
  BY DelegatesAfterFrame DEF LifeInv
<1>1. TypeOK'
  BY <1>o DEF TypeOK, EmuPcs
<1>2. StartInv' /\ LifeInv'
  BY DEF StartInv, LifeInv
<1>3. SuspendInv'
  BY DEF SuspendInv
<1>4. PortInv'
  BY DEF PortInv, RepliesReachTheirWaiter
<1>d. DelegateInv'
  BY <1>o
<1> QED BY <1>1, <1>2, <1>3, <1>4, <1>d

LEMMA EmuFrameRequestPreserves == ASSUME IInv, EmuFrameRequest PROVE IInv'
<1> USE DEF IInv, EmuFrameRequest
<1> DEFINE m == [command |-> "suspend", win |-> NoWindow, sem |-> "emu"]
<1>m. m \in Messages /\ commandPort' = Append(commandPort, m)
  BY DEF Messages, Threads, SendWait
<1>1. TypeOK' /\ replySem' = [replySem EXCEPT !["emu"] = 0]
  BY <1>m, PortAppend DEF TypeOK, EmuPcs, Threads, SendWait
<1>2. StartInv' /\ LifeInv'
  BY DEF StartInv, LifeInv
<1>3. SuspendInv'
  BY <1>1 DEF TypeOK, SuspendInv, Threads
<1>4. PortInv'
  BY <1>1, <1>m, PortAppend DEF TypeOK, PortInv, RepliesReachTheirWaiter, Threads
<1>d. DelegateInv'
  BY DelegatesKept DEF LifeInv
<1> QED BY <1>1, <1>2, <1>3, <1>4, <1>d

-----------------------------------------------------------------------------
LEMMA NextPreserves == IInv /\ [Next]_taskVars => IInv'
<1> SUFFICES ASSUME IInv, [Next]_taskVars PROVE IInv'
  OBVIOUS
<1>1. CASE MainNext
  BY <1>1, StartPreserves, SetWindowPreserves, StartReturnPreserves,
     SuspendNothingPreserves, SuspendPreserves, ReplyReceivedPreserves,
     EndContextPreserves, UpdateScreenFrameRatePreserves, StopPreserves, StopReturnPreserves,
     MainFrameBeginPreserves, MainFrameEndPreserves DEF MainNext
<1>2. CASE EmuNext
  BY <1>2, EmuInitPreserves, HandleSuspendPreserves, HandleSetWindowPreserves,
     HandleExitPreserves, ResumedPreserves, EmuFrameBeginPreserves,
     EmuFrameEndPreserves, EmuFrameRequestPreserves DEF EmuNext, Handle
<1>3. CASE UNCHANGED taskVars
  BY <1>3 DEF taskVars, IInv, TypeOK, StartInv, LifeInv, SuspendInv, PortInv,
     RepliesReachTheirWaiter, DelegateInv, OneFrameDelegate
<1> QED BY <1>1, <1>2, <1>3 DEF Next

\* The inductive invariant holds in every reachable state.
THEOREM Invariance == Spec => []IInv
BY InitInv, NextPreserves, PTL DEF Spec

\* Every variable keeps its type.
THEOREM TypeCorrect == Spec => []TypeOK
BY Invariance, PTL DEF IInv

\* suspend() excludes frames: whoever holds an owning context has the system
\* to itself.
THEOREM ContextsExcludeFrames == Spec => []ContextExcludesFrames
<1>1. IInv => ContextExcludesFrames
  <2> SUFFICES ASSUME IInv, Owns(contexts) PROVE ContextExcludesFrames
    BY DEF ContextExcludesFrames
  <2>1. isSuspended /\ emuPc = "suspended"
    BY DEF IInv, SuspendInv
  <2>2. mainPc # "frame"
    BY DEF IInv, LifeInv, Owns
  <2> QED BY <2>1, <2>2 DEF ContextExcludesFrames, FrameRunning
<1> QED BY <1>1, Invariance, PTL

\* Replies go to a sender that still waits for them.
THEOREM RepliesReach == Spec => []RepliesReachTheirWaiter
<1>1. IInv => RepliesReachTheirWaiter
  BY DEF IInv, PortInv
<1> QED BY <1>1, Invariance, PTL

\* No binary semaphore is released past one.
THEOREM SemaphoresStayBinary == Spec => []SemaphoresBinary
<1>1. IInv => SemaphoresBinary
  BY DEF IInv, TypeOK, StartInv, SuspendInv, PortInv, SemaphoresBinary, Threads
<1> QED BY <1>1, Invariance, PTL

\* No wake-up outlives the suspension it was meant for.
THEOREM WakeUpsMatch == Spec => []WakeUpsMatchSuspensions
<1>1. IInv => WakeUpsMatchSuspensions
  BY DEF IInv, TypeOK, SuspendInv, WakeUpsMatchSuspensions
<1> QED BY <1>1, Invariance, PTL

\* The pipe is empty whenever the main thread is not waiting for the task.
THEOREM NoStaleCommands == Spec => []NoStaleCommand
<1>1. IInv => NoStaleCommand
  <2> SUFFICES ASSUME IInv, commandPort # << >>,
                      mainPc \in {"loop", "starting", "frame"}, emuPc # "selfWait"
               PROVE  FALSE
    BY DEF NoStaleCommand
  <2>1. 1 \in DOMAIN commandPort /\ commandPort[1] \in Messages
    BY PortTail DEF IInv, TypeOK
  <2>2. commandPort[1].sem \in {"main", "emu", "none"}
    BY <2>1 DEF Messages, Threads
  <2> QED BY <2>1, <2>2 DEF IInv, PortInv, RepliesReachTheirWaiter
<1> QED BY <1>1, Invariance, PTL

\* Frames have one delegate, and none is left behind.
THEOREM FrameDelegateStaysOne == Spec => []OneFrameDelegate
<1>1. IInv => OneFrameDelegate
  BY DEF IInv, DelegateInv
<1> QED BY <1>1, Invariance, PTL

\* Only the end of the context that owns the task wakes the emulation thread.
THEOREM OutermostResumes == Spec => OnlyOutermostResumes
<1>1. IInv /\ [Next]_taskVars
        => [suspendSem' > suspendSem => Owns(contexts) /\ ~Owns(contexts')]_taskVars
  <2> SUFFICES ASSUME IInv, Next, suspendSem' > suspendSem
               PROVE  Owns(contexts) /\ ~Owns(contexts')
    OBVIOUS
  <2>1. EndContext \/ suspendSem' = suspendSem \/ Resumed
    BY DEF Next, MainNext, EmuNext, Handle, Start, StartReturn,
       SuspendNothing, Suspend, SetWindow, ReplyReceived, UpdateScreenFrameRate, Stop,
       StopReturn, MainFrameBegin, MainFrameEnd, EmuInit, HandleSuspend, HandleSetWindow,
       HandleExit, EmuFrameBegin, EmuFrameEnd, EmuFrameRequest
  <2>2. EndContext
    BY <2>1 DEF Resumed, IInv, TypeOK
  <2>3. contexts[Len(contexts)]
    BY <2>2 DEF EndContext, IInv, TypeOK
  <2> QED BY <2>2, <2>3, PopContext DEF EndContext, IInv, TypeOK, SuspendInv
<1> QED BY <1>1, Invariance, PTL DEF Spec, OnlyOutermostResumes

-----------------------------------------------------------------------------
(* Nobody waits in vain. *)

\* Why each wait ends: a parked thread is owned or about to be woken, a joined
\* thread was told to exit, and each command stays in the pipe until its answer.
ServeInv ==
    /\ mainPc = "starting" => emuPc = "init" \/ startSem > 0
    /\ emuPc = "suspended" => isSuspended \/ suspendSem > 0
    /\ emuPc = "selfWait" => RequestInFrame
    /\ mainPc = "awaitReply" /\ replySem["main"] = 0 => Posted("main")
    /\ mainPc = "joining" => emuPc = "exited" \/ (started /\ Posted("none"))
    /\ mainPc = "joining" /\ Owns(contexts) => CloseInContext

\* A sent command is in the pipe, and those that were there stay.
LEMMA PostedAppend ==
    ASSUME NEW port \in Seq(Messages), NEW m \in Messages, commandPort = port,
           commandPort' = Append(port, m)
    PROVE  Posted(m.sem)' /\ \A t : Posted(t) => Posted(t)'
BY PortAppend DEF Posted

LEMMA ServeStart == Init => ServeInv
BY DEF Init, ServeInv

LEMMA ServeMain == ASSUME IInv, IInv', ServeInv, MainNext PROVE ServeInv'
<1> USE DEF IInv, ServeInv
<1>1. ASSUME NEW w \in Windows, Start(w) PROVE ServeInv'
  BY <1>1 DEF Start
<1>2. CASE StartReturn
  BY <1>2 DEF StartReturn
<1>3. CASE SuspendNothing
  BY <1>3 DEF SuspendNothing
<1>4. CASE Suspend
  <2> DEFINE m == [command |-> "suspend", win |-> NoWindow, sem |-> "main"]
  <2>1. m \in Messages /\ commandPort' = Append(commandPort, m)
    BY <1>4 DEF Messages, Threads, Suspend, SendWait
  <2>2. Posted("main")'
    BY <2>1, PostedAppend DEF TypeOK
  <2> QED BY <1>4, <2>2 DEF Suspend
<1>5. ASSUME NEW w \in Windows, SetWindow(w) PROVE ServeInv'
  <2> DEFINE m == [command |-> "setWindow", win |-> w, sem |-> "main"]
  <2>1. m \in Messages /\ commandPort' = Append(commandPort, m)
    BY <1>5 DEF Messages, Threads, SetWindow, SendWait
  <2>2. Posted("main")'
    BY <2>1, PostedAppend DEF TypeOK
  <2> QED BY <1>5, <2>2 DEF SetWindow
<1>6. CASE ReplyReceived
  BY <1>6 DEF ReplyReceived
<1>7. CASE EndContext
  BY <1>7 DEF EndContext, TypeOK
<1>8. CASE UpdateScreenFrameRate
  BY <1>8 DEF UpdateScreenFrameRate
<1>9. CASE Stop
  <2> DEFINE m == [command |-> "exit", win |-> NoWindow, sem |-> "none"]
  <2>1. m \in Messages /\ commandPort' = Append(commandPort, m)
    BY <1>9 DEF Messages, Stop
  <2>2. Posted("none")'
    BY <2>1, PostedAppend DEF TypeOK
  <2> QED BY <1>9, <2>2 DEF Stop
<1>10. CASE StopReturn
  BY <1>10 DEF StopReturn
<1>11. CASE MainFrameBegin
  BY <1>11 DEF MainFrameBegin
<1>12. CASE MainFrameEnd
  BY <1>12 DEF MainFrameEnd
<1> QED BY <1>1, <1>2, <1>3, <1>4, <1>5, <1>6, <1>7, <1>8, <1>9, <1>10, <1>11, <1>12
        DEF MainNext

LEMMA ServeEmu == ASSUME IInv, IInv', ServeInv, EmuNext PROVE ServeInv'
<1> USE DEF IInv, ServeInv
<1>1. CASE EmuInit
  BY <1>1 DEF EmuInit, TypeOK, StartInv
<1>2. CASE HandleSuspend
  <2>1. /\ mainPc = "awaitReply" /\ Head(commandPort).sem = "main"
        /\ replySem["main"] = 0
    BY <1>2, OneCommand DEF HandleSuspend, Receive
  <2>2. replySem'["main"] = 1
    BY <1>2, <2>1 DEF HandleSuspend, Reply, TypeOK, Threads
  <2> QED BY <1>2, <2>1, <2>2 DEF HandleSuspend
<1>3. CASE HandleSetWindow
  <2>1. /\ mainPc = "awaitReply" /\ Head(commandPort).sem = "main"
        /\ replySem["main"] = 0
    BY <1>3, OneCommand DEF HandleSetWindow, Receive
  <2>2. replySem'["main"] = 1
    BY <1>3, <2>1 DEF HandleSetWindow, Reply, TypeOK, Threads
  <2> QED BY <1>3, <2>1, <2>2 DEF HandleSetWindow
<1>4. CASE HandleExit
  <2>1. mainPc = "joining"
    BY <1>4, OneCommand DEF HandleExit, Receive
  <2> QED BY <1>4, <2>1 DEF HandleExit
<1>5. CASE Resumed
  BY <1>5 DEF Resumed, Posted
<1>6. CASE EmuFrameBegin
  BY <1>6 DEF EmuFrameBegin, Posted
<1>7. CASE EmuFrameEnd
  BY <1>7 DEF EmuFrameEnd, Posted
<1>8. CASE EmuFrameRequest
  <2> DEFINE m == [command |-> "suspend", win |-> NoWindow, sem |-> "emu"]
  <2>1. m \in Messages /\ commandPort' = Append(commandPort, m)
    BY <1>8 DEF Messages, Threads, EmuFrameRequest, SendWait
  <2>2. \A t : Posted(t) => Posted(t)'
    BY <2>1, PostedAppend DEF TypeOK
  <2>3. replySem'["main"] = replySem["main"]
    BY <1>8 DEF EmuFrameRequest, SendWait, TypeOK, Threads
  <2> QED BY <1>8, <2>2, <2>3 DEF EmuFrameRequest
<1> QED BY <1>1, <1>2, <1>3, <1>4, <1>5, <1>6, <1>7, <1>8 DEF EmuNext, Handle

\* Each wait keeps its reason to end.
THEOREM WaitInvariance == Spec => []ServeInv
<1>1. IInv /\ IInv' /\ ServeInv /\ [Next]_taskVars => ServeInv'
  <2>1. ASSUME ServeInv, UNCHANGED taskVars PROVE ServeInv'
    BY <2>1 DEF taskVars, ServeInv, Posted
  <2> QED BY <2>1, ServeMain, ServeEmu DEF Next
<1> QED BY ServeStart, <1>1, Invariance, PTL DEF Spec

\* The main thread waits only for a thread that will answer: a request of a frame
\* and a close inside a context are the only ways in which the two can block.
THEOREM WaitsServed == Spec => []WaitsAreServed
<1>1. IInv /\ ServeInv => WaitsAreServed
  <2> SUFFICES ASSUME IInv, ServeInv PROVE WaitsAreServed
    OBVIOUS
  <2>1. emuPc = "suspended" => Owns(contexts) \/ replySem["main"] = 1 \/ suspendSem > 0
    BY DEF IInv, ServeInv, SuspendInv
  <2>2. started => ReachesItsLoop \/ emuPc \in {"suspended", "selfWait"}
    BY DEF IInv, LifeInv, ReachesItsLoop
  <2>3. CASE mainPc = "starting"
    BY <2>3 DEF ServeInv, WaitsAreServed
  <2>4. CASE mainPc = "awaitReply" /\ replySem["main"] = 0
    BY <2>1, <2>2, <2>4 DEF IInv, LifeInv, SuspendInv, ServeInv, ReachesItsLoop, WaitsAreServed
  <2>5. CASE mainPc = "joining" /\ emuPc # "exited"
    <3>1. replySem["main"] = 0
      BY <2>5 DEF IInv, TypeOK, PortInv, RepliesReachTheirWaiter, Threads
    <3> QED BY <2>1, <2>2, <2>5, <3>1 DEF ServeInv, ReachesItsLoop, WaitsAreServed
  <2> QED BY <2>3, <2>4, <2>5 DEF WaitsAreServed
<1> QED BY <1>1, Invariance, WaitInvariance, PTL

-----------------------------------------------------------------------------
(* EmuSystemTask implements SystemAccess. *)

\* Every step is a step of SystemAccess or changes nothing it can see.
LEMMA StepSimulates ==
    ASSUME IInv, [Next]_taskVars
    PROVE  [Access!Next]_(Access!vars)
<1> DEFINE Same == /\ started' = started
                   /\ FrameRunning' <=> FrameRunning
                   /\ Owns(contexts)' <=> Owns(contexts)
<1>0. Same => UNCHANGED Access!vars
  BY DEF Access!vars, FrameRunning, Owns
<1>1. CASE \/ \E w \in Windows : Start(w) \/ SetWindow(w)
           \/ StartReturn \/ Suspend \/ Stop \/ StopReturn \/ HandleSuspend
           \/ HandleSetWindow \/ Resumed \/ EmuFrameRequest \/ UpdateScreenFrameRate
  <2>1. contexts' = contexts /\ started' = started /\ (FrameRunning' <=> FrameRunning)
    BY <1>1 DEF IInv, LifeInv, FrameRunning, Start, SetWindow, StartReturn, Suspend,
       Stop, StopReturn, HandleSuspend, HandleSetWindow, Resumed, EmuFrameRequest,
       UpdateScreenFrameRate, Receive
  <2> QED BY <2>1, <1>0 DEF Owns
<1>2. CASE SuspendNothing
  <2>1. Owns(contexts)' <=> Owns(contexts)
    BY <1>2, PushContext DEF SuspendNothing, IInv, TypeOK
  <2> QED BY <1>2, <2>1, <1>0 DEF SuspendNothing, FrameRunning
<1>3. CASE EmuInit
  <2>1. Access!GoLive
    BY <1>3 DEF EmuInit, Access!GoLive, IInv, StartInv, FrameRunning, Owns
  <2> QED BY <2>1 DEF Access!Next
<1>4. CASE ReplyReceived
  <2>1. ~Owns(contexts) /\ replySem["main"] = 1 /\ mainPc = "awaitReply"
    BY <1>4 DEF ReplyReceived, IInv, TypeOK, SuspendInv, Threads
  <2>2. emuPc = "suspended" /\ started
    BY <2>1 DEF IInv, LifeInv, SuspendInv
  <2>3. Owns(contexts)'
    BY <1>4, PushContext DEF ReplyReceived, IInv, TypeOK
  <2>4. started' = started /\ ~FrameRunning /\ ~FrameRunning'
    BY <1>4, <2>1, <2>2 DEF ReplyReceived, FrameRunning
  <2>5. Access!EnterContext
    BY <2>1, <2>2, <2>3, <2>4 DEF Access!EnterContext, FrameRunning, Owns
  <2> QED BY <2>5 DEF Access!Next
<1>5. CASE EndContext
  <2>1. started' = started /\ (FrameRunning' <=> FrameRunning)
    BY <1>5 DEF EndContext, FrameRunning
  <2>2. contexts[Len(contexts)] \in BOOLEAN
    BY <1>5 DEF EndContext, IInv, TypeOK
  <2>3. CASE contexts[Len(contexts)]
    <3>1. Owns(contexts) /\ ~Owns(contexts)'
      BY <1>5, <2>3, PopContext DEF EndContext, IInv, TypeOK, SuspendInv
    <3> QED BY <2>1, <3>1 DEF Access!Next, Access!LeaveContext, FrameRunning, Owns
  <2>4. CASE ~contexts[Len(contexts)]
    <3>1. Owns(contexts)' <=> Owns(contexts)
      BY <1>5, <2>4, PopContext DEF EndContext, IInv, TypeOK, SuspendInv
    <3> QED BY <2>1, <3>1, <1>0
  <2> QED BY <2>2, <2>3, <2>4
<1>6. CASE HandleExit
  <2>1. emuPc = "loop" /\ mainPc = "joining"
    BY <1>6, OneCommand DEF HandleExit, Receive
  <2>2. started /\ ~FrameRunning /\ ~Owns(contexts)
    BY <2>1 DEF IInv, LifeInv, SuspendInv, FrameRunning
  <2>3. started' = FALSE /\ ~FrameRunning' /\ contexts' = contexts
    BY <1>6, <2>1 DEF HandleExit, FrameRunning
  <2> QED BY <2>2, <2>3 DEF Access!Next, Access!GoDown, FrameRunning, Owns
<1>7. CASE EmuFrameBegin \/ MainFrameBegin
  <2>1. started /\ ~FrameRunning /\ ~Owns(contexts)
    BY <1>7, DelegatesOfRunningThread
       DEF EmuFrameBegin, MainFrameBegin, IInv, LifeInv, SuspendInv, FrameRunning, Owns
  <2>2. FrameRunning' /\ contexts' = contexts /\ started' = started
    BY <1>7 DEF EmuFrameBegin, MainFrameBegin, FrameRunning
  <2> QED BY <2>1, <2>2 DEF Access!Next, Access!BeginFrame, Owns
<1>8. CASE EmuFrameEnd \/ MainFrameEnd
  <2>1. FrameRunning /\ ~FrameRunning' /\ contexts' = contexts /\ started' = started
    BY <1>8 DEF EmuFrameEnd, MainFrameEnd, IInv, LifeInv, FrameRunning
  <2> QED BY <2>1 DEF Access!Next, Access!EndFrame, Owns
<1>9. CASE UNCHANGED taskVars
  BY <1>9, <1>0 DEF taskVars, FrameRunning, Owns
<1> QED
  BY <1>1, <1>2, <1>3, <1>4, <1>5, <1>6, <1>7, <1>8, <1>9
  DEF Next, MainNext, EmuNext, Handle

\* The task gives exclusive use of the system to frames and contexts in turn.
THEOREM Implements == Spec => ImplementsAccess
<1>1. Init => Access!Init
  BY DEF Init, Access!Init, FrameRunning, Owns
<1> QED BY <1>1, StepSimulates, Invariance, PTL DEF Spec, ImplementsAccess, Access!Spec
=============================================================================
