------------------------ MODULE EmuDisplayPaceProofs ------------------------
(***************************************************************************)
(* Whoever waits for a draw is answered by that draw alone, and the draws  *)
(* of the main window do not pile up, for every length of the renderer's   *)
(* pipe.                                                                   *)
(***************************************************************************)
EXTENDS Integers, EmuDisplayProofs

\* Who can wait for a draw when.
BlockInv ==
    /\ ~hasExtra => \A i \in DOMAIN queue : queue[i].win = Main
    /\ framePc = "drawWait" => ~hasExtra
    /\ uiPc = "drawWait" /\ running => hasExtra \/ FrameThread = "main"
    /\ uiPc = "drawWait" /\ framePc # "idle" => FrameThread = "emu"

\* Nobody draws the main window while someone waits for a draw.
PendingIsLast ==
    \A i, j \in DOMAIN queue : WillReply(i) /\ i < j => queue[j].win = Extra

ReplyInv == DrawRepliesReachTheirWaiter /\ BlockInv /\ PendingIsLast

-----------------------------------------------------------------------------
(* Who waits, and what a step can do about it. *)

\* Only the main thread's event loop posts draws of the user interface, and it
\* runs only while the thread waits for nothing.
LEMMA FreeWaitsNot == MainFree => ~WaitsForDraw("main")
BY DEF MainFree, WaitsForDraw

LEMMA BlockStart == Init => ReplyInv
<1> SUFFICES ASSUME Init PROVE ReplyInv
  OBVIOUS
<1>1. DOMAIN queue = {} /\ \A t : ~WaitsForDraw(t)
  BY DEF Init, WaitsForDraw
<1> QED BY <1>1 DEF Init, ReplyInv, DrawRepliesReachTheirWaiter, BlockInv, PendingIsLast

\* A step that leaves the pipe alone, and with it who waits, keeps the replies.
LEMMA RepliesSame ==
    ASSUME ReplyInv, UNCHANGED <<queue, replies, uiPc>>,
           \A i \in DOMAIN queue : WillReply(i) <=> WillReply(i)',
           \A t \in Threads : WaitsForDraw(t) <=> WaitsForDraw(t)',
           replies \subseteq Threads, \A i \in DOMAIN queue : queue[i].by \in Threads
    PROVE  DrawRepliesReachTheirWaiter' /\ PendingIsLast'
<1>1. DrawRepliesReachTheirWaiter'
  BY DEF ReplyInv, DrawRepliesReachTheirWaiter
<1>2. PendingIsLast'
  BY DEF ReplyInv, PendingIsLast
<1> QED BY <1>1, <1>2

LEMMA QueueTyped ==
    ASSUME TypeOK
    PROVE  /\ replies \subseteq Threads
           /\ \A i \in DOMAIN queue : queue[i] \in Draws
           /\ \A i \in DOMAIN queue : queue[i].by \in Threads /\ queue[i].win \in Windows
<1>1. replies \subseteq Threads /\ queue \in Seq(Draws)
  BY DEF TypeOK
<1>2. \A i \in DOMAIN queue : queue[i] \in Draws
  BY <1>1
<1>3. \A d \in Draws : d.by \in Threads /\ d.win \in Windows
  BY DEF Draws
<1> QED BY <1>1, <1>2, <1>3

\* The steps that neither post, draw nor acknowledge a draw.
QuietNext ==
    \/ Start \/ BeginStop \/ FinishStop \/ AddExtra \/ DismissExtra
    \/ BeginFrame \/ EndFrame \/ RenderBegin \/ RenderPresented
    \/ \E w \in Windows : PostDraw(w)

LEMMA QuietKeepsReplies ==
    ASSUME DisplayInv, ReplyInv, QuietNext
    PROVE  DrawRepliesReachTheirWaiter' /\ PendingIsLast'
<1> USE DEF viewVars, taskVars, winVars, waitVars, renderVars
<1>0. ModeInv /\ TypeOK
  BY DEF DisplayInv
<1>1. UNCHANGED <<queue, replies, uiPc>>
  BY DEF QuietNext, Start, StartTask, BeginStop, FinishStop, AddExtra, DismissExtra, BeginFrame,
     EndFrame, RenderBegin, RenderPresented, PostDraw
<1>2. \A i \in DOMAIN queue : WillReply(i) <=> WillReply(i)'
  BY <1>1 DEF QuietNext, Start, StartTask, BeginStop, FinishStop, AddExtra, DismissExtra,
     BeginFrame, EndFrame, RenderBegin, RenderPresented, PostDraw, WillReply
<1>3. framePc = "drawWait" <=> framePc' = "drawWait"
  BY DEF QuietNext, Start, StartTask, BeginStop, FinishStop, AddExtra, DismissExtra, BeginFrame,
     EndFrame, RenderBegin, RenderPresented, PostDraw
<1>4. framePc = "drawWait" => FrameThread' = FrameThread
  BY <1>0 DEF QuietNext, Start, StartTask, BeginStop, FinishStop, AddExtra, DismissExtra,
     BeginFrame, EndFrame, RenderBegin, RenderPresented, PostDraw, ModeInv, FrameThread
<1>5. \A t \in Threads : WaitsForDraw(t) <=> WaitsForDraw(t)'
  BY <1>1, <1>3, <1>4 DEF WaitsForDraw
<1> QED BY <1>0, <1>1, <1>2, <1>5, QueueTyped, RepliesSame

-----------------------------------------------------------------------------
(* Draws are posted and acknowledged. *)

\* A draw posted by a thread that does not wait yet and then does if it must.
LEMMA RepliesPosted ==
    ASSUME DisplayInv, ReplyInv,
           NEW w \in Windows, NEW t \in Threads, Draw(w, t), UNCHANGED <<stage, replies>>,
           ~WaitsForDraw(t),
           WaitsForDraw(t)' <=> AsyncMode(w) = "present",
           \A u \in Threads : u # t => (WaitsForDraw(u) <=> WaitsForDraw(u)')
    PROVE  DrawRepliesReachTheirWaiter'
<1> DEFINE d == [win |-> w, by |-> t, mode |-> AsyncMode(w)]
<1>0. PICK n \in Nat : n = Len(queue) + 1
  BY DEF DisplayInv, TypeOK
<1>1. d \in Draws /\ queue \in Seq(Draws) /\ queue' = Append(queue, d)
  BY ModeIsOne DEF Draws, DisplayInv, TypeOK, Draw
<1>2. d.by = t /\ d.mode = AsyncMode(w)
  OBVIOUS
<1> HIDE DEF d
<1>3. /\ DOMAIN queue' = 1..n /\ DOMAIN queue = 1..Len(queue) /\ Len(queue) \in Nat
      /\ \A i \in DOMAIN queue : queue'[i] = queue[i]
      /\ queue'[n] = d
      /\ n = Len(queue) + 1 /\ n \in DOMAIN queue'
      /\ \A i \in DOMAIN queue' : i = n \/ i \in DOMAIN queue
      /\ \A i \in DOMAIN queue : i \in DOMAIN queue' /\ i < n
  BY <1>0, <1>1, Posted
<1>4. \A i \in DOMAIN queue : WillReply(i)' <=> WillReply(i)
  BY <1>3 DEF WillReply
<1>5. n = 1 => stage = "idle"
  <2>1. n = 1 => queue = << >>
    BY <1>0, <1>1, <1>3
  <2> QED BY <2>1 DEF DisplayInv, ModeInv, TypeOK
<1>6. WillReply(n)' <=> AsyncMode(w) = "present"
  BY <1>2, <1>3, <1>5 DEF WillReply
<1>7. t \notin replies /\ \A i \in DOMAIN queue : WillReply(i) => queue[i].by # t
  BY DEF ReplyInv, DrawRepliesReachTheirWaiter
<1>8. \A i \in DOMAIN queue : queue[i].by \in Threads
  BY QueueTyped DEF DisplayInv
<1>9. ASSUME NEW u \in replies' PROVE WaitsForDraw(u)'
  <2>1. u \in replies /\ WaitsForDraw(u) /\ u \in Threads
    BY <1>9, QueueTyped DEF ReplyInv, DrawRepliesReachTheirWaiter, DisplayInv
  <2> QED BY <1>7, <2>1
<1>10. ASSUME NEW i \in DOMAIN queue', WillReply(i)'
       PROVE  WaitsForDraw(queue[i].by)' /\ queue'[i].by \notin replies'
  <2>0. PICK u : u = queue'[i].by
    OBVIOUS
  <2>1. CASE i = n
    <3>1. u = t /\ WaitsForDraw(t)'
      BY <1>2, <1>3, <1>6, <1>10, <2>0, <2>1
    <3> QED BY <1>7, <2>0, <3>1
  <2>2. CASE i \in DOMAIN queue
    <3>1. WillReply(i) /\ u = queue[i].by
      BY <1>3, <1>4, <1>10, <2>0, <2>2
    <3>2. WaitsForDraw(u) /\ u \notin replies /\ u # t /\ u \in Threads
      BY <1>7, <1>8, <2>2, <3>1 DEF ReplyInv, DrawRepliesReachTheirWaiter
    <3>3. WaitsForDraw(u)'
      BY <3>2
    <3> QED BY <2>0, <3>2, <3>3
  <2> QED BY <1>3, <2>1, <2>2
<1>11. ASSUME NEW i \in DOMAIN queue', NEW j \in DOMAIN queue', WillReply(i)', WillReply(j)',
              queue'[i].by = queue'[j].by
       PROVE  i = j
  <2>1. CASE i \in DOMAIN queue /\ j \in DOMAIN queue
    <3>1. WillReply(i) /\ WillReply(j) /\ queue[i].by = queue[j].by
      BY <1>3, <1>4, <1>11, <2>1
    <3> QED BY <2>1, <3>1 DEF ReplyInv, DrawRepliesReachTheirWaiter
  <2>2. CASE i = n /\ j \in DOMAIN queue
    BY <1>2, <1>3, <1>4, <1>7, <1>11, <2>2
  <2>3. CASE j = n /\ i \in DOMAIN queue
    BY <1>2, <1>3, <1>4, <1>7, <1>11, <2>3
  <2> QED BY <1>3, <2>1, <2>2, <2>3
<1>12. ASSUME NEW u \in Threads, WaitsForDraw(u)'
       PROVE  u \in replies' \/ \E i \in DOMAIN queue' : WillReply(i)' /\ queue'[i].by = u
  <2>1. CASE u = t
    <3>1. n \in DOMAIN queue' /\ WillReply(n)' /\ queue'[n].by = u
      BY <1>2, <1>3, <1>6, <1>12, <2>1
    <3> QED BY <3>1
  <2>2. CASE u # t
    <3>1. WaitsForDraw(u)
      BY <1>12, <2>2
    <3>2. CASE u \in replies
      BY <3>2
    <3>3. ASSUME NEW i \in DOMAIN queue, WillReply(i), queue[i].by = u
          PROVE  i \in DOMAIN queue' /\ WillReply(i)' /\ queue'[i].by = u
      BY <1>3, <1>4, <3>3
    <3> QED BY <3>1, <3>2, <3>3 DEF ReplyInv, DrawRepliesReachTheirWaiter
  <2> QED BY <2>1, <2>2
<1> QED BY <1>9, <1>10, <1>11, <1>12 DEF DrawRepliesReachTheirWaiter

\* The order of the pipe: a draw of the main window is posted only when nobody
\* waits for a draw.
LEMMA LastPosted ==
    ASSUME DisplayInv, ReplyInv,
           NEW w \in Windows, NEW t \in Threads, Draw(w, t), UNCHANGED stage,
           w = Extra \/ \A u \in Threads : ~WaitsForDraw(u)
    PROVE  PendingIsLast'
<1> DEFINE d == [win |-> w, by |-> t, mode |-> AsyncMode(w)]
<1>0. PICK n \in Nat : n = Len(queue) + 1
  BY DEF DisplayInv, TypeOK
<1>1. d \in Draws /\ queue \in Seq(Draws) /\ queue' = Append(queue, d)
  BY ModeIsOne DEF Draws, DisplayInv, TypeOK, Draw
<1>2. d.win = w
  OBVIOUS
<1> HIDE DEF d
<1>3. /\ DOMAIN queue' = 1..n /\ DOMAIN queue = 1..Len(queue) /\ Len(queue) \in Nat
      /\ \A i \in DOMAIN queue : queue'[i] = queue[i]
      /\ queue'[n] = d
      /\ n = Len(queue) + 1 /\ n \in DOMAIN queue'
      /\ \A i \in DOMAIN queue' : i = n \/ i \in DOMAIN queue
      /\ \A i \in DOMAIN queue : i \in DOMAIN queue' /\ i < n
  BY <1>0, <1>1, Posted
<1>4. \A i \in DOMAIN queue : WillReply(i)' <=> WillReply(i)
  BY <1>3 DEF WillReply
<1> SUFFICES ASSUME NEW i \in DOMAIN queue', NEW j \in DOMAIN queue', WillReply(i)', i < j
             PROVE  queue'[j].win = Extra
  BY DEF PendingIsLast
<1>5. i \in DOMAIN queue /\ WillReply(i)
  BY <1>3, <1>4
<1>6. CASE j \in DOMAIN queue
  BY <1>3, <1>5, <1>6 DEF ReplyInv, PendingIsLast
<1>7. CASE j = n
  <2>1. WaitsForDraw(queue[i].by) /\ queue[i].by \in Threads
    BY <1>5, QueueTyped DEF ReplyInv, DrawRepliesReachTheirWaiter, DisplayInv
  <2> QED BY <1>2, <1>3, <1>7, <2>1
<1> QED BY <1>3, <1>6, <1>7

LEMMA UIDrawKeepsReplies ==
    ASSUME DisplayInv, ReplyInv, NEW w \in Windows, UIDraw(w)
    PROVE  DrawRepliesReachTheirWaiter' /\ PendingIsLast'
<1> USE DEF viewVars, taskVars, winVars, waitVars, renderVars
<1>1. /\ "main" \in Threads /\ MainFree /\ Draw(w, "main") /\ UNCHANGED <<stage, replies>>
      /\ w \in Existing /\ evThread[w] = "main"
      /\ UNCHANGED <<framePc, hasExtra, emuWin, evThread, running>>
      /\ uiPc' = IF AsyncMode(w) = "present" THEN "drawWait" ELSE "idle"
  BY DEF UIDraw, Threads
<1>2. ~WaitsForDraw("main")
  BY <1>1, FreeWaitsNot
<1>3. WaitsForDraw("main")' <=> AsyncMode(w) = "present"
  BY <1>1, <1>2 DEF WaitsForDraw, FrameThread
<1>4. \A u \in Threads : u # "main" => (WaitsForDraw(u) <=> WaitsForDraw(u)')
  BY <1>1 DEF WaitsForDraw, FrameThread
<1>5. w = Extra \/ \A u \in Threads : ~WaitsForDraw(u)
  <2> SUFFICES ASSUME w = Main, NEW u \in Threads, u = "emu", WaitsForDraw(u) PROVE FALSE
    BY <1>2 DEF Windows, Threads
  <2>1. framePc = "drawWait" /\ FrameThread = "emu"
    BY DEF WaitsForDraw
  <2>2. emuWin = Main
    BY <2>1 DEF ReplyInv, BlockInv, DisplayInv, ModeInv
  <2> QED BY <1>1, <2>1, <2>2 DEF FrameThread
<1> QED BY <1>1, <1>2, <1>3, <1>4, <1>5, RepliesPosted, LastPosted

LEMMA DrawFrameKeepsReplies ==
    ASSUME DisplayInv, ReplyInv, DrawFrame
    PROVE  DrawRepliesReachTheirWaiter' /\ PendingIsLast'
<1> USE DEF viewVars, taskVars, winVars, waitVars, renderVars
<1>1. /\ Draw(emuWin, FrameThread) /\ UNCHANGED <<stage, replies>>
      /\ UNCHANGED <<uiPc, hasExtra, emuWin, evThread, running>>
      /\ framePc = "draw"
      /\ framePc' = IF AsyncMode(emuWin) = "present" THEN "drawWait" ELSE "drawn"
  BY DEF DrawFrame
<1>2. emuWin \in Windows /\ FrameThread \in Threads /\ FrameThread' = FrameThread
  BY <1>1, EmuWindow DEF DisplayInv, FrameThread
<1>3. uiPc = "drawWait" => FrameThread = "emu"
  BY <1>1 DEF ReplyInv, BlockInv
<1>4. ~WaitsForDraw(FrameThread)
  BY <1>1, <1>3 DEF WaitsForDraw
<1>5. WaitsForDraw(FrameThread)' <=> AsyncMode(emuWin) = "present"
  BY <1>1, <1>2, <1>3 DEF WaitsForDraw
<1>6. \A u \in Threads : u # FrameThread => (WaitsForDraw(u) <=> WaitsForDraw(u)')
  BY <1>1, <1>2 DEF WaitsForDraw
<1>7. emuWin = Extra \/ \A u \in Threads : ~WaitsForDraw(u)
  BY <1>1, <1>3 DEF WaitsForDraw, ReplyInv, BlockInv, DisplayInv, ModeInv
<1> QED BY <1>1, <1>2, <1>4, <1>5, <1>6, <1>7, RepliesPosted, LastPosted

\* A thread takes the release of its draw and goes on.
LEMMA RepliesTaken ==
    ASSUME TypeOK, ReplyInv, UNCHANGED <<queue, stage>>,
           NEW t \in Threads, t \in replies, replies' = replies \ {t}, ~WaitsForDraw(t)',
           \A u \in Threads : u # t => (WaitsForDraw(u) <=> WaitsForDraw(u)')
    PROVE  DrawRepliesReachTheirWaiter' /\ PendingIsLast'
<1>1. \A i \in DOMAIN queue : WillReply(i) <=> WillReply(i)'
  BY DEF WillReply
<1>2. \A i \in DOMAIN queue : WillReply(i) => queue[i].by # t /\ queue[i].by \in Threads
  BY QueueTyped DEF ReplyInv, DrawRepliesReachTheirWaiter
<1>3. \A u \in replies' : WaitsForDraw(u)'
  BY QueueTyped DEF ReplyInv, DrawRepliesReachTheirWaiter
<1>4. ASSUME NEW i \in DOMAIN queue', WillReply(i)'
      PROVE  WaitsForDraw(queue[i].by)' /\ queue'[i].by \notin replies'
  <2>1. PICK u : u = queue[i].by
    OBVIOUS
  <2>2. WaitsForDraw(u) /\ u \notin replies /\ u # t /\ u \in Threads
    BY <1>1, <1>2, <1>4, <2>1 DEF ReplyInv, DrawRepliesReachTheirWaiter
  <2>3. WaitsForDraw(u)'
    BY <2>2
  <2> QED BY <2>1, <2>2, <2>3
<1>5. ASSUME NEW u \in Threads, WaitsForDraw(u)'
      PROVE  u \in replies' \/ \E i \in DOMAIN queue' : WillReply(i)' /\ queue'[i].by = u
  <2>1. WaitsForDraw(u) /\ u # t
    BY <1>5
  <2> QED BY <1>1, <2>1 DEF ReplyInv, DrawRepliesReachTheirWaiter
<1>6. \A i, j \in DOMAIN queue' :
          WillReply(i)' /\ WillReply(j)' /\ queue'[i].by = queue'[j].by => i = j
  BY <1>1 DEF ReplyInv, DrawRepliesReachTheirWaiter
<1>7. PendingIsLast'
  BY <1>1 DEF ReplyInv, PendingIsLast
<1> QED BY <1>3, <1>4, <1>5, <1>6, <1>7 DEF DrawRepliesReachTheirWaiter

LEMMA AcknowledgeKeepsReplies ==
    ASSUME DisplayInv, ReplyInv, UIDrawn \/ FrameDrawn
    PROVE  DrawRepliesReachTheirWaiter' /\ PendingIsLast'
<1> USE DEF viewVars, taskVars, winVars, waitVars, renderVars
<1>0. TypeOK /\ FrameThread \in Threads
  BY EmuWindow DEF DisplayInv
<1>1. UNCHANGED <<queue, stage, emuWin, evThread>> /\ FrameThread' = FrameThread
  BY DEF UIDrawn, FrameDrawn, FrameThread
<1>2. CASE UIDrawn
  <2>1. /\ "main" \in Threads /\ "main" \in replies /\ replies' = replies \ {"main"}
        /\ uiPc = "drawWait" /\ uiPc' = "idle" /\ framePc' = framePc
    BY <1>2 DEF UIDrawn, Threads
  <2>2. ~WaitsForDraw("main")'
    BY <1>1, <2>1 DEF WaitsForDraw, ReplyInv, BlockInv
  <2>3. \A u \in Threads : u # "main" => (WaitsForDraw(u) <=> WaitsForDraw(u)')
    BY <1>1, <2>1 DEF WaitsForDraw
  <2> QED BY <1>0, <1>1, <2>1, <2>2, <2>3, RepliesTaken
<1>3. CASE FrameDrawn
  <2>1. PICK t \in Threads : t = FrameThread
    BY <1>0
  <2>2. /\ t \in replies /\ replies' = replies \ {t}
        /\ framePc = "drawWait" /\ framePc' = "drawn" /\ uiPc' = uiPc
    BY <1>3, <2>1 DEF FrameDrawn
  <2>3. ~WaitsForDraw(t)'
    BY <1>1, <2>1, <2>2 DEF WaitsForDraw, ReplyInv, BlockInv
  <2>4. \A u \in Threads : u # t => (WaitsForDraw(u) <=> WaitsForDraw(u)')
    BY <1>1, <2>1, <2>2 DEF WaitsForDraw
  <2> QED BY <1>0, <1>1, <2>1, <2>2, <2>3, <2>4, RepliesTaken
<1> QED BY <1>2, <1>3

LEMMA DrawnKeepsReplies ==
    ASSUME DisplayInv, ReplyInv, RenderDrawn
    PROVE  DrawRepliesReachTheirWaiter' /\ PendingIsLast'
<1> USE DEF viewVars, taskVars, winVars, waitVars, renderVars
<1>1. /\ stage = "drawing" /\ stage' = "presenting"
      /\ UNCHANGED <<queue, emuWin, evThread, framePc, uiPc>>
      /\ replies' = IF Head(queue).mode = "present" THEN replies \union {Head(queue).by}
                    ELSE replies
  BY DEF RenderDrawn
<1>2. /\ queue \in Seq(Draws) /\ queue # << >>
      /\ 1 \in DOMAIN queue /\ Head(queue) = queue[1]
  BY <1>1, Carried DEF DisplayInv, TypeOK, ModeInv
<1>3. \A t : WaitsForDraw(t) <=> WaitsForDraw(t)'
  BY <1>1 DEF WaitsForDraw, FrameThread
<1>4. \A i \in DOMAIN queue : WillReply(i)' <=> WillReply(i) /\ i # 1
  BY <1>1 DEF WillReply
<1>5. WillReply(1) <=> queue[1].mode = "present"
  BY <1>1 DEF WillReply
<1>6. replies' = IF WillReply(1) THEN replies \union {queue[1].by} ELSE replies
  BY <1>1, <1>2, <1>5
<1>7. \A u \in replies' : WaitsForDraw(u)'
  BY <1>2, <1>3, <1>6 DEF ReplyInv, DrawRepliesReachTheirWaiter
<1>8. ASSUME NEW i \in DOMAIN queue', WillReply(i)'
      PROVE  WaitsForDraw(queue[i].by)' /\ queue'[i].by \notin replies'
  <2>1. PICK u : u = queue[i].by
    OBVIOUS
  <2>2. WillReply(i) /\ i # 1 /\ i \in DOMAIN queue
    BY <1>1, <1>4, <1>8
  <2>3. WaitsForDraw(u) /\ u \notin replies /\ (WillReply(1) => queue[1].by # u)
    BY <1>2, <2>1, <2>2 DEF ReplyInv, DrawRepliesReachTheirWaiter
  <2>4. WaitsForDraw(u)' /\ u \notin replies'
    BY <1>3, <1>6, <2>3
  <2> QED BY <1>1, <2>1, <2>4
<1>9. \A i, j \in DOMAIN queue' :
          WillReply(i)' /\ WillReply(j)' /\ queue'[i].by = queue'[j].by => i = j
  BY <1>1, <1>4 DEF ReplyInv, DrawRepliesReachTheirWaiter
<1>10. ASSUME NEW u \in Threads, WaitsForDraw(u)'
       PROVE  u \in replies' \/ \E i \in DOMAIN queue' : WillReply(i)' /\ queue'[i].by = u
  <2>1. WaitsForDraw(u)
    BY <1>3, <1>10
  <2>2. CASE u \in replies
    BY <1>6, <2>2
  <2>3. ASSUME NEW i \in DOMAIN queue, WillReply(i), queue[i].by = u
        PROVE  u \in replies' \/ (i \in DOMAIN queue' /\ WillReply(i)' /\ queue'[i].by = u)
    BY <1>1, <1>4, <1>6, <2>3
  <2> QED BY <2>1, <2>2, <2>3 DEF ReplyInv, DrawRepliesReachTheirWaiter
<1>11. PendingIsLast'
  BY <1>1, <1>4 DEF ReplyInv, PendingIsLast
<1> QED BY <1>7, <1>8, <1>9, <1>10, <1>11 DEF DrawRepliesReachTheirWaiter

LEMMA NotifyKeepsReplies ==
    ASSUME DisplayInv, ReplyInv, RenderNotify
    PROVE  DrawRepliesReachTheirWaiter' /\ PendingIsLast'
<1> USE DEF viewVars, taskVars, winVars, waitVars, renderVars
<1>1. /\ stage = "presented" /\ stage' = "idle" /\ queue' = Tail(queue)
      /\ UNCHANGED <<replies, emuWin, evThread, framePc, uiPc>>
  BY DEF RenderNotify
<1>2. queue \in Seq(Draws) /\ queue # << >>
  BY <1>1 DEF DisplayInv, TypeOK, ModeInv
<1>3. \A i \in DOMAIN queue' : i \in Nat \ {0} /\ i + 1 \in DOMAIN queue /\ queue'[i] = queue[i + 1]
  BY <1>1, <1>2
<1>4. \A i \in DOMAIN queue : i # 1 =>
          i \in Nat \ {0} /\ i - 1 \in DOMAIN queue' /\ queue'[i - 1] = queue[i]
  BY <1>1, <1>2
<1>5. \A t : WaitsForDraw(t) <=> WaitsForDraw(t)'
  BY <1>1 DEF WaitsForDraw, FrameThread
<1>6. \A i \in DOMAIN queue' : WillReply(i)' <=> WillReply(i + 1)
  BY <1>1, <1>3 DEF WillReply
<1>7. \A u \in replies' : WaitsForDraw(u)'
  BY <1>1, <1>5 DEF ReplyInv, DrawRepliesReachTheirWaiter
<1>8. ASSUME NEW i \in DOMAIN queue', WillReply(i)'
      PROVE  WaitsForDraw(queue[i].by)' /\ queue'[i].by \notin replies'
  <2>1. PICK u : u = queue'[i].by
    OBVIOUS
  <2>2. i + 1 \in DOMAIN queue /\ WillReply(i + 1) /\ queue[i + 1].by = u
    BY <1>3, <1>6, <1>8, <2>1
  <2>3. WaitsForDraw(u) /\ u \notin replies
    BY <2>2 DEF ReplyInv, DrawRepliesReachTheirWaiter
  <2>4. WaitsForDraw(u)' /\ u \notin replies'
    BY <1>1, <1>5, <2>3
  <2> QED BY <2>1, <2>4
<1>9. ASSUME NEW i \in DOMAIN queue', NEW j \in DOMAIN queue', WillReply(i)', WillReply(j)',
             queue'[i].by = queue'[j].by
      PROVE  i = j
  <2>1. i + 1 = j + 1
    BY <1>3, <1>6, <1>9 DEF ReplyInv, DrawRepliesReachTheirWaiter
  <2> QED BY <1>3, <2>1
<1>10. ASSUME NEW u \in Threads, WaitsForDraw(u)'
       PROVE  u \in replies' \/ \E i \in DOMAIN queue' : WillReply(i)' /\ queue'[i].by = u
  <2>1. WaitsForDraw(u)
    BY <1>5, <1>10
  <2>2. ASSUME NEW i \in DOMAIN queue, WillReply(i), queue[i].by = u
        PROVE  \E k \in DOMAIN queue' : WillReply(k)' /\ queue'[k].by = u
    <3>1. i # 1
      BY <1>1, <2>2 DEF WillReply
    <3>2. i - 1 \in DOMAIN queue' /\ queue'[i - 1] = queue[i] /\ (i - 1) + 1 = i
      BY <1>4, <3>1
    <3>3. PICK k \in DOMAIN queue' : k = i - 1
      BY <3>2
    <3>4. k + 1 = i
      BY <3>2, <3>3
    <3>5. WillReply(k)'
      BY <1>6, <2>2, <3>4
    <3> QED BY <2>2, <3>2, <3>3, <3>5
  <2> QED BY <1>1, <2>1, <2>2 DEF ReplyInv, DrawRepliesReachTheirWaiter
<1>11. ASSUME NEW i \in DOMAIN queue', NEW j \in DOMAIN queue', WillReply(i)', i < j
       PROVE  queue'[j].win = Extra
  <2>1. WillReply(i + 1) /\ i + 1 < j + 1
    BY <1>3, <1>6, <1>11
  <2> QED BY <1>3, <2>1 DEF ReplyInv, PendingIsLast
<1> QED BY <1>7, <1>8, <1>9, <1>10, <1>11 DEF DrawRepliesReachTheirWaiter, PendingIsLast

-----------------------------------------------------------------------------
(* Who can wait when. *)

LEMMA OnlyMainQueued ==
    ASSUME DisplayInv, BlockInv, Next, ~hasExtra'
    PROVE  \A i \in DOMAIN queue' : queue'[i].win = Main
<1> USE DEF viewVars, taskVars, winVars, waitVars, renderVars
<1>0. TypeOK /\ ModeInv
  BY DEF DisplayInv
<1>1. ASSUME NEW w \in Windows, NEW t \in Threads, Draw(w, t), w = Main, ~hasExtra
      PROVE  \A i \in DOMAIN queue' : queue'[i].win = Main
  <2> DEFINE d == [win |-> w, by |-> t, mode |-> AsyncMode(w)]
  <2>1. d \in Draws /\ d.win = Main /\ queue \in Seq(Draws) /\ queue' = Append(queue, d)
    BY <1>0, <1>1, ModeIsOne DEF Draws, TypeOK, Draw
  <2> HIDE DEF d
  <2> QED BY <1>1, <2>1 DEF BlockInv
<1>2. CASE DismissExtra
  <2>1. queue' = queue /\ \A i \in DOMAIN queue : queue[i].win # Extra
    BY <1>2 DEF DismissExtra
  <2> QED BY <1>0, <2>1, QueueTyped DEF Windows
<1>3. CASE AddExtra
  BY <1>3 DEF AddExtra
<1>4. ASSUME NEW w \in Windows, UIDraw(w) PROVE \A i \in DOMAIN queue' : queue'[i].win = Main
  <2>1. Draw(w, "main") /\ w = Main /\ ~hasExtra /\ "main" \in Threads
    BY <1>4 DEF UIDraw, Existing, Threads
  <2> QED BY <1>1, <2>1
<1>5. CASE DrawFrame
  <2>1. Draw(emuWin, FrameThread) /\ emuWin = Main /\ ~hasExtra
    BY <1>0, <1>5 DEF DrawFrame, ModeInv
  <2> QED BY <1>0, <1>1, <2>1, EmuWindow
<1>6. CASE RenderNotify
  <2>1. queue' = Tail(queue) /\ ~hasExtra /\ queue \in Seq(Draws) /\ queue # << >>
    BY <1>0, <1>6 DEF RenderNotify, TypeOK, ModeInv
  <2>2. \A i \in DOMAIN queue' : i + 1 \in DOMAIN queue /\ queue'[i] = queue[i + 1]
    BY <2>1
  <2> QED BY <2>1, <2>2 DEF BlockInv
<1>7. CASE Start \/ BeginStop \/ FinishStop \/ UIDrawn \/ BeginFrame \/ FrameDrawn \/ EndFrame
           \/ RenderBegin \/ RenderDrawn \/ RenderPresented \/ \E w \in Windows : PostDraw(w)
  <2>1. UNCHANGED <<queue, hasExtra>>
    BY <1>7 DEF Start, StartTask, BeginStop, FinishStop, UIDrawn, BeginFrame, FrameDrawn, EndFrame,
       RenderBegin, RenderDrawn, RenderPresented, PostDraw
  <2> QED BY <2>1 DEF BlockInv
<1> QED BY <1>2, <1>3, <1>4, <1>5, <1>6, <1>7 DEF Next, UI, Frame, Render

LEMMA BlockKept == ASSUME DisplayInv, BlockInv, Next PROVE BlockInv'
<1> USE DEF viewVars, taskVars, winVars, waitVars, renderVars
<1>0. TypeOK /\ ModeInv /\ FrameThread \in Threads /\ emuWin \in Windows
  BY EmuWindow DEF DisplayInv
<1> DEFINE Rest ==
      /\ framePc = "drawWait" => ~hasExtra
      /\ uiPc = "drawWait" /\ running => hasExtra \/ FrameThread = "main"
      /\ uiPc = "drawWait" /\ framePc # "idle" => FrameThread = "emu"
<1>1. Rest
  BY DEF BlockInv
<1> SUFFICES Rest'
  BY OnlyMainQueued DEF BlockInv
<1>2. CASE Start
  BY <1>1, <1>2 DEF Start, MainFree
<1>3. CASE BeginStop \/ AddExtra \/ DismissExtra
  <2>1. uiPc' = "idle"
    BY <1>3 DEF BeginStop, AddExtra, DismissExtra, MainFree
  <2>2. framePc' = "drawWait" => ~hasExtra'
    BY <1>0, <1>1, <1>3 DEF BeginStop, AddExtra, DismissExtra, ModeInv
  <2> QED BY <2>1, <2>2
<1>4. CASE FinishStop
  BY <1>1, <1>4 DEF FinishStop
<1>5. CASE UIDrawn
  BY <1>1, <1>5 DEF UIDrawn
<1>6. CASE RenderBegin \/ RenderDrawn \/ RenderPresented \/ RenderNotify
           \/ \E w \in Windows : PostDraw(w)
  BY <1>1, <1>6 DEF RenderBegin, RenderDrawn, RenderPresented, RenderNotify, PostDraw, FrameThread
<1>7. ASSUME NEW w \in Windows, UIDraw(w) PROVE Rest'
  <2>1. /\ MainFree /\ w \in Existing /\ evThread[w] = "main"
        /\ UNCHANGED <<framePc, hasExtra, emuWin, evThread, running>>
    BY <1>7 DEF UIDraw
  <2>2. framePc # "idle" => FrameThread = "emu"
    BY <1>0, <2>1 DEF MainFree, Threads
  <2>3. ~hasExtra => FrameThread = "main"
    BY <1>0, <2>1 DEF Existing, ModeInv, FrameThread
  <2> QED BY <1>1, <2>1, <2>2, <2>3 DEF FrameThread
<1>8. CASE BeginFrame
  BY <1>0, <1>1, <1>8 DEF BeginFrame, FrameThread, MainFree, Threads
<1>9. CASE DrawFrame
  <2>1. /\ UNCHANGED <<uiPc, hasExtra, emuWin, evThread, running>>
        /\ framePc = "draw"
        /\ framePc' = IF AsyncMode(emuWin) = "present" THEN "drawWait" ELSE "drawn"
    BY <1>9 DEF DrawFrame
  <2>2. hasExtra => AsyncMode(emuWin) = "full"
    BY <1>0, <2>1, DisplayAssumption DEF ModeInv, AsyncMode
  <2> QED BY <1>1, <2>1, <2>2 DEF FrameThread
<1>10. CASE FrameDrawn \/ EndFrame
  BY <1>1, <1>10 DEF FrameDrawn, EndFrame, FrameThread
<1> HIDE DEF Rest
<1> QED BY <1>2, <1>3, <1>4, <1>5, <1>6, <1>7, <1>8, <1>9, <1>10 DEF Next, UI, Frame, Render

LEMMA ReplyKept == ASSUME DisplayInv, ReplyInv, Next PROVE ReplyInv'
<1>1. BlockInv'
  BY BlockKept DEF ReplyInv
<1>2. QuietNext \/ (\E w \in Windows : UIDraw(w)) \/ DrawFrame \/ UIDrawn \/ FrameDrawn
      \/ RenderDrawn \/ RenderNotify
  BY DEF Next, UI, Frame, Render, QuietNext
<1>3. DrawRepliesReachTheirWaiter' /\ PendingIsLast'
  BY <1>2, QuietKeepsReplies, UIDrawKeepsReplies, DrawFrameKeepsReplies, AcknowledgeKeepsReplies,
     DrawnKeepsReplies, NotifyKeepsReplies
<1> QED BY <1>1, <1>3 DEF ReplyInv

\* Who waits for a draw, and which draw will answer it, in every reachable state.
THEOREM DisplayReplyInvariance == Spec => []ReplyInv
<1>1. DisplayInv /\ ReplyInv /\ [Next]_vars => ReplyInv'
  <2> SUFFICES ASSUME DisplayInv, ReplyInv, [Next]_vars PROVE ReplyInv'
    OBVIOUS
  <2>1. CASE Next
    BY <2>1, ReplyKept
  <2>2. CASE UNCHANGED vars
    BY <2>2 DEF vars, viewVars, taskVars, winVars, waitVars, renderVars, ReplyInv,
         DrawRepliesReachTheirWaiter, BlockInv, PendingIsLast, WaitsForDraw, WillReply, FrameThread
  <2> QED BY <2>1, <2>2
<1> QED BY BlockStart, DisplayInvariance, <1>1, PTL DEF Spec

\* Each thread that waits for a draw is released once, by that draw, and no
\* release goes to a thread that has gone on.
THEOREM DisplayRepliesReach == Spec => []DrawRepliesReachTheirWaiter
<1>1. ReplyInv => DrawRepliesReachTheirWaiter
  BY DEF ReplyInv
<1> QED BY DisplayReplyInvariance, <1>1, PTL

-----------------------------------------------------------------------------
(* How many draws of the main window the pipe q holds after its last draw of *)
(* the extra window: those are left when the extra window goes away.         *)

Pile(q, n) == \E e \in 0..Len(q) : (e > 0 => q[e].win = Extra) /\ Len(q) - e <= n

\* What a frame on the extra window that waits for the present leaves the user
\* interface to draw before it is released: one draw if the main window is ready,
\* and one for each draw that may still be presented.
Room ==
    (IF drawPhase[Main] = "ready" THEN 1 ELSE 0)
    + (IF stage = "presented" THEN 0 ELSE 1)
    + (IF stage # "idle" /\ ~emul THEN 1 ELSE 0)

Limit ==
    IF hasExtra
      THEN IF framePc = "drawn" /\ waiting THEN 3 - Room ELSE IF uiPc = "idle" THEN 3 ELSE 4
      ELSE IF framePc = "drawn" THEN IF waiting THEN 4 ELSE 3
           ELSE IF framePc = "drawWait" \/ uiPc # "idle" THEN 4 ELSE 3

\* A frame that is yet to be drawn on the extra window comes after all that the
\* user interface draws until then.
PaceInv ==
    /\ (hasExtra /\ framePc = "draw" /\ shouldWait) \/ Pile(queue, Limit)
    /\ replies # {} => Pile(queue, 1)

LEMMA PileGrows ==
    ASSUME NEW q \in Seq(Draws), NEW m \in Int, NEW n \in Int, Pile(q, m), m <= n
    PROVE  Pile(q, n)
<1>1. PICK e \in 0..Len(q) : (e > 0 => q[e].win = Extra) /\ Len(q) - e <= m
  BY DEF Pile
<1>2. Len(q) - e <= n
  BY <1>1
<1> QED BY <1>1, <1>2 DEF Pile

LEMMA PilePosted ==
    ASSUME NEW q \in Seq(Draws), NEW d \in Draws, NEW n \in Int
    PROVE  /\ Pile(q, n) => Pile(Append(q, d), n + 1)
           /\ d.win = Extra => Pile(Append(q, d), 0)
<1>1. /\ Len(Append(q, d)) = Len(q) + 1 /\ Len(q) \in Nat
      /\ \A e \in 1..Len(q) : Append(q, d)[e] = q[e]
      /\ Append(q, d)[Len(q) + 1] = d
  OBVIOUS
<1>2. ASSUME Pile(q, n) PROVE Pile(Append(q, d), n + 1)
  <2>1. PICK e \in 0..Len(q) : (e > 0 => q[e].win = Extra) /\ Len(q) - e <= n
    BY <1>2 DEF Pile
  <2>2. /\ e \in 0..Len(Append(q, d))
        /\ e > 0 => Append(q, d)[e].win = Extra
        /\ Len(Append(q, d)) - e <= n + 1
    BY <1>1, <2>1
  <2> QED BY <2>2 DEF Pile
<1>3. ASSUME d.win = Extra PROVE Pile(Append(q, d), 0)
  <2>1. /\ Len(q) + 1 \in 0..Len(Append(q, d))
        /\ Append(q, d)[Len(q) + 1].win = Extra
        /\ Len(Append(q, d)) - (Len(q) + 1) <= 0
    BY <1>1, <1>3
  <2> QED BY <2>1 DEF Pile
<1> QED BY <1>2, <1>3

LEMMA PileCarried ==
    ASSUME NEW q \in Seq(Draws), q # << >>, NEW n \in Int, Pile(q, n)
    PROVE  /\ n >= 0 => Pile(Tail(q), n)
           /\ (\A i \in DOMAIN q : q[i].win = Main) => Pile(Tail(q), n - 1)
<1>1. /\ Len(Tail(q)) = Len(q) - 1 /\ Len(q) \in Nat /\ Len(q) > 0
      /\ \A e \in 2..Len(q) : Tail(q)[e - 1] = q[e]
      /\ DOMAIN q = 1..Len(q)
  OBVIOUS
<1>2. PICK e \in 0..Len(q) : (e > 0 => q[e].win = Extra) /\ Len(q) - e <= n
  BY DEF Pile
<1>3. ASSUME n >= 0 PROVE Pile(Tail(q), n)
  <2>1. CASE e = 0
    <3>1. 0 \in 0..Len(Tail(q)) /\ Len(Tail(q)) - 0 <= n
      BY <1>1, <1>2, <2>1
    <3> QED BY <3>1 DEF Pile
  <2>2. CASE e = 1
    <3>1. 0 \in 0..Len(Tail(q)) /\ Len(Tail(q)) - 0 <= n
      BY <1>1, <1>2, <2>2
    <3> QED BY <3>1 DEF Pile
  <2>3. CASE e > 1
    <3>1. e - 1 \in 0..Len(Tail(q)) /\ Len(Tail(q)) - (e - 1) <= n /\ Tail(q)[e - 1] = q[e]
      BY <1>1, <1>2, <2>3
    <3> QED BY <1>2, <2>3, <3>1 DEF Pile
  <2> QED BY <1>2, <2>1, <2>2, <2>3
<1>4. ASSUME \A i \in DOMAIN q : q[i].win = Main PROVE Pile(Tail(q), n - 1)
  <2>1. e = 0
    BY <1>1, <1>2, <1>4, DisplayAssumption
  <2>2. 0 \in 0..Len(Tail(q)) /\ Len(Tail(q)) - 0 <= n - 1
    BY <1>1, <1>2, <2>1
  <2> QED BY <2>2 DEF Pile
<1> QED BY <1>3, <1>4

LEMMA LimitTyped == ASSUME DisplayInv PROVE Limit \in 0..4 /\ Room \in 0..3
BY DEF Limit, Room, DisplayInv, TypeOK

LEMMA LimitTypedNext == ASSUME DisplayInv' PROVE Limit' \in 0..4 /\ Room' \in 0..3
BY DEF Limit, Room, DisplayInv, TypeOK

-----------------------------------------------------------------------------
(* How a step changes the limit. *)

Exempt == hasExtra /\ framePc = "draw" /\ shouldWait

\* A step that does not touch the pipe may only raise the limit, or comes right
\* after a thread was told that its draw is drawn.
LEMMA PaceSame ==
    ASSUME DisplayInv, DisplayInv', PaceInv, queue' = queue, replies' \subseteq replies,
           \/ Exempt'
           \/ ~Exempt /\ Limit <= Limit'
           \/ replies # {} /\ Limit' >= 3
    PROVE  PaceInv'
<1>1. Limit \in Int /\ Limit' \in Int /\ queue \in Seq(Draws)
  BY LimitTyped, LimitTypedNext DEF DisplayInv, TypeOK
<1>2. replies' # {} => Pile(queue', 1)
  BY DEF PaceInv
<1>3. CASE Exempt'
  BY <1>2, <1>3 DEF PaceInv, Exempt
<1>4. CASE ~Exempt /\ Limit <= Limit'
  <2>1. Pile(queue, Limit)
    BY <1>4 DEF PaceInv, Exempt
  <2>2. Pile(queue, Limit')
    BY <1>1, <1>4, <2>1, PileGrows
  <2> QED BY <1>2, <2>2 DEF PaceInv
<1>5. CASE replies # {} /\ Limit' >= 3
  <2>1. Pile(queue, 1)
    BY <1>5 DEF PaceInv
  <2>2. Pile(queue, Limit')
    BY <1>1, <1>5, <2>1, PileGrows
  <2> QED BY <1>2, <2>2 DEF PaceInv
<1> QED BY <1>3, <1>4, <1>5

LEMMA PaceQuiet ==
    ASSUME DisplayInv, DisplayInv', ReplyInv, PaceInv,
           Start \/ BeginStop \/ FinishStop \/ AddExtra \/ DismissExtra \/ UIDrawn
           \/ \E w \in Windows : PostDraw(w)
    PROVE  PaceInv'
<1> USE DEF viewVars, taskVars, winVars, waitVars, renderVars
<1>0. TypeOK /\ ModeInv
  BY DEF DisplayInv
<1>1. CASE Start \/ FinishStop \/ AddExtra \/ DismissExtra
  <2>1. framePc = "idle" /\ UNCHANGED <<framePc, uiPc, queue, replies>>
    BY <1>0, <1>1 DEF Start, StartTask, FinishStop, AddExtra, DismissExtra, ModeInv
  <2>2. Limit' = IF uiPc = "idle" THEN 3 ELSE 4
    BY <2>1 DEF Limit
  <2>3. Limit = IF uiPc = "idle" THEN 3 ELSE 4
    BY <2>1 DEF Limit
  <2>4. ~Exempt
    BY <2>1 DEF Exempt
  <2> QED BY <2>1, <2>2, <2>3, <2>4, PaceSame
<1>2. CASE BeginStop \/ \E w \in Windows : PostDraw(w)
  <2>1. UNCHANGED <<framePc, uiPc, queue, replies, hasExtra, waiting, shouldWait, drawPhase,
                    stage, emul>>
    BY <1>2 DEF BeginStop, PostDraw
  <2> QED BY <2>1 DEF PaceInv, Limit, Room
<1>3. CASE UIDrawn
  <2>1. /\ replies # {} /\ replies' \subseteq replies
        /\ UNCHANGED <<framePc, queue, hasExtra, waiting, shouldWait, drawPhase, stage, emul>>
    BY <1>3 DEF UIDrawn
  <2>2. CASE hasExtra /\ framePc = "drawn" /\ waiting
    <3>1. Limit' = Limit /\ ~Exempt
      BY <2>1, <2>2 DEF Limit, Room, Exempt
    <3>2. Limit \in Int
      BY LimitTyped
    <3> QED BY <2>1, <3>1, <3>2, PaceSame
  <2>3. CASE ~(hasExtra /\ framePc = "drawn" /\ waiting)
    <3>1. Limit' >= 3
      BY <2>1, <2>3 DEF Limit
    <3> QED BY <2>1, <3>1, PaceSame
  <2> QED BY <2>2, <2>3
<1> QED BY <1>1, <1>2, <1>3

LEMMA PaceFrame ==
    ASSUME DisplayInv, DisplayInv', ReplyInv, PaceInv, BeginFrame \/ FrameDrawn \/ EndFrame
    PROVE  PaceInv'
<1> USE DEF viewVars, taskVars, winVars, waitVars, renderVars
<1>1. CASE BeginFrame
  <2>1. /\ framePc = "idle" /\ framePc' = "draw"
        /\ UNCHANGED <<hasExtra, shouldWait, uiPc, queue, replies>>
    BY <1>1 DEF BeginFrame
  <2>2. Limit = (IF uiPc = "idle" THEN 3 ELSE 4) /\ Limit' = (IF uiPc = "idle" THEN 3 ELSE 4)
    BY <2>1 DEF Limit
  <2>3. ~Exempt
    BY <2>1 DEF Exempt
  <2> QED BY <2>1, <2>2, <2>3, PaceSame
<1>2. CASE FrameDrawn
  <2>1. /\ framePc = "drawWait" /\ framePc' = "drawn"
        /\ replies # {} /\ replies' \subseteq replies
        /\ UNCHANGED <<hasExtra, queue>>
    BY <1>2 DEF FrameDrawn
  <2>2. Limit' >= 3
    BY <2>1 DEF Limit, ReplyInv, BlockInv
  <2> QED BY <2>1, <2>2, PaceSame
<1>3. CASE EndFrame
  <2>1. /\ framePc = "drawn" /\ framePc' = "idle" /\ (shouldWait => sem > 0)
        /\ UNCHANGED <<hasExtra, uiPc, queue, replies, waiting, shouldWait>>
    BY <1>3 DEF EndFrame
  <2>2. ~waiting
    BY <2>1 DEF DisplayInv, PresentWaitExact, TypeOK
  <2>3. Limit <= Limit' /\ ~Exempt
    BY <2>1, <2>2 DEF Limit, Exempt
  <2> QED BY <2>1, <2>3, PaceSame
<1> QED BY <1>1, <1>2, <1>3

\* The draw that is drawn is the last of the main window if its thread waits.
LEMMA DrawnIsLast ==
    ASSUME DisplayInv, ReplyInv, RenderDrawn, Head(queue).mode = "present"
    PROVE  Pile(queue, 1)
<1>1. /\ stage = "drawing" /\ queue \in Seq(Draws) /\ queue # << >>
      /\ Head(queue) = queue[1] /\ 1 \in DOMAIN queue
  BY Carried DEF RenderDrawn, DisplayInv, TypeOK, ModeInv
<1>2. WillReply(1)
  BY <1>1 DEF WillReply
<1>3. \A j \in DOMAIN queue : 1 < j => queue[j].win = Extra
  BY <1>1, <1>2 DEF ReplyInv, PendingIsLast
<1>4. Len(queue) \in Nat /\ Len(queue) >= 1 /\ DOMAIN queue = 1..Len(queue)
  BY <1>1
<1>5. CASE Len(queue) = 1
  <2>1. 0 \in 0..Len(queue) /\ Len(queue) - 0 <= 1
    BY <1>5
  <2> QED BY <2>1 DEF Pile
<1>6. CASE Len(queue) > 1
  <2>1. Len(queue) \in 0..Len(queue) /\ queue[Len(queue)].win = Extra
        /\ Len(queue) - Len(queue) <= 1
    BY <1>3, <1>4, <1>6
  <2> QED BY <2>1 DEF Pile
<1> QED BY <1>4, <1>5, <1>6

LEMMA PaceRender ==
    ASSUME DisplayInv, DisplayInv', ReplyInv, PaceInv, Render
    PROVE  PaceInv'
<1> USE DEF viewVars, taskVars, winVars, waitVars, renderVars
<1>0. TypeOK /\ ModeInv /\ BlockInv /\ Limit \in 0..4 /\ Limit' \in 0..4
  BY LimitTyped, LimitTypedNext DEF DisplayInv, ReplyInv
<1>1. CASE RenderBegin
  <2>1. /\ stage = "idle" /\ stage' = "drawing" /\ (showing => emul')
        /\ UNCHANGED <<hasExtra, framePc, waiting, shouldWait, uiPc, queue, replies, drawPhase>>
    BY <1>1 DEF RenderBegin
  <2>2. framePc = "drawn" => emul'
    BY <1>0, <2>1 DEF ModeInv
  <2>3. framePc = "drawn" => Room' = Room
    BY <2>1, <2>2 DEF Room
  <2>4. Limit' = Limit /\ Exempt' = Exempt
    BY <2>1, <2>3 DEF Limit, Exempt
  <2> QED BY <2>1, <2>4 DEF PaceInv, Exempt
<1>2. CASE RenderDrawn
  <2>1. /\ stage = "drawing" /\ stage' = "presenting"
        /\ UNCHANGED <<hasExtra, framePc, waiting, shouldWait, uiPc, queue, drawPhase, emul>>
        /\ Head(queue).mode # "present" => replies' = replies
    BY <1>2 DEF RenderDrawn
  <2>2. Limit' = Limit /\ Exempt' = Exempt
    BY <2>1 DEF Limit, Room, Exempt
  <2>3. replies' # {} => Pile(queue, 1)
    BY <1>2, <2>1, DrawnIsLast DEF PaceInv
  <2> QED BY <2>1, <2>2, <2>3 DEF PaceInv, Exempt
<1>3. CASE RenderPresented
  <2>1. /\ stage = "presenting" /\ stage' = "presented"
        /\ UNCHANGED <<hasExtra, framePc, waiting, shouldWait, uiPc, queue, replies, emul>>
    BY <1>3 DEF RenderPresented
  <2>2. Room' <= Room
    BY <2>1 DEF Room
  <2>3. Limit <= Limit' /\ Exempt' = Exempt
    BY <2>1, <2>2, LimitTyped, LimitTypedNext DEF Limit, Exempt
  <2> QED BY <2>1, <2>3, PaceSame
<1>4. CASE RenderNotify
  <2>1. /\ stage = "presented" /\ stage' = "idle" /\ queue' = Tail(queue)
        /\ UNCHANGED <<hasExtra, framePc, shouldWait, uiPc, replies, drawPhase, emul>>
        /\ IF emul /\ waiting THEN waiting' = FALSE ELSE waiting' = waiting
    BY <1>4 DEF RenderNotify
  <2>2. queue \in Seq(Draws) /\ queue # << >> /\ queue' \in Seq(Draws)
    BY <1>0, <2>1, Carried DEF TypeOK, ModeInv
  <2>3. replies' # {} => Pile(queue', 1)
    BY <2>1, <2>2, PileCarried DEF PaceInv
  <2>4. CASE Exempt
    BY <2>1, <2>3, <2>4 DEF PaceInv, Exempt
  <2>5. CASE ~Exempt /\ hasExtra
    <3>1. Pile(queue', Limit)
      BY <1>0, <2>1, <2>2, <2>5, PileCarried DEF PaceInv, Exempt
    <3>2. Limit <= Limit'
      <4>1. emul \/ Room' = Room
        BY <2>1 DEF Room
      <4> QED BY <2>1, <2>5, <4>1, LimitTyped, LimitTypedNext DEF Limit
    <3>3. Pile(queue', Limit')
      BY <1>0, <2>2, <3>1, <3>2, PileGrows
    <3> QED BY <2>3, <3>3 DEF PaceInv
  <2>6. CASE ~hasExtra
    <3>1. Pile(queue, Limit) /\ \A i \in DOMAIN queue : queue[i].win = Main
      BY <1>0, <2>6 DEF PaceInv, BlockInv
    <3>2. Pile(queue', Limit - 1)
      BY <1>0, <2>1, <2>2, <3>1, PileCarried
    <3>3. Limit - 1 <= Limit'
      BY <2>1, <2>6 DEF Limit
    <3>4. Pile(queue', Limit')
      BY <1>0, <2>2, <3>2, <3>3, PileGrows
    <3> QED BY <2>3, <3>4 DEF PaceInv
  <2> QED BY <2>4, <2>5, <2>6
<1> QED BY <1>1, <1>2, <1>3, <1>4 DEF Render

LEMMA PacePosted ==
    ASSUME DisplayInv, DisplayInv', PaceInv,
           NEW w \in Windows, NEW t \in Threads, Draw(w, t),
           \/ w = Extra
           \/ replies' = {} /\ (Exempt' \/ (~Exempt /\ Limit + 1 <= Limit'))
    PROVE  PaceInv'
<1> DEFINE d == [win |-> w, by |-> t, mode |-> AsyncMode(w)]
<1>1. /\ d \in Draws /\ d.win = w /\ queue \in Seq(Draws) /\ queue' = Append(queue, d)
      /\ queue' \in Seq(Draws) /\ Limit \in 0..4 /\ Limit' \in 0..4
  BY ModeIsOne, LimitTyped, LimitTypedNext DEF Draws, DisplayInv, TypeOK, Draw
<1> HIDE DEF d
<1>2. CASE w = Extra
  <2>1. Pile(queue', 0)
    BY <1>1, <1>2, PilePosted
  <2>2. ASSUME NEW n \in Int, 0 <= n PROVE Pile(queue', n)
    <3>1. 0 \in Int
      OBVIOUS
    <3> QED BY <1>1, <2>1, <2>2, <3>1, PileGrows
  <2>3. /\ Limit' \in Int /\ 0 <= Limit'
        /\ 1 \in Int /\ 0 <= 1
    BY <1>1
  <2> QED BY <2>2, <2>3 DEF PaceInv
<1>3. CASE replies' = {} /\ Exempt'
  BY <1>3 DEF PaceInv, Exempt
<1>4. CASE replies' = {} /\ ~Exempt /\ Limit + 1 <= Limit'
  <2>1. Pile(queue, Limit)
    BY <1>4 DEF PaceInv, Exempt
  <2>2. Pile(queue', Limit + 1)
    BY <1>1, <2>1, PilePosted
  <2>3. Limit + 1 \in Int /\ Limit' \in Int
    BY <1>1
  <2>4. \A n \in Int : Limit + 1 <= n => Pile(queue', n)
    BY <1>1, <2>2, <2>3, PileGrows
  <2> QED BY <1>4, <2>3, <2>4 DEF PaceInv
<1> QED BY <1>2, <1>3, <1>4

LEMMA PaceUIDraw ==
    ASSUME DisplayInv, DisplayInv', ReplyInv, PaceInv, NEW w \in Windows, UIDraw(w)
    PROVE  PaceInv'
<1> USE DEF viewVars, taskVars, winVars, waitVars, renderVars
<1>0. TypeOK /\ ModeInv /\ BlockInv /\ PresentWaitExact
  BY DEF DisplayInv, ReplyInv
<1>1. /\ "main" \in Threads /\ MainFree /\ uiPc = "idle" /\ Draw(w, "main")
      /\ w \in Existing /\ evThread[w] = "main" /\ drawPhase[w] # "draw"
      /\ UNCHANGED <<hasExtra, framePc, waiting, shouldWait, replies, stage, emul>>
      /\ uiPc' = IF AsyncMode(w) = "present" THEN "drawWait" ELSE "idle"
  BY DEF UIDraw, MainFree, Threads
<1>2. CASE w = Extra
  BY <1>1, <1>2, PacePosted
<1>3. CASE w = Main
  <2>1. ~hasExtra => framePc = "idle"
    BY <1>0, <1>1, <1>3 DEF ModeInv, MainFree, FrameThread
  <2>2. AsyncMode(w) = IF waiting THEN "full" ELSE "present"
    BY <1>3 DEF AsyncMode
  <2>3. waiting => framePc # "idle" /\ shouldWait
    BY <1>0 DEF PresentWaitExact, TypeOK
  <2>4. replies = {}
    <3> SUFFICES ASSUME NEW t \in replies PROVE FALSE
      OBVIOUS
    <3>1. WaitsForDraw(t) /\ t \in Threads
      BY <1>0, QueueTyped DEF ReplyInv, DrawRepliesReachTheirWaiter
    <3>2. t = "emu" /\ framePc = "drawWait"
      BY <1>1, <3>1, FreeWaitsNot DEF Threads, WaitsForDraw
    <3> QED BY <1>0, <2>1, <3>2 DEF BlockInv
  <2>5. CASE ~waiting
    <3>1. Limit = 3
      BY <1>0, <1>1, <2>1, <2>5 DEF Limit, BlockInv
    <3>2. Limit' = 4
      BY <1>1, <2>1, <2>2, <2>5 DEF Limit
    <3>3. ~Exempt \/ Exempt'
      BY <1>1 DEF Exempt
    <3> QED BY <1>1, <2>4, <3>1, <3>2, <3>3, PacePosted
  <2>6. CASE waiting /\ framePc = "draw"
    <3>1. Exempt'
      BY <1>1, <2>1, <2>3, <2>6 DEF Exempt
    <3> QED BY <1>1, <2>4, <3>1, PacePosted
  <2>7. CASE waiting /\ framePc = "drawn"
    <3>1. hasExtra /\ ~Exempt
      BY <2>1, <2>7 DEF Exempt
    <3>2. drawPhase[Main] = "ready" /\ drawPhase'[Main] = "draw"
      BY <1>0, <1>1, <1>3 DEF Draw, TypeOK
    <3>3. Room \in 0..3 /\ Room' = Room - 1
      BY <1>1, <3>2, LimitTyped DEF Room
    <3>4. Limit + 1 <= Limit'
      BY <1>1, <2>7, <3>1, <3>3 DEF Limit
    <3> QED BY <1>1, <2>4, <3>1, <3>4, PacePosted
  <2> QED BY <1>0, <2>1, <2>3, <2>5, <2>6, <2>7 DEF TypeOK, BlockInv
<1> QED BY <1>2, <1>3 DEF Windows

LEMMA PaceDrawFrame ==
    ASSUME DisplayInv, DisplayInv', ReplyInv, PaceInv, DrawFrame
    PROVE  PaceInv'
<1> USE DEF viewVars, taskVars, winVars, waitVars, renderVars
<1>0. /\ TypeOK /\ ModeInv /\ BlockInv
      /\ emuWin \in Windows /\ FrameThread \in Threads
  BY EmuWindow DEF DisplayInv, ReplyInv
<1>1. /\ Draw(emuWin, FrameThread) /\ framePc = "draw" /\ running
      /\ UNCHANGED <<hasExtra, waiting, uiPc, replies>>
      /\ framePc' = IF AsyncMode(emuWin) = "present" THEN "drawWait" ELSE "drawn"
  BY <1>0 DEF DrawFrame, ModeInv
<1>2. CASE hasExtra
  <2>1. emuWin = Extra
    BY <1>0, <1>2 DEF ModeInv
  <2> QED BY <1>0, <1>1, <2>1, PacePosted
<1>3. CASE ~hasExtra
  <2>1. emuWin = Main /\ ~Exempt
    BY <1>0, <1>3 DEF ModeInv, Exempt
  <2>2. uiPc = "idle"
    BY <1>0, <1>1, <1>3 DEF BlockInv, TypeOK
  <2>3. replies = {}
    BY <1>1, <2>2 DEF ReplyInv, DrawRepliesReachTheirWaiter, WaitsForDraw
  <2>4. AsyncMode(emuWin) = IF waiting THEN "full" ELSE "present"
    BY <2>1 DEF AsyncMode
  <2>5. Limit = 3 /\ Limit' = 4
    BY <1>1, <1>3, <2>2, <2>4 DEF Limit
  <2> QED BY <1>0, <1>1, <2>1, <2>3, <2>5, PacePosted
<1> QED BY <1>2, <1>3

LEMMA PaceStart == Init => PaceInv
<1> SUFFICES ASSUME Init PROVE PaceInv
  OBVIOUS
<1>1. queue = << >> /\ Len(queue) = 0 /\ replies = {} /\ Limit = 3
  BY DEF Init, Limit
<1>2. 0 \in 0..Len(queue) /\ Len(queue) - 0 <= Limit
  BY <1>1
<1>3. Pile(queue, Limit)
  BY <1>2 DEF Pile
<1> QED BY <1>1, <1>3 DEF PaceInv

\* How many draws are behind the last one of the extra window, in every reachable
\* state.
THEOREM DisplayPaceInvariance == Spec => []PaceInv
<1>1. DisplayInv /\ DisplayInv' /\ ReplyInv /\ PaceInv /\ [Next]_vars => PaceInv'
  <2> SUFFICES ASSUME DisplayInv, DisplayInv', ReplyInv, PaceInv, [Next]_vars PROVE PaceInv'
    OBVIOUS
  <2>1. CASE Next
    <3>1. CASE UI
      BY <3>1, PaceQuiet, PaceUIDraw DEF UI
    <3>2. CASE Frame
      BY <3>2, PaceFrame, PaceDrawFrame DEF Frame
    <3>3. CASE Render
      BY <3>3, PaceRender
    <3> QED BY <2>1, <3>1, <3>2, <3>3 DEF Next
  <2>2. CASE UNCHANGED vars
    BY <2>2 DEF vars, viewVars, taskVars, winVars, waitVars, renderVars, PaceInv, Limit, Room
  <2> QED BY <2>1, <2>2
<1> QED BY PaceStart, DisplayInvariance, DisplayReplyInvariance, <1>1, PTL DEF Spec

\* Draws of the main window do not pile up: without an extra window four are the
\* most the renderer has before it, however many its pipe could hold.
THEOREM DisplayDrawsKeepPace == Spec => []MainDrawsKeepPace
<1>1. DisplayInv /\ ReplyInv /\ PaceInv => MainDrawsKeepPace
  <2> SUFFICES ASSUME DisplayInv, ReplyInv, PaceInv, ~hasExtra PROVE Len(queue) <= 4
    BY DEF MainDrawsKeepPace
  <2>1. /\ queue \in Seq(Draws) /\ Limit \in 0..4
        /\ \A i \in DOMAIN queue : queue[i].win = Main
    BY LimitTyped DEF DisplayInv, TypeOK, ReplyInv, BlockInv
  <2>2. PICK e \in 0..Len(queue) : (e > 0 => queue[e].win = Extra) /\ Len(queue) - e <= Limit
    BY DEF PaceInv, Pile
  <2>3. e = 0
    BY <2>1, <2>2, DisplayAssumption
  <2> QED BY <2>1, <2>2, <2>3
<1> QED BY DisplayInvariance, DisplayReplyInvariance, DisplayPaceInvariance, <1>1, PTL
=============================================================================
