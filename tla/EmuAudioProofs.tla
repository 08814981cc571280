--------------------------- MODULE EmuAudioProofs ---------------------------
(***************************************************************************)
(* The audio threads use the ring as it is meant to be used, for every     *)
(* buffer size and transfer size.  What RingBufferProofs shows of the ring *)
(* then holds of the ring as the three threads use it.                     *)
(***************************************************************************)
EXTENDS EmuAudio, TLAPS

RingFacts == INSTANCE RingBufferProofs

\* Who holds a span, and where the threads may be.
ThreadInv ==
    /\ writing <=> emuPc = "copy"
    /\ reading <=> callbackPc = "copy"
    /\ emuPc # "idle" => mainPc = "running" /\ mapped
    /\ callbackPc # "idle" => stream = "open"
    /\ stream = "open" => mainPc # "paused" /\ mapped

\* The write state decides who may act: a callback is under way only while it
\* is ACTIVE or the main thread is stopping, and the writer's two stores
\* follow an underrun and buffering.
StateInv ==
    /\ callbackPc # "idle" /\ mainPc = "running" => audioWriteState = "ACTIVE"
    /\ emuPc = "rebuffer" => audioWriteState \in Underruns
    /\ emuPc = "activate" => audioWriteState = "BUFFER"

\* The target and one frame more fit the buffer, and a paused ring is empty.
BufferInv ==
    /\ capacity \in Capacities
    /\ mapped => BufferIncrement <= targetBufferFill
                 /\ targetBufferFill + BufferIncrement <= capacity
    /\ mainPc = "paused" => writeIdx = 0 /\ readIdx = 0

AudioInv == AudioTypeOK /\ ThreadInv /\ StateInv /\ BufferInv

-----------------------------------------------------------------------------
(* Resizing. *)

LEMMA RoundedUp ==
    ASSUME NEW fill \in Nat, BufferIncrement <= fill,
           fill <= MaxSoundBuffers * BufferIncrement \/ fill <= CapacityOfOneSec
    PROVE  /\ roundUpPowOf2(fill + BufferIncrement) \in Capacities
           /\ fill + BufferIncrement <= roundUpPowOf2(fill + BufferIncrement)
<1>1. fill \in 1..(MaxSoundBuffers * BufferIncrement) \cup 1..CapacityOfOneSec
  BY AudioAssumption
<1>2. \E c \in Capacities : RoundsUpTo(fill + BufferIncrement, c)
  BY <1>1, AudioAssumption
<1> DEFINE n == fill + BufferIncrement
           c == roundUpPowOf2(n)
<1> HIDE DEF n
<1>3. c \in Capacities /\ RoundsUpTo(n, c)
  BY <1>2 DEF roundUpPowOf2, n
<1> HIDE DEF c
<1>4. n <= c
  BY <1>3 DEF RoundsUpTo
<1> QED BY <1>3, <1>4 DEF n, c

\* resizeAudioBuffer with an admissible target, while nobody holds a span.
LEMMA Resizes ==
    ASSUME ~writing, ~reading, UNCHANGED transferVars,
           NEW fill \in Nat, BufferIncrement <= fill,
           fill <= MaxSoundBuffers * BufferIncrement \/ fill <= CapacityOfOneSec,
           resizeAudioBuffer(fill)
    PROVE  /\ capacity' \in Capacities
           /\ fill + BufferIncrement <= capacity'
           /\ Ring!ResizeNext
<1> DEFINE c == roundUpPowOf2(fill + BufferIncrement)
<1>1. c \in Capacities /\ fill + BufferIncrement <= c
  BY RoundedUp
<1>2. Ring!setMinCapacity(c)
  BY DEF resizeAudioBuffer
<1> HIDE DEF c
<1>3. capacity' = c
  BY <1>2 DEF Ring!setMinCapacity
<1>4. Ring!SetMinCapacity(c)
  BY <1>2 DEF Ring!SetMinCapacity, transferVars
<1>5. Ring!ResizeNext
  BY <1>1, <1>4 DEF Ring!ResizeNext
<1> QED BY <1>1, <1>3, <1>5

LEMMA Clears ==
    ASSUME ~writing, ~reading, UNCHANGED <<capacity, buff, transferVars>>, Ring!clear
    PROVE  Ring!ResizeNext
<1>1. Ring!Clear
  BY DEF Ring!Clear, transferVars
<1> QED BY <1>1 DEF Ring!ResizeNext, Ring!Next

-----------------------------------------------------------------------------
(* Each action keeps the invariant and is a step of the ring. *)

RingStep == [Ring!ResizeNext]_(Ring!ringVars)

LEMMA StartSilentKeeps ==
    ASSUME AudioInv, StartSilent
    PROVE  AudioInv' /\ RingStep
<1>1. UNCHANGED ringVars
  BY DEF StartSilent
<1>2. RingStep
  BY <1>1 DEF RingStep, ringVars, Ring!ringVars
<1>3. AudioTypeOK'
  BY DEF StartSilent, AudioInv, AudioTypeOK, ringVars, streamVars, argVars, speedVars
<1>4. ThreadInv' /\ StateInv' /\ BufferInv'
  BY DEF StartSilent, AudioInv, AudioTypeOK, ThreadInv, StateInv, BufferInv, Underruns,
     ringVars, streamVars, argVars, speedVars
<1> QED BY <1>2, <1>3, <1>4 DEF AudioInv

LEMMA PauseKeeps ==
    ASSUME AudioInv, Pause
    PROVE  AudioInv' /\ RingStep
<1>1. UNCHANGED ringVars
  BY DEF Pause
<1>2. RingStep
  BY <1>1 DEF RingStep, ringVars, Ring!ringVars
<1>3. AudioTypeOK'
  BY DEF Pause, AudioInv, AudioTypeOK, AudioWriteStates, ringVars, streamVars, argVars, speedVars
<1>4. ThreadInv' /\ StateInv' /\ BufferInv'
  BY DEF Pause, AudioInv, AudioTypeOK, ThreadInv, StateInv, BufferInv, Underruns, ringVars,
     streamVars, argVars, speedVars
<1> QED BY <1>2, <1>3, <1>4 DEF AudioInv

LEMMA SetRunSpeedKeeps ==
    ASSUME AudioInv, NEW alt \in BOOLEAN, SetRunSpeed(alt)
    PROVE  AudioInv' /\ RingStep
<1>1. UNCHANGED ringVars
  BY DEF SetRunSpeed
<1>2. RingStep
  BY <1>1 DEF RingStep, ringVars, Ring!ringVars
<1>3. AudioTypeOK'
  BY DEF SetRunSpeed, AudioInv, AudioTypeOK, ringVars, pcVars, streamVars, argVars,
         setSpeedMultiplier, updateAddBuffersOnUnderrun
<1>4. ThreadInv' /\ StateInv' /\ BufferInv'
  BY DEF SetRunSpeed, AudioInv, AudioTypeOK, ThreadInv, StateInv, BufferInv, Underruns,
     ringVars, pcVars, streamVars, argVars
<1> QED BY <1>2, <1>3, <1>4 DEF AudioInv

LEMMA SetAddSoundBuffersKeeps ==
    ASSUME AudioInv, NEW on \in BOOLEAN, SetAddSoundBuffers(on)
    PROVE  AudioInv' /\ RingStep
<1>1. UNCHANGED ringVars
  BY DEF SetAddSoundBuffers
<1>2. RingStep
  BY <1>1 DEF RingStep, ringVars, Ring!ringVars
<1>3. AudioTypeOK'
  BY DEF SetAddSoundBuffers, AudioInv, AudioTypeOK, ringVars, pcVars, streamVars, argVars
<1>4. ThreadInv' /\ StateInv' /\ BufferInv'
  BY DEF SetAddSoundBuffers, AudioInv, AudioTypeOK, ThreadInv, StateInv, BufferInv, Underruns,
     ringVars, pcVars, streamVars, argVars
<1> QED BY <1>2, <1>3, <1>4 DEF AudioInv

LEMMA SetEnabledDuringAltSpeedKeeps ==
    ASSUME AudioInv, SetEnabledDuringAltSpeed
    PROVE  AudioInv' /\ RingStep
<1>1. UNCHANGED ringVars
  BY DEF SetEnabledDuringAltSpeed
<1>2. RingStep
  BY <1>1 DEF RingStep, ringVars, Ring!ringVars
<1>3. AudioTypeOK'
  BY DEF SetEnabledDuringAltSpeed, AudioInv, AudioTypeOK, ringVars, pcVars, streamVars, argVars,
     updateAddBuffersOnUnderrun
<1>4. ThreadInv' /\ StateInv' /\ BufferInv'
  BY DEF SetEnabledDuringAltSpeed, AudioInv, AudioTypeOK, ThreadInv, StateInv, BufferInv,
     Underruns, ringVars, pcVars, streamVars, argVars
<1> QED BY <1>2, <1>3, <1>4 DEF AudioInv

LEMMA RebufferKeeps ==
    ASSUME AudioInv, Rebuffer
    PROVE  AudioInv' /\ RingStep
<1>1. UNCHANGED ringVars
  BY DEF Rebuffer
<1>2. RingStep
  BY <1>1 DEF RingStep, ringVars, Ring!ringVars
<1>3. AudioTypeOK'
  BY DEF Rebuffer, AudioInv, AudioTypeOK, AudioWriteStates, ringVars, streamVars, argVars, speedVars
<1>4. ThreadInv' /\ StateInv' /\ BufferInv'
  BY DEF Rebuffer, AudioInv, AudioTypeOK, ThreadInv, StateInv, BufferInv, Underruns, ringVars,
     streamVars, argVars, speedVars
<1> QED BY <1>2, <1>3, <1>4 DEF AudioInv

LEMMA CheckFillKeeps ==
    ASSUME AudioInv, CheckFill
    PROVE  AudioInv' /\ RingStep
<1>1. UNCHANGED ringVars
  BY DEF CheckFill
<1>2. RingStep
  BY <1>1 DEF RingStep, ringVars, Ring!ringVars
<1>3. AudioTypeOK'
  BY AudioAssumption DEF CheckFill, AudioInv, AudioTypeOK, ringVars, streamVars, speedVars
<1>4. ThreadInv' /\ StateInv' /\ BufferInv'
  BY DEF CheckFill, AudioInv, AudioTypeOK, ThreadInv, StateInv, BufferInv, Underruns, ringVars,
     streamVars, speedVars
<1> QED BY <1>2, <1>3, <1>4 DEF AudioInv

LEMMA ActivateKeeps ==
    ASSUME AudioInv, Activate
    PROVE  AudioInv' /\ RingStep
<1>1. UNCHANGED ringVars
  BY DEF Activate
<1>2. RingStep
  BY <1>1 DEF RingStep, ringVars, Ring!ringVars
<1>3. AudioTypeOK'
  BY DEF Activate, AudioInv, AudioTypeOK, AudioWriteStates, ringVars, streamVars, argVars, speedVars
<1>4. ThreadInv' /\ StateInv' /\ BufferInv'
  BY DEF Activate, AudioInv, AudioTypeOK, ThreadInv, StateInv, BufferInv, Underruns, ringVars,
     streamVars, argVars, speedVars
<1> QED BY <1>2, <1>3, <1>4 DEF AudioInv

LEMMA SamplesNeededKeeps ==
    ASSUME AudioInv, NEW n \in 1..MaxTransfer, SamplesNeeded(n)
    PROVE  AudioInv' /\ RingStep
<1>1. UNCHANGED ringVars
  BY DEF SamplesNeeded
<1>2. RingStep
  BY <1>1 DEF RingStep, ringVars, Ring!ringVars
<1>3. AudioTypeOK'
  BY DEF SamplesNeeded, AudioInv, AudioTypeOK, ringVars, streamVars, speedVars
<1>4. ThreadInv' /\ StateInv' /\ BufferInv'
  BY DEF SamplesNeeded, AudioInv, AudioTypeOK, ThreadInv, StateInv, BufferInv, Underruns,
     ringVars, streamVars, speedVars
<1> QED BY <1>2, <1>3, <1>4 DEF AudioInv

LEMMA UnderrunKeeps ==
    ASSUME AudioInv, Underrun
    PROVE  AudioInv' /\ RingStep
<1>1. UNCHANGED ringVars
  BY DEF Underrun
<1>2. RingStep
  BY <1>1 DEF RingStep, ringVars, Ring!ringVars
<1>3. AudioTypeOK'
  BY DEF Underrun, AudioInv, AudioTypeOK, AudioWriteStates, Underruns, ringVars, streamVars,
     speedVars
<1>4. ThreadInv' /\ StateInv' /\ BufferInv'
  BY DEF Underrun, AudioInv, AudioTypeOK, ThreadInv, StateInv, BufferInv, Underruns, ringVars,
     streamVars, speedVars
<1> QED BY <1>2, <1>3, <1>4 DEF AudioInv

LEMMA StreamClosedKeeps ==
    ASSUME AudioInv, StreamClosed
    PROVE  AudioInv' /\ RingStep
<1>1. ~writing /\ ~reading
  BY DEF StreamClosed, AudioInv, ThreadInv
<1>2. RingStep
  BY <1>1, Clears DEF RingStep, StreamClosed
<1>3. AudioTypeOK'
  BY DEF StreamClosed, AudioInv, AudioTypeOK, transferVars, argVars,
         setSpeedMultiplier, updateAddBuffersOnUnderrun
<1>4. ThreadInv' /\ StateInv' /\ BufferInv'
  BY DEF StreamClosed, AudioInv, AudioTypeOK, ThreadInv, StateInv, BufferInv, Underruns,
     Ring!clear, transferVars, argVars
<1> QED BY <1>2, <1>3, <1>4 DEF AudioInv

LEMMA CloseKeeps ==
    ASSUME AudioInv, Close
    PROVE  AudioInv' /\ RingStep
<1>1. ~writing /\ ~reading
  BY DEF Close, AudioInv, ThreadInv
<1>2. RingStep
  BY <1>1, Clears DEF RingStep, Close
<1>3. AudioTypeOK'
  BY DEF Close, AudioInv, AudioTypeOK, AudioWriteStates, transferVars, pcVars, argVars, speedVars
<1>4. ThreadInv' /\ StateInv' /\ BufferInv'
  BY DEF Close, AudioInv, AudioTypeOK, ThreadInv, StateInv, BufferInv, Underruns, Ring!clear,
     transferVars, pcVars, argVars, speedVars
<1> QED BY <1>2, <1>3, <1>4 DEF AudioInv

LEMMA OpenKeeps ==
    ASSUME AudioInv, Open
    PROVE  AudioInv' /\ RingStep
<1>1. ~writing /\ ~reading
  BY DEF Open, AudioInv, ThreadInv
<1>2. RingStep
  BY <1>1, Clears DEF RingStep, Open
<1>3. AudioTypeOK'
  BY DEF Open, AudioInv, AudioTypeOK, AudioWriteStates, transferVars, pcVars, argVars, speedVars
<1>4. ThreadInv' /\ StateInv' /\ BufferInv'
  BY DEF Open, AudioInv, AudioTypeOK, ThreadInv, StateInv, BufferInv, Underruns, Ring!clear,
     transferVars, pcVars, argVars, speedVars
<1> QED BY <1>2, <1>3, <1>4 DEF AudioInv

LEMMA SetFormatKeeps ==
    ASSUME AudioInv, SetFormat
    PROVE  AudioInv' /\ RingStep
<1>1. ~writing /\ ~reading
  BY DEF SetFormat, AudioInv, ThreadInv
<1>2. RingStep
  BY <1>1, Clears DEF RingStep, SetFormat
<1>3. AudioTypeOK'
  BY DEF SetFormat, AudioInv, AudioTypeOK, AudioWriteStates, transferVars, pcVars, streamVars, argVars, speedVars
<1>4. ThreadInv' /\ StateInv' /\ BufferInv'
  BY DEF SetFormat, AudioInv, AudioTypeOK, ThreadInv, StateInv, BufferInv, Underruns, Ring!clear,
     transferVars, pcVars, streamVars, argVars, speedVars
<1> QED BY <1>2, <1>3, <1>4 DEF AudioInv

LEMMA BeginWriteKeeps ==
    ASSUME AudioInv, BeginWrite
    PROVE  AudioInv' /\ RingStep
<1>1. \E data \in Ring!Transfers : Ring!BeginWrite(data)
  <2>1. framesToWrite \in 0..MaxTransfer
    BY DEF AudioInv, AudioTypeOK
  <2>2. [1..framesToWrite -> Values] \subseteq Ring!Transfers
    BY <2>1 DEF Ring!Transfers
  <2> QED BY <2>2 DEF BeginWrite
<1>2. RingStep
  BY <1>1 DEF RingStep, Ring!ResizeNext, Ring!Next
<1>3. AudioTypeOK'
  BY DEF BeginWrite, AudioInv, AudioTypeOK, streamVars, argVars, speedVars
<1>4. ThreadInv' /\ StateInv' /\ BufferInv'
  BY DEF BeginWrite, AudioInv, AudioTypeOK, ThreadInv, StateInv, BufferInv, Underruns,
     streamVars, argVars, speedVars, Ring!BeginWrite
<1> QED BY <1>2, <1>3, <1>4 DEF AudioInv

LEMMA CopyInKeeps ==
    ASSUME AudioInv, CopyIn
    PROVE  AudioInv' /\ RingStep
<1>1. Ring!CopyIn
  BY DEF CopyIn
<1>2. RingStep
  BY <1>1 DEF RingStep, Ring!ResizeNext, Ring!Next
<1>3. AudioTypeOK'
  BY DEF CopyIn, AudioInv, AudioTypeOK, pcVars, streamVars, argVars, speedVars
<1>4. ThreadInv' /\ StateInv' /\ BufferInv'
  BY DEF CopyIn, AudioInv, AudioTypeOK, ThreadInv, StateInv, BufferInv, Underruns, pcVars,
     streamVars, argVars, speedVars, Ring!CopyIn
<1> QED BY <1>2, <1>3, <1>4 DEF AudioInv

LEMMA EndWriteKeeps ==
    ASSUME AudioInv, EndWrite
    PROVE  AudioInv' /\ RingStep
<1>1. Ring!EndWrite
  BY DEF EndWrite
<1>2. RingStep
  BY <1>1 DEF RingStep, Ring!ResizeNext, Ring!Next
<1>3. AudioTypeOK'
  BY DEF EndWrite, AudioInv, AudioTypeOK, streamVars, argVars, speedVars
<1>4. ThreadInv' /\ StateInv' /\ BufferInv'
  BY DEF EndWrite, AudioInv, AudioTypeOK, ThreadInv, StateInv, BufferInv, Underruns, streamVars,
     argVars, speedVars, Ring!EndWrite
<1> QED BY <1>2, <1>3, <1>4 DEF AudioInv

LEMMA BeginReadKeeps ==
    ASSUME AudioInv, BeginRead
    PROVE  AudioInv' /\ RingStep
<1>1. \E n \in 0..MaxTransfer : Ring!BeginRead(n)
  BY DEF BeginRead, AudioInv, AudioTypeOK
<1>2. RingStep
  BY <1>1 DEF RingStep, Ring!ResizeNext, Ring!Next
<1>3. AudioTypeOK'
  BY DEF BeginRead, AudioInv, AudioTypeOK, streamVars, argVars, speedVars
<1>4. ThreadInv' /\ StateInv' /\ BufferInv'
  BY DEF BeginRead, AudioInv, AudioTypeOK, ThreadInv, StateInv, BufferInv, Underruns,
     streamVars, argVars, speedVars, Ring!BeginRead
<1> QED BY <1>2, <1>3, <1>4 DEF AudioInv

LEMMA CopyOutKeeps ==
    ASSUME AudioInv, CopyOut
    PROVE  AudioInv' /\ RingStep
<1>1. Ring!CopyOut
  BY DEF CopyOut
<1>2. RingStep
  BY <1>1 DEF RingStep, Ring!ResizeNext, Ring!Next
<1>3. AudioTypeOK'
  BY DEF CopyOut, AudioInv, AudioTypeOK, pcVars, streamVars, argVars, speedVars
<1>4. ThreadInv' /\ StateInv' /\ BufferInv'
  BY DEF CopyOut, AudioInv, AudioTypeOK, ThreadInv, StateInv, BufferInv, Underruns, pcVars,
     streamVars, argVars, speedVars, Ring!CopyOut
<1> QED BY <1>2, <1>3, <1>4 DEF AudioInv

LEMMA EndReadKeeps ==
    ASSUME AudioInv, EndRead
    PROVE  AudioInv' /\ RingStep
<1>1. Ring!EndRead
  BY DEF EndRead
<1>2. RingStep
  BY <1>1 DEF RingStep, Ring!ResizeNext, Ring!Next
<1>3. AudioTypeOK'
  BY AudioAssumption DEF EndRead, AudioInv, AudioTypeOK, streamVars, speedVars
<1>4. ThreadInv' /\ StateInv' /\ BufferInv'
  BY DEF EndRead, AudioInv, AudioTypeOK, ThreadInv, StateInv, BufferInv, Underruns, streamVars,
     speedVars, Ring!EndRead
<1> QED BY <1>2, <1>3, <1>4 DEF AudioInv

LEMMA StartKeeps ==
    ASSUME AudioInv, Start
    PROVE  AudioInv' /\ RingStep
<1>1. ~writing /\ ~reading /\ callbackPc = "idle" /\ emuPc = "idle"
  BY DEF Start, AudioInv, ThreadInv
<1> DEFINE fill == targetBufferFill'
<1>2. /\ fill \in Nat /\ BufferIncrement <= fill
      /\ fill <= MaxSoundBuffers * BufferIncrement
  <2>1. PICK soundBuffers \in 1..MaxSoundBuffers : fill = soundBuffers * BufferIncrement
    BY DEF Start
  <2>2. \A k \in 1..MaxSoundBuffers :
          /\ k * BufferIncrement \in Nat /\ BufferIncrement <= k * BufferIncrement
          /\ k * BufferIncrement <= MaxSoundBuffers * BufferIncrement
    BY AudioAssumption
  <2> QED BY <2>1, <2>2
<1>3. UNCHANGED transferVars /\ resizeAudioBuffer(fill)
  BY DEF Start
<1> HIDE DEF fill
<1>4. capacity' \in Capacities /\ fill + BufferIncrement <= capacity' /\ Ring!ResizeNext
  BY <1>1, <1>2, <1>3, Resizes
<1>5. AudioTypeOK'
  BY <1>2 DEF Start, AudioInv, AudioTypeOK, AudioWriteStates, transferVars, speedVars, fill
<1>6. ThreadInv' /\ StateInv'
  BY <1>1 DEF Start, AudioInv, ThreadInv, StateInv, transferVars
<1>7. BufferInv'
  BY <1>2, <1>4 DEF Start, BufferInv, fill
<1> QED BY <1>4, <1>5, <1>6, <1>7 DEF AudioInv, RingStep

LEMMA WriteFramesKeeps ==
    ASSUME AudioInv, NEW n \in 1..MaxTransfer, WriteFrames(n)
    PROVE  AudioInv' /\ RingStep
<1> USE DEF WriteFrames
<1>1. CASE audioWriteState = "MULTI_UNDERRUN" /\ canIncreaseBuffer
  <2>1. ~writing /\ ~reading /\ callbackPc = "idle"
    BY <1>1 DEF AudioInv, ThreadInv, StateInv
  <2> DEFINE fill == targetBufferFill + BufferIncrement
  <2>2. fill \in Nat /\ BufferIncrement <= fill /\ fill <= CapacityOfOneSec
    BY <1>1, AudioAssumption DEF AudioInv, AudioTypeOK, BufferInv, canIncreaseBuffer
  <2>3. /\ UNCHANGED transferVars /\ targetBufferFill' = fill
        /\ resizeAudioBuffer(fill)
    BY <1>1
  <2> HIDE DEF fill
  <2>4. capacity' \in Capacities /\ fill + BufferIncrement <= capacity' /\ Ring!ResizeNext
    BY <2>1, <2>2, <2>3, Resizes
  <2>5. AudioTypeOK'
    BY <2>2, <2>3 DEF AudioInv, AudioTypeOK, transferVars, speedVars
  <2>6. ThreadInv' /\ StateInv'
    BY <2>1 DEF AudioInv, ThreadInv, StateInv, transferVars, Underruns
  <2>7. BufferInv'
    BY <2>2, <2>3, <2>4 DEF BufferInv
  <2> QED BY <2>4, <2>5, <2>6, <2>7 DEF AudioInv, RingStep
<1>2. CASE ~(audioWriteState = "MULTI_UNDERRUN" /\ canIncreaseBuffer)
  <2>1. UNCHANGED <<targetBufferFill, ringVars>>
    BY <1>2 DEF ringVars, transferVars
  <2>2. RingStep
    BY <2>1 DEF RingStep, ringVars, Ring!ringVars
  <2>3. AudioTypeOK'
    BY <2>1 DEF AudioInv, AudioTypeOK, speedVars
  <2>4. ThreadInv' /\ StateInv' /\ BufferInv'
    BY <2>1 DEF AudioInv, ThreadInv, StateInv, BufferInv, ringVars, Underruns
  <2> QED BY <2>2, <2>3, <2>4 DEF AudioInv
<1> QED BY <1>1, <1>2

LEMMA StutterKeeps ==
    ASSUME AudioInv, UNCHANGED vars
    PROVE  AudioInv' /\ RingStep
BY DEF vars, AudioInv, AudioTypeOK, ThreadInv, StateInv, BufferInv, RingStep, Ring!ringVars,
       ringVars, pcVars, streamVars, argVars, speedVars

LEMMA StepKeeps ==
    ASSUME AudioInv, [Next]_vars
    PROVE  AudioInv' /\ RingStep
<1>1. CASE MainNext
  BY <1>1, StartSilentKeeps, StartKeeps, PauseKeeps, StreamClosedKeeps, CloseKeeps, OpenKeeps,
     SetFormatKeeps, SetRunSpeedKeeps, SetAddSoundBuffersKeeps, SetEnabledDuringAltSpeedKeeps DEF MainNext
<1>2. CASE WriteNext
  BY <1>2, WriteFramesKeeps, RebufferKeeps, BeginWriteKeeps, CopyInKeeps, EndWriteKeeps,
     CheckFillKeeps, ActivateKeeps DEF WriteNext
<1>3. CASE CallbackNext
  BY <1>3, SamplesNeededKeeps, BeginReadKeeps, CopyOutKeeps, EndReadKeeps, UnderrunKeeps
     DEF CallbackNext
<1>4. CASE UNCHANGED vars
  BY <1>4, StutterKeeps
<1> QED BY <1>1, <1>2, <1>3, <1>4 DEF Next

-----------------------------------------------------------------------------
(* The theorems. *)

LEMMA InitAudio == Init => AudioInv
<1> SUFFICES ASSUME Init
             PROVE  AudioInv
  OBVIOUS
<1>1. AudioTypeOK
  <2>1. 0 \in Nat /\ 0 \in 0..MaxTransfer
    BY AudioAssumption
  <2> QED BY <2>1 DEF Init, AudioTypeOK, AudioWriteStates
<1>2. ThreadInv /\ StateInv
  BY DEF Init, Ring!Init, ThreadInv, StateInv
<1>3. BufferInv
  BY DEF Init, Ring!Init, BufferInv
<1> QED BY <1>1, <1>2, <1>3 DEF AudioInv

\* The invariant holds in every reachable state.
THEOREM AudioInvariance == Spec => []AudioInv
<1>1. AudioInv /\ [Next]_vars => AudioInv'
  BY StepKeeps
<1> QED BY InitAudio, <1>1, PTL DEF Spec

\* The three threads are one writer and one reader of the ring, which is
\* cleared and resized only while neither holds a span.
THEOREM AudioUsesRing == Spec => UsesRingAsIntended
<1>1. Init => Ring!Init
  BY DEF Init
<1>2. AudioInv /\ [Next]_vars => [Ring!ResizeNext]_(Ring!ringVars)
  BY StepKeeps DEF RingStep
<1> QED BY AudioInvariance, <1>1, <1>2, PTL DEF Spec, UsesRingAsIntended, Ring!ResizeSpec

\* A paused system has no callback under way and an empty ring.
THEOREM AudioPausedIsQuiet == Spec => []PausedIsQuiet
<1>1. AudioInv => PausedIsQuiet
  <2> SUFFICES ASSUME AudioInv, mainPc = "paused"
               PROVE  PausedIsQuiet
    BY DEF PausedIsQuiet
  <2>1. stream # "open" /\ emuPc = "idle" /\ callbackPc = "idle"
    BY DEF AudioInv, ThreadInv
  <2>2. Ring!size = 0
    <3>1. capacity \in Nat \ {0} /\ writeIdx - readIdx = 0
      BY AudioAssumption DEF AudioInv, BufferInv
    <3>2. 0 % (2 * capacity) = 0
      BY <3>1
    <3> QED BY <3>1, <3>2 DEF Ring!size, Ring!wrapSize
  <2> QED BY <2>1, <2>2 DEF PausedIsQuiet
<1> QED BY AudioInvariance, <1>1, PTL

\* Samples are copied only into and out of a buffer that exists.
THEOREM AudioTransfersAreMapped == Spec => []TransfersAreMapped
<1>1. AudioInv => TransfersAreMapped
  BY DEF AudioInv, ThreadInv, TransfersAreMapped
<1> QED BY AudioInvariance, <1>1, PTL

\* An underrun is followed by buffering: no store of the writer overwrites it.
THEOREM AudioUnderrunsAreHandled == Spec => UnderrunsAreHandled
<1> DEFINE Handled == (audioWriteState \in Underruns /\ audioWriteState' \notin Underruns)
                        => audioWriteState' = "BUFFER"
<1>1. ASSUME AudioInv, [Next]_vars
      PROVE  Handled
  <2>1. CASE MainNext
    BY <2>1 DEF MainNext, StartSilent, Start, Pause, StreamClosed, Close, Open, SetFormat,
         SetRunSpeed, SetAddSoundBuffers, SetEnabledDuringAltSpeed
  <2>2. CASE WriteNext
    BY <2>2, <1>1 DEF WriteNext, WriteFrames, Rebuffer, BeginWrite, CopyIn, EndWrite, CheckFill,
         Activate, AudioInv, StateInv, Underruns
  <2>3. CASE CallbackNext
    BY <2>3 DEF CallbackNext, SamplesNeeded, BeginRead, CopyOut, EndRead, Underrun, Underruns
  <2>4. CASE UNCHANGED vars
    BY <2>4 DEF vars
  <2> QED BY <1>1, <2>1, <2>2, <2>3, <2>4 DEF Next
<1>2. AudioInv /\ [Next]_vars => [Handled]_vars
  BY <1>1
<1> QED BY AudioInvariance, <1>2, PTL DEF Spec, UnderrunsAreHandled

\* The ring of EmuAudio and the ring of RingBufferProofs are the same.
LEMMA SameSteps == Ring!ResizeNext => RingFacts!ResizeNext
<1>1. \A data : Ring!BeginWrite(data) => RingFacts!BeginWrite(data)
  BY DEF Ring!BeginWrite, RingFacts!BeginWrite, Ring!min, RingFacts!min, Ring!freeSpace,
     RingFacts!freeSpace, Ring!size, RingFacts!size, Ring!wrapSize, RingFacts!wrapSize
<1>2. Ring!CopyIn => RingFacts!CopyIn
  BY DEF Ring!CopyIn, RingFacts!CopyIn, Ring!wrapIdx, RingFacts!wrapIdx
<1>3. Ring!EndWrite => RingFacts!EndWrite
  BY DEF Ring!EndWrite, RingFacts!EndWrite
<1>4. \A n : Ring!BeginRead(n) => RingFacts!BeginRead(n)
  BY DEF Ring!BeginRead, RingFacts!BeginRead, Ring!min, RingFacts!min, Ring!size,
     RingFacts!size, Ring!wrapSize, RingFacts!wrapSize
<1>5. Ring!CopyOut => RingFacts!CopyOut
  BY DEF Ring!CopyOut, RingFacts!CopyOut, Ring!wrapIdx, RingFacts!wrapIdx
<1>6. Ring!EndRead => RingFacts!EndRead
  BY DEF Ring!EndRead, RingFacts!EndRead
<1>7. Ring!Clear => RingFacts!Clear
  BY DEF Ring!Clear, RingFacts!Clear, Ring!clear, RingFacts!clear
<1>8. \A n : Ring!SetMinCapacity(n) => RingFacts!SetMinCapacity(n)
  BY DEF Ring!SetMinCapacity, RingFacts!SetMinCapacity, Ring!setMinCapacity,
     RingFacts!setMinCapacity, Ring!clear, RingFacts!clear, Ring!size, RingFacts!size,
     Ring!wrapSize, RingFacts!wrapSize
<1>9. Ring!Transfers = RingFacts!Transfers
  BY DEF Ring!Transfers, RingFacts!Transfers
<1> QED BY <1>1, <1>2, <1>3, <1>4, <1>5, <1>6, <1>7, <1>8, <1>9
        DEF Ring!ResizeNext, RingFacts!ResizeNext, Ring!Next, RingFacts!Next

LEMMA SameSpans == RingFacts!SpansDisjoint => Ring!SpansDisjoint
BY DEF Ring!SpansDisjoint, RingFacts!SpansDisjoint, Ring!ReadCells, RingFacts!ReadCells,
   Ring!WriteCells, RingFacts!WriteCells, Ring!wrapIdx, RingFacts!wrapIdx, Ring!size,
   RingFacts!size, Ring!wrapSize, RingFacts!wrapSize

LEMMA SameTypes == RingFacts!TypeOK => Ring!TypeOK
BY DEF Ring!TypeOK, RingFacts!TypeOK, Ring!Cells, RingFacts!Cells

LEMMA UsesProvenRing == Spec => RingFacts!ResizeSpec
<1>1. Ring!Init => RingFacts!Init
  BY DEF Ring!Init, RingFacts!Init, Ring!Cells, RingFacts!Cells
<1>2. [Ring!ResizeNext]_(Ring!ringVars) => [RingFacts!ResizeNext]_(RingFacts!ringVars)
  <2>1. UNCHANGED Ring!ringVars => UNCHANGED RingFacts!ringVars
    BY DEF Ring!ringVars, RingFacts!ringVars
  <2> QED BY <2>1, SameSteps
<1> QED BY AudioUsesRing, <1>1, <1>2, PTL
        DEF UsesRingAsIntended, Ring!ResizeSpec, RingFacts!ResizeSpec

LEMMA RingAssumptionHolds == RingFacts!RingAssumption
BY AudioAssumption DEF RingFacts!RingAssumption

\* All variables, the ring's included, keep their types.
THEOREM AudioTypeCorrect == Spec => []TypeOK
<1>1. RingFacts!ResizeSpec => []RingFacts!TypeOK
  BY RingAssumptionHolds, RingFacts!ResizedTypeCorrect
<1>2. AudioInv /\ RingFacts!TypeOK => TypeOK
  BY SameTypes DEF AudioInv, TypeOK
<1> QED BY UsesProvenRing, AudioInvariance, <1>1, <1>2, PTL

\* The number of elements, and that it is none when the indexes are equal.
LEMMA Fill ==
    ASSUME NEW c \in Capacities, NEW d \in Int
    PROVE  d % (2 * c) \in Nat /\ 0 % (2 * c) = 0
<1>1. c \in Nat \ {0}
  BY AudioAssumption
<1> QED BY <1>1

\* Emulation starts with an empty ring.
LEMMA StartsShort ==
    ASSUME AudioInv, AudioInv', mapped', StartSilent \/ Start
    PROVE  Ring!size' < targetBufferFill'
<1>1. writeIdx = 0 /\ readIdx = 0
  BY DEF StartSilent, Start, AudioInv, BufferInv
<1>2. writeIdx' = 0 /\ readIdx' = 0
  BY <1>1 DEF StartSilent, Start, ringVars, resizeAudioBuffer, Ring!setMinCapacity, Ring!clear
<1>3. capacity' \in Capacities /\ 0 < targetBufferFill'
  BY AudioAssumption DEF AudioInv, AudioTypeOK, BufferInv
<1>4. 0 % (2 * capacity') = 0
  BY <1>3, Fill
<1> QED BY <1>2, <1>3, <1>4 DEF Ring!size, Ring!wrapSize

\* The writer tests the target last, and no callback reads before it is reached.
LEMMA StaysShort ==
    ASSUME AudioInv, Ring!TypeOK, Next, ~StartSilent, ~Start, BufferingIsShortOfTarget,
           mainPc' = "running", mapped', emuPc' = "idle", audioWriteState' = "BUFFER"
    PROVE  Ring!size' < targetBufferFill'
<1> DEFINE Quiet == /\ mainPc = "running" /\ emuPc = "idle" /\ audioWriteState = "BUFFER"
                    /\ mapped /\ UNCHANGED <<capacity, writeIdx, readIdx, targetBufferFill>>
<1> USE DEF ringVars, pcVars, streamVars, argVars, transferVars
<1>1. CASE MainNext
  <2>1. Quiet
    BY <1>1 DEF MainNext, Pause, StreamClosed, Close, Open, SetFormat, SetRunSpeed,
       SetAddSoundBuffers, SetEnabledDuringAltSpeed
  <2> QED BY <2>1 DEF BufferingIsShortOfTarget, Ring!size, Ring!wrapSize
<1>2. CASE WriteNext
  <2>1. CheckFill
    BY <1>2 DEF WriteNext, WriteFrames, Rebuffer, BeginWrite, CopyIn, EndWrite, Activate
  <2>2. /\ Ring!size' = Ring!size /\ targetBufferFill' = targetBufferFill
        /\ ~(Ring!size + framesToWrite >= targetBufferFill)
    BY <2>1 DEF CheckFill, shouldStartAudioWrites, Ring!size, Ring!wrapSize
  <2>3. Ring!size \in Nat
    <3>1. writeIdx - readIdx \in Int /\ capacity \in Capacities
      BY AudioAssumption DEF AudioInv, BufferInv, Ring!TypeOK
    <3> QED BY <3>1, Fill DEF Ring!size, Ring!wrapSize
  <2>4. framesToWrite \in Nat /\ targetBufferFill \in Nat
    BY AudioAssumption DEF AudioInv, AudioTypeOK
  <2> QED BY <2>2, <2>3, <2>4
<1>3. CASE CallbackNext
  <2>1. callbackPc # "idle" => audioWriteState = "ACTIVE" \/ mainPc # "running"
    BY DEF AudioInv, StateInv
  <2> QED BY <1>3, <2>1 DEF CallbackNext, SamplesNeeded, BeginRead, CopyOut, EndRead,
             Underrun, Underruns
<1> QED BY <1>1, <1>2, <1>3 DEF Next

\* While sound is off the fill is below the target between frames, and the
\* target within the buffer: playback is never out of reach.
THEOREM AudioBufferingIsShort == Spec => []BufferingIsShortOfTarget
<1>1. Init => BufferingIsShortOfTarget
  BY DEF Init, BufferingIsShortOfTarget
<1>2. ASSUME AudioInv, AudioInv', Ring!TypeOK, [Next]_vars, BufferingIsShortOfTarget
      PROVE  BufferingIsShortOfTarget'
  <2> SUFFICES ASSUME mainPc' = "running", mapped'
               PROVE  /\ targetBufferFill' + BufferIncrement <= capacity'
                      /\ emuPc' = "idle" /\ audioWriteState' = "BUFFER"
                           => Ring!size' < targetBufferFill'
    BY DEF BufferingIsShortOfTarget
  <2>1. targetBufferFill' + BufferIncrement <= capacity'
    BY <1>2 DEF AudioInv, BufferInv
  <2>2. ASSUME emuPc' = "idle", audioWriteState' = "BUFFER"
        PROVE  Ring!size' < targetBufferFill'
    <3>1. CASE UNCHANGED vars
      BY <1>2, <2>2, <3>1 DEF vars, ringVars, pcVars, streamVars, BufferingIsShortOfTarget,
         Ring!size, Ring!wrapSize
    <3> QED BY <1>2, <2>2, <3>1, StartsShort, StaysShort
  <2> QED BY <2>1, <2>2
<1>3. TypeOK => Ring!TypeOK
  BY DEF TypeOK
<1> QED BY AudioInvariance, AudioTypeCorrect, <1>1, <1>2, <1>3, PTL DEF Spec

\* What RingBufferProofs shows of the ring holds here: the spans of the
\* emulation thread and of the callback never overlap.
THEOREM AudioSpansDisjoint == Spec => []Ring!SpansDisjoint
<1>1. RingFacts!ResizeSpec => []RingFacts!SpansDisjoint
  BY RingAssumptionHolds, RingFacts!ResizedSpansDisjoint
<1> QED BY UsesProvenRing, SameSpans, <1>1, PTL
=============================================================================
