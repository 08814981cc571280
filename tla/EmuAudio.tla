------------------------------ MODULE EmuAudio ------------------------------
(***************************************************************************)
(* EmuAudio.cc: three threads around one ring.  The emulation thread       *)
(* writes each frame's samples, the output stream's callback reads them,   *)
(* and the main thread starts and stops both.  No lock protects the ring:  *)
(* audioWriteState decides who may touch what.  A transfer unit is one     *)
(* sample frame, an element of RingBuffer.                                 *)
(*                                                                         *)
(* The user interface changes audio settings only while the emulation is   *)
(* paused, and every pause stops the stream, so start() always finds the   *)
(* stream closed, and flush(), called after a pause, finds nothing to do:  *)
(* neither the other half of start() nor flush() is here.                  *)
(***************************************************************************)
EXTENDS Integers, Sequences

CONSTANTS
    Values, Zero, Capacities, IndexModulus, MaxTransfer, \* of RingBuffer
    BufferIncrement,   \* bufferIncrementBytes: the samples of one video frame
    MaxSoundBuffers,   \* the largest soundBuffers setting
    CapacityOfOneSec   \* the hard cap of a buffer increase

\* c is n rounded up to a power of two.
RoundsUpTo(n, c) == n <= c /\ c < 2 * n

\* The ring's own assumptions, and capacities that suffice for every target.
ASSUME AudioAssumption ==
    /\ Zero \in Values
    /\ Capacities \subseteq Nat \ {0}
    /\ IndexModulus \in Nat \ {0}
    /\ \A c \in Capacities : IndexModulus % (2 * c) = 0
    /\ MaxTransfer \in Nat
    /\ BufferIncrement \in Nat \ {0}
    /\ MaxSoundBuffers \in Nat \ {0}
    /\ CapacityOfOneSec \in Nat
    /\ \A n \in 1..(MaxSoundBuffers * BufferIncrement) \cup 1..CapacityOfOneSec :
         n >= BufferIncrement
           => \E c \in Capacities : RoundsUpTo(n + BufferIncrement, c)

VARIABLES
    capacity, buff, writeIdx, readIdx, writing, span, copiedIn,
    reading, wanted, copyOut, taken,   \* of RingBuffer
    mainPc,            \* the main thread: "paused", "running" or "stopping"
    emuPc,             \* the emulation thread in writeFrames
    callbackPc,        \* the stream's callback
    audioWriteState,
    stream,            \* "none" (NullOutputStream), "closed" or "open"
    mapped,            \* rBuff has a buffer
    targetBufferFill,  \* targetBufferFillBytes
    framesToWrite,     \* writeFrames' argument
    samplesNeeded,     \* the callback's argument
    recentUnderrun,    \* lastUnderrunTime may be less than a second ago
    altSpeed,          \* speedMultiplier # 1
    addSoundBuffersOnUnderrun,
    addSoundBuffersOnUnderrunSetting

ringVars == <<capacity, buff, writeIdx, readIdx, writing, span, copiedIn,
              reading, wanted, copyOut, taken>>
transferVars == <<writing, span, copiedIn, reading, wanted, copyOut, taken>>
pcVars == <<mainPc, emuPc, callbackPc>>
streamVars == <<stream, mapped, targetBufferFill>>
argVars == <<framesToWrite, samplesNeeded, recentUnderrun>>
speedVars == <<altSpeed, addSoundBuffersOnUnderrun, addSoundBuffersOnUnderrunSetting>>

vars == <<ringVars, pcVars, audioWriteState, streamVars, argVars, speedVars>>

Ring == INSTANCE RingBuffer

AudioWriteStates == {"BUFFER", "ACTIVE", "UNDERRUN", "MULTI_UNDERRUN"}

Underruns == {"UNDERRUN", "MULTI_UNDERRUN"}

AudioTypeOK ==
    /\ mainPc \in {"paused", "running", "stopping"}
    /\ emuPc \in {"idle", "rebuffer", "write", "copy", "check", "activate"}
    /\ callbackPc \in {"idle", "active", "copy", "short"}
    /\ audioWriteState \in AudioWriteStates
    /\ stream \in {"none", "closed", "open"}
    /\ mapped \in BOOLEAN
    /\ targetBufferFill \in Nat
    /\ framesToWrite \in 0..MaxTransfer
    /\ samplesNeeded \in 0..MaxTransfer
    /\ recentUnderrun \in BOOLEAN
    /\ altSpeed \in BOOLEAN
    /\ addSoundBuffersOnUnderrun \in BOOLEAN
    /\ addSoundBuffersOnUnderrunSetting \in BOOLEAN

TypeOK == Ring!TypeOK /\ AudioTypeOK

\* The settings have been read from the configuration file.
Init ==
    /\ Ring!Init
    /\ mainPc = "paused" /\ emuPc = "idle" /\ callbackPc = "idle"
    /\ audioWriteState = "BUFFER"
    /\ stream = "none" /\ mapped = FALSE /\ targetBufferFill = 0
    /\ framesToWrite = 0 /\ samplesNeeded = 0 /\ recentUnderrun = FALSE
    /\ altSpeed = FALSE
    /\ addSoundBuffersOnUnderrun = FALSE
    /\ addSoundBuffersOnUnderrunSetting \in BOOLEAN

roundUpPowOf2_Exact(n) == n  \* a bug: not rounded

roundUpPowOf2(n) == CHOOSE c \in Capacities : RoundsUpTo(n, c)

resizeAudioBuffer(fill) == Ring!setMinCapacity(roundUpPowOf2(fill + BufferIncrement))

\* A bug: the target has to be exceeded.
shouldStartAudioWrites_Exceeds(toWrite) == Ring!size > targetBufferFill

shouldStartAudioWrites(toWrite) == Ring!size + toWrite >= targetBufferFill

updateAddBuffersOnUnderrun(setting, alt) ==
    addSoundBuffersOnUnderrun' = (setting /\ ~alt)

\* setSpeedMultiplier: returns early when the speed is the same.
setSpeedMultiplier(alt) ==
    /\ altSpeed' = alt
    /\ IF alt = altSpeed
         THEN UNCHANGED addSoundBuffersOnUnderrun
         ELSE updateAddBuffersOnUnderrun(addSoundBuffersOnUnderrunSetting, alt)
    /\ UNCHANGED addSoundBuffersOnUnderrunSetting

canIncreaseBuffer ==
    /\ ~altSpeed
    /\ addSoundBuffersOnUnderrun
    /\ capacity <= CapacityOfOneSec

-----------------------------------------------------------------------------
(* Bugs the code could have, each caught by a property of a run. *)

\* close() returns while a callback is still copying.
StreamClosed_NoWait ==
    /\ mainPc = "stopping"
    /\ mainPc' = "paused"
    /\ stream' = IF stream = "open" THEN "closed" ELSE stream
    /\ Ring!clear
    /\ setSpeedMultiplier(FALSE)
    /\ UNCHANGED <<capacity, buff, transferVars, emuPc, callbackPc, audioWriteState,
                   mapped, targetBufferFill, argVars>>

\* runFrames is passed the audio although it has no buffer.
WriteFrames_Unmapped(n) ==
    /\ mainPc = "running"
    /\ emuPc = "idle"
    /\ framesToWrite' = n
    /\ emuPc' = "write"
    /\ UNCHANGED <<ringVars, mainPc, callbackPc, audioWriteState, streamVars,
                   samplesNeeded, recentUnderrun, speedVars>>

\* MULTI_UNDERRUN does not fall through to UNDERRUN.
WriteFrames_NoFallthrough(n) ==
    /\ mainPc = "running"
    /\ mapped
    /\ emuPc = "idle"
    /\ framesToWrite' = n
    /\ emuPc' = IF audioWriteState = "UNDERRUN" THEN "rebuffer" ELSE "write"
    /\ UNCHANGED <<ringVars, mainPc, callbackPc, audioWriteState, streamVars,
                   samplesNeeded, recentUnderrun, speedVars>>

\* Playback is started without looking at the state again.
CheckFill_AnyState ==
    /\ emuPc = "check"
    /\ emuPc' = IF shouldStartAudioWrites(framesToWrite) THEN "activate" ELSE "idle"
    /\ framesToWrite' = 0
    /\ UNCHANGED <<ringVars, mainPc, callbackPc, audioWriteState, streamVars,
                   samplesNeeded, recentUnderrun, speedVars>>

\* The callback records an underrun as soon as it sees one, before it copies.
BeginRead_RecordsUnderrun ==
    /\ callbackPc = "active"
    /\ Ring!BeginRead(samplesNeeded)
    /\ callbackPc' = "copy"
    /\ IF Ring!size < samplesNeeded
         THEN /\ audioWriteState' = IF recentUnderrun THEN "MULTI_UNDERRUN" ELSE "UNDERRUN"
              /\ recentUnderrun' = TRUE
         ELSE UNCHANGED <<audioWriteState, recentUnderrun>>
    /\ UNCHANGED <<mainPc, emuPc, streamVars, framesToWrite, samplesNeeded, speedVars>>

-----------------------------------------------------------------------------
(* The main thread. *)

\* EmuSystem::start and EmuSystemTask::start without sound.
StartSilent ==
    /\ mainPc = "paused"
    /\ stream = "none"
    /\ mainPc' = "running"
    /\ UNCHANGED <<ringVars, emuPc, callbackPc, audioWriteState, streamVars, argVars, speedVars>>

\* The same with sound.  The result of opening the stream is ignored.  A
\* buffer that reset() freed is allocated here.
Start ==
    /\ mainPc = "paused"
    /\ stream = "closed"
    /\ mainPc' = "running"
    /\ \E soundBuffers \in 1..MaxSoundBuffers :
         targetBufferFill' = soundBuffers * BufferIncrement
    /\ resizeAudioBuffer(targetBufferFill')
    /\ mapped' = TRUE
    /\ audioWriteState' = "BUFFER"
    /\ recentUnderrun' = FALSE
    /\ stream' \in {"open", "closed"}
    /\ UNCHANGED <<transferVars, emuPc, callbackPc, framesToWrite, samplesNeeded, speedVars>>

\* EmuApp::pauseEmulation: the emulation thread has ended, stop() begins.
Pause ==
    /\ mainPc = "running"
    /\ emuPc = "idle"
    /\ mainPc' = "stopping"
    /\ audioWriteState' = "BUFFER"
    /\ UNCHANGED <<ringVars, emuPc, callbackPc, streamVars, argVars, speedVars>>

\* The stream is closed, which waits for a callback under way, then the ring
\* is cleared and the speed reset.
StreamClosed ==
    /\ mainPc = "stopping"
    /\ callbackPc = "idle"
    /\ mainPc' = "paused"
    /\ stream' = IF stream = "open" THEN "closed" ELSE stream
    /\ Ring!clear
    /\ setSpeedMultiplier(FALSE)
    /\ UNCHANGED <<capacity, buff, transferVars, emuPc, callbackPc, audioWriteState,
                   mapped, targetBufferFill, argVars>>

\* setRunSpeed while the emulation runs, in a SuspendContext between frames.
SetRunSpeed(alt) ==
    /\ mainPc = "running"
    /\ emuPc = "idle"
    /\ setSpeedMultiplier(alt)
    /\ UNCHANGED <<ringVars, pcVars, audioWriteState, streamVars, argVars>>

\* close(), and open() with sound disabled.
Close ==
    /\ mainPc = "paused"
    /\ audioWriteState' = "BUFFER"
    /\ stream' = "none"
    /\ mapped' = FALSE
    /\ Ring!clear
    /\ UNCHANGED <<capacity, buff, transferVars, pcVars, targetBufferFill, argVars, speedVars>>

\* open() with sound enabled: on resume, or after a change of settings.
Open ==
    /\ mainPc = "paused"
    /\ audioWriteState' = "BUFFER"
    /\ stream' = "closed"
    /\ mapped' = FALSE
    /\ Ring!clear
    /\ UNCHANGED <<capacity, buff, transferVars, pcVars, targetBufferFill, argVars, speedVars>>

\* setRate and setStereo with a new value: stop() finds the stream closed, and
\* the next start() opens it with the new format.
SetFormat ==
    /\ mainPc = "paused"
    /\ audioWriteState' = "BUFFER"
    /\ Ring!clear
    /\ UNCHANGED <<capacity, buff, transferVars, pcVars, streamVars, argVars, speedVars>>

\* AudioOptionView's "Auto-increase Buffer Size".
SetAddSoundBuffers(on) ==
    /\ mainPc = "paused"
    /\ addSoundBuffersOnUnderrunSetting' = on
    /\ UNCHANGED <<ringVars, pcVars, audioWriteState, streamVars, argVars,
                   altSpeed, addSoundBuffersOnUnderrun>>

SetEnabledDuringAltSpeed ==
    /\ mainPc = "paused"
    /\ updateAddBuffersOnUnderrun(addSoundBuffersOnUnderrunSetting, altSpeed)
    /\ UNCHANGED <<ringVars, pcVars, audioWriteState, streamVars, argVars,
                   altSpeed, addSoundBuffersOnUnderrunSetting>>

-----------------------------------------------------------------------------
(* The emulation thread: writeFrames, from one shared access to the next. *)

\* A frame's samples arrive and the state is read.
WriteFrames(n) ==
    /\ mainPc = "running"
    /\ mapped
    /\ emuPc = "idle"
    /\ framesToWrite' = n
    /\ emuPc' = IF audioWriteState \in Underruns THEN "rebuffer" ELSE "write"
    /\ IF audioWriteState = "MULTI_UNDERRUN" /\ canIncreaseBuffer
         THEN /\ targetBufferFill' = targetBufferFill + BufferIncrement
              /\ resizeAudioBuffer(targetBufferFill')
         ELSE UNCHANGED <<targetBufferFill, capacity, buff, writeIdx, readIdx>>
    /\ UNCHANGED <<transferVars, mainPc, callbackPc, audioWriteState, stream, mapped,
                   samplesNeeded, recentUnderrun, speedVars>>

Rebuffer ==
    /\ emuPc = "rebuffer"
    /\ audioWriteState' = "BUFFER"
    /\ emuPc' = "write"
    /\ UNCHANGED <<ringVars, mainPc, callbackPc, streamVars, argVars, speedVars>>

BeginWrite ==
    /\ emuPc = "write"
    /\ \E data \in [1..framesToWrite -> Values] : Ring!BeginWrite(data)
    /\ emuPc' = "copy"
    /\ UNCHANGED <<mainPc, callbackPc, audioWriteState, streamVars, argVars, speedVars>>

CopyIn ==
    /\ emuPc = "copy"
    /\ Ring!CopyIn
    /\ UNCHANGED <<pcVars, audioWriteState, streamVars, argVars, speedVars>>

EndWrite ==
    /\ emuPc = "copy"
    /\ Ring!EndWrite
    /\ emuPc' = "check"
    /\ UNCHANGED <<mainPc, callbackPc, audioWriteState, streamVars, argVars, speedVars>>

\* The state is read again and the fill compared with the target.
CheckFill ==
    /\ emuPc = "check"
    /\ emuPc' = IF audioWriteState = "BUFFER" /\ shouldStartAudioWrites(framesToWrite)
                  THEN "activate" ELSE "idle"
    /\ framesToWrite' = 0
    /\ UNCHANGED <<ringVars, mainPc, callbackPc, audioWriteState, streamVars,
                   samplesNeeded, recentUnderrun, speedVars>>

Activate ==
    /\ emuPc = "activate"
    /\ audioWriteState' = "ACTIVE"
    /\ emuPc' = "idle"
    /\ UNCHANGED <<ringVars, mainPc, callbackPc, streamVars, argVars, speedVars>>

-----------------------------------------------------------------------------
(* The stream's callback.  In any other state it plays silence. *)

SamplesNeeded(n) ==
    /\ stream = "open"
    /\ callbackPc = "idle"
    /\ audioWriteState = "ACTIVE"
    /\ samplesNeeded' = n
    /\ callbackPc' = "active"
    /\ UNCHANGED <<ringVars, mainPc, emuPc, audioWriteState, streamVars,
                   framesToWrite, recentUnderrun, speedVars>>

BeginRead ==
    /\ callbackPc = "active"
    /\ Ring!BeginRead(samplesNeeded)
    /\ callbackPc' = "copy"
    /\ UNCHANGED <<mainPc, emuPc, audioWriteState, streamVars, argVars, speedVars>>

CopyOut ==
    /\ callbackPc = "copy"
    /\ Ring!CopyOut
    /\ UNCHANGED <<pcVars, audioWriteState, streamVars, argVars, speedVars>>

EndRead ==
    /\ callbackPc = "copy"
    /\ Ring!EndRead
    /\ callbackPc' = IF wanted < samplesNeeded THEN "short" ELSE "idle"
    /\ samplesNeeded' = 0
    /\ UNCHANGED <<mainPc, emuPc, audioWriteState, streamVars,
                   framesToWrite, recentUnderrun, speedVars>>

\* The rest is silence; whether a second has passed is left open.
Underrun ==
    /\ callbackPc = "short"
    /\ audioWriteState' \in IF recentUnderrun THEN Underruns ELSE {"UNDERRUN"}
    /\ recentUnderrun' = TRUE
    /\ callbackPc' = "idle"
    /\ UNCHANGED <<ringVars, mainPc, emuPc, streamVars, framesToWrite, samplesNeeded, speedVars>>

-----------------------------------------------------------------------------
MainNext ==
    \/ StartSilent \/ Start \/ Pause \/ StreamClosed \/ Close \/ Open \/ SetFormat
    \/ \E alt \in BOOLEAN : SetRunSpeed(alt)
    \/ \E on \in BOOLEAN : SetAddSoundBuffers(on)
    \/ SetEnabledDuringAltSpeed

WriteNext ==
    \/ \E n \in 1..MaxTransfer : WriteFrames(n)
    \/ Rebuffer \/ BeginWrite \/ CopyIn \/ EndWrite \/ CheckFill \/ Activate

CallbackNext ==
    \/ \E n \in 1..MaxTransfer : SamplesNeeded(n)
    \/ BeginRead \/ CopyOut \/ EndRead \/ Underrun

Next == MainNext \/ WriteNext \/ CallbackNext

\* Frames keep coming while the emulation runs and a call once made ends.
\* Nothing makes the main thread act or the device ask for samples.
Fairness ==
    /\ WF_vars(WriteNext)
    /\ WF_vars(BeginRead \/ CopyOut \/ EndRead \/ Underrun)
    /\ WF_vars(StreamClosed)

Spec == Init /\ [][Next]_vars /\ Fairness
-----------------------------------------------------------------------------
(* Properties. *)

\* Every step of the three threads is a step the ring allows: one writer, one
\* reader, and it is cleared, replaced or grown only while neither holds a
\* span.  Nothing but audioWriteState and the order of calls sees to that.
UsesRingAsIntended == Ring!ResizeSpec

\* Once paused, no callback is under way, none can begin, and nothing that one
\* did while the stream was closing has left samples in the ring: the next
\* start() begins with silence.
PausedIsQuiet ==
    mainPc = "paused" =>
        /\ stream # "open"
        /\ emuPc = "idle" /\ callbackPc = "idle"
        /\ Ring!size = 0

\* Samples are copied only into and out of a buffer that exists
\* ("assume(rBuff.capacity())", and the callback has no check at all).
TransfersAreMapped == writing \/ reading \/ callbackPc # "idle" => mapped

\* An underrun the callback has recorded is not overwritten by the writer's
\* own state change: it always leads back to buffering.
UnderrunsAreHandled ==
    [][(audioWriteState \in Underruns /\ audioWriteState' \notin Underruns)
         => audioWriteState' = "BUFFER"]_vars

\* Sound is never off for good: the buffer has room for the target and more, and
\* whenever a frame has left the state at buffering the target is still to be
\* reached, since no callback drains the ring meanwhile (EmuAudio.cc:247-317).
BufferingIsShortOfTarget ==
    mainPc = "running" /\ mapped =>
        /\ targetBufferFill + BufferIncrement <= capacity
        /\ emuPc = "idle" /\ audioWriteState = "BUFFER" => Ring!size < targetBufferFill

\* While the emulation runs with sound, playback starts, and starts again
\* after every underrun: the target is never out of the buffer's reach.
PlaybackStarts ==
    mainPc = "running" /\ mapped ~> audioWriteState = "ACTIVE" \/ mainPc # "running"

\* "audio starts when the buffer reaches target size" (EmuAudio.cc:79)
StartsAtTarget ==
    [][audioWriteState # "ACTIVE" /\ audioWriteState' = "ACTIVE"
         => Ring!size >= targetBufferFill]_vars

\* "maintain buffer content if increasing size" (RingBuffer.hh:206)
ContentKeptByGrowth ==
    [][mapped /\ capacity' > capacity /\ mainPc = "running"
         => Ring!content' = Ring!content]_vars

\* "addSoundBuffersOnUnderrun = speedMultiplier == 1. ?
\* addSoundBuffersOnUnderrunSetting : false" (EmuAudio.cc:368)
AutoIncreaseFollowsSetting ==
    mainPc = "running" =>
        addSoundBuffersOnUnderrun = (~altSpeed /\ addSoundBuffersOnUnderrunSetting)
=============================================================================
