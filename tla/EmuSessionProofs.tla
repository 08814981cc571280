--------------------------- MODULE EmuSessionProofs ---------------------------
(***************************************************************************)
(* Proofs about EmuSession.  The invariant has five named parts: where a   *)
(* handler can be, what a loader thread excludes, when the timers are      *)
(* armed, what the result of a save is worth, and which memory a backup    *)
(* file holds.  None of them alone is kept by every step.                  *)
(*                                                                         *)
(* The rewind ring is left to RewindManagerProofs: every step of the       *)
(* session is one of the ring, so what is proved there holds here.         *)
(***************************************************************************)
EXTENDS EmuSession, TLAPS

RewindFacts == INSTANCE RewindManagerProofs WITH saveTimer <- rewindTimer

Savers == {"timer", "manual", "close", "create", "exit", "switch", "reload"}

Loads == {"load", "loadNoState"}

Backups == {"none", "own", "other", "unloaded"}

StateFiles == {"none"} \union Complete \union Incomplete

\* TypeOK without the ring, in two parts.
FlagTypes ==
    /\ hasContent \in BOOLEAN
    /\ active \in BOOLEAN /\ background \in BOOLEAN
    /\ saveIO \in BOOLEAN /\ unread \in BOOLEAN
    /\ onlyBackup \in BOOLEAN
    /\ autosaveTimer \in BOOLEAN
    /\ saved \in BOOLEAN

SessionTypes ==
    /\ kind \in Kinds
    /\ loader \in {"idle", "starting", "loading", "ok", "failed", "alert"}
    /\ slot \in Slots \union {NoSave}
    /\ stateIO \in {None, slot}
    /\ stateIO # NoSave
    /\ memOf \in Slots \union {None}
    /\ dirs \subseteq ExtraSlots
    /\ stateFile \in [Slots -> StateFiles]
    /\ backupFile \in [Slots -> Backups]
    /\ pc \in {"idle", "write", "load", "loadNoState", "cont"}
    /\ after \in Followers
    /\ target \in Slots \union {NoSave, None}

\* Where a handler can be, and what holds there.
ControlInv ==
    /\ pc = "idle" => after = "none"
    /\ pc = "write" => after \in Savers /\ stateIO # None
    /\ pc \in Loads => after \in {"launch", "revert", "switched"} /\ hasContent
    /\ pc = "cont" => after \in Savers \union {"reloaded", "show"}
    /\ after \in {"switch", "reload", "reloaded"} => hasContent
    /\ after = "switch" => target # None
    /\ after = "reloaded" => slot # NoSave
    /\ slot \in ExtraSlots => slot \in dirs
    /\ background => after \notin {"manual", "create", "exit", "switch", "reload"}

\* From the start of a loader thread to the launch, nothing of the content is
\* open and the only handler that can start is the exit handler.
LoaderInv ==
    loader # "idle" =>
        /\ stateIO = None /\ slot = Main /\ memOf = None
        /\ pc = "idle" \/ after = "exit"
        /\ loader \in {"starting", "loading"} => pc = "idle"
        /\ loader \in {"loading", "ok", "alert"} => hasContent
        /\ ~active

\* A state that is loaded in the menus arms the autosave timer just before
\* the content is shown.
TimerInv ==
    /\ rewindTimer => active
    /\ active => hasContent /\ (pc = "idle" \/ after = "timer")
    /\ autosaveTimer /\ ~active => pc = "cont" /\ after = "show" /\ hasContent

\* A save of both kinds of progress succeeded.
Durable == saved /\ slot # NoSave /\ ~onlyBackup

SaveInv ==
    /\ saved => background \/ (pc = "cont" /\ after \in Savers)
    /\ pc = "cont" /\ after \in {"exit", "switch"} /\ Durable
         => loader = "idle" /\ stateFile[slot] = "current"
    /\ background /\ Durable
         => \/ after \in {"close", "timer"}
            \/ pc = "idle" /\ loader = "idle" /\ stateFile[slot] = "current"

\* Memory in use is the slot's, except between a switch and the load that
\* follows it, or where a load keeps what is there: then the slot has no file
\* of its own, or one that could not be read.
MemInv ==
    /\ \A s \in ExtraSlots \ dirs : backupFile[s] = "none"
    /\ ~hasContent \/ after = "reloaded" => memOf = None
    /\ kind = "static" => (saveIO => memOf = Main) /\ backupFile[Main] \in {"none", "own"}
    /\ kind # "keeps" => \A s \in ExtraSlots : backupFile[s] # "other"
    /\ kind \in Paths /\ slot # NoSave /\ pc \notin Loads
         => \/ memOf \in {None, slot}
            \/ kind = "keeps" /\ (unread \/ backupFile[slot] \in {"none", "other"})

SessionInv ==
    FlagTypes /\ SessionTypes /\ ControlInv /\ LoaderInv /\ TimerInv /\ SaveInv /\ MemInv

-----------------------------------------------------------------------------
(* What the pieces of handlers do. *)

\* A step writes one slot's memory to another's file where it may.
MemoryKept ==
    \A s \in Slots : backupFile[s] # "other" /\ backupFile'[s] = "other"
        => \/ slot = NoSave /\ s = Main
           \/ kind = "keeps" /\ (backupFile[s] = "none" \/ unread)

\* A step writes to backup files only what belongs there; kept memory that is
\* another slot's does not make a file the slot's own.
BackupKept ==
    /\ backupFile' \in [Slots -> Backups]
    /\ \A s \in ExtraSlots \ dirs : backupFile'[s] = "none"
    /\ kind = "static" => backupFile'[Main] \in {"none", "own"}
    /\ kind # "keeps" => \A s \in ExtraSlots : backupFile'[s] # "other"
    /\ slot # NoSave /\ memOf \notin {None, slot} /\ kind = "keeps"
          /\ backupFile[slot] \in {"none", "other"}
         => backupFile'[slot] \in {"none", "other"}
    /\ MemoryKept

USE SessionAssumption
USE DEF contentVars, shownVars, slotVars, memVars, fileVars, pcVars, GoOn

LEMMA FlushKeeps == ASSUME SessionInv, pc \notin Loads, Flush PROVE BackupKept
<1> USE DEF SessionInv, FlagTypes, SessionTypes, MemInv, Backups, Slots, Paths
<1>1. CASE UNCHANGED backupFile
  BY <1>1 DEF BackupKept, MemoryKept
<1>2. CASE kind = "static" /\ saveIO /\ WriteMemory(Main)
  BY <1>2 DEF BackupKept, MemoryKept, WriteMemory
<1> DEFINE f == IF slot = NoSave THEN Main ELSE slot
<1>3. f \in Slots /\ f \notin ExtraSlots \ dirs
  BY DEF ControlInv
<1>4. CASE kind \in Paths /\ WriteMemory(f)
  <2> DEFINE v == IF memOf = None THEN "unloaded"
                  ELSE IF memOf # f THEN "other"
                  ELSE IF backupFile[f] = "none" THEN "own" ELSE backupFile[f]
  <2>1. backupFile' = [backupFile EXCEPT ![f] = v] /\ v \in Backups
    BY <1>3, <1>4 DEF WriteMemory
  <2>2. v = "other" /\ backupFile[f] # "other"
          => \/ slot = NoSave /\ f = Main
             \/ kind = "keeps" /\ (backupFile[f] = "none" \/ unread)
    BY <1>4
  <2>3. kind # "keeps" /\ f \in ExtraSlots => v # "other"
    BY <1>4
  <2>4. MemoryKept
    BY <1>3, <2>1, <2>2 DEF MemoryKept
  <2> QED BY <1>3, <1>4, <2>1, <2>3, <2>4 DEF BackupKept
<1>5. CASE kind = "keeps" /\ backupFile' = [backupFile EXCEPT ![f] = "none"]
  BY <1>3, <1>5 DEF BackupKept, MemoryKept
<1> QED BY <1>1, <1>2, <1>4, <1>5 DEF Flush

LEMMA SameKeeps == ASSUME SessionInv, UNCHANGED backupFile PROVE BackupKept
BY DEF SessionInv, FlagTypes, SessionTypes, MemInv, BackupKept, MemoryKept

\* What is known of memory after a load.
MemoryLoaded ==
    /\ BackupKept
    /\ memOf' \in Slots \union {None} /\ saveIO' \in BOOLEAN /\ unread' \in BOOLEAN
    /\ kind = "static" /\ saveIO' => memOf' = Main
    /\ kind \in Paths => \/ memOf' \in {None, slot}
                         \/ kind = "keeps" /\ (unread' \/ backupFile'[slot] = "none")

LEMMA LoadKeeps ==
    ASSUME SessionInv, slot # NoSave, LoadBackupMemory \/ ReadNoMemory
    PROVE  MemoryLoaded
<1> USE DEF SessionInv, FlagTypes, SessionTypes, MemInv, Backups, Slots, Paths, MemoryLoaded
<1>1. CASE LoadStaticMemory
  BY <1>1 DEF LoadStaticMemory, BackupKept, MemoryKept
<1>2. CASE ReadMemory
  BY <1>2, SameKeeps DEF ReadMemory
<1>3. CASE ReadNoMemory
  BY <1>3, SameKeeps DEF ReadNoMemory
<1>4. CASE kind = "none" /\ UNCHANGED memVars
  BY <1>4, SameKeeps
<1> QED BY <1>1, <1>2, <1>3, <1>4 DEF LoadBackupMemory

SaveBegun ==
    /\ BackupKept
    /\ stateFile' \in [Slots -> StateFiles]
    /\ pc' \in {"cont", "write"}
    /\ saved' \in BOOLEAN
    /\ pc' = "write" => stateIO # None /\ saved' = saved
    /\ pc' = "cont" /\ saved' => saved \/ slot = NoSave \/ onlyBackup

LEMMA SaveBegins ==
    ASSUME SessionInv, pc \notin Loads, NEW m \in BOOLEAN, BeginSave(m)
    PROVE  SaveBegun
<1> USE DEF SessionInv, FlagTypes, SessionTypes, StateFiles, Incomplete
<1>1. BackupKept
  BY FlushKeeps, SameKeeps DEF BeginSave
<1>2. /\ stateFile' \in [Slots -> StateFiles]
      /\ pc' \in {"cont", "write"}
      /\ saved' \in BOOLEAN
      /\ pc' = "write" => stateIO # None /\ saved' = saved
      /\ pc' = "cont" /\ saved' => slot = NoSave \/ onlyBackup
  BY DEF BeginSave
<1> QED BY <1>1, <1>2 DEF SaveBegun

LEMMA ContentSaveBegins ==
    ASSUME SessionInv, pc \notin Loads, BeginSaveOfContent
    PROVE  SaveBegun
BY SaveBegins, SameKeeps DEF BeginSaveOfContent, SaveBegun, SessionInv, FlagTypes, SessionTypes

\* Every handler that saves starts in the event loop.
LEMMA HandlerSaves ==
    ASSUME SessionInv,
           \/ BeginCreate \/ BeginClose \/ BackgroundExit
           \/ TimerFires \/ ManualSave \/ Reload
           \/ \E s \in Slots \union {NoSave} : SelectSlot(s) /\ s # slot
    PROVE  SaveBegun /\ pc = "idle"
<1>1. pc = "idle"
  BY DEF BeginCreate, BeginClose, BackgroundExit, TimerFires, ManualSave, Reload, SelectSlot,
     InMenu, Idle
<1>2. BeginSaveOfContent \/ BeginSave(TRUE) \/ BeginSave(FALSE)
  BY DEF BeginCreate, BeginClose, BackgroundExit, TimerFires, ManualSave, Reload, SelectSlot
<1> QED BY <1>1, <1>2, SaveBegins, ContentSaveBegins DEF Loads

-----------------------------------------------------------------------------
(* Each part of the invariant is kept by every step; a group of actions that *)
(* is not obvious is taken action by action.                                 *)

LEMMA FlagTypesKept == ASSUME SessionInv, Next PROVE FlagTypes'
<1> USE DEF SessionInv, Idle, SaveBegun, FlagTypes
<1>1. CASE Creating
  <2>1. CASE BeginCreate
    <3>1. SaveBegun
      BY <2>1, HandlerSaves
    <3>2. saved' \in BOOLEAN
      BY <3>1 DEF SaveBegun
    <3> QED BY Zenon, <2>1, <3>2 DEF FlagTypes, BeginCreate, ShowUI
  <2>2. CASE LoaderSetsPaths
    BY <2>2 DEF LoaderSetsPaths
  <2>3. CASE LoaderFails
    BY <2>3 DEF LoaderFails
  <2>4. CASE LoaderSucceeds
    BY <2>4 DEF LoaderSucceeds
  <2>5. CASE FailedMessage
    BY <2>5 DEF FailedMessage
  <2>6. CASE Launch
    BY <2>6 DEF Launch, Created
  <2>7. CASE LaunchNoSave
    BY <2>7 DEF LaunchNoSave, Created, ResetSlot
  <2>8. CASE LaunchAsk
    BY <2>8 DEF LaunchAsk, Created, ResetSlot
  <2>9. CASE LaunchAlert
    BY <2>9 DEF LaunchAlert, Created
  <2>10. CASE AnswerAlert
    BY <2>10 DEF AnswerAlert
  <2>11. CASE Benchmark
    BY <2>11 DEF Benchmark, Created, ResetSlot
  <2> QED BY <1>1, <2>1, <2>2, <2>3, <2>4, <2>5, <2>6, <2>7, <2>8, <2>9, <2>10, <2>11 DEF Creating
<1>2. CASE Loading
  BY <1>2, LoadKeeps DEF MemoryLoaded, Loading, LoadNothing, LoadState, LoadIsFatal, LoadDone,
     Aged, ResetSlot
<1>3. CASE Running
  BY <1>3 DEF Running, ResizeStates, Show, Start, Pause, Play, FlushCounter, InMenu, ShowUI, Aged
<1>4. CASE Closing
  <2>1. CASE BeginClose
    <3>1. SaveBegun
      BY <2>1, HandlerSaves
    <3>2. saved' \in BOOLEAN
      BY <3>1 DEF SaveBegun
    <3> QED BY Zenon, <2>1, <3>2 DEF FlagTypes, BeginClose, ShowUI
  <2>2. CASE FinishClose
    BY <2>2 DEF FinishClose, ResetSlot, Aged
  <2>3. CASE BackgroundExit
    <3>1. SaveBegun
      BY <2>3, HandlerSaves
    <3>2. saved' \in BOOLEAN
      BY <3>1 DEF SaveBegun
    <3> QED BY Zenon, <2>3, <3>2 DEF FlagTypes, BackgroundExit, ShowUI
  <2>4. CASE FinishExit
    BY <2>4 DEF FinishExit
  <2>5. CASE Resume
    BY <2>5 DEF Resume
  <2> QED BY <1>4, <2>1, <2>2, <2>3, <2>4, <2>5 DEF Closing
<1>5. CASE Saving
  <2>1. CASE WriteState
    BY <2>1 DEF WriteState
  <2>2. CASE WriteFails
    BY <2>2 DEF WriteFails
  <2>3. CASE TimerFires
    <3>1. SaveBegun
      BY <2>3, HandlerSaves
    <3>2. saved' \in BOOLEAN
      BY <3>1 DEF SaveBegun
    <3> QED BY Zenon, <2>3, <3>2 DEF FlagTypes, TimerFires
  <2>4. CASE FinishTimer
    BY <2>4 DEF FinishTimer
  <2>5. CASE ManualSave
    <3>1. SaveBegun
      BY <2>5, HandlerSaves
    <3>2. saved' \in BOOLEAN
      BY <3>1 DEF SaveBegun
    <3> QED BY Zenon, <2>5, <3>2 DEF FlagTypes, ManualSave
  <2>6. CASE FinishManual
    BY <2>6 DEF FinishManual
  <2>7. CASE ManualLoad
    BY <2>7 DEF ManualLoad, InMenu
  <2>8. CASE SwitchFails
    BY <2>8 DEF SwitchFails
  <2>9. CASE FinishSwitch
    BY <2>9 DEF FinishSwitch, ResetSlot
  <2>10. CASE ToggleContent
    BY <2>10 DEF ToggleContent, InMenu
  <2>11. CASE LoadStateSlot
    BY <2>11 DEF LoadStateSlot, Aged
  <2>12. CASE LoadStateFails
    BY <2>12 DEF LoadStateFails, Aged
  <2>13. CASE \E s \in Slots \union {NoSave} : SelectSlot(s)
    <3>1. PICK s \in Slots \union {NoSave} : SelectSlot(s)
      BY <2>13
    <3>2. saved' \in BOOLEAN
      BY <3>1, HandlerSaves DEF SelectSlot
    <3> QED BY Zenon, <3>1, <3>2 DEF FlagTypes, SelectSlot
  <2>14. CASE \E a, b \in ExtraSlots : RenameSlot(a, b)
    BY <2>14 DEF RenameSlot, InMenu
  <2>15. CASE \E a \in ExtraSlots : DeleteSlot(a)
    BY <2>15 DEF DeleteSlot, InMenu
  <2> QED BY <1>5, <2>1, <2>2, <2>3, <2>4, <2>5, <2>6, <2>7, <2>8, <2>9, <2>10, <2>11, <2>12,
      <2>13, <2>14, <2>15 DEF Saving
<1>6. CASE Rewinding
  BY <1>6 DEF Rewinding, RewindKey, RewindSave, UpdateMaxStates, InMenu, Aged
<1>7. CASE Reloading
  <2>1. CASE Reload
    <3>1. SaveBegun
      BY <2>1, HandlerSaves
    <3>2. saved' \in BOOLEAN
      BY <3>1 DEF SaveBegun
    <3> QED BY Zenon, <2>1, <3>2 DEF FlagTypes, Reload
  <2>2. CASE FinishReload
    BY <2>2 DEF FinishReload, Aged
  <2>3. CASE ReloadBackupMemory
    <3>1. saveIO' \in BOOLEAN /\ unread' \in BOOLEAN
      BY <2>3, LoadKeeps DEF MemoryLoaded, ReloadBackupMemory, ControlInv
    <3> QED BY Zenon, <2>3, <3>1 DEF FlagTypes, ReloadBackupMemory
  <2> QED BY <1>7, <2>1, <2>2, <2>3 DEF Reloading
<1>8. CASE Crash
  BY <1>8 DEF Crash, ResetSlot, Aged
<1> QED BY <1>1, <1>2, <1>3, <1>4, <1>5, <1>6, <1>7, <1>8 DEF Next

LEMMA SessionTypesKept == ASSUME SessionInv, Next PROVE SessionTypes'
<1> USE DEF SessionInv, Idle, SaveBegun, BackupKept, SessionTypes, ControlInv, Slots, Followers,
    Savers, StateFiles, Complete, Incomplete, Backups
<1>1. CASE Creating
  BY <1>1, ContentSaveBegins, SameKeeps DEF Creating, BeginCreate, LoaderSetsPaths, LoaderFails,
     LoaderSucceeds, FailedMessage, Launch, LaunchNoSave, LaunchAsk, LaunchAlert, AnswerAlert,
     Benchmark, Created, ResetSlot, ShowUI
<1>2. CASE Loading
  <2>1. CASE LoadNothing
    BY <2>1, SameKeeps, LoadKeeps DEF MemoryLoaded, LoadNothing, LoadDone
  <2>2. CASE LoadState
    <3>1. slot \in Slots /\ BackupKept /\ memOf' \in Slots \union {None}
      BY <2>2, LoadKeeps DEF MemoryLoaded, LoadState
    <3>2. stateIO' = slot
      BY <2>2 DEF LoadState
    <3>3. stateFile' \in [Slots -> StateFiles]
      <4>1. Aged \in [Slots -> StateFiles]
        BY DEF Aged
      <4>2. \/ stateFile' \in {stateFile, Aged, [Aged EXCEPT ![slot] = "current"]}
            \/ \E content \in {"current"} \union Incomplete :
                  stateFile' = [stateFile EXCEPT ![slot] = content]
        BY <2>2 DEF LoadState
      <4> QED BY <3>1, <4>1, <4>2
    <3>4. pc' \in {"idle", "cont"} /\ after' \in {"show", "none"}
      BY <2>2 DEF LoadState, LoadDone
    <3> QED BY <2>2, <3>1, <3>2, <3>3, <3>4 DEF LoadState
  <2>3. CASE LoadIsFatal
    BY <2>3, SameKeeps DEF LoadIsFatal, ResetSlot
  <2> QED BY <1>2, <2>1, <2>2, <2>3 DEF Loading
<1>3. CASE Running
  <2>1. CASE ResizeStates
    BY <2>1, SameKeeps DEF ResizeStates
  <2>2. CASE Show
    BY <2>2, SameKeeps DEF Show
  <2>3. CASE Start
    BY <2>3, SameKeeps DEF Start, InMenu
  <2>4. CASE Pause
    BY <2>4, SameKeeps DEF Pause, ShowUI
  <2>5. CASE Play
    BY <2>5, SameKeeps DEF Play, Aged
  <2>6. CASE FlushCounter
    BY <2>6, FlushKeeps DEF FlushCounter, TimerInv, Loads
  <2> QED BY <1>3, <2>1, <2>2, <2>3, <2>4, <2>5, <2>6 DEF Running
<1>4. CASE Closing
  <2>1. CASE BeginClose
    BY <2>1, ContentSaveBegins DEF BeginClose, ShowUI
  <2>2. CASE FinishClose
    <3>1. BackupKept
      BY <2>2, FlushKeeps, SameKeeps DEF FinishClose, Loads
    <3>2. stateFile' \in [Slots -> StateFiles]
      BY <2>2 DEF FinishClose, Aged
    <3> QED BY <2>2, <3>1, <3>2 DEF FinishClose, ResetSlot
  <2>3. CASE BackgroundExit
    BY <2>3, ContentSaveBegins DEF BackgroundExit, ShowUI
  <2>4. CASE FinishExit
    BY <2>4, FlushKeeps, SameKeeps DEF FinishExit
  <2>5. CASE Resume
    BY <2>5, SameKeeps DEF Resume
  <2> QED BY <1>4, <2>1, <2>2, <2>3, <2>4, <2>5 DEF Closing
<1>5. CASE Saving
  <2>1. CASE WriteState
    BY <2>1, SameKeeps DEF WriteState
  <2>2. CASE WriteFails
    BY <2>2, SameKeeps DEF WriteFails
  <2>3. CASE TimerFires
    <3>1. SaveBegun /\ pc = "idle"
      BY <2>3, HandlerSaves
    <3> QED BY <2>3, <3>1 DEF TimerFires, InMenu
  <2>4. CASE FinishTimer
    BY <2>4, SameKeeps DEF FinishTimer
  <2>5. CASE ManualSave
    <3>1. SaveBegun /\ pc = "idle"
      BY <2>5, HandlerSaves
    <3> QED BY <2>5, <3>1 DEF ManualSave, InMenu
  <2>6. CASE FinishManual
    BY <2>6, SameKeeps DEF FinishManual
  <2>7. CASE ManualLoad
    BY <2>7, SameKeeps DEF ManualLoad, InMenu
  <2>8. CASE SwitchFails
    BY <2>8, SameKeeps DEF SwitchFails
  <2>9. CASE FinishSwitch
    BY <2>9, SameKeeps DEF FinishSwitch, ResetSlot
  <2>10. CASE ToggleContent
    BY <2>10, SameKeeps DEF ToggleContent, InMenu
  <2>11. CASE LoadStateSlot
    BY <2>11, SameKeeps DEF LoadStateSlot, Aged
  <2>12. CASE LoadStateFails
    BY <2>12, SameKeeps DEF LoadStateFails, Aged
  <2>13. CASE \E s \in Slots \union {NoSave} : SelectSlot(s)
    <3>1. PICK s \in Slots \union {NoSave} : SelectSlot(s)
      BY <2>13
    <3>2. CASE s = slot
      BY <3>1, <3>2, SameKeeps DEF SelectSlot, InMenu
    <3>3. CASE s # slot
      <4>1. SaveBegun
        BY <3>1, <3>3, HandlerSaves
      <4> QED BY <3>1, <3>3, <4>1 DEF SelectSlot, InMenu
    <3> QED BY <3>2, <3>3
  <2>14. CASE \E a, b \in ExtraSlots : RenameSlot(a, b)
    BY <2>14 DEF RenameSlot, InMenu
  <2>15. CASE \E a \in ExtraSlots : DeleteSlot(a)
    BY <2>15 DEF DeleteSlot, InMenu
  <2> QED BY <1>5, <2>1, <2>2, <2>3, <2>4, <2>5, <2>6, <2>7, <2>8, <2>9, <2>10, <2>11, <2>12,
      <2>13, <2>14, <2>15 DEF Saving
<1>6. CASE Rewinding
  BY <1>6, SameKeeps DEF Rewinding, RewindKey, RewindSave, UpdateMaxStates, InMenu, Aged
<1>7. CASE Reloading
  <2>1. CASE Reload
    <3>1. SaveBegun /\ pc = "idle"
      BY <2>1, HandlerSaves
    <3> QED BY <2>1, <3>1 DEF Reload, InMenu
  <2>2. CASE FinishReload
    <3>1. BackupKept
      BY <2>2, FlushKeeps DEF FinishReload, Loads
    <3>2. stateFile' \in [Slots -> StateFiles]
      BY <2>2 DEF FinishReload, Aged
    <3>3. after' \in {"none", "show", "reloaded"} /\ pc' = "cont"
      BY <2>2 DEF FinishReload
    <3> QED BY <2>2, <3>1, <3>2, <3>3 DEF FinishReload
  <2>3. CASE ReloadBackupMemory
    <3>1. BackupKept /\ memOf' \in Slots \union {None}
      BY <2>3, LoadKeeps, SameKeeps DEF MemoryLoaded, ReloadBackupMemory
    <3> QED BY <2>3, <3>1 DEF ReloadBackupMemory
  <2> QED BY <1>7, <2>1, <2>2, <2>3 DEF Reloading
<1>8. CASE Crash
  <2>1. CASE Crash
    <3>1. stateFile' \in [Slots -> StateFiles]
      BY <2>1 DEF Crash, Aged
    <3>2. BackupKept
      BY <2>1, SameKeeps DEF Crash
    <3> QED BY <2>1, <3>1, <3>2 DEF Crash, ResetSlot
  <2> QED BY <1>8, <2>1 DEF Crash
<1> QED BY <1>1, <1>2, <1>3, <1>4, <1>5, <1>6, <1>7, <1>8 DEF Next

LEMMA ControlInvKept == ASSUME SessionInv, Next PROVE ControlInv'
<1> USE DEF SessionInv, Idle, SaveBegun, SessionTypes, ControlInv, LoaderInv, TimerInv, Slots,
    Savers, Loads
<1>1. CASE Creating
  BY <1>1, ContentSaveBegins DEF Creating, BeginCreate, LoaderSetsPaths, LoaderFails,
     LoaderSucceeds, FailedMessage, Launch, LaunchNoSave, LaunchAsk, LaunchAlert, AnswerAlert,
     Benchmark, Created, ResetSlot, ShowUI
<1>2. CASE Loading
  BY <1>2 DEF Loading, LoadNothing, LoadState, LoadIsFatal, LoadDone, Aged, ResetSlot
<1>3. CASE Running
  BY <1>3 DEF Running, ResizeStates, Show, Start, Pause, Play, FlushCounter, InMenu, ShowUI, Aged
<1>4. CASE Closing
  BY <1>4, ContentSaveBegins DEF Closing, BeginClose, FinishClose, BackgroundExit, FinishExit,
     Resume, ShowUI, ResetSlot, Aged
<1>5. CASE Saving
  <2>1. CASE WriteState
    BY <2>1 DEF WriteState
  <2>2. CASE WriteFails
    BY <2>2 DEF WriteFails
  <2>3. CASE TimerFires
    <3>1. SaveBegun /\ pc = "idle"
      BY <2>3, HandlerSaves
    <3> QED BY <2>3, <3>1 DEF TimerFires, InMenu
  <2>4. CASE FinishTimer
    BY <2>4 DEF FinishTimer
  <2>5. CASE ManualSave
    <3>1. SaveBegun /\ pc = "idle"
      BY <2>5, HandlerSaves
    <3> QED BY <2>5, <3>1 DEF ManualSave, InMenu
  <2>6. CASE FinishManual
    BY <2>6 DEF FinishManual
  <2>7. CASE ManualLoad
    BY <2>7 DEF ManualLoad, InMenu
  <2>8. CASE SwitchFails
    BY <2>8 DEF SwitchFails
  <2>9. CASE FinishSwitch
    BY <2>9 DEF FinishSwitch, ResetSlot
  <2>10. CASE ToggleContent
    BY <2>10 DEF ToggleContent, InMenu
  <2>11. CASE LoadStateSlot
    BY <2>11 DEF LoadStateSlot, Aged
  <2>12. CASE LoadStateFails
    BY <2>12 DEF LoadStateFails, Aged
  <2>13. CASE \E s \in Slots \union {NoSave} : SelectSlot(s)
    <3>1. PICK s \in Slots \union {NoSave} : SelectSlot(s)
      BY <2>13
    <3>2. CASE s = slot
      BY <3>1, <3>2, SameKeeps DEF SelectSlot, InMenu
    <3>3. CASE s # slot
      <4>1. SaveBegun
        BY <3>1, <3>3, HandlerSaves
      <4> QED BY <3>1, <3>3, <4>1 DEF SelectSlot, InMenu
    <3> QED BY <3>2, <3>3
  <2>14. CASE \E a, b \in ExtraSlots : RenameSlot(a, b)
    BY <2>14 DEF RenameSlot, InMenu
  <2>15. CASE \E a \in ExtraSlots : DeleteSlot(a)
    BY <2>15 DEF DeleteSlot, InMenu
  <2> QED BY <1>5, <2>1, <2>2, <2>3, <2>4, <2>5, <2>6, <2>7, <2>8, <2>9, <2>10, <2>11, <2>12,
      <2>13, <2>14, <2>15 DEF Saving
<1>6. CASE Rewinding
  BY <1>6 DEF Rewinding, RewindKey, RewindSave, UpdateMaxStates, InMenu, Aged
<1>7. CASE Reloading
  <2>1. CASE Reload
    <3>1. SaveBegun /\ pc = "idle"
      BY <2>1, HandlerSaves
    <3> QED BY <2>1, <3>1 DEF Reload, InMenu
  <2>2. CASE FinishReload
    <3>1. CASE hasContent' = FALSE /\ Rewind!Clear /\ GoOn("cont", "show")
      BY <2>2, <3>1 DEF FinishReload
    <3>2. CASE /\ Rewind!Reset
               /\ GoOn("cont", IF slot = NoSave THEN "show" ELSE "reloaded")
               /\ UNCHANGED hasContent
      BY <2>2, <3>2 DEF FinishReload
    <3> QED BY <2>2, <3>1, <3>2 DEF FinishReload
  <2>3. CASE ReloadBackupMemory
    BY <2>3 DEF ReloadBackupMemory
  <2> QED BY <1>7, <2>1, <2>2, <2>3 DEF Reloading
<1>8. CASE Crash
  BY <1>8 DEF Crash, ResetSlot, Aged
<1> QED BY <1>1, <1>2, <1>3, <1>4, <1>5, <1>6, <1>7, <1>8 DEF Next

LEMMA LoaderInvKept == ASSUME SessionInv, Next PROVE LoaderInv'
<1> USE DEF SessionInv, Idle, SaveBegun, SessionTypes, ControlInv, LoaderInv, TimerInv, Slots,
    Savers, Loads
<1>1. CASE Creating
  BY <1>1, ContentSaveBegins DEF Creating, BeginCreate, LoaderSetsPaths, LoaderFails,
     LoaderSucceeds, FailedMessage, Launch, LaunchNoSave, LaunchAsk, LaunchAlert, AnswerAlert,
     Benchmark, Created, ResetSlot, ShowUI
<1>2. CASE Loading
  BY <1>2 DEF Loading, LoadNothing, LoadState, LoadIsFatal, LoadDone, Aged, ResetSlot
<1>3. CASE Running
  BY <1>3 DEF Running, ResizeStates, Show, Start, Pause, Play, FlushCounter, InMenu, ShowUI, Aged
<1>4. CASE Closing
  <2>1. CASE BeginClose
    BY <2>1, ContentSaveBegins DEF BeginClose, ShowUI
  <2>2. CASE FinishClose
    <3>1. /\ pc' = "idle" /\ stateIO' = None /\ slot' = Main
          /\ loader' \in {"starting", loader} /\ ~active'
      BY <2>2 DEF FinishClose, ResetSlot
    <3>2. loader = "idle"
      BY <2>2 DEF FinishClose
    <3>3. memOf' = None
      BY <2>2 DEF FinishClose, MemInv
    <3> QED BY <3>1, <3>2, <3>3
  <2>3. CASE BackgroundExit
    BY <2>3, ContentSaveBegins DEF BackgroundExit, ShowUI
  <2>4. CASE FinishExit
    BY <2>4 DEF FinishExit
  <2>5. CASE Resume
    BY <2>5 DEF Resume
  <2> QED BY <1>4, <2>1, <2>2, <2>3, <2>4, <2>5 DEF Closing
<1>5. CASE Saving
  BY <1>5, SaveBegins DEF Saving, WriteState, WriteFails, TimerFires, FinishTimer, ManualSave,
     FinishManual, ManualLoad, SwitchFails, FinishSwitch, ToggleContent, LoadStateSlot,
     LoadStateFails, SelectSlot, RenameSlot, DeleteSlot, InMenu, ResetSlot, Aged
<1>6. CASE Rewinding
  BY <1>6 DEF Rewinding, RewindKey, RewindSave, UpdateMaxStates, InMenu, Aged
<1>7. CASE Reloading
  BY <1>7, SaveBegins DEF Reloading, Reload, FinishReload, ReloadBackupMemory, InMenu, Aged
<1>8. CASE Crash
  BY <1>8 DEF Crash, ResetSlot, Aged
<1> QED BY <1>1, <1>2, <1>3, <1>4, <1>5, <1>6, <1>7, <1>8 DEF Next

LEMMA TimerInvKept == ASSUME SessionInv, Next PROVE TimerInv'
<1> USE DEF SessionInv, Idle, SaveBegun, SessionTypes, ControlInv, LoaderInv, TimerInv, Savers,
    Loads, rewindVars, Rewind!Clear, Rewind!Reset, Rewind!StartTimer, Rewind!PauseTimer,
    Rewind!SaveState, Rewind!RewindState, Rewind!UpdateMaxStates
<1>1. CASE Creating
  <2>1. CASE BeginCreate
    BY <2>1, ContentSaveBegins DEF BeginCreate, ShowUI
  <2>2. CASE LoaderSetsPaths
    BY <2>2 DEF LoaderSetsPaths
  <2>3. CASE LoaderFails
    BY <2>3 DEF LoaderFails
  <2>4. CASE LoaderSucceeds
    BY <2>4 DEF LoaderSucceeds
  <2>5. CASE FailedMessage
    BY <2>5 DEF FailedMessage
  <2>6. CASE Launch
    BY <2>6 DEF Launch, Created
  <2>7. CASE LaunchNoSave
    BY <2>7 DEF LaunchNoSave, Created, ResetSlot
  <2>8. CASE LaunchAsk
    BY <2>8 DEF LaunchAsk, Created, ResetSlot
  <2>9. CASE LaunchAlert
    BY <2>9 DEF LaunchAlert, Created
  <2>10. CASE AnswerAlert
    BY <2>10 DEF AnswerAlert
  <2>11. CASE Benchmark
    BY <2>11 DEF Benchmark, Created, ResetSlot
  <2> QED BY <1>1, <2>1, <2>2, <2>3, <2>4, <2>5, <2>6, <2>7, <2>8, <2>9, <2>10, <2>11 DEF Creating
<1>2. CASE Loading
  BY <1>2 DEF Loading, LoadNothing, LoadState, LoadIsFatal, LoadDone, Aged, ResetSlot
<1>3. CASE Running
  <2>1. CASE ResizeStates
    BY <2>1 DEF ResizeStates
  <2>2. CASE Show
    BY <2>2 DEF Show
  <2>3. CASE Start
    BY <2>3 DEF Start, InMenu
  <2>4. CASE Pause
    BY <2>4 DEF Pause, ShowUI
  <2>5. CASE Play
    BY <2>5 DEF Play, Aged
  <2>6. CASE FlushCounter
    BY <2>6 DEF FlushCounter
  <2> QED BY <1>3, <2>1, <2>2, <2>3, <2>4, <2>5, <2>6 DEF Running
<1>4. CASE Closing
  <2>1. CASE BeginClose
    BY <2>1, ContentSaveBegins DEF BeginClose, ShowUI
  <2>2. CASE FinishClose
    BY <2>2 DEF FinishClose, ResetSlot, Aged
  <2>3. CASE BackgroundExit
    BY <2>3, ContentSaveBegins DEF BackgroundExit, ShowUI
  <2>4. CASE FinishExit
    BY <2>4 DEF FinishExit
  <2>5. CASE Resume
    BY <2>5 DEF Resume
  <2> QED BY <1>4, <2>1, <2>2, <2>3, <2>4, <2>5 DEF Closing
<1>5. CASE Saving
  <2>1. CASE WriteState
    BY <2>1 DEF WriteState
  <2>2. CASE WriteFails
    BY <2>2 DEF WriteFails
  <2>3. CASE TimerFires
    BY <2>3, SaveBegins DEF TimerFires
  <2>4. CASE FinishTimer
    BY <2>4 DEF FinishTimer
  <2>5. CASE ManualSave
    BY <2>5, SaveBegins DEF ManualSave, InMenu
  <2>6. CASE FinishManual
    BY <2>6 DEF FinishManual
  <2>7. CASE ManualLoad
    BY <2>7 DEF ManualLoad, InMenu
  <2>8. CASE SwitchFails
    BY <2>8 DEF SwitchFails
  <2>9. CASE FinishSwitch
    BY <2>9 DEF FinishSwitch, ResetSlot
  <2>10. CASE ToggleContent
    BY <2>10 DEF ToggleContent, InMenu
  <2>11. CASE LoadStateSlot
    BY <2>11 DEF LoadStateSlot, Aged
  <2>12. CASE LoadStateFails
    BY <2>12 DEF LoadStateFails, Aged
  <2>13. CASE \E s \in Slots \union {NoSave} : SelectSlot(s)
    BY <2>13, SaveBegins DEF SelectSlot, InMenu
  <2>14. CASE \E a, b \in ExtraSlots : RenameSlot(a, b)
    BY <2>14 DEF RenameSlot, InMenu
  <2>15. CASE \E a \in ExtraSlots : DeleteSlot(a)
    BY <2>15 DEF DeleteSlot, InMenu
  <2> QED BY <1>5, <2>1, <2>2, <2>3, <2>4, <2>5, <2>6, <2>7, <2>8, <2>9, <2>10, <2>11, <2>12,
      <2>13, <2>14, <2>15 DEF Saving
<1>6. CASE Rewinding
  BY <1>6 DEF Rewinding, RewindKey, RewindSave, UpdateMaxStates, InMenu, Aged
<1>7. CASE Reloading
  <2>1. CASE Reload
    BY <2>1, SaveBegins DEF Reload, InMenu
  <2>2. CASE FinishReload
    <3>1. CASE hasContent' = FALSE /\ Rewind!Clear /\ GoOn("cont", "show")
      BY <2>2, <3>1 DEF FinishReload
    <3>2. CASE /\ Rewind!Reset
               /\ GoOn("cont", IF slot = NoSave THEN "show" ELSE "reloaded")
               /\ UNCHANGED hasContent
      BY <2>2, <3>2 DEF FinishReload
    <3> QED BY <2>2, <3>1, <3>2 DEF FinishReload
  <2>3. CASE ReloadBackupMemory
    BY <2>3 DEF ReloadBackupMemory
  <2> QED BY <1>7, <2>1, <2>2, <2>3 DEF Reloading
<1>8. CASE Crash
  BY <1>8 DEF Crash, ResetSlot, Aged
<1> QED BY <1>1, <1>2, <1>3, <1>4, <1>5, <1>6, <1>7, <1>8 DEF Next

LEMMA SaveInvKept == ASSUME SessionInv, Next PROVE SaveInv'
<1> USE DEF SessionInv, Idle, SaveBegun, SessionTypes, ControlInv, LoaderInv, TimerInv, SaveInv,
    Durable, Slots, Savers, Loads
<1>1. CASE Creating
  BY <1>1, ContentSaveBegins DEF Creating, BeginCreate, LoaderSetsPaths, LoaderFails,
     LoaderSucceeds, FailedMessage, Launch, LaunchNoSave, LaunchAsk, LaunchAlert, AnswerAlert,
     Benchmark, Created, ResetSlot, ShowUI
<1>2. CASE Loading
  BY <1>2 DEF Loading, LoadNothing, LoadState, LoadIsFatal, LoadDone, Aged, ResetSlot
<1>3. CASE Running
  BY <1>3 DEF Running, ResizeStates, Show, Start, Pause, Play, FlushCounter, InMenu, ShowUI, Aged
<1>4. CASE Closing
  BY <1>4, ContentSaveBegins DEF Closing, BeginClose, FinishClose, BackgroundExit, FinishExit,
     Resume, ShowUI, ResetSlot, Aged
<1>5. CASE Saving
  <2>1. CASE WriteState
    BY <2>1 DEF WriteState
  <2>2. CASE WriteFails
    BY <2>2 DEF WriteFails
  <2>3. CASE TimerFires
    <3>1. SaveBegun /\ pc = "idle"
      BY <2>3, HandlerSaves
    <3> QED BY <2>3, <3>1 DEF TimerFires, InMenu
  <2>4. CASE FinishTimer
    BY <2>4 DEF FinishTimer
  <2>5. CASE ManualSave
    <3>1. SaveBegun /\ pc = "idle"
      BY <2>5, HandlerSaves
    <3> QED BY <2>5, <3>1 DEF ManualSave, InMenu
  <2>6. CASE FinishManual
    BY <2>6 DEF FinishManual
  <2>7. CASE ManualLoad
    BY <2>7 DEF ManualLoad, InMenu
  <2>8. CASE SwitchFails
    BY <2>8 DEF SwitchFails
  <2>9. CASE FinishSwitch
    BY <2>9 DEF FinishSwitch, ResetSlot
  <2>10. CASE ToggleContent
    BY <2>10 DEF ToggleContent, InMenu
  <2>11. CASE LoadStateSlot
    BY <2>11 DEF LoadStateSlot, Aged
  <2>12. CASE LoadStateFails
    BY <2>12 DEF LoadStateFails, Aged
  <2>13. CASE \E s \in Slots \union {NoSave} : SelectSlot(s)
    <3>1. PICK s \in Slots \union {NoSave} : SelectSlot(s)
      BY <2>13
    <3>2. CASE s = slot
      BY <3>1, <3>2, SameKeeps DEF SelectSlot, InMenu
    <3>3. CASE s # slot
      <4>1. SaveBegun
        BY <3>1, <3>3, HandlerSaves
      <4> QED BY <3>1, <3>3, <4>1 DEF SelectSlot, InMenu
    <3> QED BY <3>2, <3>3
  <2>14. CASE \E a, b \in ExtraSlots : RenameSlot(a, b)
    BY <2>14 DEF RenameSlot, InMenu
  <2>15. CASE \E a \in ExtraSlots : DeleteSlot(a)
    BY <2>15 DEF DeleteSlot, InMenu
  <2> QED BY <1>5, <2>1, <2>2, <2>3, <2>4, <2>5, <2>6, <2>7, <2>8, <2>9, <2>10, <2>11, <2>12,
      <2>13, <2>14, <2>15 DEF Saving
<1>6. CASE Rewinding
  BY <1>6 DEF Rewinding, RewindKey, RewindSave, UpdateMaxStates, InMenu, Aged
<1>7. CASE Reloading
  <2>1. CASE Reload
    <3>1. SaveBegun /\ pc = "idle"
      BY <2>1, HandlerSaves
    <3> QED BY <2>1, <3>1 DEF Reload, InMenu
  <2>2. CASE FinishReload
    BY <2>2 DEF FinishReload, Aged
  <2>3. CASE ReloadBackupMemory
    BY <2>3 DEF ReloadBackupMemory
  <2> QED BY <1>7, <2>1, <2>2, <2>3 DEF Reloading
<1>8. CASE Crash
  BY <1>8 DEF Crash, ResetSlot, Aged
<1> QED BY <1>1, <1>2, <1>3, <1>4, <1>5, <1>6, <1>7, <1>8 DEF Next

LEMMA MemInvKept == ASSUME SessionInv, Next PROVE MemInv'
<1> USE DEF SessionInv, Idle, SaveBegun, BackupKept, SessionTypes, ControlInv, LoaderInv,
    TimerInv, MemInv, Slots, Loads, Backups
<1>1. CASE Creating
  BY <1>1, ContentSaveBegins, SameKeeps DEF Creating, BeginCreate, LoaderSetsPaths, LoaderFails,
     LoaderSucceeds, FailedMessage, Launch, LaunchNoSave, LaunchAsk, LaunchAlert, AnswerAlert,
     Benchmark, Created, ResetSlot, ShowUI
<1>2. CASE Loading
  <2>1. CASE LoadNothing
    <3>1. UNCHANGED memVars \/ (slot # NoSave /\ (LoadBackupMemory \/ ReadNoMemory))
      BY <2>1 DEF LoadNothing
    <3>2. \/ UNCHANGED memVars /\ (slot = NoSave \/ kind = "static")
          \/ MemoryLoaded
      BY <2>1, <3>1, LoadKeeps DEF LoadNothing
    <3>3. hasContent /\ hasContent' /\ after' \in {"show", "none"}
          /\ dirs' = dirs /\ slot' = slot /\ kind' = kind
      BY <2>1 DEF LoadNothing, LoadDone
    <3> QED BY <3>2, <3>3, SameKeeps DEF MemoryLoaded, Paths
  <2>2. CASE LoadState
    <3>1. MemoryLoaded
      BY <2>2, LoadKeeps DEF LoadState
    <3>2. hasContent /\ hasContent' /\ after' \in {"show", "none"}
          /\ dirs' = dirs /\ slot' = slot /\ kind' = kind
      BY <2>2 DEF LoadState, LoadDone
    <3> QED BY <3>1, <3>2 DEF MemoryLoaded
  <2>3. CASE LoadIsFatal
    BY <2>3, SameKeeps DEF LoadIsFatal, ResetSlot
  <2> QED BY <1>2, <2>1, <2>2, <2>3 DEF Loading
<1>3. CASE Running
  BY <1>3, FlushKeeps, SameKeeps DEF Running, ResizeStates, Show, Start, Pause, Play,
     FlushCounter, InMenu, ShowUI, Aged
<1>4. CASE Closing
  BY <1>4, ContentSaveBegins, FlushKeeps, SameKeeps DEF Closing, BeginClose, FinishClose,
     BackgroundExit, FinishExit, Resume, ShowUI, ResetSlot, Aged
<1>5. CASE Saving
  <2>1. CASE WriteState
    BY <2>1, SameKeeps DEF WriteState
  <2>2. CASE WriteFails
    BY <2>2, SameKeeps DEF WriteFails
  <2>3. CASE TimerFires
    <3>1. SaveBegun /\ pc = "idle"
      BY <2>3, HandlerSaves
    <3> QED BY <2>3, <3>1 DEF TimerFires, InMenu
  <2>4. CASE FinishTimer
    BY <2>4, SameKeeps DEF FinishTimer
  <2>5. CASE ManualSave
    <3>1. SaveBegun /\ pc = "idle"
      BY <2>5, HandlerSaves
    <3> QED BY <2>5, <3>1 DEF ManualSave, InMenu
  <2>6. CASE FinishManual
    BY <2>6, SameKeeps DEF FinishManual
  <2>7. CASE ManualLoad
    BY <2>7, SameKeeps DEF ManualLoad, InMenu
  <2>8. CASE SwitchFails
    BY <2>8, SameKeeps DEF SwitchFails
  <2>9. CASE FinishSwitch
    BY <2>9, SameKeeps DEF FinishSwitch, ResetSlot
  <2>10. CASE ToggleContent
    BY <2>10, SameKeeps DEF ToggleContent, InMenu
  <2>11. CASE LoadStateSlot
    BY <2>11, SameKeeps DEF LoadStateSlot, Aged
  <2>12. CASE LoadStateFails
    BY <2>12, SameKeeps DEF LoadStateFails, Aged
  <2>13. CASE \E s \in Slots \union {NoSave} : SelectSlot(s)
    <3>1. PICK s \in Slots \union {NoSave} : SelectSlot(s)
      BY <2>13
    <3>2. CASE s = slot
      BY <3>1, <3>2, SameKeeps DEF SelectSlot, InMenu
    <3>3. CASE s # slot
      <4>1. SaveBegun
        BY <3>1, <3>3, HandlerSaves
      <4> QED BY <3>1, <3>3, <4>1 DEF SelectSlot, InMenu
    <3> QED BY <3>2, <3>3
  <2>14. CASE \E a, b \in ExtraSlots : RenameSlot(a, b)
    BY <2>14 DEF RenameSlot, InMenu
  <2>15. CASE \E a \in ExtraSlots : DeleteSlot(a)
    BY <2>15 DEF DeleteSlot, InMenu
  <2> QED BY <1>5, <2>1, <2>2, <2>3, <2>4, <2>5, <2>6, <2>7, <2>8, <2>9, <2>10, <2>11, <2>12,
      <2>13, <2>14, <2>15 DEF Saving
<1>6. CASE Rewinding
  BY <1>6, SameKeeps DEF Rewinding, RewindKey, RewindSave, UpdateMaxStates, InMenu, Aged
<1>7. CASE Reloading
  <2>1. CASE Reload
    <3>1. SaveBegun /\ pc = "idle"
      BY <2>1, HandlerSaves
    <3> QED BY <2>1, <3>1 DEF Reload, InMenu
  <2>2. CASE FinishReload
    BY <2>2, FlushKeeps DEF FinishReload, Aged
  <2>3. CASE ReloadBackupMemory
    <3>1. CASE LoadBackupMemory /\ UNCHANGED hasContent
      <4>1. MemoryLoaded
        BY <2>3, <3>1, LoadKeeps DEF ReloadBackupMemory
      <4>2. after' = "show" /\ pc' = "cont" /\ dirs' = dirs /\ slot' = slot /\ kind' = kind
        BY <2>3 DEF ReloadBackupMemory
      <4>3. hasContent'
        BY <2>3, <3>1 DEF ReloadBackupMemory
      <4> QED BY <4>1, <4>2, <4>3 DEF MemoryLoaded
    <3>2. CASE UNCHANGED memVars
      BY <2>3, <3>2, SameKeeps DEF ReloadBackupMemory
    <3> QED BY <2>3, <3>1, <3>2 DEF ReloadBackupMemory
  <2> QED BY <1>7, <2>1, <2>2, <2>3 DEF Reloading
<1>8. CASE Crash
  BY <1>8, SameKeeps DEF Crash, ResetSlot, Aged
<1> QED BY <1>1, <1>2, <1>3, <1>4, <1>5, <1>6, <1>7, <1>8 DEF Next

-----------------------------------------------------------------------------
LEMMA StepKeeps == SessionInv /\ [Next]_vars => SessionInv'
<1>1. ASSUME SessionInv, Next PROVE SessionInv'
  BY <1>1, FlagTypesKept, SessionTypesKept, ControlInvKept, LoaderInvKept, TimerInvKept,
     SaveInvKept, MemInvKept DEF SessionInv
<1>2. ASSUME SessionInv, UNCHANGED vars PROVE SessionInv'
  BY <1>2 DEF SessionInv, FlagTypes, SessionTypes, ControlInv, LoaderInv, TimerInv, SaveInv,
     Durable, MemInv, vars, rewindVars
<1> QED BY <1>1, <1>2

LEMMA InitHolds == Init => SessionInv
<1> SUFFICES ASSUME Init PROVE SessionInv
  OBVIOUS
<1> USE DEF Init
<1>1. FlagTypes
  BY DEF FlagTypes
<1>2. SessionTypes
  BY DEF SessionTypes, Slots, StateFiles, Backups, Followers
<1>3. ControlInv /\ LoaderInv /\ SaveInv
  BY DEF ControlInv, LoaderInv, SaveInv, Durable, Loads
<1>4. TimerInv
  BY DEF TimerInv, Rewind!Init
<1>5. MemInv
  BY DEF MemInv, Slots
<1> QED BY <1>1, <1>2, <1>3, <1>4, <1>5 DEF SessionInv

-----------------------------------------------------------------------------
\* The inductive invariant holds in every reachable state.
THEOREM SessionInvariance == Spec => []SessionInv
BY InitHolds, StepKeeps, PTL DEF Spec

\* The state file that is open is the current slot's.
THEOREM SessionHandleIsSlots == Spec => []HandleIsSlots
<1>1. SessionInv => HandleIsSlots
  BY DEF SessionInv, SessionTypes, HandleIsSlots
<1> QED BY SessionInvariance, <1>1, PTL

\* Static systems never overwrite their backup memory file with memory that
\* was not loaded from it.
THEOREM SessionStaticSavesOwnMemory == Spec => []StaticSavesOwnMemory
<1>1. SessionInv => StaticSavesOwnMemory
  BY DEF SessionInv, MemInv, StaticSavesOwnMemory
<1> QED BY SessionInvariance, <1>1, PTL

\* No timer fires between handlers unless content is shown.
THEOREM SessionTimersOnlyWhileRunning == Spec => []TimersOnlyWhileRunning
<1>1. SessionInv => TimersOnlyWhileRunning
  BY DEF SessionInv, TimerInv, TimersOnlyWhileRunning, Idle
<1> QED BY SessionInvariance, <1>1, PTL

\* An application killed in the background has its progress in its file.
THEOREM SessionBackgroundSaveIsCurrent == Spec => []BackgroundSaveIsCurrent
<1>1. SessionInv => BackgroundSaveIsCurrent
  BY DEF SessionInv, ControlInv, SaveInv, Durable, BackgroundSaveIsCurrent, Idle
<1> QED BY SessionInvariance, <1>1, PTL

\* A slot is left for another one with its progress in its file.
THEOREM SessionSlotSwitchKeepsProgress == Spec => SlotSwitchKeepsProgress
<1> DEFINE Kept == after = "switch" /\ slot' # slot /\ slot # NoSave /\ ~onlyBackup /\ hasContent'
                     => stateFile[slot] = "current"
<1>1. ASSUME SessionInv, Next, after = "switch", slot' # slot, slot # NoSave, ~onlyBackup,
             hasContent'
      PROVE  stateFile[slot] = "current"
  <2>1. pc # "idle"
    BY <1>1 DEF SessionInv, ControlInv
  <2>2. FinishSwitch
    <3>1. Creating \/ Loading \/ Closing \/ Reloading => UNCHANGED slot
      BY <1>1, <2>1 DEF SessionInv, ControlInv, Creating, Loading, Closing, Reloading,
         BeginCreate, LoaderSetsPaths, LoaderFails, LoaderSucceeds, FailedMessage, Created,
         Launch, LaunchNoSave, LaunchAsk, LaunchAlert, AnswerAlert, Benchmark, LoadNothing,
         LoadState, LoadIsFatal, BeginClose, FinishClose, BackgroundExit, FinishExit, Resume,
         Reload, FinishReload, ReloadBackupMemory, Loads, Idle, InMenu
    <3>2. Running \/ Rewinding => UNCHANGED slot
      BY DEF Running, ResizeStates, Show, Start, Pause, Play, FlushCounter, Rewinding,
         RewindKey, RewindSave, UpdateMaxStates
    <3>3. Saving /\ ~FinishSwitch => UNCHANGED slot
      BY <2>1 DEF Saving, WriteState, WriteFails, TimerFires, FinishTimer, ManualSave,
         FinishManual, ManualLoad, SwitchFails, ToggleContent, LoadStateSlot, LoadStateFails,
         SelectSlot, RenameSlot, DeleteSlot, InMenu, Idle
    <3>4. ~Crash
      BY <1>1 DEF Crash
    <3> QED BY <1>1, <3>1, <3>2, <3>3, <3>4 DEF Next
  <2> QED BY <1>1, <2>2 DEF FinishSwitch, SessionInv, SaveInv, Durable
<1>2. SessionInv /\ [Next]_vars => [Kept]_vars
  BY <1>1
<1> QED BY SessionInvariance, <1>2, PTL DEF Spec, SlotSwitchKeepsProgress

\* One slot's memory is written to another's backup file only to Main's under
\* "No Save", or, where loads keep memory, to a file that is new or was unread.
THEOREM SessionSlotsKeepTheirMemory == Spec => SlotsKeepTheirMemory
<1>1. ASSUME SessionInv, Next PROVE MemoryKept
  <2> USE DEF SessionInv
  <2>1. CASE SaveBegun
    BY <2>1 DEF SaveBegun, BackupKept
  <2>2. CASE UNCHANGED backupFile
    BY <2>2, <1>1, SameKeeps DEF BackupKept
  <2>3. CASE Creating
    BY <2>3, <2>1, <2>2, <1>1, HandlerSaves DEF Creating, LoaderSetsPaths, LoaderFails,
       LoaderSucceeds, FailedMessage, Launch, LaunchNoSave, LaunchAsk, LaunchAlert, AnswerAlert,
       Benchmark, Created
  <2>4. CASE Loading
    BY <2>4, <2>2, <1>1, LoadKeeps DEF MemoryLoaded, Loading, LoadNothing, LoadState,
       LoadIsFatal, BackupKept
  <2>5. CASE Running
    <3>1. FlushCounter => pc \notin Loads
      BY <1>1 DEF FlushCounter, TimerInv, ControlInv, Loads
    <3> QED BY <2>5, <2>2, <3>1, <1>1, FlushKeeps DEF Running, ResizeStates, Show, Start, Pause,
         Play, FlushCounter, BackupKept
  <2>6. CASE Closing
    BY <2>6, <2>1, <2>2, <1>1, HandlerSaves, FlushKeeps DEF Closing, FinishClose, FinishExit,
       Resume, BackupKept, Loads
  <2>7. CASE Saving
    <3>1. ASSUME NEW s \in Slots \union {NoSave}, SelectSlot(s) PROVE MemoryKept
      BY <3>1, <2>1, <2>2, <1>1, HandlerSaves DEF SelectSlot
    <3>2. ASSUME NEW a \in ExtraSlots, NEW b \in ExtraSlots, RenameSlot(a, b) PROVE MemoryKept
      BY <3>2, <1>1 DEF RenameSlot, MemoryKept, MemInv, SessionTypes, Slots
    <3>3. ASSUME NEW a \in ExtraSlots, DeleteSlot(a) PROVE MemoryKept
      BY <3>3, <1>1 DEF DeleteSlot, MemoryKept, SessionTypes, Slots
    <3> QED BY <2>7, <2>1, <2>2, <3>1, <3>2, <3>3, <1>1, HandlerSaves DEF Saving, WriteState,
         WriteFails, FinishTimer, FinishManual, ManualLoad, SwitchFails, FinishSwitch,
         ToggleContent, LoadStateSlot, LoadStateFails
  <2>8. CASE Rewinding
    BY <2>8, <2>2 DEF Rewinding, RewindKey, RewindSave, UpdateMaxStates
  <2>9. CASE Reloading
    BY <2>9, <2>1, <2>2, <1>1, HandlerSaves, FlushKeeps, LoadKeeps DEF MemoryLoaded,
       Reloading, FinishReload,
       ReloadBackupMemory, BackupKept, ControlInv, Loads
  <2>10. CASE Crash
    BY <2>10, <2>2 DEF Crash
  <2> QED BY <1>1, <2>3, <2>4, <2>5, <2>6, <2>7, <2>8, <2>9, <2>10 DEF Next
<1>2. SessionInv /\ [Next]_vars => [MemoryKept]_vars
  BY <1>1
<1> QED BY SessionInvariance, <1>2, PTL DEF Spec, SlotsKeepTheirMemory, MemoryKept

-----------------------------------------------------------------------------
(* The rewind ring. *)

\* Every step of the session is one of the ring, or leaves it alone.
LEMMA RewindStep == [Next]_vars => [Rewind!Next]_(Rewind!rewindVars)
<1> USE DEF rewindVars, Rewind!rewindVars
<1>1. CASE Creating \/ Loading \/ Running
  BY <1>1 DEF Creating, BeginCreate, LoaderSetsPaths, LoaderFails, LoaderSucceeds, FailedMessage,
     Created, Launch, LaunchNoSave, LaunchAsk, LaunchAlert, AnswerAlert, Benchmark, Loading,
     LoadNothing, LoadState, LoadIsFatal, Running, ResizeStates, Show, Start, Pause, Play,
     FlushCounter, ShowUI, Rewind!Next
<1>2. CASE Closing \/ Crash
  BY <1>2 DEF Closing, BeginClose, FinishClose, BackgroundExit, FinishExit, Resume, Crash, ShowUI,
     Rewind!Next
<1>3. CASE Saving
  BY <1>3 DEF Saving, WriteState, WriteFails, TimerFires, FinishTimer, ManualSave, FinishManual,
     ManualLoad, SwitchFails, FinishSwitch, ToggleContent, LoadStateSlot, LoadStateFails,
     SelectSlot, RenameSlot, DeleteSlot
<1>4. CASE Rewinding \/ Reloading
  BY <1>4 DEF Rewinding, RewindKey, RewindSave, UpdateMaxStates, Reloading, Reload, FinishReload,
     ReloadBackupMemory, Rewind!Next
<1>5. CASE UNCHANGED vars
  BY <1>5 DEF vars
<1> QED BY <1>1, <1>2, <1>3, <1>4, <1>5 DEF Next

\* The ring of EmuSession and the ring of RewindManagerProofs are the same.
LEMMA SameIndexes ==
    /\ Rewind!Capacity = RewindFacts!Capacity
    /\ Rewind!PrevIdx = RewindFacts!PrevIdx
    /\ Rewind!NextIdx = RewindFacts!NextIdx
    /\ \A n : Rewind!FreshEntries(n) = RewindFacts!FreshEntries(n)
BY DEF Rewind!Capacity, RewindFacts!Capacity, Rewind!PrevIdx, RewindFacts!PrevIdx,
   Rewind!NextIdx, RewindFacts!NextIdx, Rewind!FreshEntries, RewindFacts!FreshEntries

LEMMA SameSteps == Rewind!Next => RewindFacts!Next
<1>1. Rewind!Clear => RewindFacts!Clear
  BY SameIndexes DEF Rewind!Clear, RewindFacts!Clear
<1>2. Rewind!Reset => RewindFacts!Reset
  BY SameIndexes DEF Rewind!Reset, RewindFacts!Reset
<1>3. Rewind!StartTimer => RewindFacts!StartTimer
  BY DEF Rewind!StartTimer, RewindFacts!StartTimer
<1>4. Rewind!PauseTimer => RewindFacts!PauseTimer
  BY DEF Rewind!PauseTimer, RewindFacts!PauseTimer
<1>5. Rewind!RewindState => RewindFacts!RewindState
  BY SameIndexes DEF Rewind!RewindState, RewindFacts!RewindState
<1>6. \A n : Rewind!UpdateMaxStates(n) => RewindFacts!UpdateMaxStates(n)
  BY SameIndexes DEF Rewind!UpdateMaxStates, RewindFacts!UpdateMaxStates
<1>7. \A s : Rewind!SaveState(s) => RewindFacts!SaveState(s)
  BY SameIndexes DEF Rewind!SaveState, RewindFacts!SaveState
<1> QED BY <1>1, <1>2, <1>3, <1>4, <1>5, <1>6, <1>7 DEF Rewind!Next, RewindFacts!Next

LEMMA SameRing ==
    /\ RewindFacts!TypeOK => Rewind!TypeOK
    /\ RewindFacts!SavesInRange => Rewind!SavesInRange
    /\ RewindFacts!EntriesMatchOption => Rewind!EntriesMatchOption
    /\ RewindFacts!NoGaps <=> Rewind!NoGaps
    /\ RewindFacts!Count = Rewind!Count
BY DEF RewindFacts!TypeOK, Rewind!TypeOK, RewindFacts!SavesInRange, Rewind!SavesInRange,
   RewindFacts!EntriesMatchOption, Rewind!EntriesMatchOption, RewindFacts!NoGaps, Rewind!NoGaps,
   RewindFacts!Holds, Rewind!Holds, RewindFacts!At, Rewind!At, RewindFacts!Capacity,
   Rewind!Capacity, RewindFacts!PrevIdx, Rewind!PrevIdx, RewindFacts!Count, Rewind!Count

LEMMA RewindAssumptionHolds == RewindFacts!RewindAssumption
BY RewindAssumption DEF RewindFacts!RewindAssumption

LEMMA UsesProvenRing == Spec => RewindFacts!Spec
<1>1. Init => RewindFacts!Init
  BY SameIndexes DEF Init, Rewind!Init, RewindFacts!Init
<1>2. [Rewind!Next]_(Rewind!rewindVars) => [RewindFacts!Next]_(RewindFacts!rewindVars)
  <2>1. UNCHANGED Rewind!rewindVars => UNCHANGED RewindFacts!rewindVars
    BY DEF Rewind!rewindVars, RewindFacts!rewindVars
  <2> QED BY <2>1, SameSteps
<1> QED BY RewindStep, <1>1, <1>2, PTL DEF Spec, RewindFacts!Spec

\* All variables, the ring's included, keep their types.
THEOREM SessionTypeCorrect == Spec => []TypeOK
<1>1. RewindFacts!Spec => []RewindFacts!TypeOK
  BY RewindAssumptionHolds, RewindFacts!RewindTypeCorrect
<1>2. SessionInv /\ RewindFacts!TypeOK => TypeOK
  <2> SUFFICES ASSUME SessionInv, RewindFacts!TypeOK PROVE TypeOK
    OBVIOUS
  <2>1. stateIO \in Slots \union {None} /\ stateFile \in [Slots -> StateFiles]
    BY DEF SessionInv, SessionTypes, StateFiles
  <2>2. Rewind!TypeOK
    BY SameRing
  <2> QED BY <2>1, <2>2, Zenon DEF SessionInv, FlagTypes, SessionTypes, TypeOK, StateFiles,
      Backups
<1> QED BY UsesProvenRing, SessionInvariance, <1>1, <1>2, PTL

\* However sessions follow on one another, the rewind ring stays within its
\* entries.
THEOREM SessionRewindInRange == Spec => []RewindInRange
<1>1. RewindFacts!Spec
        => [](RewindFacts!SavesInRange /\ RewindFacts!EntriesMatchOption /\ RewindFacts!NoGaps)
  BY RewindAssumptionHolds, RewindFacts!RewindStaysInRange
<1>2. RewindFacts!SavesInRange /\ RewindFacts!EntriesMatchOption /\ RewindFacts!NoGaps
        => RewindInRange
  BY SameRing DEF RewindInRange
<1> QED BY UsesProvenRing, <1>1, <1>2, PTL

\* And it steps through the history of the content as the specification of
\* the rewind feature says.
THEOREM SessionRewindImplements == Spec => RewindImplementsHistory
<1> USE DEF RewindFacts!Count, Rewind!Count, RewindFacts!NoGaps, Rewind!NoGaps,
        RewindFacts!Holds, Rewind!Holds, RewindFacts!At, Rewind!At, RewindFacts!Capacity,
        Rewind!Capacity
<1>1. RewindFacts!Spec => RewindFacts!ImplementsHistory
  BY RewindAssumptionHolds, RewindFacts!RewindImplements
<1>2. RewindFacts!Abstract!Init => Rewind!Abstract!Init
  BY DEF RewindFacts!Abstract!Init, Rewind!Abstract!Init
<1>3. [RewindFacts!Abstract!Next]_(RewindFacts!Abstract!vars)
        => [Rewind!Abstract!Next]_(Rewind!Abstract!vars)
  <2>1. UNCHANGED RewindFacts!Abstract!vars => UNCHANGED Rewind!Abstract!vars
    BY DEF RewindFacts!Abstract!vars, Rewind!Abstract!vars
  <2>2. RewindFacts!Abstract!Rewind => Rewind!Abstract!Rewind
    BY DEF RewindFacts!Abstract!Rewind, Rewind!Abstract!Rewind
  <2>3. RewindFacts!Abstract!Restart => Rewind!Abstract!Restart
    BY DEF RewindFacts!Abstract!Restart, Rewind!Abstract!Restart
  <2>4. \A s \in States : RewindFacts!Abstract!Save(s) => Rewind!Abstract!Save(s)
    BY DEF RewindFacts!Abstract!Save, Rewind!Abstract!Save, RewindFacts!Abstract!Newest,
       Rewind!Abstract!Newest
  <2> QED BY <2>1, <2>2, <2>3, <2>4 DEF RewindFacts!Abstract!Next, Rewind!Abstract!Next
<1> QED BY UsesProvenRing, <1>1, <1>2, <1>3, PTL
        DEF RewindImplementsHistory, RewindFacts!ImplementsHistory, Rewind!ImplementsHistory,
            RewindFacts!Abstract!Spec, Rewind!Abstract!Spec
=============================================================================
