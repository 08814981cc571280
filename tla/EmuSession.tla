----------------------------- MODULE EmuSession -----------------------------
(***************************************************************************)
(* One content session after another: EmuApp creates, launches, shows,     *)
(* pauses, reloads and closes the content (EmuApp.cc, EmuSystem.cc), and    *)
(* AutosaveManager keeps its progress in files (AutosaveManager.cc).  All   *)
(* of it runs on the main thread, except the loader thread and the frames   *)
(* (Play, FlushCounter) of the emulation thread.                           *)
(*                                                                         *)
(* Progress is kept twice.  The autosave state of a slot is a file that    *)
(* stateIO keeps open; a save truncates it and writes it anew.  Backup     *)
(* memory (battery RAM) is a file whose handling depends on the system:    *)
(* "static" ones (setupStaticBackupMemoryFile: GBA, GBC, Swan, NEO, Saturn) *)
(* open Main's file at the first load and write to that handle; the others *)
(* compute the path at each load and flush.  When there is no file to read *)
(* some of them clear memory ("clears": Snes9x, MD's CD drive), and some   *)
(* keep what is in it ("keeps": MD's cartridges, NES, PCE, NGP).           *)
(*                                                                         *)
(* Whose memory is in use is told by the last load of backup memory.  A    *)
(* state that is restored later brings a copy of its own; it is taken for  *)
(* progress of the content, whichever slot was selected when it was saved. *)
(*                                                                         *)
(* A handler that saves has several steps, pc; the process can die between *)
(* any two.  The files are those of one content that is opened again and   *)
(* again; the save directory does not change during a session; nothing is  *)
(* opened, closed or put in the background while a loader thread runs; a   *)
(* reload finds the content's file; the autosave interval is not "Off".    *)
(*                                                                         *)
(* A definition introduced as "a bug" breaks a property when it takes the  *)
(* place of the definition its name starts with.                           *)
(***************************************************************************)
EXTENDS RewindConstants, FiniteSets

CONSTANTS
    Main,          \* the slot with the empty name
    ExtraSlots,    \* names for the slots the user makes
    NoSave,        \* noAutosaveName
    None,          \* no slot
    MaxExtraSlots  \* bound: extra slots that exist at a time

Slots == {Main} \union ExtraSlots

ASSUME SessionAssumption ==
    /\ Main \notin ExtraSlots
    /\ NoSave \notin Slots
    /\ None \notin Slots \union {NoSave}
    /\ MaxExtraSlots \in Nat

VARIABLES
    kind,          \* how the system keeps backup memory
    hasContent,    \* contentName_ is not empty
    loader,        \* the loader thread and its last message
    active,        \* emulation is shown and runs (State::ACTIVE)
    background,    \* the application was sent to the background
    slot,          \* autoSaveSlot
    stateIO,       \* the slot whose file stateIO was opened on
    saveIO,        \* static systems: the backup memory file is open
    memOf,         \* the slot backup memory was loaded for, None if for no slot
    unread,        \* history: the last load could not read the slot's file
    onlyBackup,    \* saveOnlyBackupMemory
    autosaveTimer, \* armed
    dirs,          \* the extra slots that have a directory
    stateFile,     \* autosave state of each slot; "current" is the system's own state
    backupFile,    \* each slot's file: "own" memory, an "other" slot's, or "unloaded" memory
    pc, after,     \* the step of the main thread's handler, and what follows it
    saved,         \* what AutosaveManager::save returned
    target,        \* setSlot's argument
    stateEntries, stateIdx, stateSize, maxStates, rewindTimer, restored

Rewind == INSTANCE RewindManager WITH saveTimer <- rewindTimer

rewindVars == <<stateEntries, stateIdx, stateSize, maxStates, rewindTimer, restored>>
contentVars == <<kind, hasContent, loader>>
shownVars == <<active, background>>
slotVars == <<slot, stateIO>>
memVars == <<saveIO, memOf, unread, backupFile>>
fileVars == <<dirs, stateFile>>
pcVars == <<pc, after, saved, target>>

vars == <<contentVars, shownVars, slotVars, memVars, fileVars, pcVars, onlyBackup,
          autosaveTimer, rewindVars>>

\* Systems with a file for each slot.
Paths == {"clears", "keeps"}

Kinds == Paths \union {"static", "none"}

Complete == {"old", "current"}

Incomplete == {"empty", "partial"}

\* What a handler that saves goes on to do: see the actions named Finish.
Followers == {"none", "timer", "manual", "close", "create", "exit", "switch", "reload",
              "launch", "switched", "revert", "reloaded", "show"}

TypeOK ==
    /\ kind \in Kinds
    /\ hasContent \in BOOLEAN
    /\ loader \in {"idle", "starting", "loading", "ok", "failed", "alert"}
    /\ active \in BOOLEAN /\ background \in BOOLEAN
    /\ slot \in Slots \union {NoSave}
    /\ stateIO \in Slots \union {None}
    /\ saveIO \in BOOLEAN
    /\ memOf \in Slots \union {None} /\ unread \in BOOLEAN
    /\ onlyBackup \in BOOLEAN
    /\ autosaveTimer \in BOOLEAN
    /\ dirs \subseteq ExtraSlots
    /\ stateFile \in [Slots -> {"none"} \union Complete \union Incomplete]
    /\ backupFile \in [Slots -> {"none", "own", "other", "unloaded"}]
    /\ pc \in {"idle", "write", "load", "loadNoState", "cont"}
    /\ after \in Followers
    /\ saved \in BOOLEAN
    /\ target \in Slots \union {NoSave, None}
    /\ Rewind!TypeOK

Init ==
    /\ kind \in Kinds
    /\ hasContent = FALSE /\ loader = "idle"
    /\ active = FALSE /\ background = FALSE
    /\ slot = Main /\ stateIO = None
    /\ saveIO = FALSE /\ memOf = None /\ unread = FALSE
    /\ onlyBackup = FALSE /\ autosaveTimer = FALSE
    /\ dirs = {}
    /\ stateFile = [s \in Slots |-> "none"]
    /\ backupFile = [s \in Slots |-> "none"]
    /\ pc = "idle" /\ after = "none" /\ saved = FALSE /\ target = None
    /\ Rewind!Init

-----------------------------------------------------------------------------
(* Pieces of handlers. *)

\* Nobody is in a handler: the event loop may start the next one.
Idle == pc = "idle"

\* The menus are reachable: not under a modal view or a foreign application.
InMenu == Idle /\ ~active /\ ~background /\ loader = "idle"

\* What was the system's state is behind it now.
Aged == [s \in Slots |-> IF stateFile[s] = "current" THEN "old" ELSE stateFile[s]]

\* The memory in use is written to f's file.
WriteMemory(f) ==
    backupFile' = [backupFile EXCEPT
                      ![f] = IF memOf = None THEN "unloaded"
                             ELSE IF memOf # f THEN "other"
                             ELSE IF @ = "none" THEN "own" ELSE @]

\* A bug: the file is opened for writing, if it is not open.
Flush_OpensFile ==
    \/ kind = "static" /\ WriteMemory(Main)
    \/ kind \in Paths /\ WriteMemory(IF slot = NoSave THEN Main ELSE slot)
    \/ kind = "none" /\ UNCHANGED backupFile

\* flushBackupMemory.  contentSaveFilePath takes "No Save" for Main.  Memory
\* that is not in use is not written by some systems (NES, PCE, NGP), and MD
\* removes its file; nor is anything written when the file cannot be created.
Flush ==
    LET f == IF slot = NoSave THEN Main ELSE slot
    IN \/ kind = "static" /\ saveIO /\ WriteMemory(Main)
       \/ kind \in Paths /\ WriteMemory(f)
       \/ kind = "keeps" /\ backupFile' = [backupFile EXCEPT ![f] = "none"]
       \/ (kind = "static" => ~saveIO) /\ UNCHANGED backupFile

\* loadBackupMemory of a static system, when it can open the file.
LoadStaticMemory ==
    /\ kind = "static"
    /\ memOf' = Main /\ saveIO' = TRUE /\ unread' = FALSE
    /\ backupFile' = [backupFile EXCEPT ![Main] = IF @ = "none" THEN "own" ELSE @]

\* The others read the slot's file if it is there.
ReadMemory ==
    /\ kind \in Paths /\ backupFile[slot] # "none"
    /\ memOf' = slot /\ unread' = FALSE
    /\ UNCHANGED <<saveIO, backupFile>>

\* The file is missing, cannot be opened or has the wrong size.  New memory,
\* cleared now or when the content was created, is the slot's when it has no
\* file; memory that is kept is whose it was.
ReadNoMemory ==
    LET new == IF backupFile[slot] = "none" THEN slot ELSE None
    IN /\ kind \in Paths
       /\ memOf' = (IF kind = "clears" \/ memOf = None THEN new ELSE memOf)
       /\ unread' = (backupFile[slot] # "none")
       /\ UNCHANGED <<saveIO, backupFile>>

\* loadBackupMemory, unless it throws.
LoadBackupMemory ==
    \/ LoadStaticMemory \/ ReadMemory \/ ReadNoMemory
    \/ kind = "none" /\ UNCHANGED memVars

\* AutosaveManager::save up to the truncation of the state file.
BeginSave(manual) ==
    IF slot = NoSave
      THEN /\ pc' = "cont" /\ saved' = TRUE
           /\ UNCHANGED <<backupFile, stateFile>>
      ELSE /\ Flush
           /\ \/ /\ onlyBackup /\ ~manual
                 /\ pc' = "cont" /\ saved' = TRUE
                 /\ UNCHANGED stateFile
              \/ /\ ~onlyBackup \/ manual
                 /\ stateIO = None
                 /\ pc' = "cont" /\ saved' = FALSE
                 /\ UNCHANGED stateFile
              \/ /\ ~onlyBackup \/ manual
                 /\ stateIO # None
                 /\ pc' = "write"
                 /\ stateFile' = [stateFile EXCEPT ![stateIO] = "empty"]
                 /\ UNCHANGED saved

\* The calls that save when there is content and go on in any case.
BeginSaveOfContent ==
    IF hasContent
      THEN BeginSave(FALSE)
      ELSE pc' = "cont" /\ UNCHANGED <<saved, backupFile, stateFile>>

\* A bug: pausing forgets the autosave timer.
ShowUI_KeepsTimer ==
    /\ active' = FALSE
    /\ UNCHANGED autosaveTimer
    /\ IF active THEN Rewind!PauseTimer ELSE UNCHANGED rewindVars

\* showUI: pauses what is shown.
ShowUI ==
    /\ active' = FALSE
    /\ autosaveTimer' = (autosaveTimer /\ ~active)
    /\ IF active THEN Rewind!PauseTimer ELSE UNCHANGED rewindVars

\* Bugs: the old slot's file stays open; the new one's is opened at once, also
\* the file that "No Save" does not have.
ResetSlot_KeepsFile(s) == slot' = s /\ autosaveTimer' = FALSE /\ UNCHANGED stateIO

ResetSlot_OpensFile(s) == slot' = s /\ stateIO' = s /\ autosaveTimer' = FALSE

\* resetSlot(name).
ResetSlot(s) == slot' = s /\ stateIO' = None /\ autosaveTimer' = FALSE

GoOn(p, a) == pc' = p /\ after' = a

-----------------------------------------------------------------------------
(* The writing of a state file, common to every save. *)

\* saveState: the bytes are written.
WriteState ==
    /\ pc = "write"
    /\ stateFile' = [stateFile EXCEPT ![stateIO] = "current"]
    /\ saved' = TRUE
    /\ pc' = "cont"
    /\ UNCHANGED <<contentVars, shownVars, slotVars, memVars, dirs, after, target,
                   onlyBackup, autosaveTimer, rewindVars>>

\* saveState: none or some of them are.
WriteFails ==
    /\ pc = "write"
    /\ \E f \in Incomplete : stateFile' = [stateFile EXCEPT ![stateIO] = f]
    /\ saved' = FALSE
    /\ pc' = "cont"
    /\ UNCHANGED <<contentVars, shownVars, slotVars, memVars, dirs, after, target,
                   onlyBackup, autosaveTimer, rewindVars>>

-----------------------------------------------------------------------------
(* Creating and launching content. *)

\* createSystemWithMedia closes what is open, then starts the loader thread.
BeginCreate ==
    /\ Idle /\ ~background /\ loader \in {"idle", "alert"}
    /\ ShowUI
    /\ BeginSaveOfContent
    /\ after' = "create" /\ loader' = "idle"
    /\ UNCHANGED <<kind, hasContent, background, slotVars, saveIO, memOf, unread, dirs, target,
                   onlyBackup>>

\* closeAndSetupNew on the loader thread.
LoaderSetsPaths ==
    /\ loader = "starting"
    /\ hasContent' = TRUE /\ loader' = "loading"
    /\ UNCHANGED <<kind, shownVars, slotVars, memVars, fileVars, pcVars, onlyBackup,
                   autosaveTimer, rewindVars>>

LoaderFails ==
    /\ loader \in {"starting", "loading"}
    /\ hasContent' = FALSE /\ loader' = "failed"
    /\ UNCHANGED <<kind, shownVars, slotVars, memVars, fileVars, pcVars, onlyBackup,
                   autosaveTimer, rewindVars>>

LoaderSucceeds ==
    /\ loader = "loading"
    /\ loader' = "ok"
    /\ UNCHANGED <<kind, hasContent, shownVars, slotVars, memVars, fileVars, pcVars,
                   onlyBackup, autosaveTimer, rewindVars>>

FailedMessage ==
    /\ Idle /\ loader = "failed"
    /\ loader' = "idle"
    /\ UNCHANGED <<kind, hasContent, shownVars, slotVars, memVars, fileVars, pcVars,
                   onlyBackup, autosaveTimer, rewindVars>>

\* onSystemCreated, then launchSystem in one of its modes, or the benchmark.
Created(l) ==
    /\ Idle /\ loader = "ok"
    /\ loader' = l
    /\ Rewind!Reset
    /\ UNCHANGED <<kind, hasContent, shownVars, memVars, fileVars, saved, target, onlyBackup>>

Launch ==
    /\ Created("idle")
    /\ \/ GoOn("load", "launch") \/ GoOn("loadNoState", "launch")
    /\ UNCHANGED <<slotVars, autosaveTimer>>

LaunchNoSave ==
    /\ Created("idle")
    /\ ResetSlot(NoSave)
    /\ GoOn("load", "launch")

LaunchAsk ==
    /\ Created("idle")
    /\ ResetSlot(NoSave)
    /\ UNCHANGED <<pc, after>>

\* The state is older than the backup memory: the user is asked.
LaunchAlert ==
    /\ Created("alert")
    /\ kind # "none" /\ ~onlyBackup /\ stateFile[slot] # "none"
    /\ UNCHANGED <<slotVars, autosaveTimer, pc, after>>

AnswerAlert ==
    /\ Idle /\ ~background /\ loader = "alert"
    /\ loader' = "idle"
    /\ \/ GoOn("load", "launch") \/ GoOn("loadNoState", "launch") \/ UNCHANGED <<pc, after>>
    /\ UNCHANGED <<kind, hasContent, shownVars, slotVars, memVars, fileVars, saved, target,
                   onlyBackup, autosaveTimer, rewindVars>>

Benchmark ==
    /\ Created("idle")
    /\ ResetSlot(NoSave)
    /\ GoOn("cont", "close")


-----------------------------------------------------------------------------
(* AutosaveManager::load. *)

\* load returns: a launch goes on whatever it returned.
LoadDone(ok) ==
    IF ok \/ after = "launch" THEN GoOn("cont", "show") ELSE GoOn("idle", "none")

\* There is nothing to load, or not yet anything to load from.
LoadNothing ==
    /\ pc \in {"load", "loadNoState"}
    /\ \/ /\ slot = NoSave
          /\ LoadDone(TRUE)
          /\ UNCHANGED memVars
       \/ /\ slot # NoSave /\ kind = "static" /\ ~saveIO
          /\ LoadDone(FALSE)
          /\ UNCHANGED memVars
       \/ /\ slot # NoSave /\ kind = "keeps"   \* NGP throws what it does not accept
          /\ ReadNoMemory /\ unread'
          /\ LoadDone(FALSE)
       \/ /\ slot # NoSave /\ onlyBackup /\ after # "revert"
          /\ LoadBackupMemory
          /\ LoadDone(TRUE)
       \/ /\ slot # NoSave /\ stateIO = None
          /\ LoadBackupMemory
          /\ LoadDone(FALSE)
    /\ UNCHANGED <<contentVars, shownVars, slotVars, fileVars, saved, target, onlyBackup,
                   autosaveTimer, rewindVars>>

\* The state file is open and read, or it is new and written.
LoadState ==
    LET f == IF stateIO = None THEN slot ELSE stateIO
        hasData == stateFile[f] \notin {"none", "empty"}
    IN
    /\ pc \in {"load", "loadNoState"}
    /\ slot # NoSave /\ (~onlyBackup \/ after = "revert")
    /\ LoadBackupMemory
    /\ stateIO' = f
    /\ \/ /\ ~hasData
          /\ \E content \in {"current"} \union Incomplete :
                /\ stateFile' = [stateFile EXCEPT ![f] = content]
                /\ LoadDone(content = "current")
          /\ UNCHANGED autosaveTimer
       \/ /\ hasData /\ pc = "loadNoState"
          /\ LoadDone(TRUE)
          /\ UNCHANGED <<stateFile, autosaveTimer>>
       \/ /\ hasData /\ pc = "load"   \* it is not accepted, or only read in part
          /\ LoadDone(FALSE)
          /\ stateFile' \in {stateFile, Aged}
          /\ UNCHANGED autosaveTimer
       \/ /\ hasData /\ pc = "load"
          /\ stateFile[f] \in Complete
          /\ stateFile' = [Aged EXCEPT ![f] = "current"]
          /\ autosaveTimer' = TRUE
          /\ LoadDone(TRUE)
    /\ UNCHANGED <<contentVars, shownVars, slot, dirs, saved, target, onlyBackup, rewindVars>>

\* MSX: a state, the slot's or a numbered one, cannot be restored once the
\* machine is torn down, so the content is closed without a save.
LoadIsFatal ==
    /\ kind = "none"
    /\ \/ /\ pc = "load"
          /\ slot # NoSave /\ (~onlyBackup \/ after = "revert")
          /\ stateFile[slot] \notin {"none", "empty"}
       \/ Idle /\ hasContent /\ ~background /\ loader = "idle"
    /\ ResetSlot(NoSave)
    /\ active' = FALSE
    /\ IF active THEN Rewind!PauseTimer ELSE UNCHANGED rewindVars
    /\ GoOn("cont", "close")
    /\ UNCHANGED <<contentVars, background, memVars, fileVars, saved, target, onlyBackup>>

-----------------------------------------------------------------------------
(* Showing and pausing the emulation. *)

\* EmuSystem::start of content whose state size has changed.
ResizeStates ==
    /\ pc = "cont" /\ after = "show" /\ ~active
    /\ hasContent /\ maxStates # 0
    /\ Rewind!Reset
    /\ UNCHANGED <<contentVars, shownVars, slotVars, memVars, fileVars, pcVars, onlyBackup,
                   autosaveTimer>>

\* showEmulation.
Show ==
    /\ pc = "cont" /\ after = "show"
    /\ GoOn("idle", "none")
    /\ IF hasContent /\ ~active
         THEN /\ active' = TRUE
              /\ autosaveTimer' = (autosaveTimer \/ slot # NoSave)
              /\ Rewind!StartTimer
         ELSE UNCHANGED <<active, autosaveTimer, rewindVars>>
    /\ UNCHANGED <<contentVars, background, slotVars, memVars, fileVars, saved, target,
                   onlyBackup>>

\* The user returns to the running content, or leaves it for the menus.
Start ==
    /\ InMenu /\ hasContent
    /\ GoOn("cont", "show")
    /\ UNCHANGED <<contentVars, shownVars, slotVars, memVars, fileVars, saved, target,
                   onlyBackup, autosaveTimer, rewindVars>>

Pause ==
    /\ Idle /\ active /\ ~background
    /\ ShowUI
    /\ UNCHANGED <<contentVars, background, slotVars, memVars, fileVars, pcVars, onlyBackup>>

\* A frame of the emulation thread changes the system's state.
Play ==
    /\ active /\ ~background
    /\ stateFile' = Aged
    /\ UNCHANGED <<contentVars, shownVars, slotVars, memVars, dirs, pcVars, onlyBackup,
                   autosaveTimer, rewindVars>>

\* updateBackupMemoryCounter, in a frame.
FlushCounter ==
    /\ active /\ ~background
    /\ Flush
    /\ UNCHANGED <<contentVars, shownVars, slotVars, saveIO, memOf, unread, fileVars, pcVars,
                   onlyBackup, autosaveTimer, rewindVars>>

-----------------------------------------------------------------------------
(* Closing. *)

\* closeSystem, from the menu or at the end of the process.
BeginClose ==
    /\ Idle /\ loader \in {"idle", "alert"}
    /\ ShowUI
    /\ BeginSaveOfContent
    /\ after' = "close" /\ loader' = "idle"
    /\ UNCHANGED <<kind, hasContent, background, slotVars, saveIO, memOf, unread, dirs, target,
                   onlyBackup>>

\* closeRuntimeSystem after the save, and closeSystem after that.
FinishClose ==
    /\ pc = "cont" /\ after \in {"close", "create"}
    /\ hasContent' = FALSE
    /\ loader' = IF after = "create" THEN "starting" ELSE loader
    /\ IF hasContent
         THEN Flush /\ saveIO' = FALSE /\ memOf' = None /\ unread' = FALSE
         ELSE UNCHANGED memVars
    /\ ResetSlot(Main)
    /\ stateFile' = Aged
    /\ Rewind!Clear
    /\ GoOn("idle", "none") /\ saved' = FALSE
    /\ UNCHANGED <<kind, shownVars, dirs, target, onlyBackup>>

\* A bug: the exit handlers run in the other order, so content still runs
\* while it is saved.
BackgroundExit_SavesFirst ==
    /\ Idle /\ ~background /\ loader \notin {"starting", "loading"}
    /\ BeginSaveOfContent
    /\ after' = "exit"
    /\ UNCHANGED <<contentVars, shownVars, slotVars, saveIO, memOf, unread, dirs, target,
                   onlyBackup, autosaveTimer, rewindVars>>

\* The application goes to the background: the later exit handler runs first.
BackgroundExit ==
    /\ Idle /\ ~background /\ loader \notin {"starting", "loading"}
    /\ ShowUI
    /\ BeginSaveOfContent
    /\ after' = "exit"
    /\ UNCHANGED <<contentVars, background, slotVars, saveIO, memOf, unread, dirs, target,
                   onlyBackup>>

FinishExit ==
    /\ pc = "cont" /\ after = "exit"
    /\ background' = TRUE
    /\ IF hasContent THEN Flush ELSE UNCHANGED backupFile
    /\ GoOn("idle", "none")
    /\ UNCHANGED <<contentVars, active, slotVars, saveIO, memOf, unread, fileVars, saved,
                   target, onlyBackup, autosaveTimer, rewindVars>>

Resume ==
    /\ Idle /\ background
    /\ background' = FALSE /\ saved' = FALSE
    /\ UNCHANGED <<contentVars, active, slotVars, memVars, fileVars, pc, after, target,
                   onlyBackup, autosaveTimer, rewindVars>>

-----------------------------------------------------------------------------
(* Autosave slots and states, from the menus or while content runs. *)

\* The autosave timer.
TimerFires ==
    /\ Idle /\ autosaveTimer
    /\ BeginSave(FALSE)
    /\ after' = "timer"
    /\ UNCHANGED <<contentVars, shownVars, slotVars, saveIO, memOf, unread, dirs, target,
                   onlyBackup, autosaveTimer, rewindVars>>

FinishTimer ==
    /\ pc = "cont" /\ after = "timer"
    /\ GoOn("idle", "none") /\ saved' = FALSE
    /\ UNCHANGED <<contentVars, shownVars, slotVars, memVars, fileVars, target, onlyBackup,
                   autosaveTimer, rewindVars>>

\* "Save autosave state" of the menu.
ManualSave ==
    /\ InMenu /\ hasContent /\ slot # NoSave
    /\ BeginSave(TRUE)
    /\ after' = "manual"
    /\ UNCHANGED <<contentVars, shownVars, slotVars, saveIO, memOf, unread, dirs, target,
                   onlyBackup, autosaveTimer, rewindVars>>

FinishManual ==
    /\ pc = "cont" /\ after = "manual"
    /\ IF saved THEN GoOn("cont", "show") ELSE GoOn("idle", "none")
    /\ saved' = FALSE
    /\ UNCHANGED <<contentVars, shownVars, slotVars, memVars, fileVars, target, onlyBackup,
                   autosaveTimer, rewindVars>>

\* "Load autosave state" of the menu.
ManualLoad ==
    /\ InMenu /\ hasContent /\ slot # NoSave
    /\ stateFile[slot] # "none"
    /\ GoOn("load", "revert")
    /\ UNCHANGED <<contentVars, shownVars, slotVars, memVars, fileVars, saved, target,
                   onlyBackup, autosaveTimer, rewindVars>>

\* setSlot(s): the current slot is just shown; another one is switched to
\* after a save.
SelectSlot(s) ==
    /\ InMenu /\ hasContent
    /\ s \in ExtraSlots \ dirs => Cardinality(dirs) < MaxExtraSlots
    /\ IF s = slot
         THEN /\ GoOn("cont", "show")
              /\ UNCHANGED <<saved, target, backupFile, stateFile>>
         ELSE /\ BeginSave(FALSE)
              /\ after' = "switch" /\ target' = s
    /\ UNCHANGED <<contentVars, shownVars, slotVars, saveIO, memOf, unread, dirs, onlyBackup,
                   autosaveTimer, rewindVars>>

\* The save failed, or the directory of the new slot cannot be made.
SwitchFails ==
    /\ pc = "cont" /\ after = "switch"
    /\ ~saved \/ target \in ExtraSlots
    /\ GoOn("idle", "none") /\ saved' = FALSE /\ target' = None
    /\ UNCHANGED <<contentVars, shownVars, slotVars, memVars, fileVars, onlyBackup,
                   autosaveTimer, rewindVars>>

\* Bugs: a failed save does not stop the switch; the new slot is not loaded.
FinishSwitch_Unsaved ==
    /\ pc = "cont" /\ after = "switch"
    /\ ResetSlot(target)
    /\ dirs' = dirs \union ({target} \intersect ExtraSlots)
    /\ GoOn("load", "switched") /\ saved' = FALSE /\ target' = None
    /\ UNCHANGED <<contentVars, shownVars, memVars, stateFile, onlyBackup, rewindVars>>

FinishSwitch_NotLoaded ==
    /\ pc = "cont" /\ after = "switch"
    /\ saved
    /\ ResetSlot(target)
    /\ dirs' = dirs \union ({target} \intersect ExtraSlots)
    /\ GoOn("cont", "show") /\ saved' = FALSE /\ target' = None
    /\ UNCHANGED <<contentVars, shownVars, memVars, stateFile, onlyBackup, rewindVars>>

FinishSwitch ==
    /\ pc = "cont" /\ after = "switch"
    /\ saved
    /\ ResetSlot(target)
    /\ dirs' = dirs \union ({target} \intersect ExtraSlots)
    /\ GoOn("load", "switched") /\ saved' = FALSE /\ target' = None
    /\ UNCHANGED <<contentVars, shownVars, memVars, stateFile, onlyBackup, rewindVars>>

\* The slot's directory is renamed; an open state file moves along.
RenameSlot(a, b) ==
    LET moved(f) == [f EXCEPT ![b] = f[a], ![a] = "none"]
        newName(s) == IF s = a THEN b ELSE s
    IN
    /\ InMenu /\ hasContent
    /\ a \in dirs /\ b \notin dirs
    /\ dirs' = (dirs \ {a}) \union {b}
    /\ stateFile' = moved(stateFile) /\ backupFile' = moved(backupFile)
    /\ slot' = newName(slot) /\ stateIO' = newName(stateIO) /\ memOf' = newName(memOf)
    /\ UNCHANGED <<contentVars, shownVars, saveIO, unread, pcVars, onlyBackup, autosaveTimer,
                   rewindVars>>

\* Memory of a slot that is deleted under "No Save" is nobody's from then on.
DeleteSlot(a) ==
    /\ InMenu /\ hasContent
    /\ a \in dirs /\ a # slot
    /\ dirs' = dirs \ {a}
    /\ stateFile' = [stateFile EXCEPT ![a] = "none"]
    /\ backupFile' = [backupFile EXCEPT ![a] = "none"]
    /\ memOf' = IF memOf = a THEN None ELSE memOf
    /\ UNCHANGED <<contentVars, shownVars, slotVars, saveIO, unread, pcVars, onlyBackup,
                   autosaveTimer, rewindVars>>

\* The option "Content".
ToggleContent ==
    /\ InMenu
    /\ onlyBackup' = ~onlyBackup
    /\ UNCHANGED <<contentVars, shownVars, slotVars, memVars, fileVars, pcVars,
                   autosaveTimer, rewindVars>>

\* A numbered state is loaded with a key while content runs, or from the menu,
\* which then shows the content.  Either way the autosave timer is reset.
LoadStateSlot ==
    /\ Idle /\ hasContent /\ ~background /\ loader = "idle"
    /\ stateFile' = Aged
    /\ autosaveTimer' = TRUE
    /\ IF active THEN UNCHANGED <<pc, after>> ELSE GoOn("cont", "show")
    /\ UNCHANGED <<contentVars, shownVars, slotVars, memVars, dirs, saved, target,
                   onlyBackup, rewindVars>>

\* Such a state is not accepted, after some of it may have been read.
LoadStateFails ==
    /\ Idle /\ hasContent /\ ~background /\ loader = "idle"
    /\ stateFile' \in {stateFile, Aged}
    /\ UNCHANGED <<contentVars, shownVars, slotVars, memVars, dirs, pcVars, onlyBackup,
                   autosaveTimer, rewindVars>>

\* The rewind key.
RewindKey ==
    /\ Idle /\ active /\ ~background
    /\ Rewind!RewindState
    /\ autosaveTimer' = TRUE
    /\ stateFile' = Aged
    /\ UNCHANGED <<contentVars, shownVars, slotVars, memVars, dirs, pcVars, onlyBackup>>

RewindSave(s) ==
    /\ Idle
    /\ Rewind!SaveState(s)
    /\ UNCHANGED <<contentVars, shownVars, slotVars, memVars, fileVars, pcVars, onlyBackup,
                   autosaveTimer>>

\* The option "States" of rewinding.
UpdateMaxStates(n) ==
    /\ InMenu
    /\ Rewind!UpdateMaxStates(n)
    /\ UNCHANGED <<contentVars, shownVars, slotVars, memVars, fileVars, pcVars, onlyBackup,
                   autosaveTimer>>

-----------------------------------------------------------------------------
(* Reloading. *)

\* reloadSystem from a menu: closeRuntimeSystem saves first.
Reload ==
    /\ InMenu /\ hasContent
    /\ BeginSave(FALSE)
    /\ after' = "reload"
    /\ UNCHANGED <<contentVars, shownVars, slotVars, saveIO, memOf, unread, dirs, target,
                   onlyBackup, autosaveTimer, rewindVars>>

\* The rest of closeRuntimeSystem; the slot and its open file stay.
FinishReload ==
    /\ pc = "cont" /\ after = "reload"
    /\ Flush /\ saveIO' = FALSE /\ memOf' = None /\ unread' = FALSE
    /\ stateFile' = Aged
    /\ autosaveTimer' = FALSE
    /\ saved' = FALSE
    /\ \/ /\ hasContent' = FALSE   \* the content is not accepted any more
          /\ Rewind!Clear
          /\ GoOn("cont", "show")
       \/ /\ Rewind!Reset
          /\ GoOn("cont", IF slot = NoSave THEN "show" ELSE "reloaded")
          /\ UNCHANGED hasContent
    /\ UNCHANGED <<kind, loader, shownVars, slotVars, dirs, target, onlyBackup>>

ReloadBackupMemory ==
    /\ pc = "cont" /\ after = "reloaded"
    /\ \/ LoadBackupMemory /\ UNCHANGED hasContent
       \/ /\ \/ kind = "static"   \* the file cannot be opened, or NGP does not accept it
             \/ kind = "keeps" /\ backupFile[slot] # "none"
          /\ hasContent' = FALSE
          /\ UNCHANGED memVars
    /\ GoOn("cont", "show")
    /\ UNCHANGED <<kind, loader, shownVars, slotVars, fileVars, saved, target, onlyBackup,
                   autosaveTimer, rewindVars>>

-----------------------------------------------------------------------------
\* The process dies.  Files stay; a file being written holds nothing or a part.
\* Options are as they were when they were last saved.
Crash ==
    /\ hasContent' = FALSE /\ loader' = "idle"
    /\ active' = FALSE /\ background' = FALSE
    /\ ResetSlot(Main)
    /\ saveIO' = FALSE /\ memOf' = None /\ unread' = FALSE
    /\ IF pc = "write"
         THEN \E f \in Incomplete : stateFile' = [Aged EXCEPT ![stateIO] = f]
         ELSE stateFile' = Aged
    /\ GoOn("idle", "none") /\ saved' = FALSE /\ target' = None
    /\ Rewind!Clear
    /\ onlyBackup' \in BOOLEAN
    /\ UNCHANGED <<kind, backupFile, dirs>>

Creating ==
    \/ BeginCreate \/ LoaderSetsPaths \/ LoaderFails \/ LoaderSucceeds \/ FailedMessage
    \/ Launch \/ LaunchNoSave \/ LaunchAsk \/ LaunchAlert \/ AnswerAlert \/ Benchmark

Loading == LoadNothing \/ LoadState \/ LoadIsFatal

Running == ResizeStates \/ Show \/ Start \/ Pause \/ Play \/ FlushCounter

Closing == BeginClose \/ FinishClose \/ BackgroundExit \/ FinishExit \/ Resume

Saving ==
    \/ WriteState \/ WriteFails \/ TimerFires \/ FinishTimer \/ ManualSave \/ FinishManual
    \/ ManualLoad \/ SwitchFails \/ FinishSwitch \/ ToggleContent \/ LoadStateSlot
    \/ LoadStateFails
    \/ \E s \in Slots \union {NoSave} : SelectSlot(s)
    \/ \E a, b \in ExtraSlots : RenameSlot(a, b)
    \/ \E a \in ExtraSlots : DeleteSlot(a)

Rewinding ==
    \/ RewindKey
    \/ \E s \in States : RewindSave(s)
    \/ \E n \in StateCounts : UpdateMaxStates(n)

Reloading == Reload \/ FinishReload \/ ReloadBackupMemory

Next == Creating \/ Loading \/ Running \/ Closing \/ Saving \/ Rewinding \/ Reloading \/ Crash

Spec == Init /\ [][Next]_vars

-----------------------------------------------------------------------------
\* Static systems keep one backup memory file for all slots.  It never loses
\* its progress to memory that was not loaded from it, whatever the launch
\* mode and wherever a launch, switch or reload stops (EmuApp.cc:842,
\* EmuSystem.cc:244).
StaticSavesOwnMemory == kind = "static" => backupFile[Main] \in {"none", "own"}

\* The other systems keep one per slot, and each load and flush computes its
\* path anew (EmuApp.cc:833).  Memory loaded for one slot is written to the
\* file of another in three cases only: under "No Save", to Main's file; in a
\* system that keeps memory, to the new file of a slot that had none; and in
\* such a system, to a file that could not be read when it was last loaded.
\* So a switch, a launch, a reload or a frame's flush that goes wrong at any
\* step never mixes slots where a load replaces memory.
SlotsKeepTheirMemory ==
    [][\A s \in Slots : backupFile[s] # "other" /\ backupFile'[s] = "other"
            => \/ slot = NoSave /\ s = Main
               \/ kind = "keeps" /\ (backupFile[s] = "none" \/ unread)]_vars

\* The open state file is the current slot's, through switches, renames,
\* reloads and failures (AutosaveManager.cc:65, AutosaveManager.hh:63).
HandleIsSlots == stateIO \in {None, slot}

\* Between handlers, the timers are armed only while content runs, although
\* every state that is read arms one (EmuApp.cc:856, RewindManager.cc:90).
TimersOnlyWhileRunning ==
    Idle => /\ autosaveTimer \/ rewindTimer => active
            /\ active => hasContent

\* Content that was saved without an error on the way to the background is
\* not behind its file: it may be killed there (EmuApp.cc:318,486).
BackgroundSaveIsCurrent ==
    Idle /\ background /\ saved /\ slot # NoSave /\ ~onlyBackup
        => stateFile[slot] = "current"

\* A slot is left for another one only with its progress in its file
\* (AutosaveManager.cc:119).
SlotSwitchKeepsProgress ==
    [][after = "switch" /\ slot' # slot /\ slot # NoSave /\ ~onlyBackup /\ hasContent'
        => stateFile[slot] = "current"]_vars

\* The calls of EmuApp and EmuSystem keep the rewind ring within its entries.
RewindInRange == Rewind!SavesInRange /\ Rewind!EntriesMatchOption /\ Rewind!NoGaps

\* And the rewind key steps back through the history of the content.
RewindImplementsHistory == Rewind!ImplementsHistory

\* Under "No Save" (AutosaveSlotView.cc:227) the content runs without loading
\* its save, and its save is left as it is.
NoSaveKeepsProgress ==
    [][slot = NoSave /\ backupFile[Main] = "own" => backupFile'[Main] = "own"]_vars

=============================================================================
