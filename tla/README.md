# emu-ex-plus-alpha in TLA+

Models, checks and proofs of the concurrent core of emu-ex-plus-alpha: the
application framework `EmuFramework` and the parts of the platform library
`imagine` it stands on. The emulator cores (`*.emu`, mostly vendored) are seen
only through the calls they make into the framework.

## 1. Inventory

The process has one main thread (user interface, input, lifecycle), one
emulation thread while content runs, one render thread that owns the GL context,
and the audio back end's callback thread.

| component | state | operations | interacts with | hard behaviour | correct when |
|---|---|---|---|---|---|
| `EmuSystemTask` | thread, window, frame delegate, command pipe, three binary semaphores, `isSuspended` | `start`, `stop`, `suspend`, `setWindow`, `SuspendContext` end, frame events, present notification | `EmuApp` (caller), `Window` (frame events), `EmuViewController` (draw, present) | hand-over between threads, nesting, wake-ups, shutdown | the system is used by one party at a time; each request returns; no wake-up is lost or left over |
| `MessagePort`, `makeThreadSync` | pipe, reply semaphore on the sender's stack | send, send and wait, read | every thread | lifetime of the semaphore | a reply reaches a sender that still waits |
| `RingBuffer` | buffer, unwrapped read and write index | `beginWrite`/`endWrite`, `beginRead`/`endRead`, `clear`, `setMinCapacity` | `EmuAudio` | two threads without a lock, index wrap, partial transfers | it is a bounded queue; spans are disjoint |
| `EmuAudio` | write state, fill target, ring, stream | `start`, `stop`, `flush`, `writeFrames`, callback | emulation thread, main thread, callback thread | flush against a running callback, resize under the callback | silence or queued samples, never torn ones; the buffer is not replaced while read |
| `EmuViewController` and `RendererTask` | which window shows the emulation, drawing mode, queued draws | draw main or extra window, move the view, present | `EmuSystemTask`, `Window`, GL thread | asynchronous draws, present hand-shake | each waiting frame is woken once, and draw phases end |
| `Window`, `Screen`, frame timers | draw phase, needs-draw flag, frame delegates, timer requests | post draw, frame event, draw finished | all of the above | plain fields shared by threads | no posted draw is lost |
| `EmuApp`, `EmuSystem` | lifecycle, content session | show or pause emulation, save and load state, exit and resume | everything | ordering of saves, suspends and stops | content is saved before it is closed |
| `AutosaveManager`, `RewindManager` | slot, timers, state files and entries | save, load, slot change, rewind | `EmuSystem`, timers | failure in the middle of a save | no slot is left, and no background entered, on a save that failed but was taken for good |
| `EmuTiming`, `OutputTimingManager` | time stamps, multipliers | frames to advance, rate selection | `EmuSystemTask` | rounding, overflow | emulated time follows host time |
| input, views, config, I/O, Bluetooth | key tables, view stack, option values | sequential | main thread | few | not modelled |

`PROJECT.json` lists every component with its source files and status, and under
`hazards` what is hard to test in this code, each at its line.

## 2. Modules

| module | what it is |
|---|---|
| `SystemAccess` | abstract: the emulated system is used by a frame or by a context holder, never both |
| `EmuSystemTask` | the emulation thread, the thread that commands it, their pipe and semaphores |
| `EmuSystemTaskProofs` | inductive invariant and theorems of `EmuSystemTask` |
| `BoundedQueue` | abstract: a queue of bounded length |
| `RingBuffer` | the lock-free ring |
| `RingBufferProofs` | invariant and theorems of `RingBuffer` |
| `EmuAudio` | main thread, emulation thread and audio callback around an instance of `RingBuffer` |
| `EmuAudioProofs` | invariant and theorems of `EmuAudio`; carries the ring's theorems over |
| `EmuDisplay` | frames, user interface draws and the renderer thread, with one or two windows |
| `EmuDisplayProofs` | invariant and theorems of `EmuDisplay` |
| `EmuDisplayPaceProofs` | who waits for which draw, and how many draws pile up |
| `RewindHistory` | abstract: the last states of the content, newest first, each handed out once |
| `RewindConstants`, `RewindManager` | the ring of states and its timer |
| `RewindManagerProofs` | invariant, range and refinement of `RewindHistory` |
| `EmuSession` | content sessions, autosave slots and backup memory, around an instance of `RewindManager` |
| `MCEmuSession` | `EmuSession` for TLC, with the symmetry of slot names and states and the constraint `SlotsOrRing` |
| `EmuSessionProofs` | invariant and theorems of `EmuSession`; carries the rewind theorems over |

What is left of the plan is in section 7.

### EmuSystemTask

`mainPc` and `emuPc` say where the two threads are; the other variables are the
fields of the class and the semaphores of `MessagePort::send` and
`makeThreadSync`. `contexts` are the live `SuspendContext` objects of the main
thread, `TRUE` for one that holds the task pointer: `suspend()` on a thread that
is already suspended returns an empty one, so only the outermost owns. One action
stands for each piece of code between two blocking points:

| code | actions |
|---|---|
| `start` / `makeThreadSync` | `Start`, `EmuInit`, `StartReturn` |
| `suspend` | `SuspendNothing`, or `Suspend`, `HandleSuspend`, `ReplyReceived` |
| `setWindow` | `SetWindow`, `HandleSetWindow`, `ReplyReceived` |
| `~SuspendContext`, `resume` | `EndContext`, then `Resumed` on the other thread |
| `stop` | `Stop`, `HandleExit`, `StopReturn` |
| `onFrameUpdate`, `onFrameDelayed`, `onFrameCalibrate` | `EmuFrameBegin`/`EmuFrameEnd`, `MainFrameBegin`/`MainFrameEnd` |
| `updateScreenFrameRate` | `UpdateScreenFrameRate` |
| `turboActions.update` reaching `suspend` | `EmuFrameRequest` |

The body of a frame is one step interval (`frame` to `loop`): emulation, drawing
and the wait for the present lie inside it and are not distinguished yet. Which
thread's loop delivers frame events after `setWindow` depends on the platform's
timer, so `HandleSetWindow` leaves it open. The main thread does not return to
its event loop while a context is live (contexts are scoped objects), so it runs
no frame then. `setWindow` asserts that nothing is suspended; the model takes
that as its guard.

`onFrame` is the multiset of frame delegates of each window. Start-up adds
`onFrameDelayed`, which replaces itself frame by frame and at last by
`onFrameUpdate`; a window change removes one delegate of each kind from the old
window and an exit from the present one. `OneFrameDelegate` says that this always
leaves exactly one, on `winPtr`, and none after a stop. The option for the frame
clock, which decides in which list of a window the delegates are, changes only in
the menu, while no thread runs.

### RingBuffer

Both indexes run modulo `IndexModulus`, the width of `size_t`; only addresses
are masked. A transfer is three steps: begin computes the span from both
indexes, the copy moves one element a step, end stores the index. Each index is
written by one side with release order and read by the other with acquire order,
so sequential consistency of the steps is what the code relies on. `Clear` and
`SetMinCapacity` are for when no transfer is under way: `ResizeSpec` says so, and
`EmuAudio` is shown to keep to it. The blocking flags have no caller.

### EmuAudio

`mainPc`, `emuPc` and `callbackPc` say where the three threads are. It takes the
ring's actions from its instance `Ring`, but `clear` and `setMinCapacity` without
their guards: that nobody holds a span then is a property, `UsesRingAsIntended`.
A step lies between two accesses to shared memory:

| code | actions |
|---|---|
| `EmuSystem::start`, `EmuAudio::start` | `Start`, `StartSilent` |
| `EmuApp::pauseEmulation`, `EmuAudio::stop` | `Pause`, `StreamClosed` |
| `open`, `close`, `setEnabled`, `setOutputAPI` | `Open`, `Close` |
| `setRate`, `setStereo` | `SetFormat` |
| `setRunSpeed`, `setSpeedMultiplier` | `SetRunSpeed` |
| `writeFrames` | `WriteFrames`, `Rebuffer`, `BeginWrite`, `CopyIn`, `EndWrite`, `CheckFill`, `Activate` |
| `onSamplesNeeded` | `SamplesNeeded`, `BeginRead`, `CopyOut`, `EndRead`, `Underrun` |

A sample frame is one element. A buffer freed by `reset()` is `mapped = FALSE`;
the next start allocates it. Whether an underrun came within a second of the last
is left open after the first one. Of the output streams the model has what
`EmuAudio` relies on: one callback at a time, `close()` waits for it, `open()` may
fail and nobody looks. All callers of `start()` and `flush()` have stopped the
stream before (`showUI` pauses before `closeRuntimeSystem` flushes), so their
branches for an open stream are not modelled.

### EmuDisplay

Three threads: `framePc` is the thread that runs the emulation's frames, `uiPc`
the main thread's own draws, `stage` the renderer's work on the head of `queue`.

| code | actions |
|---|---|
| `showEmulation`, `showUI`, `EmuSystemTask::start`, `stop` | `Start` (with `StartTask`), `BeginStop`, `FinishStop` |
| `EmuApp` extra window, `moveEmuViewToWindow` | `AddExtra`, `DismissExtra` |
| `advanceFrames`, `drawMainWindow`, `drawExtraWindow` | `BeginFrame`, `DrawFrame`, `FrameDrawn`, `EndFrame` |
| `Window::postDraw`, `dispatchOnDraw` for the menus | `PostDraw`, `UIDraw`, `UIDrawn` |
| `RendererTask::draw` on the renderer's thread, `notifyWindowPresented` | `RenderBegin`, `RenderDrawn`, `RenderPresented`, `RenderNotify` |

Named assumptions: each frame that is to be shown is drawn once; windows have
surfaces and no redraw is synchronous (`needsSync`); the extra window goes away
after its draws; a frame may start whenever the last one has ended, as screen and
renderer drive the frames. `setWindow` waits for the emulation thread's loop: its
guard is that no frame is under way. The check, the reset and the release in
`notifyWindowPresented` are one step: the emulation sets the flag again only after
it has acquired that release.

### RewindManager

The entries are a function from `0..n-1` to states; an entry of size 0 holds
`NoState`. `PausableTimer` is the flag `saveTimer`. `Abstract` maps the entries
before `stateIdx`, newest first, to `RewindHistory`. Allocation and the reading of
a state succeed.

### EmuSession

All handlers of one content, which is opened again and again, on the main thread.
A handler that saves has several steps: `pc` is its step and `after` what it goes
on to do, so the process can die (`Crash`) or a write fail between any two.

The values of `kind` are the ways the emulators keep backup memory:

| `kind` | systems | flush | a load that finds no readable file |
|---|---|---|---|
| `static` | GBA, GBC, Swan, NEO, Saturn | to the file opened at the first load, one for all slots | creates it or throws |
| `clears` | Snes9x, MD's CD drive | to the slot's path, computed anew | starts with cleared memory |
| `keeps` | MD's cartridges, NES, PCE, NGP | to the slot's path; memory not in use is not written, and MD removes its file | leaves in place what is there (NGP may also throw) |
| `none` | the others | nothing | nothing |

`memOf` is the slot whose memory is in use; `unread` records that the last load
found a file it could not read. So in a `keeps` system `memOf` may still be the
previous slot after a switch.

| code | actions |
|---|---|
| `createSystemWithMedia`, the loader thread, `onSystemCreated` | `BeginCreate`, `LoaderSetsPaths`, `LoaderFails`, `LoaderSucceeds`, `FailedMessage` |
| `launchSystem`, `finishLaunch`, benchmark | `Launch`, `LaunchNoSave`, `LaunchAsk`, `LaunchAlert`, `AnswerAlert`, `Benchmark` |
| `AutosaveManager::save`, `saveState` | `BeginSave` in its callers, `WriteState`, `WriteFails` |
| `AutosaveManager::load`, `loadState` | `LoadNothing`, `LoadState`, `LoadIsFatal`; memory: `LoadStaticMemory`, `ReadMemory`, `ReadNoMemory` |
| `showEmulation`, `EmuSystem::start`, `showUI` | `Start`, `ResizeStates`, `Show`, `Pause` |
| a running frame, `updateBackupMemoryCounter` | `Play`, `FlushCounter` |
| `closeSystem`, `closeRuntimeSystem` | `BeginClose`, `FinishClose` |
| the exit and resume handlers | `BackgroundExit`, `FinishExit`, `Resume` |
| `setSlot`, `renameSlot`, `deleteSlot`, the slot menu | `SelectSlot`, `SwitchFails`, `FinishSwitch`, `RenameSlot`, `DeleteSlot`, `ManualSave`, `FinishManual`, `ManualLoad`, `ToggleContent` |
| the timers, rewind and state keys | `TimerFires`, `FinishTimer`, `RewindSave`, `RewindKey`, `LoadStateSlot`, `LoadStateFails`, `UpdateMaxStates`; `LoadIsFatal` for MSX |
| `reloadSystem` | `Reload`, `FinishReload`, `ReloadBackupMemory` |

A state file is `empty` from its truncation to the end of the write, `partial`
after an error, `current` while it is the system's own state and `old` once the
content has run on. The truncation before the write loses the last state if the
write fails or the process dies: the code keeps no second file, and no property
says otherwise. A backup file holds its slot's `own` memory, an `other` slot's, or
memory that was `unloaded`, used without any load since the content was opened.

`SlotsKeepTheirMemory` says when a file turns to `other`: under "No Save" (Main's
file), and in `keeps` systems where the slot has no file yet or the last load could
not read it. Those three are what the code does, and are reported with hazards
EmuSystem.cc:533 and EmuApp.cc:833; the property is that nothing else mixes slots,
whatever fails or is interrupted in switches, renames, deletions, launches and
reloads. `unloaded` memory also reaches a slot's own file, when the launch alert is
dismissed or a load failed; `StaticSavesOwnMemory` excludes it for static systems,
finding 6 is about "No Save", and for the rest no document says what is right.

Named assumptions: the save directory stays the same; nothing is opened, closed or
put in the background while a loader thread runs; a reload finds the content's
file; the autosave interval is not "Off"; a flush of backup memory is atomic; after
a crash the option "Content" is whatever was last saved, so either value. A state
that is restored brings the memory of the slot it was saved under (a numbered state
or a rewind state may come from another one): the model takes it for progress of the
content and does not follow it.

## 3. Runs

| run | shows | bounds |
|---|---|---|
| `task_safety` | the protocol is safe in every interleaving, with closes inside contexts and suspends inside frames allowed, leaves no frame delegate behind, blocks only as the findings say (`WaitsAreServed`), and implements `SystemAccess` | two windows (a window change needs two), three nested contexts (an owner, an empty one, one more) |
| `task_live` | every request returns, and no deadlock, when neither of those calls is made | the same |
| `close_in_context` | finding: a close inside a context never completes | the same |
| `request_in_frame` | finding: the emulation thread can become its own requester | the same |
| `ring_queue` | the ring implements `BoundedQueue`; spans disjoint | capacities 1, 2, 4; indexes modulo 8, so they wrap many times over; transfers of up to 3 elements, so a full ring, a partial write and a span over the end occur; two values tell elements apart |
| `audio_threads` | the three threads use the ring as intended, no underrun is lost, a pause leaves silence, buffering stops at the target, playback always comes back | capacities 2 and 4, so one growth; transfers of 1 or 2 of one frame's samples, so short reads, overruns and wrap occur; one or two sound buffers; one sample value (the order of values is `ring_queue`'s question) |
| `audio_growth` | finding: growing a used ring loses content | the same with two sample values |
| `audio_target` | finding: playback starts short of the target | the same, one value |
| `audio_setting` | finding: the auto-increase setting has no effect until the speed changes | the same |
| `display` | a waiting frame is released once and cannot wait for nothing; each draw's reply reaches the one thread that waits for it; draw phases end; no window is drawn by two threads; frames end and stopping returns | two windows; five queued draws: without an extra window four are the most before the renderer (`MainDrawsKeepPace`, proved for every length of the pipe), and the fifth lets draws of the extra window pile up beyond them; one frame at a time, as in the code |
| `session` | slots mix backup memory in the three cases of section 2 only, a switch or the way to the background keeps it, timers run only with content, the rewind ring stays the history, through failing saves and loads, reloads and crashes at every step | two names for an extra slot and one at a time, so it can be renamed, deleted and made again; rings of 0 and 2 entries, so one wraps and the option changes; two state values, so a rewind that returns the wrong one shows; any number of sessions; symmetric in slot names and in states, which no definition tells apart. Extra slots and a rewind ring exist together only where there is no backup memory (`SlotsOrRing`): the ring and the memory files share nothing but the handlers' control, and the proofs of section 5 need no such restriction |
| `no_save` | finding: "No Save" overwrites the save of the main slot | the same |

`task_safety` and `close_in_context` do not check deadlock, because the code can
stop there: that is what the two findings show.

Fairness (`task_live`): a blocked thread whose semaphore is released goes on, the
thread's preamble and frames end (weak fairness), and an event loop that has a
readable pipe as well as ready frame events does not ignore the pipe for ever
(strong fairness of `Handle`: epoll, ALooper and GLib dispatch ready sources in
turn). Nothing makes the main thread issue requests or end its contexts.

Fairness (`audio_threads`): while the emulation runs its frames keep writing (a
frame timer drives them, and a `SuspendContext` between frames ends), a callback
that has begun ends, and closing the stream returns. Nothing makes the device ask
for samples, so `PlaybackStarts` also covers a stream that failed to open.

Fairness (`display`): the renderer, a frame that has begun and a main thread whose
draw was answered go on (weak fairness). The emulation thread's event loop, which
always has frame events too, does not ignore its command pipe for ever (strong
fairness of `FinishStop`, as for `Handle`). Nothing makes frames start, draws be
needed or the user do anything. `session` claims no liveness: what happens next is
the user's choice.

## 4. Findings

1. Closing inside a context. `EmuApp::loadState` and the hard reset hold a
   `SuspendContext` while MSX code calls `closeSystemWithoutSave()`, hence
   `stop()`, which joins a thread only that context can wake.
2. Requests from a frame. A turbo key's handler may post a message, which
   suspends the emulation thread, from the emulation thread.
3. `RingBuffer::setMinCapacity` copies from the start of the buffer and keeps the
   indexes, so "maintain buffer content" holds only for a ring never read from.
   `writeFrames` grows a used, non-empty ring when a write falls between the
   callback's short read and its recording of the second underrun.
4. Playback starts before the target is reached: `writeFrames` adds the bytes it
   has just written to a size that already contains them.
5. The flag `addSoundBuffersOnUnderrun` is not updated when the setting is loaded
   or changed in the menu, only when the speed changes.
6. "No Save". Content launched in that mode does not load its backup memory, and
   `save` does not flush it, but three other callers of `flushBackupMemory` do, and
   `contentSaveFilePath` takes the slot's name for the main slot: systems that
   compute the path at each flush overwrite the main slot's backup memory with
   memory that was never loaded or, after a switch to "No Save", with another slot's.
   MD even removes the file when that memory is not in use.

## 5. Proofs

`EmuSystemTaskProofs` proves, for any set of windows, any nesting bound and all
four settings of the two switches, from `ConstantsAssumption` alone:
type correctness, the seven safety invariants of `task_safety`, the action property
`OnlyOutermostResumes` and the refinement of `SystemAccess`.

The properties are not inductive one by one. `IInv` joins them with: at most one
context owns (`AtMostOneOwner`); what a thread that starts or ends looks like
(`StartInv`, `LifeInv`); that an owner, `isSuspended` and a parked thread
without a pending wake-up go together (`SuspendInv`); that the pipe holds at
most one message of the main thread, exactly while it waits without a reply, and
one of the emulation thread's own (`PortInv`); and which window the delegates are
on (`DelegateInv`). Each action has a lemma that it preserves `IInv`. TLC checked
`IInv` before it was proved.

`WaitsAreServed` is the safety half of `RequestsReturn`, and says more: with both
switches on, a main thread that waits has an answer, or its command is in the pipe of
a thread that comes back to its loop, except in the two situations of findings 1 and
2; so those are the only ways in which these two threads block each other, if frames
end. It needs `ServeInv` beside `IInv`: a parked thread is suspended or about to be
woken, and a command stays in the pipe until it is answered.

`RingBufferProofs` proves, for every set of capacities that divide half the index
range and every transfer size (`RingAssumption`): types, `SpansDisjoint` and the
refinement of `BoundedQueue`; the first two also when the ring is resized between
transfers (`ResizeSpec`). Its invariant `RingInv` says that the distance of the
indexes modulo `IndexModulus` (`Used`) plus the span being written fits the
capacity and covers the span being read, and that copied cells and elements agree
with the spans. The work is modular arithmetic: `size()` masks to twice the
capacity, addresses to the capacity, indexes wrap at `IndexModulus`; from division
with remainder it follows that `size()` is `Used` and that cells less than the
capacity apart differ.

`EmuAudioProofs` proves the four safety properties of `audio_threads` and type
correctness from `AudioAssumption` (the ring's assumption, and a capacity for
every fill target). `AudioInv` is needed because nothing local protects the ring:
the writer may replace the buffer only because MULTI_UNDERRUN implies that no
callback is under way, which needs that a callback runs only while the state is
ACTIVE or the main thread is stopping. The proof is compositional: it shows
`Spec => Ring!ResizeSpec`, and `AudioSpansDisjoint` follows from the ring's own
theorem without looking at an index. `BufferingIsShortOfTarget`, the safety half of
`PlaybackStarts`, joins the ring's types with `AudioInv`: the writer tests the target
last, and until it is reached no callback takes samples away.

`EmuDisplayProofs` proves five safety properties of `display` and type correctness for
any bound on the queue, from `DisplayAssumption`. `PresentWaitExact`
and `DrawPhaseEnds` are kept by every step only together with the rest of
`DisplayInv`: `ModeInv` says which states of the threads exclude each other,
`WindowInv` which thread draws which window, and `AnswerInv` is `WaitIsAnswered` from
the moment the draw is posted. `AnswerInv` and `DrawPhaseEnds` speak of some draw in
the queue; lemmas about heads, tails and appended elements of sequences carry them
over a step of the queue.

`EmuDisplayPaceProofs` proves the other two. That a draw's reply reaches the thread
that waits for it (`DrawRepliesReachTheirWaiter`) counts: a waiting thread has exactly
one unanswered draw or one release. The count is not inductive; `ReplyInv` adds when which
thread can wait (`BlockInv`) and that behind a draw somebody waits for there are only
draws of the extra window (`PendingIsLast`), so rendering the head never answers out
of turn. `MainDrawsKeepPace` is about a queue without an extra window, but is decided
before that window is dismissed: `PaceInv` bounds the draws behind the last one of the
extra window (`Pile`) by what the threads may still post (`Limit`), which depends on
the phase of the frame, and says that at most one is left while a reply is on its way.
The frame that has chosen to wait for its present while there are two windows is
exempt until it has drawn. An earlier bound of three held only because the pipe of
the model held four: the attempt to prove it showed that a fourth draw is possible.

`RewindManagerProofs` proves, for every set of values of the option "States"
(`RewindAssumption`), that the ring implements `RewindHistory`, and stays in range.
The k-th newest entry and their number are written as functions of entries, index
and capacity, so the same lemmas serve the state before a step and after it:
saving makes the k-th newest the k+1-st and drops the oldest of a full ring,
rewinding makes the k+1-st the k-th. `RingInv` adds to the types that an armed
timer has an entry to save to, and that the states are the `n` newest entries
without a gap; without the latter `Count` would not say how many there are.

`EmuSessionProofs` proves all nine properties of `session`, for any slots, states
and ring sizes, with crashes and failures at every step (`SessionAssumption`). None
of them is inductive: the value of a save on the way to the background depends on
which handlers can still run (`SaveInv`), that on what a loader thread excludes
(`LoaderInv`) and on which handler is under way (`ControlInv`), the timers on both
(`TimerInv`), and the right backup file on the slot and the memory in use
(`MemInv`: outside a switch, memory is the slot's or nobody's, unless it was kept by
a load that read nothing). `SessionSlotsKeepTheirMemory` follows from a lemma for
each way a file is written, and holds with its three exceptions for every slot. For the ring the proof is compositional again: each step of the session
is a step of `RewindManager` or leaves it alone, so `RewindImplements` and
`RewindStaysInRange` hold here.

Model-checked only: `RequestsReturn`, `PlaybackStarts`, `FrameEnds` and
`StopReturns` (liveness: this prover has no rule for ENABLED and fairness), and the
findings. Their safety halves are proved: `WaitsAreServed` for the first,
`BufferingIsShortOfTarget` for the second, `WaitIsAnswered` and
`DrawRepliesReachTheirWaiter` for the other two.

## 6. Not modelled

The emulator cores, which are most of the repository's lines and mostly vendored:
each is one sequential program behind the framework's calls. File formats, layout,
menus, configuration, archives, Bluetooth and input devices: sequential code or
platform interfaces whose state no other thread shares. `EmuTiming` and
`OutputTimingManager` compute with floating-point time on one thread.
`PixmapBufferTexture` depends on the driver's fences. Of the modelled components,
what is left out is said above as a named assumption and in `PROJECT.json` as the
component's note (`flushMainThreadMessages`, which `stop` calls after the join, among them); the hazards without a property say there why.

## 7. Plan

1. The access of `Window::drawPhase` and `drawNeeded` by two threads in finer steps
   than `EmuDisplay` takes: no posted draw is lost.
2. Frame-rate selection of `OutputTimingManager` against a reference over bounded
   rational rates.
3. `EmuDisplay` and `EmuSystemTask` composed: the frame of the one is the step
   between `frame` and `loop` of the other.

Theorems worth proving next: that the abstract specifications keep what a reader
takes from them (`SystemAccess` exclusion, `BoundedQueue` order and bound), so that
their implementations inherit it, and the invariants of what the items above add.
