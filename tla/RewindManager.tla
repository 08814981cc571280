---------------------------- MODULE RewindManager ----------------------------
(***************************************************************************)
(* RewindManager (EmuFramework, RewindManager.cc/.hh): a ring of state     *)
(* entries.  A timer saves the running content's state into the next entry; *)
(* the rewind key takes the entry before it out again.  An entry of size 0 *)
(* holds nothing, which is how the end of the history is recognised.       *)
(*                                                                         *)
(* The PausableTimer is the flag saveTimer: start() on an armed timer and  *)
(* pause() or cancel() on an idle one have no effect; the remaining time   *)
(* is left out.  Allocating the entries succeeds.                          *)
(***************************************************************************)
EXTENDS RewindConstants, Sequences

VARIABLES
    stateEntries,
    stateIdx,
    stateSize,    \* stateSize # 0: the content's state size is known
    maxStates,
    saveTimer,    \* armed
    restored      \* the state last passed to EmuApp::readState

rewindVars == <<stateEntries, stateIdx, stateSize, maxStates, saveTimer, restored>>

FreshEntries(n) == [i \in {k \in 0..n : k < n} |-> NoState]

TypeOK ==
    /\ maxStates \in StateCounts
    /\ stateSize \in BOOLEAN
    /\ stateEntries \in [DOMAIN stateEntries -> States \union {NoState}]
    /\ stateIdx \in Nat
    /\ saveTimer \in BOOLEAN
    /\ restored \in States \union {NoState}

Init ==
    /\ stateEntries = FreshEntries(0)
    /\ stateIdx = 0
    /\ stateSize = FALSE
    /\ maxStates \in StateCounts
    /\ saveTimer = FALSE
    /\ restored = NoState

PrevIdx == IF stateIdx = 0 THEN maxStates - 1 ELSE stateIdx - 1

NextIdx == IF stateIdx + 1 = maxStates THEN 0 ELSE stateIdx + 1

-----------------------------------------------------------------------------
(* Bugs the code could have. *)

\* A rewind leaves the entry's size as it is.
RewindState_KeepsEntry ==
    /\ stateSize /\ maxStates # 0
    /\ stateEntries[PrevIdx] # NoState
    /\ restored' = stateEntries[PrevIdx]
    /\ stateIdx' = PrevIdx
    /\ saveTimer' = TRUE
    /\ UNCHANGED <<stateEntries, stateSize, maxStates>>

\* The option's new value is stored, and the entries stay.
UpdateMaxStates_OptionOnly(n) ==
    /\ ~saveTimer
    /\ maxStates' = n
    /\ UNCHANGED <<stateEntries, stateIdx, stateSize, saveTimer, restored>>

-----------------------------------------------------------------------------
Clear ==
    /\ saveTimer' = FALSE
    /\ stateEntries' = FreshEntries(0)
    /\ stateIdx' = 0
    /\ stateSize' = FALSE
    /\ UNCHANGED <<maxStates, restored>>

\* reset(size): new content, or a running one whose state size has changed.
Reset ==
    /\ stateSize' = TRUE
    /\ stateEntries' = FreshEntries(maxStates)
    /\ stateIdx' = 0
    /\ UNCHANGED <<maxStates, saveTimer, restored>>

\* updateMaxStates: from a menu, so the emulation is paused.
UpdateMaxStates(n) ==
    /\ ~saveTimer
    /\ maxStates' = n
    /\ IF stateSize
         THEN stateEntries' = FreshEntries(n) /\ stateIdx' = 0
         ELSE UNCHANGED <<stateEntries, stateIdx>>
    /\ UNCHANGED <<stateSize, saveTimer, restored>>

StartTimer ==
    /\ saveTimer' = (saveTimer \/ DOMAIN stateEntries # {})
    /\ UNCHANGED <<stateEntries, stateIdx, stateSize, maxStates, restored>>

PauseTimer ==
    /\ saveTimer' = FALSE
    /\ UNCHANGED <<stateEntries, stateIdx, stateSize, maxStates, restored>>

\* The timer fires: s is the content's state.
SaveState(s) ==
    /\ saveTimer
    /\ stateEntries' = [stateEntries EXCEPT ![stateIdx] = s]
    /\ stateIdx' = NextIdx
    /\ UNCHANGED <<stateSize, maxStates, saveTimer, restored>>

\* The rewind key, while content runs.  The timer is reset, so it is armed.
RewindState ==
    /\ stateSize /\ maxStates # 0
    /\ stateEntries[PrevIdx] # NoState
    /\ restored' = stateEntries[PrevIdx]
    /\ stateEntries' = [stateEntries EXCEPT ![PrevIdx] = NoState]
    /\ stateIdx' = PrevIdx
    /\ saveTimer' = TRUE
    /\ UNCHANGED <<stateSize, maxStates>>

Next ==
    \/ Clear \/ Reset \/ StartTimer \/ PauseTimer \/ RewindState
    \/ \E n \in StateCounts : UpdateMaxStates(n)
    \/ \E s \in States : SaveState(s)

Spec == Init /\ [][Next]_rewindVars

-----------------------------------------------------------------------------
Capacity == IF stateSize THEN maxStates ELSE 0

\* An armed timer finds an entry to save to: saveState() asserts it and reads
\* stateEntries without a check (RewindManager.cc:69-72).
SavesInRange ==
    /\ saveTimer => maxStates # 0 /\ stateIdx < maxStates
    /\ saveTimer => stateIdx \in DOMAIN stateEntries

\* The entries follow the option and the content: a rewind, which looks at
\* maxStates only, never reads past them (RewindManager.cc:80-84).
EntriesMatchOption ==
    /\ DOMAIN stateEntries = {i \in 0..Capacity : i < Capacity}
    /\ stateSize /\ maxStates # 0 => PrevIdx \in DOMAIN stateEntries

\* The index of the k-th newest entry, k from 1.
At(k) == IF k <= stateIdx THEN stateIdx - k ELSE (stateIdx + Capacity) - k

\* The n newest entries hold states and no other entry does.
Holds(n) == \A k \in 1..Capacity : stateEntries[At(k)] # NoState <=> k <= n

\* A rewind stops at the first entry that holds nothing: nothing that could
\* be rewound to lies behind it (RewindManager.cc:86).
NoGaps == \E n \in 0..Capacity : Holds(n)

Count == IF NoGaps THEN CHOOSE n \in 0..Capacity : Holds(n) ELSE 0

\* The ring is the history of the content.
Abstract == INSTANCE RewindHistory
    WITH history <- [k \in 1..Count |-> stateEntries[At(k)]],
         capacity <- Capacity

ImplementsHistory == Abstract!Spec
=============================================================================
