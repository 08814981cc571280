----------------------------- MODULE MCEmuSession -----------------------------
(* EmuSession for TLC: the names of extra slots, and the states, are alike. *)
EXTENDS EmuSession, TLC

Symmetry == Permutations(ExtraSlots) \union Permutations(States)

\* The files of extra slots and the rewind ring multiply each other's states
\* and share nothing but the handlers' control: they are looked at together
\* only where there is no backup memory.
SlotsOrRing == dirs = {} \/ maxStates = 0 \/ kind = "none"

===============================================================================
