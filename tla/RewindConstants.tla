--------------------------- MODULE RewindConstants ---------------------------
(***************************************************************************)
(* The parameters of the rewind ring, shared by RewindManager and the      *)
(* sessions around it.                                                     *)
(***************************************************************************)
EXTENDS Naturals

CONSTANTS
    States,       \* serialised states of the emulated system
    NoState,      \* what an entry of size 0 holds
    StateCounts   \* values the option "States" may take

ASSUME RewindAssumption ==
    /\ NoState \notin States
    /\ StateCounts \subseteq Nat

=============================================================================
