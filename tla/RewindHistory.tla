---------------------------- MODULE RewindHistory ----------------------------
(***************************************************************************)
(* What the rewind feature promises: the last few states of the running    *)
(* content, newest first.  Saving beyond the capacity forgets the oldest;  *)
(* each rewind hands out the newest that is left, once.  This is the       *)
(* abstract specification; RewindManager implements it with a ring.        *)
(***************************************************************************)
EXTENDS Naturals, Sequences

CONSTANTS
    States,   \* serialised states of the emulated system
    NoState   \* nothing was handed out yet

VARIABLES
    history,    \* the states that can be rewound to, newest first
    capacity,   \* how many are kept
    restored    \* the last state handed out

vars == <<history, capacity, restored>>

Newest(n, h) == SubSeq(h, 1, IF Len(h) < n THEN Len(h) ELSE n)

Init == history = << >> /\ capacity = 0 /\ restored = NoState

Save(s) ==
    /\ capacity > 0
    /\ history' = << s >> \o Newest(capacity - 1, history)
    /\ UNCHANGED <<capacity, restored>>

Rewind ==
    /\ history # << >>
    /\ restored' = Head(history)
    /\ history' = Tail(history)
    /\ UNCHANGED capacity

\* New content, a new capacity, or no content any more.
Restart ==
    /\ history' = << >>
    /\ capacity' \in Nat
    /\ UNCHANGED restored

Next == Rewind \/ Restart \/ \E s \in States : Save(s)

Spec == Init /\ [][Next]_vars

=============================================================================
