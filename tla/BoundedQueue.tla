---------------------------- MODULE BoundedQueue ----------------------------
(***************************************************************************)
(* What a RingBuffer promises to its one writer and its one reader: a      *)
(* queue of at most bound elements.  The writer offers a run of elements   *)
(* and then puts exactly that run; the reader takes a run from the front.  *)
(* Nothing is lost, repeated, reordered or altered.                        *)
(***************************************************************************)
EXTENDS Integers, Sequences

CONSTANT Values

VARIABLES
    bound,    \* the capacity
    queue,    \* the elements written and not yet read, oldest first
    offered,  \* the elements the writer is about to put
    taken     \* what the last read returned

queueVars == <<bound, queue, offered, taken>>

Init == bound \in Nat \ {0} /\ queue = << >> /\ offered = << >> /\ taken = << >>

Offer ==
    /\ offered = << >>
    /\ offered' \in Seq(Values)
    /\ UNCHANGED <<bound, queue, taken>>

Put ==
    /\ Len(queue) + Len(offered) <= bound
    /\ queue' = queue \o offered
    /\ offered' = << >>
    /\ UNCHANGED <<bound, taken>>

Get ==
    /\ \E n \in 0..Len(queue) :
          /\ taken' = SubSeq(queue, 1, n)
          /\ queue' = SubSeq(queue, n + 1, Len(queue))
    /\ UNCHANGED <<bound, offered>>

Clear ==
    /\ offered = << >>
    /\ queue' = << >>
    /\ UNCHANGED <<bound, offered, taken>>

Next == Offer \/ Put \/ Get \/ Clear

Spec == Init /\ [][Next]_queueVars
=============================================================================
