----------------------------- MODULE RingBuffer -----------------------------
(***************************************************************************)
(* RingBuffer.hh: the lock-free ring between one writing and one reading   *)
(* thread (EmuAudio: the emulation thread and the audio callback).  The    *)
(* indexes are never wrapped to the buffer: they run modulo the width of   *)
(* size_t, so that a full buffer differs from an empty one, and only the   *)
(* address is masked.  Elements are copied one at a time between begin and *)
(* end, so a span that overlapped the other side's would be seen.          *)
(***************************************************************************)
EXTENDS Integers, Sequences

CONSTANTS
    Values,        \* element values
    Zero,          \* what freshly mapped memory holds
    Capacities,    \* the capacities a run uses, each a power of two
    IndexModulus,  \* 2^w, w the bits of size_t
    MaxTransfer    \* bound: elements one read or write asks for

ASSUME RingAssumption ==
    /\ Zero \in Values
    /\ Capacities \subseteq Nat \ {0}
    /\ IndexModulus \in Nat \ {0}
    /\ \A c \in Capacities : IndexModulus % (2 * c) = 0
    /\ MaxTransfer \in Nat

VARIABLES
    capacity,
    buff,
    writeIdx,
    readIdx,
    writing,  \* the writer is between beginWrite and endWrite
    span,     \* the elements it is copying into its span
    copiedIn, \* how many it has copied
    reading,  \* the reader is between beginRead and endRead
    wanted,   \* the size of its span
    copyOut,  \* the elements it has copied
    taken     \* what the last complete read returned

ringVars == <<capacity, buff, writeIdx, readIdx, writing, span, copiedIn,
              reading, wanted, copyOut, taken>>

Cells == 0..(capacity - 1)

min(a, b) == IF a < b THEN a ELSE b

\* The mask drops the bit that tells a full buffer from an empty one.
wrapSize_Short(s) == s % capacity

wrapIdx(i) == i % capacity

wrapSize(s) == s % (2 * capacity)

size == wrapSize(writeIdx - readIdx)

freeSpace == capacity - size

TypeOK ==
    /\ capacity \in Capacities
    /\ buff \in [Cells -> Values]
    /\ writeIdx \in 0..(IndexModulus - 1)
    /\ readIdx \in 0..(IndexModulus - 1)
    /\ writing \in BOOLEAN
    /\ span \in Seq(Values)
    /\ copiedIn \in 0..Len(span)
    /\ reading \in BOOLEAN
    /\ wanted \in Nat
    /\ copyOut \in Seq(Values)
    /\ taken \in Seq(Values)

Init ==
    /\ capacity \in Capacities
    /\ buff = [i \in Cells |-> Zero]
    /\ writeIdx = 0 /\ readIdx = 0
    /\ writing = FALSE /\ span = << >> /\ copiedIn = 0
    /\ reading = FALSE /\ wanted = 0 /\ copyOut = << >>
    /\ taken = << >>

-----------------------------------------------------------------------------
(* Bugs the code could have, each caught by a property of a run. *)

\* The index is stored before the elements are.
EndWrite_Early ==
    /\ writing
    /\ writeIdx' = (writeIdx + Len(span)) % IndexModulus
    /\ writing' = FALSE
    /\ span' = << >> /\ copiedIn' = 0
    /\ UNCHANGED <<capacity, buff, readIdx, reading, wanted, copyOut, taken>>

\* The index is kept in a type that does not wrap with size_t.
EndWrite_Unwrapped ==
    /\ writing
    /\ copiedIn = Len(span)
    /\ writeIdx' = writeIdx + Len(span)
    /\ writing' = FALSE
    /\ span' = << >> /\ copiedIn' = 0
    /\ UNCHANGED <<capacity, buff, readIdx, reading, wanted, copyOut, taken>>

-----------------------------------------------------------------------------
(* The writer. *)

\* beginWrite(n): the span is what fits of the n elements.
BeginWrite(data) ==
    /\ ~writing
    /\ writing' = TRUE
    /\ span' = SubSeq(data, 1, min(Len(data), freeSpace))
    /\ copiedIn' = 0
    /\ UNCHANGED <<capacity, buff, writeIdx, readIdx, reading, wanted, copyOut, taken>>

CopyIn ==
    /\ writing
    /\ copiedIn < Len(span)
    /\ buff' = [buff EXCEPT ![wrapIdx(writeIdx + copiedIn)] = span[copiedIn + 1]]
    /\ copiedIn' = copiedIn + 1
    /\ UNCHANGED <<capacity, writeIdx, readIdx, writing, span, reading, wanted, copyOut, taken>>

EndWrite ==
    /\ writing
    /\ copiedIn = Len(span)
    /\ writeIdx' = (writeIdx + Len(span)) % IndexModulus
    /\ writing' = FALSE
    /\ span' = << >> /\ copiedIn' = 0
    /\ UNCHANGED <<capacity, buff, readIdx, reading, wanted, copyOut, taken>>

-----------------------------------------------------------------------------
(* The reader. *)

\* beginRead(n): the span is what has been written of the n elements.
BeginRead(n) ==
    /\ ~reading
    /\ reading' = TRUE
    /\ wanted' = min(n, size)
    /\ copyOut' = << >>
    /\ UNCHANGED <<capacity, buff, writeIdx, readIdx, writing, span, copiedIn, taken>>

CopyOut ==
    /\ reading
    /\ Len(copyOut) < wanted
    /\ copyOut' = Append(copyOut, buff[wrapIdx(readIdx + Len(copyOut))])
    /\ UNCHANGED <<capacity, buff, writeIdx, readIdx, writing, span, copiedIn,
                   reading, wanted, taken>>

EndRead ==
    /\ reading
    /\ Len(copyOut) = wanted
    /\ readIdx' = (readIdx + wanted) % IndexModulus
    /\ taken' = copyOut
    /\ reading' = FALSE
    /\ wanted' = 0 /\ copyOut' = << >>
    /\ UNCHANGED <<capacity, buff, writeIdx, writing, span, copiedIn>>

-----------------------------------------------------------------------------
(* Operations for when neither side is transferring; EmuAudio shows that its
   calls keep to that.  The first two are what the calls do. *)

clear == writeIdx' = 0 /\ readIdx' = 0

\* n rounded up to a power of two: keeps the indexes and copies from the
\* buffer's start when the elements fit, else clears.
setMinCapacity(n) ==
    /\ capacity' = n
    /\ \/ /\ n = capacity
          /\ UNCHANGED <<buff, writeIdx, readIdx>>
       \/ /\ n # capacity /\ size > 0 /\ n > size
          /\ buff' = [i \in 0..(n - 1) |-> IF i < size THEN buff[i] ELSE Zero]
          /\ UNCHANGED <<writeIdx, readIdx>>
       \/ /\ n # capacity /\ ~(size > 0 /\ n > size)
          /\ buff' = [i \in 0..(n - 1) |-> Zero]
          /\ clear

\* clear()
Clear ==
    /\ ~writing /\ ~reading
    /\ clear
    /\ UNCHANGED <<capacity, buff, writing, span, copiedIn, reading, wanted, copyOut, taken>>

\* setMinCapacity()
SetMinCapacity(n) ==
    /\ ~writing /\ ~reading
    /\ setMinCapacity(n)
    /\ UNCHANGED <<writing, span, copiedIn, reading, wanted, copyOut, taken>>

-----------------------------------------------------------------------------
Transfers == UNION {[1..n -> Values] : n \in 0..MaxTransfer}

Next ==
    \/ \E data \in Transfers : BeginWrite(data)
    \/ CopyIn \/ EndWrite
    \/ \E n \in 0..MaxTransfer : BeginRead(n)
    \/ CopyOut \/ EndRead
    \/ Clear

Spec == Init /\ [][Next]_ringVars

\* The ring as EmuAudio uses it: it may be resized between transfers.
ResizeNext == Next \/ \E n \in Capacities : SetMinCapacity(n)

ResizeSpec == Init /\ [][ResizeNext]_ringVars

-----------------------------------------------------------------------------
\* The elements in the ring, oldest first.
content == [i \in 1..size |-> buff[wrapIdx(readIdx + i - 1)]]

ReadCells == {wrapIdx(readIdx + i) : i \in 0..(wanted - 1)}

WriteCells == {wrapIdx(writeIdx + i) : i \in 0..(Len(span) - 1)}

\* The span the callback is reading and the span the emulation thread is
\* writing share no element, also when one or both run past the end of the
\* buffer, and both fit: the data copied is never torn.
SpansDisjoint ==
    /\ writing /\ reading => ReadCells \intersect WriteCells = {}
    /\ size + Len(span) <= capacity
    /\ wanted <= size

\* The ring is a queue of what the writer copied into its spans: nothing is
\* lost, repeated, reordered or altered, whichever side is ahead.
Queue == INSTANCE BoundedQueue WITH bound <- capacity, queue <- content, offered <- span

ImplementsQueue == Queue!Spec
=============================================================================
