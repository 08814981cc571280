------------------------ MODULE RewindManagerProofs ------------------------
(***************************************************************************)
(* The ring of states is the history of the content, for every number of   *)
(* states the option may take.                                             *)
(*                                                                         *)
(* The k-th newest entry and their number are functions of the entries e,   *)
(* the index i and the capacity c; the lemmas are about these functions,   *)
(* so that they can be used before and after a step.                       *)
(***************************************************************************)
EXTENDS RewindManager, SequenceTheorems, TLAPS

EntryAt(k, i, c) == IF k <= i THEN i - k ELSE (i + c) - k

HoldsNewest(n, e, i, c) == \A k \in 1..c : e[EntryAt(k, i, c)] # NoState <=> k <= n

NumHeld(e, i, c) ==
    IF \E n \in 0..c : HoldsNewest(n, e, i, c)
      THEN CHOOSE n \in 0..c : HoldsNewest(n, e, i, c)
      ELSE 0

LEMMA SameNames ==
    /\ \A k : At(k) = EntryAt(k, stateIdx, Capacity)
    /\ \A n : Holds(n) <=> HoldsNewest(n, stateEntries, stateIdx, Capacity)
    /\ NoGaps <=> \E n \in 0..Capacity : HoldsNewest(n, stateEntries, stateIdx, Capacity)
    /\ Count = NumHeld(stateEntries, stateIdx, Capacity)
BY DEF At, EntryAt, Holds, HoldsNewest, NoGaps, Count, NumHeld

Cells(c) == {i \in 0..c : i < c}

History(e, i, c) == [k \in 1..NumHeld(e, i, c) |-> e[EntryAt(k, i, c)]]

\* The entries follow the option, the index is one of them, and an armed timer
\* has an entry to save to.
IndexInv ==
    /\ stateEntries \in [Cells(Capacity) -> States \union {NoState}]
    /\ IF Capacity = 0 THEN stateIdx = 0 ELSE stateIdx < Capacity
    /\ saveTimer => Capacity # 0

RingInv == TypeOK /\ IndexInv /\ NoGaps

-----------------------------------------------------------------------------
(* Entries by age. *)

LEMMA EntryInRange ==
    ASSUME NEW c \in Nat, NEW i \in Nat, i < c, NEW k \in 1..c
    PROVE  EntryAt(k, i, c) \in Cells(c)
BY DEF EntryAt, Cells

LEMMA OldestIsNext ==
    ASSUME NEW c \in Nat, NEW i \in Nat, i < c
    PROVE  EntryAt(c, i, c) = i
BY DEF EntryAt

LEMMA EntriesDiffer ==
    ASSUME NEW c \in Nat, NEW i \in Nat, i < c, NEW k \in 1..c, NEW l \in 1..c, k # l
    PROVE  EntryAt(k, i, c) # EntryAt(l, i, c)
BY DEF EntryAt

LEMMA CountUnique ==
    ASSUME NEW c \in Nat, NEW e, NEW i, NEW n \in 0..c, HoldsNewest(n, e, i, c)
    PROVE  NumHeld(e, i, c) = n
<1> DEFINE m == CHOOSE x \in 0..c : HoldsNewest(x, e, i, c)
<1>1. NumHeld(e, i, c) = m
  BY DEF NumHeld
<1>2. m \in 0..c /\ HoldsNewest(m, e, i, c)
  OBVIOUS
<1> HIDE DEF m
<1>3. \A k \in 1..c : k <= m <=> k <= n
  BY <1>2 DEF HoldsNewest
<1>4. m <= n
  BY <1>2, <1>3
<1>5. n <= m
  BY <1>2, <1>3
<1> QED BY <1>1, <1>2, <1>4, <1>5

LEMMA FreshHoldsNothing ==
    ASSUME NEW c \in Nat
    PROVE  /\ FreshEntries(c) \in [Cells(c) -> States \union {NoState}]
           /\ HoldsNewest(0, FreshEntries(c), 0, c)
           /\ NumHeld(FreshEntries(c), 0, c) = 0
<1>1. FreshEntries(c) \in [Cells(c) -> States \union {NoState}]
  BY DEF FreshEntries, Cells
<1>2. ASSUME NEW k \in 1..c PROVE FreshEntries(c)[EntryAt(k, 0, c)] = NoState
  <2>1. 0 < c
    OBVIOUS
  <2>2. EntryAt(k, 0, c) \in Cells(c)
    BY <2>1, EntryInRange
  <2> QED BY <2>2 DEF FreshEntries, Cells
<1>3. HoldsNewest(0, FreshEntries(c), 0, c)
  BY <1>2 DEF HoldsNewest
<1> QED BY <1>1, <1>3, CountUnique

-----------------------------------------------------------------------------
(* Saving and rewinding. *)

IncIdx(i, c) == IF i + 1 = c THEN 0 ELSE i + 1

DecIdx(i, c) == IF i = 0 THEN c - 1 ELSE i - 1

\* After a save every entry is one older.
LEMMA SaveAges ==
    ASSUME NEW c \in Nat, NEW i \in Nat, i < c
    PROVE  /\ IncIdx(i, c) \in Nat /\ IncIdx(i, c) < c
           /\ EntryAt(1, IncIdx(i, c), c) = i
           /\ \A k \in 1..c : k < c => EntryAt(k + 1, IncIdx(i, c), c) = EntryAt(k, i, c)
BY DEF IncIdx, EntryAt

\* After a rewind every entry is one younger.
LEMMA RewindAges ==
    ASSUME NEW c \in Nat, NEW i \in Nat, i < c
    PROVE  /\ DecIdx(i, c) \in Nat /\ DecIdx(i, c) < c
           /\ EntryAt(1, i, c) = DecIdx(i, c)
           /\ EntryAt(c, DecIdx(i, c), c) = DecIdx(i, c)
           /\ \A k \in 1..c : k < c => EntryAt(k, DecIdx(i, c), c) = EntryAt(k + 1, i, c)
BY DEF DecIdx, EntryAt

LEMMA SaveHolds ==
    ASSUME NEW c \in Nat, NEW i \in Nat, i < c,
           NEW e \in [Cells(c) -> States \union {NoState}], NEW s \in States,
           NEW n \in 0..c, HoldsNewest(n, e, i, c)
    PROVE  HoldsNewest(IF n < c THEN n + 1 ELSE c, [e EXCEPT ![i] = s], IncIdx(i, c), c)
<1> DEFINE f == [e EXCEPT ![i] = s]
           j == IncIdx(i, c)
           m == IF n < c THEN n + 1 ELSE c
<1>1. j \in Nat /\ j < c /\ EntryAt(1, j, c) = i
      /\ \A k \in 1..c : k < c => EntryAt(k + 1, j, c) = EntryAt(k, i, c)
  BY SaveAges
<1>2. f[i] = s /\ s # NoState /\ \A x \in Cells(c) : x # i => f[x] = e[x]
  BY RewindAssumption DEF Cells
<1>3. m \in 0..c /\ 1 <= m
  OBVIOUS
<1>4. \A k \in 1..c : k < c => (k + 1 <= m <=> k <= n)
  OBVIOUS
<1> HIDE DEF f, j, m
<1>5. ASSUME NEW k \in 1..c PROVE f[EntryAt(k, j, c)] # NoState <=> k <= m
  <2>1. CASE k = 1
    BY <1>1, <1>2, <1>3, <2>1
  <2>2. CASE k # 1
    <3> DEFINE l == k - 1
    <3>1. l \in 1..c /\ l < c /\ k = l + 1
      BY <2>2
    <3> HIDE DEF l
    <3>2. EntryAt(k, j, c) = EntryAt(l, i, c)
      BY <1>1, <3>1
    <3>3. EntryAt(l, i, c) \in Cells(c)
      BY <3>1, EntryInRange
    <3>4. EntryAt(l, i, c) # i
      BY <3>1, EntriesDiffer, OldestIsNext
    <3>5. f[EntryAt(k, j, c)] # NoState <=> l <= n
      BY <1>2, <3>1, <3>2, <3>3, <3>4 DEF HoldsNewest
    <3> QED BY <1>4, <3>1, <3>5
  <2> QED BY <2>1, <2>2
<1>6. HoldsNewest(m, f, j, c)
  BY <1>5 DEF HoldsNewest
<1> QED BY <1>6 DEF f, j, m

LEMMA RewindHolds ==
    ASSUME NEW c \in Nat, NEW i \in Nat, i < c,
           NEW e \in [Cells(c) -> States \union {NoState}],
           NEW n \in 0..c, HoldsNewest(n, e, i, c), e[DecIdx(i, c)] # NoState
    PROVE  /\ 1 <= n
           /\ HoldsNewest(n - 1, [e EXCEPT ![DecIdx(i, c)] = NoState], DecIdx(i, c), c)
<1> DEFINE j == DecIdx(i, c)
           f == [e EXCEPT ![j] = NoState]
<1>1. j \in Nat /\ j < c /\ EntryAt(1, i, c) = j /\ EntryAt(c, j, c) = j
      /\ \A k \in 1..c : k < c => EntryAt(k, j, c) = EntryAt(k + 1, i, c)
  BY RewindAges
<1> HIDE DEF j
<1>2. f[j] = NoState /\ \A x \in Cells(c) : x # j => f[x] = e[x]
  BY <1>1 DEF Cells
<1> HIDE DEF f
<1>3. 1 <= n
  BY <1>1 DEF HoldsNewest, j
<1>4. ASSUME NEW k \in 1..c PROVE f[EntryAt(k, j, c)] # NoState <=> k <= n - 1
  <2>1. CASE k = c
    BY <1>1, <1>2, <2>1
  <2>2. CASE k # c
    <3>1. k < c /\ k + 1 \in 1..c /\ k + 1 # 1
      BY <2>2
    <3>2. EntryAt(k, j, c) = EntryAt(k + 1, i, c)
      BY <1>1, <3>1
    <3>3. EntryAt(k + 1, i, c) \in Cells(c)
      BY <3>1, EntryInRange
    <3>4. EntryAt(k + 1, i, c) # EntryAt(1, i, c)
      BY <3>1, EntriesDiffer
    <3>5. f[EntryAt(k, j, c)] = e[EntryAt(k + 1, i, c)]
      BY <1>1, <1>2, <3>2, <3>3, <3>4
    <3>6. e[EntryAt(k + 1, i, c)] # NoState <=> k + 1 <= n
      BY <3>1 DEF HoldsNewest
    <3> QED BY <3>5, <3>6
  <2> QED BY <2>1, <2>2
<1>5. HoldsNewest(n - 1, f, j, c)
  BY <1>4 DEF HoldsNewest
<1> QED BY <1>3, <1>5 DEF f, j

-----------------------------------------------------------------------------
(* The history as a sequence. *)

LEMMA FunIsSeq ==
    ASSUME NEW S, NEW n \in Nat, NEW f \in [1..n -> S]
    PROVE  f \in Seq(S) /\ Len(f) = n /\ DOMAIN f = 1..n
<1>1. f \in Seq(S)
  BY IsASeq
<1> QED BY <1>1

LEMMA Prepended ==
    ASSUME NEW S, NEW h \in Seq(S), NEW s \in S, NEW l \in 0..Len(h)
    PROVE  << s >> \o SubSeq(h, 1, l) = [k \in 1..(l + 1) |-> IF k = 1 THEN s ELSE h[k - 1]]
<1> DEFINE t == SubSeq(h, 1, l)
           u == [k \in 1..(l + 1) |-> IF k = 1 THEN s ELSE h[k - 1]]
<1>1. t \in Seq(S) /\ Len(t) = l /\ \A k \in 1..l : t[k] = h[k]
  BY SubSeqProperties
<1>2. u \in Seq(S) /\ Len(u) = l + 1
  <2>1. u \in [1..(l + 1) -> S]
    BY ElementOfSeq
  <2> HIDE DEF u
  <2> QED BY <2>1, FunIsSeq
<1>3. \A k \in 1..(l + 1) : u[k] = IF k = 1 THEN s ELSE h[k - 1]
  OBVIOUS
<1> HIDE DEF t, u
<1>4. << s >> \o t \in Seq(S) /\ Len(<< s >> \o t) = l + 1
  BY <1>1
<1>5. ASSUME NEW k \in 1..(l + 1) PROVE (<< s >> \o t)[k] = u[k]
  BY <1>1, <1>3
<1>6. << s >> \o t = u
  BY <1>2, <1>4, <1>5, SeqEqual
<1> QED BY <1>6 DEF t, u

LEMMA HistoryIsSeq ==
    ASSUME NEW c \in Nat, NEW i \in Nat, c = 0 \/ i < c,
           NEW e \in [Cells(c) -> States \union {NoState}],
           NEW n \in 0..c, HoldsNewest(n, e, i, c)
    PROVE  /\ History(e, i, c) = [k \in 1..n |-> e[EntryAt(k, i, c)]]
           /\ History(e, i, c) \in Seq(States \union {NoState})
           /\ Len(History(e, i, c)) = n
<1>1. NumHeld(e, i, c) = n
  BY CountUnique
<1>2. History(e, i, c) = [k \in 1..n |-> e[EntryAt(k, i, c)]]
  BY <1>1 DEF History
<1>3. ASSUME NEW k \in 1..n PROVE e[EntryAt(k, i, c)] \in States \union {NoState}
  <2>1. k \in 1..c /\ i < c
    OBVIOUS
  <2>2. EntryAt(k, i, c) \in Cells(c)
    BY <2>1, EntryInRange
  <2> QED BY <2>2
<1>4. History(e, i, c) \in [1..n -> States \union {NoState}]
  BY <1>2, <1>3
<1> HIDE DEF HoldsNewest
<1> QED BY <1>2, <1>4, FunIsSeq

\* A save puts the state before the newest and forgets what is too much.
LEMMA SaveIsPush ==
    ASSUME NEW c \in Nat, NEW i \in Nat, i < c,
           NEW e \in [Cells(c) -> States \union {NoState}], NEW s \in States,
           NEW n \in 0..c, HoldsNewest(n, e, i, c)
    PROVE  History([e EXCEPT ![i] = s], IncIdx(i, c), c)
             = << s >> \o Abstract!Newest(c - 1, History(e, i, c))
<1> DEFINE f == [e EXCEPT ![i] = s]
           j == IncIdx(i, c)
           m == IF n < c THEN n + 1 ELSE c
           l == IF n < c - 1 THEN n ELSE c - 1
           h == History(e, i, c)
           S == States \union {NoState}
<1>1. HoldsNewest(m, f, j, c)
  BY SaveHolds
<1>2. j \in Nat /\ j < c /\ EntryAt(1, j, c) = i
      /\ \A k \in 1..c : k < c => EntryAt(k + 1, j, c) = EntryAt(k, i, c)
  BY SaveAges
<1>3. f[i] = s /\ (\A x \in Cells(c) : x # i => f[x] = e[x]) /\ f \in [Cells(c) -> S]
  BY DEF Cells
<1>4. m \in 0..c /\ l \in 0..n /\ m = l + 1
  OBVIOUS
<1>5. h = [k \in 1..n |-> e[EntryAt(k, i, c)]] /\ h \in Seq(S) /\ Len(h) = n
  BY HistoryIsSeq
<1>6. Abstract!Newest(c - 1, h) = SubSeq(h, 1, l)
  BY <1>5 DEF Abstract!Newest
<1> HIDE DEF f, j, m, l, h
<1>7. History(f, j, c) = [k \in 1..m |-> f[EntryAt(k, j, c)]]
  BY <1>1, <1>2, <1>3, <1>4, HistoryIsSeq, SMTT(20)
<1>8. << s >> \o SubSeq(h, 1, l) = [k \in 1..(l + 1) |-> IF k = 1 THEN s ELSE h[k - 1]]
  BY <1>4, <1>5, Prepended
<1>9. ASSUME NEW k \in 1..m
      PROVE  f[EntryAt(k, j, c)] = IF k = 1 THEN s ELSE h[k - 1]
  <2>1. CASE k = 1
    BY <1>2, <1>3, <2>1
  <2>2. CASE k # 1
    <3> DEFINE p == k - 1
    <3>1. p \in 1..c /\ p < c /\ k = p + 1 /\ p \in 1..n
      BY <1>4, <2>2
    <3> HIDE DEF p
    <3>2. EntryAt(k, j, c) = EntryAt(p, i, c)
      BY <1>2, <3>1
    <3>3. EntryAt(p, i, c) \in Cells(c)
      BY <3>1, EntryInRange
    <3>4. EntryAt(p, i, c) # i
      BY <3>1, EntriesDiffer, OldestIsNext
    <3>5. h[p] = e[EntryAt(p, i, c)]
      BY <1>5, <3>1
    <3>6. f[EntryAt(k, j, c)] = h[p]
      BY <1>3, <3>2, <3>3, <3>4, <3>5
    <3> QED BY <2>2, <3>1, <3>6
  <2> QED BY <2>1, <2>2
<1>10. History(f, j, c) = << s >> \o SubSeq(h, 1, l)
  BY <1>4, <1>7, <1>8, <1>9
<1> QED BY <1>6, <1>10 DEF f, j, h

\* A rewind takes the newest.
LEMMA RewindIsPop ==
    ASSUME NEW c \in Nat, NEW i \in Nat, i < c,
           NEW e \in [Cells(c) -> States \union {NoState}],
           NEW n \in 0..c, HoldsNewest(n, e, i, c), e[DecIdx(i, c)] # NoState
    PROVE  /\ History(e, i, c) # << >>
           /\ Head(History(e, i, c)) = e[DecIdx(i, c)]
           /\ History([e EXCEPT ![DecIdx(i, c)] = NoState], DecIdx(i, c), c)
                = Tail(History(e, i, c))
<1> DEFINE j == DecIdx(i, c)
           f == [e EXCEPT ![j] = NoState]
           h == History(e, i, c)
           S == States \union {NoState}
<1>1. 1 <= n /\ HoldsNewest(n - 1, f, j, c)
  BY RewindHolds
<1>2. j \in Nat /\ j < c /\ EntryAt(1, i, c) = j
      /\ \A k \in 1..c : k < c => EntryAt(k, j, c) = EntryAt(k + 1, i, c)
  BY RewindAges
<1>3. h = [k \in 1..n |-> e[EntryAt(k, i, c)]] /\ h \in Seq(S) /\ Len(h) = n
  BY HistoryIsSeq
<1> HIDE DEF j
<1>4. (\A x \in Cells(c) : x # j => f[x] = e[x]) /\ f \in [Cells(c) -> S]
  BY DEF Cells
<1> HIDE DEF f, h
<1>5. h # << >> /\ Head(h) = h[1] /\ Tail(h) \in Seq(S) /\ Len(Tail(h)) = n - 1
      /\ \A k \in 1..(n - 1) : Tail(h)[k] = h[k + 1]
  <2>1. h \in Seq(S) /\ Len(h) = n /\ 1 <= n
    BY <1>1, <1>3
  <2>2. h # << >> /\ Head(h) = h[1]
    BY <2>1
  <2>3. Tail(h) \in Seq(S) /\ Len(Tail(h)) = Len(h) - 1
        /\ \A k \in 1..Len(Tail(h)) : Tail(h)[k] = h[k + 1]
    BY <2>1, <2>2, HeadTailProperties
  <2> QED BY <2>1, <2>2, <2>3
<1>6. Head(h) = e[j]
  BY <1>1, <1>2, <1>3, <1>5
<1>7. History(f, j, c) = [k \in 1..(n - 1) |-> f[EntryAt(k, j, c)]]
      /\ History(f, j, c) \in Seq(S) /\ Len(History(f, j, c)) = n - 1
  <2>1. 1 <= n
    BY <1>1
  <2>2. n - 1 \in 0..c
    BY <2>1
  <2> DEFINE p == n - 1
  <2>3. p \in 0..c /\ HoldsNewest(p, f, j, c)
    BY <1>1, <2>2
  <2> HIDE DEF p
  <2>4. /\ History(f, j, c) = [k \in 1..p |-> f[EntryAt(k, j, c)]]
        /\ History(f, j, c) \in Seq(S)
        /\ Len(History(f, j, c)) = p
    BY <1>2, <1>4, <2>3, HistoryIsSeq
  <2> QED BY <2>4 DEF p
<1>8. ASSUME NEW k \in 1..(n - 1) PROVE History(f, j, c)[k] = Tail(h)[k]
  <2>1. k \in 1..c /\ k < c /\ k + 1 \in 1..c /\ k + 1 # 1 /\ k + 1 \in 1..n
    OBVIOUS
  <2>2. EntryAt(k, j, c) = EntryAt(k + 1, i, c)
    BY <1>2, <2>1
  <2>3. EntryAt(k + 1, i, c) \in Cells(c)
    BY <2>1, EntryInRange
  <2>4. EntryAt(k + 1, i, c) # j
    BY <1>2, <2>1, EntriesDiffer
  <2>5. f[EntryAt(k, j, c)] = h[k + 1]
    BY <1>3, <1>4, <2>1, <2>2, <2>3, <2>4
  <2> QED BY <1>5, <1>7, <2>5
<1>9. History(f, j, c) = Tail(h)
  BY <1>5, <1>7, <1>8, SeqEqual
<1> QED BY <1>5, <1>6, <1>9 DEF f, j, h

-----------------------------------------------------------------------------
(* Each action keeps the invariant and is a step of the history. *)

AbstractStep == [Abstract!Next]_(Abstract!vars)

HistoryHere == [k \in 1..Count |-> stateEntries[At(k)]]

LEMMA CapacityIsNat == ASSUME TypeOK PROVE Capacity \in Nat
BY RewindAssumption DEF TypeOK, Capacity

LEMMA HistoryIs ==
    /\ HistoryHere = History(stateEntries, stateIdx, Capacity)
    /\ HistoryHere' = History(stateEntries', stateIdx', Capacity')
<1>1. HistoryHere = History(stateEntries, stateIdx, Capacity)
  BY SameNames DEF HistoryHere, History
<1>2. Count' = NumHeld(stateEntries', stateIdx', Capacity')
  BY DEF NoGaps, Holds, HoldsNewest, At, EntryAt, Count, NumHeld
<1>3. HistoryHere' = History(stateEntries', stateIdx', Capacity')
  BY <1>2 DEF HistoryHere, History, At, EntryAt
<1> QED BY <1>1, <1>3

LEMMA NoGapsIs ==
    /\ NoGaps <=> \E n \in 0..Capacity : HoldsNewest(n, stateEntries, stateIdx, Capacity)
    /\ NoGaps' <=> \E n \in 0..Capacity' : HoldsNewest(n, stateEntries', stateIdx', Capacity')
BY DEF NoGaps, Holds, HoldsNewest, At, EntryAt

\* What the entries hold decides everything else.
LEMMA SameRing ==
    ASSUME UNCHANGED <<stateEntries, stateIdx, Capacity>>
    PROVE  (NoGaps => NoGaps') /\ HistoryHere' = HistoryHere
<1>1. NoGaps => NoGaps'
  BY NoGapsIs
<1>2. HistoryHere' = HistoryHere
  BY HistoryIs
<1> QED BY <1>1, <1>2

LEMMA Stutters ==
    ASSUME UNCHANGED <<stateEntries, stateIdx, Capacity, restored>>
    PROVE  AbstractStep
BY SameRing DEF AbstractStep, Abstract!vars, HistoryHere

\* Fresh entries: a restart of the history.
LEMMA Restarts ==
    ASSUME Capacity' \in Nat, stateEntries' = FreshEntries(Capacity'), stateIdx' = 0,
           UNCHANGED restored
    PROVE  /\ stateEntries' \in [Cells(Capacity') -> States \union {NoState}]
           /\ NoGaps' /\ AbstractStep
<1>1. /\ stateEntries' \in [Cells(Capacity') -> States \union {NoState}]
      /\ HoldsNewest(0, stateEntries', stateIdx', Capacity')
      /\ NumHeld(stateEntries', stateIdx', Capacity') = 0
  BY FreshHoldsNothing
<1>2. NoGaps'
  BY <1>1, NoGapsIs
<1>3. HistoryHere' = << >>
  BY <1>1, HistoryIs DEF History
<1>4. Abstract!Restart
  BY <1>3 DEF Abstract!Restart, HistoryHere
<1> QED BY <1>1, <1>2, <1>4 DEF AbstractStep, Abstract!Next

LEMMA InitHolds == Init => RingInv /\ Abstract!Init
<1> SUFFICES ASSUME Init PROVE RingInv /\ Abstract!Init
  OBVIOUS
<1>1. Capacity = 0 /\ stateEntries = FreshEntries(0) /\ stateIdx = 0
  BY DEF Init, Capacity
<1>2. /\ stateEntries \in [Cells(Capacity) -> States \union {NoState}]
      /\ HoldsNewest(0, stateEntries, stateIdx, Capacity)
      /\ NumHeld(stateEntries, stateIdx, Capacity) = 0
  BY <1>1, FreshHoldsNothing
<1>3. NoGaps
  BY <1>1, <1>2, NoGapsIs
<1>4. HistoryHere = << >>
  BY <1>2, HistoryIs DEF History
<1>5. TypeOK
  <2>1. stateEntries \in [DOMAIN stateEntries -> States \union {NoState}]
    BY <1>2
  <2>2. saveTimer \in BOOLEAN /\ stateSize \in BOOLEAN
    BY DEF Init
  <2>3. maxStates \in StateCounts /\ stateIdx \in Nat /\ restored \in States \union {NoState}
    BY DEF Init
  <2> QED BY <2>1, <2>2, <2>3 DEF TypeOK
<1>6. IndexInv
  BY <1>1, <1>2 DEF Init, IndexInv
<1>7. Abstract!Init
  BY <1>1, <1>4 DEF Init, Abstract!Init, HistoryHere
<1> QED BY <1>3, <1>5, <1>6, <1>7 DEF RingInv

LEMMA ClearKeeps == ASSUME RingInv, Clear PROVE RingInv' /\ AbstractStep
<1>1. Capacity' = 0 /\ stateEntries' = FreshEntries(Capacity') /\ stateIdx' = 0
      /\ UNCHANGED restored
  BY DEF Clear, Capacity
<1>2. /\ stateEntries' \in [Cells(Capacity') -> States \union {NoState}]
      /\ NoGaps' /\ AbstractStep
  BY <1>1, Restarts
<1>3. TypeOK'
  <2>1. stateEntries' \in [DOMAIN stateEntries' -> States \union {NoState}]
    BY <1>2
  <2>2. saveTimer' \in BOOLEAN /\ stateSize' \in BOOLEAN
    BY DEF Clear
  <2>3. maxStates' \in StateCounts /\ stateIdx' \in Nat /\ restored' \in States \union {NoState}
    BY <1>1 DEF Clear, RingInv, TypeOK
  <2> QED BY <2>1, <2>2, <2>3 DEF TypeOK
<1>4. IndexInv'
  BY <1>1, <1>2 DEF Clear, IndexInv
<1> QED BY <1>2, <1>3, <1>4 DEF RingInv

LEMMA ResetKeeps == ASSUME RingInv, Reset PROVE RingInv' /\ AbstractStep
<1>1. Capacity' = maxStates /\ maxStates \in Nat
  BY RewindAssumption DEF Reset, Capacity, RingInv, TypeOK
<1>2. stateEntries' = FreshEntries(Capacity') /\ stateIdx' = 0 /\ UNCHANGED restored
  BY <1>1 DEF Reset
<1>3. /\ stateEntries' \in [Cells(Capacity') -> States \union {NoState}]
      /\ NoGaps' /\ AbstractStep
  BY <1>1, <1>2, Restarts
<1>4. TypeOK'
  BY <1>2, <1>3 DEF Reset, RingInv, TypeOK
<1>5. saveTimer' => Capacity' # 0
  BY <1>1 DEF Reset, RingInv, IndexInv, Capacity
<1>6. IndexInv'
  BY <1>1, <1>2, <1>3, <1>5 DEF IndexInv
<1> QED BY <1>3, <1>4, <1>6 DEF RingInv

LEMMA UpdateMaxStatesKeeps ==
    ASSUME RingInv, NEW n \in StateCounts, UpdateMaxStates(n)
    PROVE  RingInv' /\ AbstractStep
<1>0. n \in Nat /\ maxStates' = n /\ ~saveTimer' /\ UNCHANGED <<stateSize, restored>>
  BY RewindAssumption DEF UpdateMaxStates
<1>1. CASE stateSize
  <2>1. Capacity' = n /\ stateEntries' = FreshEntries(Capacity') /\ stateIdx' = 0
    BY <1>0, <1>1 DEF UpdateMaxStates, Capacity
  <2>2. /\ stateEntries' \in [Cells(Capacity') -> States \union {NoState}]
        /\ NoGaps' /\ AbstractStep
    BY <1>0, <2>1, Restarts
  <2>3. TypeOK'
    <3>1. stateEntries' \in [DOMAIN stateEntries' -> States \union {NoState}]
      BY <2>2
    <3>2. saveTimer' \in BOOLEAN /\ stateSize' \in BOOLEAN
      BY DEF UpdateMaxStates, RingInv, TypeOK
    <3>3. maxStates' \in StateCounts /\ stateIdx' \in Nat
          /\ restored' \in States \union {NoState}
      BY <1>0, <2>1 DEF RingInv, TypeOK
    <3> QED BY <3>1, <3>2, <3>3 DEF TypeOK
  <2>4. IndexInv'
    BY <1>0, <2>1, <2>2 DEF IndexInv
  <2> QED BY <2>2, <2>3, <2>4 DEF RingInv
<1>2. CASE ~stateSize
  <2>1. Capacity' = 0 /\ Capacity = 0 /\ UNCHANGED <<stateEntries, stateIdx>>
    BY <1>0, <1>2 DEF UpdateMaxStates, Capacity
  <2>2. NoGaps' /\ AbstractStep
    BY <1>0, <2>1, SameRing, Stutters DEF RingInv
  <2>3. TypeOK'
    <3>1. saveTimer' \in BOOLEAN /\ stateSize' \in BOOLEAN
      BY DEF UpdateMaxStates, RingInv, TypeOK
    <3>2. /\ stateEntries' \in [DOMAIN stateEntries' -> States \union {NoState}]
          /\ maxStates' \in StateCounts /\ stateIdx' \in Nat
          /\ restored' \in States \union {NoState}
      BY <1>0, <2>1 DEF RingInv, TypeOK
    <3> QED BY <3>1, <3>2 DEF TypeOK
  <2>4. IndexInv'
    BY <1>0, <2>1 DEF RingInv, IndexInv
  <2> QED BY <2>2, <2>3, <2>4 DEF RingInv
<1> QED BY <1>1, <1>2

LEMMA TimerKeeps ==
    ASSUME RingInv, StartTimer \/ PauseTimer
    PROVE  RingInv' /\ AbstractStep
<1>1. /\ Capacity' = Capacity
      /\ UNCHANGED <<stateEntries, stateIdx, stateSize, maxStates, restored>>
      /\ saveTimer' \in BOOLEAN
      /\ saveTimer' => saveTimer \/ DOMAIN stateEntries # {}
  <2>1. UNCHANGED <<stateEntries, stateIdx, stateSize, maxStates, restored>>
    BY DEF StartTimer, PauseTimer
  <2>2. saveTimer' \in BOOLEAN /\ (saveTimer' => saveTimer \/ DOMAIN stateEntries # {})
    BY Zenon DEF StartTimer, PauseTimer, RingInv, TypeOK
  <2> QED BY <2>1, <2>2 DEF Capacity
<1>2. NoGaps' /\ AbstractStep
  BY <1>1, SameRing, Stutters DEF RingInv
<1>3. TypeOK'
  BY <1>1 DEF RingInv, TypeOK
<1>4. Capacity = 0 => DOMAIN stateEntries = {}
  BY DEF RingInv, IndexInv, Cells
<1>5. IndexInv'
  BY <1>1, <1>4 DEF RingInv, IndexInv
<1> QED BY <1>2, <1>3, <1>5 DEF RingInv

LEMMA SaveStateKeeps ==
    ASSUME RingInv, NEW s \in States, SaveState(s)
    PROVE  RingInv' /\ AbstractStep
<1> DEFINE c == Capacity
           i == stateIdx
           e == stateEntries
<1>1. /\ c \in Nat /\ i \in Nat /\ c # 0 /\ i < c /\ stateSize /\ maxStates = c
      /\ e \in [Cells(c) -> States \union {NoState}]
  BY CapacityIsNat DEF RingInv, TypeOK, IndexInv, SaveState, Capacity
<1>2. PICK n \in 0..c : HoldsNewest(n, e, i, c)
  BY NoGapsIs DEF RingInv
<1>3. /\ stateEntries' = [e EXCEPT ![i] = s] /\ stateIdx' = IncIdx(i, c) /\ Capacity' = c
      /\ UNCHANGED <<stateSize, maxStates, saveTimer, restored>>
  BY <1>1 DEF SaveState, NextIdx, IncIdx, Capacity
<1> HIDE DEF c, i, e
<1>4. IncIdx(i, c) \in Nat /\ IncIdx(i, c) < c
  BY <1>1, SaveAges
<1>5. NoGaps'
  <2> DEFINE m == IF n < c THEN n + 1 ELSE c
  <2>1. m \in 0..c
    BY <1>1
  <2>2. HoldsNewest(m, [e EXCEPT ![i] = s], IncIdx(i, c), c)
    BY <1>1, <1>2, SaveHolds
  <2> QED BY <1>3, <2>1, <2>2, NoGapsIs
<1>6. stateEntries' \in [Cells(c) -> States \union {NoState}]
  BY <1>1, <1>3
<1>7. TypeOK'
  BY <1>3, <1>4, <1>6 DEF RingInv, TypeOK
<1>8. IndexInv'
  BY <1>1, <1>3, <1>4, <1>6 DEF RingInv, IndexInv
<1>9. HistoryHere' = << s >> \o Abstract!Newest(c - 1, HistoryHere)
  <2>1. History([e EXCEPT ![i] = s], IncIdx(i, c), c)
          = << s >> \o Abstract!Newest(c - 1, History(e, i, c))
    BY <1>1, <1>2, SaveIsPush
  <2>2. HistoryHere = History(e, i, c) /\ HistoryHere' = History(stateEntries', stateIdx', c)
    BY <1>3, HistoryIs DEF c, i, e
  <2> QED BY <1>3, <2>1, <2>2
<1>10. Abstract!Save(s)
  BY <1>1, <1>3, <1>9, SMTT(20) DEF Abstract!Save, HistoryHere, c
<1> QED BY <1>5, <1>7, <1>8, <1>10 DEF RingInv, AbstractStep, Abstract!Next

LEMMA RewindStateKeeps ==
    ASSUME RingInv, RewindState
    PROVE  RingInv' /\ AbstractStep
<1> DEFINE c == Capacity
           i == stateIdx
           e == stateEntries
           j == DecIdx(i, c)
<1>1. /\ c \in Nat /\ i \in Nat /\ c # 0 /\ i < c /\ stateSize /\ maxStates = c
      /\ e \in [Cells(c) -> States \union {NoState}]
  BY CapacityIsNat DEF RingInv, TypeOK, IndexInv, RewindState, Capacity
<1>2. PICK n \in 0..c : HoldsNewest(n, e, i, c)
  BY NoGapsIs DEF RingInv
<1>3. /\ e[j] # NoState /\ restored' = e[j]
      /\ stateEntries' = [e EXCEPT ![j] = NoState] /\ stateIdx' = j /\ Capacity' = c
      /\ saveTimer' = TRUE
      /\ UNCHANGED <<stateSize, maxStates>>
  BY <1>1 DEF RewindState, PrevIdx, DecIdx, Capacity
<1> HIDE DEF c, i, e
<1>4. j \in Nat /\ j < c /\ j \in Cells(c)
  BY <1>1, RewindAges DEF Cells
<1>5. NoGaps'
  <2>1. 1 <= n /\ HoldsNewest(n - 1, [e EXCEPT ![j] = NoState], j, c)
    BY <1>1, <1>2, <1>3, RewindHolds
  <2>2. 1 <= n
    BY <2>1
  <2>3. n - 1 \in 0..c
    BY <2>2, <1>1
  <2> QED BY <1>3, <2>1, <2>3, NoGapsIs
<1>6. stateEntries' \in [Cells(c) -> States \union {NoState}]
  BY <1>1, <1>3
<1>7. TypeOK'
  BY <1>1, <1>3, <1>4, <1>6 DEF RingInv, TypeOK
<1>8. IndexInv'
  BY <1>1, <1>3, <1>4, <1>6 DEF RingInv, IndexInv
<1>9. HistoryHere # << >> /\ restored' = Head(HistoryHere) /\ HistoryHere' = Tail(HistoryHere)
  <2>1. /\ History(e, i, c) # << >>
        /\ Head(History(e, i, c)) = e[j]
        /\ History([e EXCEPT ![j] = NoState], j, c) = Tail(History(e, i, c))
    BY <1>1, <1>2, <1>3, RewindIsPop
  <2>2. HistoryHere = History(e, i, c) /\ HistoryHere' = History(stateEntries', stateIdx', c)
    BY <1>3, HistoryIs DEF c, i, e
  <2> QED BY <1>3, <2>1, <2>2
<1>10. Abstract!Rewind
  BY <1>3, <1>9 DEF Abstract!Rewind, HistoryHere, c
<1> QED BY <1>5, <1>7, <1>8, <1>10 DEF RingInv, AbstractStep, Abstract!Next

LEMMA StepKeeps == ASSUME RingInv, [Next]_rewindVars PROVE RingInv' /\ AbstractStep
<1>1. CASE Next
  BY <1>1, ClearKeeps, ResetKeeps, UpdateMaxStatesKeeps, TimerKeeps, SaveStateKeeps,
     RewindStateKeeps DEF Next
<1>2. CASE UNCHANGED rewindVars
  <2>1. /\ UNCHANGED <<stateEntries, stateIdx, stateSize, maxStates, saveTimer, restored>>
        /\ Capacity' = Capacity
    BY <1>2 DEF rewindVars, Capacity
  <2>2. NoGaps' /\ AbstractStep
    BY <2>1, SameRing, Stutters DEF RingInv
  <2>3. TypeOK' /\ IndexInv'
    BY <2>1 DEF RingInv, TypeOK, IndexInv
  <2> QED BY <2>2, <2>3 DEF RingInv
<1> QED BY <1>1, <1>2

-----------------------------------------------------------------------------
\* The inductive invariant of the ring holds in every reachable state.
THEOREM RewindInvariance == Spec => []RingInv
BY InitHolds, StepKeeps, PTL DEF Spec

\* The fields of RewindManager keep their types.
THEOREM RewindTypeCorrect == Spec => []TypeOK
<1>1. RingInv => TypeOK
  BY DEF RingInv
<1> QED BY RewindInvariance, <1>1, PTL

\* The timer's save and the rewind key never reach past the entries, and what
\* can be rewound to has no gaps.
THEOREM RewindStaysInRange == Spec => [](SavesInRange /\ EntriesMatchOption /\ NoGaps)
<1> DEFINE InRange == SavesInRange /\ EntriesMatchOption /\ NoGaps
<1>1. ASSUME RingInv PROVE InRange
  <2>1. Capacity \in Nat /\ stateIdx \in Nat /\ maxStates \in Nat
        /\ stateSize \in BOOLEAN
    BY <1>1, CapacityIsNat, RewindAssumption DEF RingInv, TypeOK
  <2>2. DOMAIN stateEntries = Cells(Capacity)
    BY <1>1 DEF RingInv, IndexInv
  <2>3. SavesInRange
    BY <1>1, <2>1, <2>2 DEF RingInv, IndexInv, SavesInRange, Capacity, Cells
  <2>4. stateSize /\ maxStates # 0 => PrevIdx \in Cells(Capacity)
    BY <1>1, <2>1 DEF RingInv, IndexInv, PrevIdx, Capacity, Cells
  <2>5. EntriesMatchOption
    BY <2>2, <2>4 DEF EntriesMatchOption, Cells
  <2> QED BY <1>1, <2>3, <2>5 DEF RingInv
<1>2. RingInv => InRange
  BY <1>1
<1> QED BY RewindInvariance, <1>2, PTL

\* The ring implements the history: each step saves, rewinds or restarts it.
THEOREM RewindImplements == Spec => ImplementsHistory
<1>1. RingInv /\ [Next]_rewindVars => [Abstract!Next]_(Abstract!vars)
  BY StepKeeps DEF AbstractStep
<1>2. Init => Abstract!Init
  BY InitHolds
<1> QED BY RewindInvariance, <1>1, <1>2, PTL DEF Spec, ImplementsHistory, Abstract!Spec

=============================================================================
