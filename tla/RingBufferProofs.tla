-------------------------- MODULE RingBufferProofs --------------------------
(***************************************************************************)
(* RingBuffer keeps its types, its spans disjoint, and implements          *)
(* BoundedQueue, for every set of capacities that divide half the range of *)
(* the indexes.  The invariant says how the two unwrapped indexes, the     *)
(* cells copied in and the elements copied out hang together.              *)
(***************************************************************************)
EXTENDS RingBuffer, SequenceTheorems, TLAPS

\* The elements between the two indexes.
Used == (writeIdx - readIdx) % IndexModulus

\* What is written and what is being written fits.
WriterInv ==
    /\ Used + Len(span) <= capacity
    /\ ~writing => span = << >> /\ copiedIn = 0
    /\ \A j \in 1..copiedIn : buff[wrapIdx(writeIdx + j - 1)] = span[j]

\* The reader's span has been written, and it has copied the first of it.
ReaderInv ==
    /\ wanted <= Used
    /\ ~reading => wanted = 0 /\ copyOut = << >>
    /\ Len(copyOut) <= wanted
    /\ \A j \in 1..Len(copyOut) : copyOut[j] = buff[wrapIdx(readIdx + j - 1)]

RingInv == TypeOK /\ WriterInv /\ ReaderInv

-----------------------------------------------------------------------------
(* Remainders. *)

LEMMA DivMod ==
    ASSUME NEW x \in Int, NEW m \in Nat \ {0}
    PROVE  /\ x = m * (x \div m) + (x % m)
           /\ x % m \in 0..(m - 1)
           /\ x \div m \in Int
<1>1. x % m \in 0..(m - 1)
  OBVIOUS
<1>2. x \div m \in Int
  OBVIOUS
<1>3. x = m * (x \div m) + (x % m)
  OBVIOUS
<1> QED BY <1>1, <1>2, <1>3

LEMMA SmallMultiple ==
    ASSUME NEW d \in Int, NEW m \in Nat \ {0}, m * d < m, -m < m * d
    PROVE  d = 0
<1>1. CASE d >= 1
  <2>1. m * d >= m
    BY <1>1
  <2> QED BY <2>1
<1>2. CASE d <= -1
  <2>1. m * d <= -m
    BY <1>2
  <2> QED BY <2>1
<1> QED BY <1>1, <1>2

LEMMA ModUnique ==
    ASSUME NEW x \in Int, NEW m \in Nat \ {0}, NEW q \in Int, NEW r \in 0..(m - 1),
           x = m * q + r
    PROVE  x % m = r
<1> DEFINE Q == x \div m
           R == x % m
<1>1. x = m * Q + R /\ R \in 0..(m - 1) /\ Q \in Int
  BY DivMod
<1> HIDE DEF Q, R
<1>2. m * (Q - q) = r - R
  <2>1. m * Q - m * q = r - R
    BY <1>1
  <2>2. m * (Q - q) = m * Q - m * q
    BY <1>1
  <2> QED BY <2>1, <2>2
<1>3. Q - q = 0
  BY <1>1, <1>2, SmallMultiple
<1>4. r = R
  BY <1>1, <1>3
<1> QED BY <1>4 DEF R

LEMMA ModShift ==
    ASSUME NEW x \in Int, NEW m \in Nat \ {0}, NEW j \in Int
    PROVE  (x + m * j) % m = x % m
<1> DEFINE X == x + m * j
           Q == x \div m + j
           R == x % m
<1>1. x = m * (x \div m) + R /\ R \in 0..(m - 1) /\ x \div m \in Int
  BY DivMod
<1>2. X = m * Q + R
  BY <1>1
<1>3. X \in Int /\ Q \in Int
  BY <1>1
<1> HIDE DEF X, Q, R
<1>4. X % m = R
  BY <1>1, <1>2, <1>3, ModUnique
<1> QED BY <1>4 DEF X, R

LEMMA ModSmall ==
    ASSUME NEW m \in Nat \ {0}, NEW x \in 0..(m - 1)
    PROVE  x % m = x
BY ModUnique, x = m * 0 + x

\* Numbers less than m apart have different remainders.
LEMMA ModDistinct ==
    ASSUME NEW a \in Int, NEW b \in Int, NEW m \in Nat \ {0}, 0 < a - b, a - b < m
    PROVE  a % m # b % m
<1> SUFFICES ASSUME a % m = b % m
             PROVE  FALSE
  OBVIOUS
<1> DEFINE A == a \div m
           B == b \div m
           R == b % m
<1>1. a = m * A + R /\ A \in Int
  BY DivMod
<1>2. b = m * B + R /\ B \in Int /\ R \in Int
  BY DivMod
<1> HIDE DEF A, B, R
<1>3. m * (A - B) = a - b
  <2>1. m * A - m * B = a - b
    BY <1>1, <1>2
  <2>2. m * (A - B) = m * A - m * B
    BY <1>1, <1>2
  <2> QED BY <2>1, <2>2
<1>4. A - B = 0
  BY <1>1, <1>2, <1>3, SmallMultiple
<1> QED BY <1>1, <1>2, <1>4

\* A remainder to a multiple of m keeps the remainder to m.
LEMMA ModMod ==
    ASSUME NEW x \in Int, NEW m \in Nat \ {0}, NEW n \in Nat \ {0}, n % m = 0,
           NEW y \in Int
    PROVE  ((x % n) + y) % m = (x + y) % m
<1> DEFINE k == n \div m
           q == x \div n
           r == x % n
<1>1. n = m * k /\ k \in Int
  BY DivMod
<1>2. x = n * q + r /\ q \in Int /\ r \in Int
  BY DivMod
<1> HIDE DEF k, q, r
<1> DEFINE z == r + y
           j == k * q
<1>3. z \in Int /\ j \in Int
  BY <1>1, <1>2
<1>4. n * q = m * j
  BY <1>1, <1>2
<1>5. x + y = z + m * j
  <2>1. x + y = m * j + r + y
    BY <1>2, <1>4
  <2> HIDE DEF j
  <2> QED BY <2>1, <1>2, <1>3
<1> HIDE DEF z, j
<1>6. (z + m * j) % m = z % m
  BY <1>3, ModShift
<1> QED BY <1>5, <1>6 DEF z, r

LEMMA ModModSame ==
    ASSUME NEW x \in Int, NEW m \in Nat \ {0}, NEW y \in Int
    PROVE  ((x % m) + y) % m = (x + y) % m
<1>1. m % m = 0
  BY ModUnique, m = m * 1 + 0
<1> QED BY <1>1, ModMod

\* Storing a write index n further on leaves n more elements between the two.
LEMMA WriteAdvances ==
    ASSUME NEW m \in Nat \ {0}, NEW w \in Int, NEW r \in Int, NEW n \in Nat,
           ((w - r) % m) + n < m
    PROVE  (((w + n) % m) - r) % m = ((w - r) % m) + n
<1> DEFINE a == w - r
           b == w + n
           c == -r
           u == a % m
           v == b % m
<1>1. a \in Int /\ b \in Int /\ c \in Int /\ n \in Int
  OBVIOUS
<1>2. b + c = a + n
  OBVIOUS
<1> HIDE DEF a, b, c
<1>3. u \in 0..(m - 1) /\ v \in 0..(m - 1)
  BY <1>1, DivMod
<1>4. (v + c) % m = (b + c) % m
  BY <1>1, ModModSame
<1>5. (u + n) % m = (a + n) % m
  BY <1>1, ModModSame
<1>6. u + n < m
  BY DEF a
<1> HIDE DEF u, v
<1>7. (u + n) % m = u + n
  BY <1>3, <1>6, ModSmall
<1>8. (v - r) % m = u + n
  <2>1. v - r = v + c
    BY <1>3 DEF c
  <2> QED BY <1>2, <1>4, <1>5, <1>7, <2>1
<1> QED BY <1>8 DEF a, b, u, v

LEMMA ReadAdvances ==
    ASSUME NEW m \in Nat \ {0}, NEW w \in Int, NEW r \in Int, NEW n \in Nat,
           n <= (w - r) % m
    PROVE  (w - ((r + n) % m)) % m = ((w - r) % m) - n
<1> DEFINE a == w - r
           b == r + n
           c == -n
           u == a % m
           v == b % m
           q == b \div m
           z == m * q
<1>1. a \in Int /\ b \in Int /\ c \in Int
  OBVIOUS
<1> HIDE DEF a, b, c
<1>3. u \in 0..(m - 1)
  BY <1>1, DivMod
<1>4. b = z + v /\ v \in 0..(m - 1) /\ q \in Int
  BY <1>1, DivMod
<1>5. (u + c) % m = (a + c) % m
  BY <1>1, ModModSame
<1> DEFINE x == a + c
<1>6. x \in Int
  BY <1>1
<1> HIDE DEF v, q, x
<1>7. (x + m * q) % m = x % m
  BY <1>4, <1>6, ModShift
<1>8. n <= u
  BY DEF a
<1>9. z \in Int
  BY <1>4
<1> HIDE DEF u, z
<1>10. u + c \in 0..(m - 1) /\ u + c = u - n
  BY <1>3, <1>8 DEF c
<1>11. (u + c) % m = u - n
  BY <1>10, ModSmall
<1>12. w - v = x + z
  BY <1>4, <1>9 DEF a, b, c, x
<1>13. (w - v) % m = u - n
  BY <1>5, <1>7, <1>11, <1>12 DEF x, z
<1> QED BY <1>13 DEF a, b, u, v

-----------------------------------------------------------------------------
(* The indexes of the ring. *)

LEMMA Widths ==
    ASSUME TypeOK
    PROVE  /\ capacity \in Nat \ {0}
           /\ 2 * capacity \in Nat \ {0}
           /\ IndexModulus \in Nat \ {0}
           /\ IndexModulus % (2 * capacity) = 0
           /\ IndexModulus % capacity = 0
           /\ 2 * capacity <= IndexModulus
<1>1. /\ capacity \in Nat \ {0}
      /\ IndexModulus \in Nat \ {0}
      /\ IndexModulus % (2 * capacity) = 0
  BY RingAssumption DEF TypeOK
<1> DEFINE d == 2 * capacity
           k == IndexModulus \div d
<1>2. d \in Nat \ {0}
  BY <1>1
<1>3. IndexModulus = d * k + 0 /\ k \in Int
  <2> HIDE DEF d
  <2>1. IndexModulus = d * k + (IndexModulus % d) /\ k \in Int
    BY <1>1, <1>2, DivMod
  <2>2. IndexModulus % d = 0
    BY <1>1 DEF d
  <2> QED BY <2>1, <2>2
<1> HIDE DEF k
<1>4. k >= 1
  <2>1. CASE k <= 0
    <3>1. d * k <= 0
      BY <2>1, <1>2, <1>3
    <3> QED BY <3>1, <1>1, <1>3
  <2> QED BY <2>1, <1>3
<1>5. d * k >= d
  BY <1>2, <1>3, <1>4
<1>6. IndexModulus = capacity * (2 * k) + 0
  BY <1>1, <1>3
<1>7. IndexModulus % capacity = 0
  <2>1. 2 * k \in Int /\ 0 \in 0..(capacity - 1)
    BY <1>1, <1>3
  <2> DEFINE kk == 2 * k
  <2>2. kk \in Int /\ IndexModulus = capacity * kk + 0
    BY <2>1, <1>6
  <2> HIDE DEF kk
  <2> QED BY <2>1, <2>2, <1>1, ModUnique
<1> QED BY <1>1, <1>2, <1>3, <1>5, <1>7

LEMMA UsedType ==
    ASSUME TypeOK
    PROVE  Used \in 0..(IndexModulus - 1)
<1> DEFINE x == writeIdx - readIdx
<1>1. x \in Int
  BY DEF TypeOK
<1> HIDE DEF x
<1>2. x % IndexModulus \in 0..(IndexModulus - 1)
  BY <1>1, Widths, DivMod
<1> QED BY <1>2 DEF Used, x

\* The code's size() is the distance of the indexes.
LEMMA SizeIsUsed ==
    ASSUME TypeOK, Used <= capacity
    PROVE  size = Used
<1> DEFINE x == writeIdx - readIdx
           d == 2 * capacity
<1>1. x \in Int
  BY DEF TypeOK
<1>2. d \in Nat \ {0} /\ IndexModulus % d = 0 /\ IndexModulus \in Nat \ {0}
  BY Widths
<1>3. Used \in 0..(d - 1)
  BY Widths, UsedType
<1> HIDE DEF d, x
<1>4. (Used + 0) % d = (x + 0) % d
  <2>0. 0 \in Int
    OBVIOUS
  <2>1. ((x % IndexModulus) + 0) % d = (x + 0) % d
    BY <2>0, <1>1, <1>2, ModMod, ZenonT(60)
  <2>2. Used = x % IndexModulus
    BY DEF Used, x
  <2> QED BY <2>1, <2>2
<1>5. Used % d = Used
  BY <1>2, <1>3, ModSmall
<1>6. Used + 0 = Used /\ x + 0 = x
  BY <1>1, <1>3
<1>7. x % d = Used
  BY <1>4, <1>5, <1>6
<1> QED BY <1>7 DEF size, wrapSize, d, x

LEMMA WrapType ==
    ASSUME TypeOK, NEW i \in Int
    PROVE  wrapIdx(i) \in Cells
BY Widths, DivMod DEF wrapIdx, Cells

\* The writer's cells follow the elements in the ring.
LEMMA WriteCellsFollow ==
    ASSUME TypeOK, NEW j \in Int
    PROVE  wrapIdx(writeIdx + j) = wrapIdx(readIdx + Used + j)
<1> DEFINE a == writeIdx - readIdx
           b == readIdx + j
<1>1. a \in Int /\ b \in Int
  BY DEF TypeOK
<1>2. /\ capacity \in Nat \ {0} /\ IndexModulus \in Nat \ {0}
      /\ IndexModulus % capacity = 0
  BY Widths
<1> HIDE DEF a, b
<1>3. ((a % IndexModulus) + b) % capacity = (a + b) % capacity
  BY <1>1, <1>2, ModMod, ZenonT(60)
<1>4. (Used + b) % capacity = (a + b) % capacity
  BY <1>3 DEF Used, a
<1>5. Used + b = readIdx + Used + j /\ a + b = writeIdx + j
  BY UsedType, Widths DEF TypeOK, a, b
<1> QED BY <1>4, <1>5 DEF wrapIdx

\* Two cells less than the capacity apart are different.
LEMMA CellsDistinct ==
    ASSUME TypeOK, NEW a \in Int, NEW b \in Int, 0 < a - b, a - b < capacity
    PROVE  wrapIdx(a) # wrapIdx(b)
BY Widths, ModDistinct DEF wrapIdx

-----------------------------------------------------------------------------
(* Each action preserves the invariant. *)

LEMMA InitInv == Init => RingInv
<1> SUFFICES ASSUME Init
             PROVE  RingInv
  OBVIOUS
<1>1. TypeOK
  <2>1. writeIdx \in 0..(IndexModulus - 1) /\ readIdx \in 0..(IndexModulus - 1)
    BY RingAssumption DEF Init
  <2>2. << >> \in Seq(Values) /\ Len(<< >>) = 0
    OBVIOUS
  <2>3. buff \in [Cells -> Values]
    BY RingAssumption DEF Init
  <2>4. Init => /\ writing \in BOOLEAN /\ reading \in BOOLEAN
                /\ capacity \in Capacities
                /\ copyOut = << >> /\ taken = << >> /\ span = << >>
                /\ copiedIn = 0 /\ wanted = 0
    BY DEF Init
  <2>5. 0 \in 0..0 /\ 0 \in Nat
    OBVIOUS
  <2> QED BY <2>1, <2>2, <2>3, <2>4, <2>5 DEF TypeOK
<1>2. Used = 0
  <2>1. writeIdx - readIdx = 0 /\ 0 \in 0..(IndexModulus - 1)
    BY RingAssumption DEF Init
  <2>2. 0 % IndexModulus = 0
    BY <2>1, RingAssumption, ModSmall
  <2> QED BY <2>1, <2>2 DEF Used
<1>3. WriterInv
  <2>1. Len(span) = 0 /\ span = << >> /\ copiedIn = 0
    BY DEF Init
  <2>2. Used + Len(span) <= capacity
    BY <1>1, <1>2, <2>1, Widths
  <2> QED BY <2>1, <2>2 DEF WriterInv
<1>4. ReaderInv
  <2>1. Len(copyOut) = 0 /\ copyOut = << >> /\ wanted = 0
    BY DEF Init
  <2> QED BY <1>2, <2>1 DEF ReaderInv
<1> QED BY <1>1, <1>3, <1>4 DEF RingInv

LEMMA BeginWritePreserves ==
    ASSUME RingInv, NEW data \in Transfers, BeginWrite(data)
    PROVE  RingInv'
<1>1. TypeOK /\ WriterInv /\ ReaderInv
  BY DEF RingInv
<1>2. Used \in Nat /\ size = Used /\ capacity \in Nat
  BY <1>1, UsedType, SizeIsUsed, Widths DEF WriterInv, BeginWrite
<1>3. data \in Seq(Values) /\ Len(data) \in Nat
  BY RingAssumption DEF Transfers
<1> DEFINE n == min(Len(data), freeSpace)
<1>4. n \in Nat /\ n <= Len(data) /\ Used + n <= capacity
  BY <1>1, <1>2, <1>3 DEF min, freeSpace, WriterInv, BeginWrite
<1> HIDE DEF n
<1>5. span' = SubSeq(data, 1, n)
  BY DEF BeginWrite, n
<1>6. span' \in Seq(Values) /\ Len(span') = n
  BY <1>3, <1>4, <1>5
<1>7. Used' = Used /\ copiedIn' = 0
  BY DEF BeginWrite, Used
<1>8. TypeOK'
  BY <1>1, <1>6, <1>7 DEF BeginWrite, TypeOK, Cells
<1>9. WriterInv'
  BY <1>4, <1>6, <1>7 DEF BeginWrite, WriterInv
<1>10. ReaderInv'
  BY <1>1, <1>7 DEF BeginWrite, ReaderInv, wrapIdx
<1> QED BY <1>8, <1>9, <1>10 DEF RingInv

LEMMA CopyInPreserves ==
    ASSUME RingInv, CopyIn
    PROVE  RingInv'
<1>1. TypeOK /\ WriterInv /\ ReaderInv
  BY DEF RingInv
<1>2. /\ Used \in Nat /\ capacity \in Nat /\ writeIdx \in Nat /\ readIdx \in Nat
      /\ copiedIn \in Nat /\ Len(span) \in Nat /\ copiedIn < Len(span)
      /\ wanted \in Nat /\ Len(copyOut) \in Nat
      /\ Used + Len(span) <= capacity
  BY <1>1, UsedType, Widths DEF TypeOK, WriterInv, CopyIn
<1> DEFINE cell == wrapIdx(writeIdx + copiedIn)
<1>3. cell \in Cells
  BY <1>1, <1>2, WrapType
<1>4. span[copiedIn + 1] \in Values
  BY <1>1, <1>2 DEF TypeOK
<1>5. /\ buff' \in [Cells -> Values]
      /\ buff'[cell] = span[copiedIn + 1]
      /\ \A i \in Cells : i # cell => buff'[i] = buff[i]
  BY <1>1, <1>3, <1>4 DEF CopyIn, TypeOK
<1>6. Used' = Used
  BY DEF CopyIn, Used
<1>7. \A i \in Int : wrapIdx(i)' = wrapIdx(i)
  BY DEF CopyIn, wrapIdx
<1>8. TypeOK'
  BY <1>1, <1>2, <1>5 DEF CopyIn, TypeOK, Cells
<1>9. WriterInv'
  <2>1. ASSUME NEW j \in 1..(copiedIn + 1)
        PROVE  buff'[wrapIdx(writeIdx + j - 1)] = span[j]
    <3>1. CASE j = copiedIn + 1
      BY <3>1, <1>2, <1>5, writeIdx + j - 1 = writeIdx + copiedIn
    <3>2. CASE j \in 1..copiedIn
      <4>1. wrapIdx(writeIdx + copiedIn) # wrapIdx(writeIdx + j - 1)
        BY <1>1, <1>2, <3>2, CellsDistinct
      <4>2. wrapIdx(writeIdx + j - 1) \in Cells
        BY <1>1, <1>2, <3>2, WrapType
      <4>3. buff'[wrapIdx(writeIdx + j - 1)] = buff[wrapIdx(writeIdx + j - 1)]
        BY <4>1, <4>2, <1>5
      <4> QED BY <4>3, <3>2, <1>1 DEF WriterInv
    <3> QED BY <3>1, <3>2, <1>2
  <2>2. copiedIn' = copiedIn + 1 /\ span' = span /\ writeIdx' = writeIdx /\ writing'
    BY DEF CopyIn
  <2>3. \A j \in 1..copiedIn' : buff'[wrapIdx(writeIdx + j - 1)'] = span'[j]
    BY <2>1, <2>2, <1>2, <1>7
  <2>4. (Used + Len(span) <= capacity)'
    BY <1>2, <1>6, <2>2 DEF CopyIn
  <2> QED BY <2>2, <2>3, <2>4 DEF WriterInv
<1>10. ReaderInv'
  <2>1. ASSUME NEW j \in 1..Len(copyOut)
        PROVE  buff'[wrapIdx(readIdx + j - 1)] = buff[wrapIdx(readIdx + j - 1)]
    <3>1. Len(copyOut) <= Used
      BY <1>1, <1>2 DEF ReaderInv
    <3>0. copiedIn \in Int
      BY <1>2
    <3>2. wrapIdx(writeIdx + copiedIn) = wrapIdx(readIdx + Used + copiedIn)
      BY <1>1, <3>0, WriteCellsFollow, ZenonT(60)
    <3>3. wrapIdx(readIdx + Used + copiedIn) # wrapIdx(readIdx + j - 1)
      BY <1>1, <1>2, <3>1, CellsDistinct
    <3>4. wrapIdx(readIdx + j - 1) \in Cells
      BY <1>1, <1>2, WrapType
    <3> QED BY <3>2, <3>3, <3>4, <1>5
  <2>2. /\ copyOut' = copyOut /\ wanted' = wanted /\ reading' = reading
        /\ readIdx' = readIdx
    BY DEF CopyIn
  <2>3. \A j \in 1..Len(copyOut') : copyOut'[j] = buff'[wrapIdx(readIdx + j - 1)']
    BY <2>1, <2>2, <1>1, <1>2, <1>7 DEF ReaderInv
  <2> QED BY <2>2, <2>3, <1>1, <1>6 DEF ReaderInv
<1> QED BY <1>8, <1>9, <1>10 DEF RingInv

\* After endWrite the elements in the ring are the old ones and the span.
LEMMA EndWriteMoves ==
    ASSUME RingInv, EndWrite
    PROVE  /\ Used' = Used + Len(span)
           /\ writeIdx' \in 0..(IndexModulus - 1)
<1>1. TypeOK /\ WriterInv
  BY DEF RingInv
<1>2. /\ IndexModulus \in Nat \ {0} /\ writeIdx \in Int /\ readIdx \in Int
      /\ Len(span) \in Nat /\ capacity < IndexModulus
  BY <1>1, Widths DEF TypeOK
<1> DEFINE n == Len(span)
<1>3. ((writeIdx - readIdx) % IndexModulus) + n < IndexModulus
  BY <1>1, <1>2, UsedType, Widths DEF WriterInv, Used
<1>4. n \in Nat
  BY <1>2
<1> HIDE DEF n
<1>5. (((writeIdx + n) % IndexModulus) - readIdx) % IndexModulus
        = ((writeIdx - readIdx) % IndexModulus) + n
  BY <1>2, <1>3, <1>4, WriteAdvances, ZenonT(60)
<1>6. writeIdx' = (writeIdx + n) % IndexModulus /\ readIdx' = readIdx
  BY DEF EndWrite, n
<1>7. writeIdx + n \in Int
  BY <1>2, <1>4
<1>8. writeIdx' \in 0..(IndexModulus - 1)
  <2> DEFINE x == writeIdx + n
  <2> HIDE DEF x
  <2>1. x \in Int
    BY <1>7 DEF x
  <2>2. x % IndexModulus \in 0..(IndexModulus - 1)
    BY <2>1, <1>2, DivMod
  <2> QED BY <2>2, <1>6 DEF x
<1>9. Used' = Used + n
  BY <1>5, <1>6 DEF Used
<1> QED BY <1>8, <1>9 DEF n

LEMMA EndWritePreserves ==
    ASSUME RingInv, EndWrite
    PROVE  RingInv'
<1>1. TypeOK /\ WriterInv /\ ReaderInv
  BY DEF RingInv
<1>2. /\ Used \in Nat /\ capacity \in Nat /\ Len(span) \in Nat
      /\ wanted \in Nat /\ Used + Len(span) <= capacity
  BY <1>1, UsedType, Widths DEF TypeOK, WriterInv
<1>3. span' = << >> /\ copiedIn' = 0 /\ Len(span') = 0 /\ span' \in Seq(Values)
  BY DEF EndWrite
<1>4. TypeOK'
  <2>1. writing' \in BOOLEAN
    BY DEF EndWrite
  <2>2. copiedIn' \in 0..Len(span')
    BY <1>3
  <2> QED BY <2>1, <2>2, <1>1, <1>3, EndWriteMoves DEF EndWrite, TypeOK, Cells
<1>5. WriterInv'
  <2>1. (Used + Len(span) <= capacity)'
    <3>1. capacity' = capacity
      BY DEF EndWrite
    <3>2. Used' + Len(span') = Used + Len(span)
      BY <1>2, <1>3, EndWriteMoves
    <3> QED BY <3>1, <3>2, <1>2
  <2> QED BY <2>1, <1>3 DEF EndWrite, WriterInv
<1>6. ReaderInv'
  <2>1. wanted' <= Used'
    <3>1. wanted' = wanted /\ wanted <= Used
      BY <1>1 DEF EndWrite, ReaderInv
    <3> QED BY <3>1, <1>2, EndWriteMoves
  <2> QED BY <2>1, <1>1 DEF EndWrite, ReaderInv, wrapIdx
<1> QED BY <1>4, <1>5, <1>6 DEF RingInv

LEMMA BeginReadPreserves ==
    ASSUME RingInv, NEW n \in 0..MaxTransfer, BeginRead(n)
    PROVE  RingInv'
<1>1. TypeOK /\ WriterInv /\ ReaderInv
  BY DEF RingInv
<1>2. /\ Used \in Nat /\ size = Used /\ Len(span) \in Nat /\ n \in Nat
      /\ capacity \in Nat
  <2>1. Used \in Nat /\ Len(span) \in Nat /\ capacity \in Nat
    BY <1>1, UsedType, Widths DEF TypeOK
  <2>2. Used <= capacity
    BY <1>1, <2>1 DEF WriterInv
  <2> QED BY <1>1, <2>1, <2>2, SizeIsUsed, RingAssumption
<1>3. wanted' \in Nat /\ wanted' <= Used /\ copyOut' = << >> /\ Len(copyOut') = 0
  BY <1>2 DEF BeginRead, min
<1>4. Used' = Used
  BY DEF BeginRead, Used
<1>5. TypeOK'
  <2>1. << >> \in Seq(Values) /\ TRUE \in BOOLEAN
    OBVIOUS
  <2> QED BY <2>1, <1>1, <1>3 DEF BeginRead, TypeOK, Cells
<1>6. WriterInv'
  BY <1>1, <1>4 DEF BeginRead, WriterInv, wrapIdx
<1>7. ReaderInv'
  BY <1>3, <1>4 DEF BeginRead, ReaderInv
<1> QED BY <1>5, <1>6, <1>7 DEF RingInv

LEMMA CopyOutPreserves ==
    ASSUME RingInv, CopyOut
    PROVE  RingInv'
<1>1. TypeOK /\ WriterInv /\ ReaderInv
  BY DEF RingInv
<1>2. copyOut \in Seq(Values) /\ Len(copyOut) \in Nat /\ wanted \in Nat /\ readIdx \in Nat
  BY <1>1, Widths DEF TypeOK
<1> DEFINE e == buff[wrapIdx(readIdx + Len(copyOut))]
<1>3. e \in Values
  <2>1. wrapIdx(readIdx + Len(copyOut)) \in Cells
    BY <1>1, <1>2, WrapType
  <2> QED BY <2>1, <1>1 DEF TypeOK
<1>4. copyOut' = Append(copyOut, e) /\ Len(copyOut) < wanted
  BY DEF CopyOut
<1>5. readIdx + Len(copyOut) = readIdx + (Len(copyOut) + 1) - 1
  BY <1>2
<1>6. e = buff[wrapIdx(readIdx + (Len(copyOut) + 1) - 1)]
  BY <1>5
<1> HIDE DEF e
<1>7. /\ copyOut' \in Seq(Values) /\ Len(copyOut') = Len(copyOut) + 1
      /\ \A j \in 1..Len(copyOut) : copyOut'[j] = copyOut[j]
      /\ copyOut'[Len(copyOut) + 1] = e
  BY <1>2, <1>3, <1>4
<1>8. Used' = Used
  BY DEF CopyOut, Used
<1>9. TypeOK'
  BY <1>1, <1>7 DEF CopyOut, TypeOK, Cells
<1>10. WriterInv'
  BY <1>1, <1>8 DEF CopyOut, WriterInv, wrapIdx
<1>11. ReaderInv'
  <2>1. ASSUME NEW j \in 1..Len(copyOut')
        PROVE  copyOut'[j] = buff[wrapIdx(readIdx + j - 1)]
    <3>1. CASE j = Len(copyOut) + 1
      BY <3>1, <1>6, <1>7
    <3>2. CASE j \in 1..Len(copyOut)
      BY <3>2, <1>1, <1>7 DEF ReaderInv
    <3> QED BY <3>1, <3>2, <1>2, <1>7
  <2>2. Len(copyOut') <= wanted
    BY <1>2, <1>4, <1>7
  <2>3. /\ wanted' = wanted /\ reading' = reading /\ reading = TRUE
        /\ \A j \in Int : (buff[wrapIdx(readIdx + j - 1)])' = buff[wrapIdx(readIdx + j - 1)]
    BY <1>1 DEF CopyOut, TypeOK, wrapIdx
  <2> QED BY <2>1, <2>2, <2>3, <1>1, <1>8 DEF ReaderInv
<1> QED BY <1>9, <1>10, <1>11 DEF RingInv

\* After endRead the reader's span is gone from the front of the ring.
LEMMA EndReadMoves ==
    ASSUME RingInv, EndRead
    PROVE  /\ Used' = Used - wanted
           /\ readIdx' \in 0..(IndexModulus - 1)
<1>1. TypeOK /\ ReaderInv
  BY DEF RingInv
<1>2. /\ IndexModulus \in Nat \ {0} /\ writeIdx \in Int /\ readIdx \in Int
      /\ wanted \in Nat
  BY <1>1, Widths DEF TypeOK
<1>3. wanted <= (writeIdx - readIdx) % IndexModulus
  BY <1>1 DEF ReaderInv, Used
<1>4. (writeIdx - ((readIdx + wanted) % IndexModulus)) % IndexModulus
        = ((writeIdx - readIdx) % IndexModulus) - wanted
  BY <1>2, <1>3, ReadAdvances, ZenonT(60)
<1>5. readIdx' = (readIdx + wanted) % IndexModulus /\ writeIdx' = writeIdx
  BY DEF EndRead
<1>6. readIdx' \in 0..(IndexModulus - 1)
  <2> DEFINE x == readIdx + wanted
  <2>1. x \in Int
    BY <1>2
  <2> HIDE DEF x
  <2>2. x % IndexModulus \in 0..(IndexModulus - 1)
    BY <2>1, <1>2, DivMod
  <2> QED BY <2>2, <1>5 DEF x
<1>7. Used' = Used - wanted
  BY <1>4, <1>5 DEF Used
<1> QED BY <1>6, <1>7

LEMMA EndReadPreserves ==
    ASSUME RingInv, EndRead
    PROVE  RingInv'
<1>1. TypeOK /\ WriterInv /\ ReaderInv
  BY DEF RingInv
<1>2. /\ Used \in Nat /\ capacity \in Nat /\ Len(span) \in Nat
      /\ wanted \in Nat /\ Used + Len(span) <= capacity
      /\ wanted <= Used
  BY <1>1, UsedType, Widths DEF TypeOK, WriterInv, ReaderInv
<1>3. /\ copyOut' = << >> /\ Len(copyOut') = 0 /\ copyOut' \in Seq(Values)
      /\ wanted' = 0 /\ wanted' \in Nat
  BY DEF EndRead
<1>4. TypeOK'
  <2>1. reading' \in BOOLEAN
    BY DEF EndRead
  <2> QED BY <2>1, <1>1, <1>3, EndReadMoves DEF EndRead, TypeOK, Cells
<1>5. WriterInv'
  <2>1. (Used + Len(span) <= capacity)'
    <3>1. capacity' = capacity /\ span' = span
      BY DEF EndRead
    <3> QED BY <3>1, <1>2, EndReadMoves
  <2> QED BY <2>1, <1>1 DEF EndRead, WriterInv, wrapIdx
<1>6. ReaderInv'
  <2>1. Used' >= 0
    BY <1>2, EndReadMoves
  <2>2. Used' \in Int
    BY <1>2, EndReadMoves
  <2> QED BY <2>1, <2>2, <1>3 DEF ReaderInv
<1> QED BY <1>4, <1>5, <1>6 DEF RingInv

LEMMA ClearPreserves ==
    ASSUME RingInv, Clear
    PROVE  RingInv'
<1>1. TypeOK /\ WriterInv /\ ReaderInv
  BY DEF RingInv
<1>2. 0 \in 0..(IndexModulus - 1) /\ capacity \in Nat
  BY <1>1, Widths
<1>3. /\ span = << >> /\ copiedIn = 0 /\ wanted = 0 /\ copyOut = << >>
      /\ Len(span) = 0 /\ Len(copyOut) = 0
  BY <1>1 DEF Clear, WriterInv, ReaderInv
<1>4. TypeOK'
  BY <1>1, <1>2 DEF Clear, clear, TypeOK, Cells
<1>5. Used' = 0
  <2>1. 0 % IndexModulus = 0
    BY <1>1, <1>2, Widths, ModSmall
  <2>2. writeIdx' - readIdx' = 0
    BY DEF Clear, clear
  <2> QED BY <2>1, <2>2 DEF Used
<1>6. /\ span' = span /\ copiedIn' = copiedIn /\ wanted' = wanted /\ copyOut' = copyOut
      /\ capacity' = capacity /\ reading' = reading /\ writing' = writing
  BY DEF Clear
<1>7. WriterInv'
  BY <1>2, <1>3, <1>5, <1>6 DEF WriterInv
<1>8. ReaderInv'
  BY <1>3, <1>5, <1>6 DEF ReaderInv
<1> QED BY <1>4, <1>7, <1>8 DEF RingInv

LEMMA SetMinCapacityPreserves ==
    ASSUME RingInv, NEW n \in Capacities, SetMinCapacity(n)
    PROVE  RingInv'
<1>1. TypeOK /\ WriterInv /\ ReaderInv
  BY DEF RingInv
<1>2. /\ Used \in Nat /\ Used <= capacity
      /\ span = << >> /\ copiedIn = 0 /\ wanted = 0 /\ copyOut = << >>
      /\ Len(span) = 0 /\ Len(copyOut) = 0
  BY <1>1, UsedType, Widths DEF SetMinCapacity, WriterInv, ReaderInv
<1>3. size = Used
  BY <1>1, <1>2, SizeIsUsed
<1>4. /\ capacity' = n /\ n \in Nat /\ 0 \in 0..(IndexModulus - 1) /\ Zero \in Values
      /\ UNCHANGED <<writing, span, copiedIn, reading, wanted, copyOut, taken>>
  BY <1>1, Widths, RingAssumption DEF SetMinCapacity, setMinCapacity
\* The indexes are kept and their elements fit, or both are reset.
<1>5. \/ writeIdx' = writeIdx /\ readIdx' = readIdx /\ Used <= n
      \/ writeIdx' = 0 /\ readIdx' = 0
  BY <1>2, <1>3, <1>4 DEF SetMinCapacity, setMinCapacity, clear
<1>6. Used' \in Nat /\ Used' <= n
  <2>1. CASE writeIdx' = writeIdx /\ readIdx' = readIdx /\ Used <= n
    BY <2>1, <1>2 DEF Used
  <2>2. CASE writeIdx' = 0 /\ readIdx' = 0
    <3>1. 0 % IndexModulus = 0
      BY <1>1, <1>4, Widths, ModSmall
    <3>2. Used' = 0
      BY <2>2, <3>1 DEF Used
    <3> QED BY <3>2, <1>4
  <2> QED BY <1>5, <2>1, <2>2
<1>7. buff' \in [0..(n - 1) -> Values]
  <2>1. CASE n = capacity /\ UNCHANGED buff
    BY <2>1, <1>1 DEF TypeOK, Cells
  <2>2. CASE n > size /\ buff' = [i \in 0..(n - 1) |-> IF i < size THEN buff[i] ELSE Zero]
    <3>1. ASSUME NEW i \in 0..(n - 1), i < size
          PROVE  buff[i] \in Values
      <4>1. i \in Cells
        BY <1>1, <1>2, <1>3, <1>4, <3>1, Widths DEF Cells
      <4> QED BY <4>1, <1>1 DEF TypeOK
    <3> QED BY <2>2, <3>1, <1>4
  <2>3. CASE buff' = [i \in 0..(n - 1) |-> Zero]
    BY <2>3, <1>4
  <2> QED BY <2>1, <2>2, <2>3 DEF SetMinCapacity, setMinCapacity
<1>8. TypeOK'
  BY <1>1, <1>4, <1>5, <1>7 DEF TypeOK, Cells
<1>9. WriterInv'
  <2>1. span' = span
    BY <1>4
  <2>2. Len(span') = 0
    BY <2>1, <1>2
  <2>3. Used' + 0 <= n
    <3>1. \A u \in Nat : u <= n => u + 0 <= n
      BY <1>4
    <3> QED BY <3>1, <1>6, Zenon
  <2>4. capacity' = n
    BY <1>4
  <2>5. Used' + Len(span') <= capacity'
    BY <2>2, <2>3, <2>4
  <2> QED BY <2>5, <1>2, <1>4 DEF WriterInv
<1>10. ReaderInv'
  BY <1>2, <1>4, <1>6 DEF ReaderInv
<1> QED BY <1>8, <1>9, <1>10 DEF RingInv

LEMMA StutterPreserves ==
    ASSUME RingInv, UNCHANGED ringVars
    PROVE  RingInv'
BY DEF ringVars, RingInv, TypeOK, WriterInv, ReaderInv, Used, Cells, wrapIdx

\* RingInv is inductive, hence holds in every reachable state, resizing or not.
THEOREM RingInvariance == ResizeSpec => []RingInv
<1>1. ASSUME RingInv, [ResizeNext]_ringVars
      PROVE  RingInv'
  <2>1. CASE Next
    <3>1. CASE \E data \in Transfers : BeginWrite(data)
      BY <3>1, <1>1, BeginWritePreserves
    <3>2. CASE CopyIn
      BY <3>2, <1>1, CopyInPreserves
    <3>3. CASE EndWrite
      BY <3>3, <1>1, EndWritePreserves
    <3>4. CASE \E n \in 0..MaxTransfer : BeginRead(n)
      BY <3>4, <1>1, BeginReadPreserves
    <3>5. CASE CopyOut
      BY <3>5, <1>1, CopyOutPreserves
    <3>6. CASE EndRead
      BY <3>6, <1>1, EndReadPreserves
    <3>7. CASE Clear
      BY <3>7, <1>1, ClearPreserves
    <3> QED BY <2>1, <3>1, <3>2, <3>3, <3>4, <3>5, <3>6, <3>7 DEF Next
  <2>2. CASE \E n \in Capacities : SetMinCapacity(n)
    BY <2>2, <1>1, SetMinCapacityPreserves
  <2>3. CASE UNCHANGED ringVars
    BY <2>3, <1>1, StutterPreserves
  <2> QED BY <1>1, <2>1, <2>2, <2>3 DEF ResizeNext
<1> QED BY InitInv, <1>1, PTL DEF ResizeSpec

LEMMA SpecResizes == Spec => ResizeSpec
<1>1. [Next]_ringVars => [ResizeNext]_ringVars
  BY DEF ResizeNext
<1> QED BY <1>1, PTL DEF Spec, ResizeSpec

\* Indexes, copied counts and buffer cells keep their types, also when the
\* ring is resized between transfers.
THEOREM ResizedTypeCorrect == ResizeSpec => []TypeOK
<1>1. RingInv => TypeOK
  BY DEF RingInv
<1> QED BY RingInvariance, <1>1, PTL

\* Indexes, copied counts and buffer cells keep their types.
THEOREM RingTypeCorrect == Spec => []TypeOK
BY ResizedTypeCorrect, SpecResizes, PTL

\* What is read and what is being written never share a cell and both fit,
\* also when the ring is resized between transfers.
THEOREM ResizedSpansDisjoint == ResizeSpec => []SpansDisjoint
<1>1. RingInv => SpansDisjoint
  <2> SUFFICES ASSUME RingInv
               PROVE  SpansDisjoint
    OBVIOUS
  <2>1. TypeOK /\ WriterInv /\ ReaderInv
    BY DEF RingInv
  <2>2. /\ Used \in Nat /\ capacity \in Nat /\ Len(span) \in Nat /\ wanted \in Nat
        /\ readIdx \in Nat /\ Used + Len(span) <= capacity /\ wanted <= Used
    BY <2>1, UsedType, Widths DEF TypeOK, WriterInv, ReaderInv
  <2>3. size = Used
    BY <2>1, <2>2, SizeIsUsed
  <2>4. ASSUME NEW i \in 0..(wanted - 1), NEW j \in 0..(Len(span) - 1)
        PROVE  wrapIdx(readIdx + i) # wrapIdx(writeIdx + j)
    <3>1. j \in Int
      OBVIOUS
    <3>2. wrapIdx(writeIdx + j) = wrapIdx(readIdx + Used + j)
      BY <2>1, <3>1, WriteCellsFollow, ZenonT(60)
    <3>3. wrapIdx(readIdx + Used + j) # wrapIdx(readIdx + i)
      BY <2>1, <2>2, CellsDistinct
    <3> QED BY <3>2, <3>3
  <2>5. ReadCells \intersect WriteCells = {}
    BY <2>4 DEF ReadCells, WriteCells
  <2> QED BY <2>2, <2>3, <2>5 DEF SpansDisjoint
<1> QED BY RingInvariance, <1>1, PTL

\* What is read and what is being written never share a cell, and both fit.
THEOREM RingSpansDisjoint == Spec => []SpansDisjoint
BY ResizedSpansDisjoint, SpecResizes, PTL

-----------------------------------------------------------------------------
(* The ring implements the queue. *)

\* The elements in the ring as a sequence.
ContentIsUsed ==
    /\ content \in Seq(Values)
    /\ Len(content) = Used
    /\ \A i \in 1..Used : content[i] = buff[wrapIdx(readIdx + i - 1)]

LEMMA ContentLaw == RingInv => ContentIsUsed
<1> SUFFICES ASSUME RingInv
             PROVE  ContentIsUsed
  OBVIOUS
<1>1. TypeOK /\ WriterInv
  BY DEF RingInv
<1>2. Used \in Nat /\ Used <= capacity /\ readIdx \in Int
  BY <1>1, UsedType, Widths DEF TypeOK, WriterInv
<1>3. size = Used
  BY <1>1, <1>2, SizeIsUsed
<1>4. \A i \in 1..Used : buff[wrapIdx(readIdx + i - 1)] \in Values
  <2> SUFFICES ASSUME NEW i \in 1..Used
               PROVE  buff[wrapIdx(readIdx + i - 1)] \in Values
    OBVIOUS
  <2>1. wrapIdx(readIdx + i - 1) \in Cells
    BY <1>1, <1>2, WrapType
  <2> QED BY <2>1, <1>1 DEF TypeOK
<1>5. content = [i \in 1..Used |-> buff[wrapIdx(readIdx + i - 1)]]
  BY <1>3 DEF content
<1> QED BY <1>2, <1>4, <1>5 DEF ContentIsUsed

LEMMA ContentLawNext == RingInv' => ContentIsUsed'
BY ContentLaw, PTL

LEMMA InitQueue == Init => Queue!Init
<1> SUFFICES ASSUME Init
             PROVE  Queue!Init
  OBVIOUS
<1>1. RingInv
  BY InitInv
<1>2. Used = 0
  BY ModSmall, RingAssumption, writeIdx - readIdx = 0, 0 \in 0..(IndexModulus - 1)
     DEF Init, Used
<1>3. content = << >>
  BY <1>1, <1>2, ContentLaw, EmptySeq DEF ContentIsUsed
<1> QED BY <1>3, RingAssumption DEF Queue!Init, Init

\* Steps that move no index leave the content alone.
LEMMA ContentKept ==
    ASSUME RingInv, RingInv', UNCHANGED <<capacity, writeIdx, readIdx>>,
           \A i \in 1..Used : buff'[wrapIdx(readIdx + i - 1)] = buff[wrapIdx(readIdx + i - 1)]
    PROVE  content' = content
<1>1. ContentIsUsed /\ ContentIsUsed'
  BY ContentLaw, ContentLawNext
<1>2. Used' = Used
  BY DEF Used
<1>3. \A i \in Int : wrapIdx(readIdx + i - 1)' = wrapIdx(readIdx + i - 1)
  BY DEF wrapIdx
<1>4. /\ content \in Seq(Values) /\ content' \in Seq(Values)
      /\ Len(content) = Len(content') /\ Len(content) = Used
  BY <1>1, <1>2 DEF ContentIsUsed
<1>5. \A i \in 1..Len(content) : content[i] = content'[i]
  BY <1>1, <1>2, <1>3, <1>4 DEF ContentIsUsed
<1> QED BY <1>4, <1>5, SeqEqual

LEMMA BeginWriteOffers ==
    ASSUME RingInv, RingInv', NEW data \in Transfers, BeginWrite(data)
    PROVE  Queue!Offer
<1>1. content' = content
  BY ContentKept DEF BeginWrite
<1>2. span = << >> /\ span' \in Seq(Values)
  BY DEF BeginWrite, RingInv, WriterInv, TypeOK
<1> QED BY <1>1, <1>2 DEF Queue!Offer, BeginWrite

\* The cell being written holds no element of the ring.
LEMMA CopyInStutters ==
    ASSUME RingInv, RingInv', CopyIn
    PROVE  UNCHANGED <<capacity, content, span, taken>>
<1>1. TypeOK /\ WriterInv
  BY DEF RingInv
<1>2. /\ Used \in Nat /\ capacity \in Nat /\ writeIdx \in Nat /\ readIdx \in Nat
      /\ copiedIn \in Nat /\ Len(span) \in Nat /\ copiedIn < Len(span)
      /\ Used + Len(span) <= capacity
  BY <1>1, UsedType, Widths DEF TypeOK, WriterInv, CopyIn
<1>3. ASSUME NEW i \in 1..Used
      PROVE  buff'[wrapIdx(readIdx + i - 1)] = buff[wrapIdx(readIdx + i - 1)]
  <2>1. copiedIn \in Int
    BY <1>2
  <2>2. wrapIdx(writeIdx + copiedIn) = wrapIdx(readIdx + Used + copiedIn)
    BY <1>1, <2>1, WriteCellsFollow, ZenonT(60)
  <2>3. wrapIdx(readIdx + Used + copiedIn) # wrapIdx(readIdx + i - 1)
    BY <1>1, <1>2, CellsDistinct
  <2>4. wrapIdx(readIdx + i - 1) \in Cells
    BY <1>1, <1>2, WrapType
  <2> QED BY <2>2, <2>3, <2>4, <1>1 DEF CopyIn, TypeOK
<1>4. content' = content
  BY <1>3, ContentKept DEF CopyIn
<1> QED BY <1>4 DEF CopyIn

LEMMA EndWritePuts ==
    ASSUME RingInv, RingInv', EndWrite
    PROVE  Queue!Put
<1>1. TypeOK /\ WriterInv
  BY DEF RingInv
<1>2. ContentIsUsed /\ ContentIsUsed'
  BY ContentLaw, ContentLawNext
<1>3. /\ Used \in Nat /\ capacity \in Nat /\ Len(span) \in Nat
      /\ span \in Seq(Values) /\ readIdx \in Nat /\ writeIdx \in Nat
      /\ Used + Len(span) <= capacity
  BY <1>1, UsedType, Widths DEF TypeOK, WriterInv
<1>4. /\ content \in Seq(Values) /\ Len(content) = Used
      /\ content' \in Seq(Values) /\ Len(content') = Used + Len(span)
  BY <1>2, EndWriteMoves DEF ContentIsUsed
<1> DEFINE joined == content \o span
<1>5. /\ joined \in Seq(Values) /\ Len(joined) = Used + Len(span)
      /\ \A i \in 1..(Used + Len(span)) :
            joined[i] = IF i <= Used THEN content[i] ELSE span[i - Used]
  BY <1>3, <1>4, ConcatProperties
<1> HIDE DEF joined
<1>6. ASSUME NEW i \in 1..(Used + Len(span))
      PROVE  content'[i] = joined[i]
  <2>1. content'[i] = buff[wrapIdx(readIdx + i - 1)]
    <3>1. i \in 1..Used'
      BY EndWriteMoves
    <3>2. content'[i] = buff'[wrapIdx(readIdx + i - 1)']
      BY <3>1, <1>2 DEF ContentIsUsed
    <3>3. wrapIdx(readIdx + i - 1)' = wrapIdx(readIdx + i - 1) /\ buff' = buff
      BY DEF EndWrite, wrapIdx
    <3> QED BY <3>2, <3>3
  <2>2. CASE i \in 1..Used
    BY <2>1, <2>2, <1>2, <1>5 DEF ContentIsUsed
  <2>3. CASE i \in (Used + 1)..(Used + Len(span))
    <3> DEFINE j == i - Used
    <3>1. j \in 1..Len(span) /\ j - 1 \in Int /\ i \in Int
      BY <2>3, <1>3
    <3>2. wrapIdx(writeIdx + (j - 1)) = wrapIdx(readIdx + Used + (j - 1))
      <4> HIDE DEF j
      <4> QED BY <3>1, <1>1, WriteCellsFollow, ZenonT(60)
    <3>3. writeIdx + (j - 1) = writeIdx + j - 1 /\ readIdx + Used + (j - 1) = readIdx + i - 1
      BY <3>1, <1>3
    <3>4. copiedIn = Len(span)
      BY DEF EndWrite
    <3>5. buff[wrapIdx(writeIdx + j - 1)] = span[j]
      BY <3>1, <3>4, <1>1 DEF WriterInv
    <3>6. joined[i] = span[j]
      BY <2>3, <1>3, <1>5
    <3> QED BY <2>1, <3>2, <3>3, <3>5, <3>6
  <2> QED BY <2>2, <2>3, <1>3
<1>7. content' = joined
  BY <1>4, <1>5, <1>6, SeqEqual
<1>8. span' = << >> /\ capacity' = capacity /\ taken' = taken
  BY DEF EndWrite
<1> QED BY <1>3, <1>4, <1>7, <1>8 DEF Queue!Put, joined

LEMMA EndReadGets ==
    ASSUME RingInv, RingInv', EndRead
    PROVE  Queue!Get
<1>1. TypeOK /\ ReaderInv
  BY DEF RingInv
<1>2. ContentIsUsed /\ ContentIsUsed'
  BY ContentLaw, ContentLawNext
<1>3. /\ Used \in Nat /\ capacity \in Nat \ {0} /\ wanted \in Nat /\ readIdx \in Nat
      /\ copyOut \in Seq(Values) /\ wanted <= Used /\ Len(copyOut) = wanted
      /\ IndexModulus \in Nat \ {0} /\ IndexModulus % capacity = 0
  BY <1>1, UsedType, Widths DEF TypeOK, ReaderInv, EndRead
<1>4. /\ content \in Seq(Values) /\ Len(content) = Used
      /\ content' \in Seq(Values) /\ Len(content') = Used - wanted
      /\ \A i \in 1..Used : content[i] = buff[wrapIdx(readIdx + i - 1)]
      /\ \A i \in 1..Used : content[i] \in Values
  BY <1>2, EndReadMoves DEF ContentIsUsed
<1> DEFINE front == SubSeq(content, 1, wanted)
           rest  == SubSeq(content, wanted + 1, Len(content))
<1>5. /\ front \in Seq(Values) /\ Len(front) = wanted
      /\ \A i \in 1..wanted : front[i] = content[i]
  <2>1. 1 \in Int /\ wanted \in Int /\ \A i \in 1..wanted : content[i] \in Values
    BY <1>3, <1>4
  <2>2. /\ front \in Seq(Values)
        /\ Len(front) = IF 1 <= wanted THEN wanted - 1 + 1 ELSE 0
        /\ \A i \in 1..(wanted - 1 + 1) : front[i] = content[1 + i - 1]
    BY <2>1, SubSeqProperties
  <2> HIDE DEF front
  <2> QED BY <2>2, <1>3
<1>6. /\ rest \in Seq(Values) /\ Len(rest) = Used - wanted
      /\ \A i \in 1..(Used - wanted) : rest[i] = content[wanted + i]
  <2>1. /\ wanted + 1 \in Int /\ Len(content) \in Int
        /\ \A i \in (wanted + 1)..Len(content) : content[i] \in Values
    BY <1>3, <1>4
  <2>2. /\ rest \in Seq(Values)
        /\ Len(rest) = IF wanted + 1 <= Len(content) THEN Len(content) - (wanted + 1) + 1
                                                     ELSE 0
        /\ \A i \in 1..(Len(content) - (wanted + 1) + 1) :
              rest[i] = content[(wanted + 1) + i - 1]
    BY <2>1, SubSeqProperties
  <2> HIDE DEF rest
  <2>3. Len(rest) = Used - wanted
    BY <2>2, <1>3, <1>4
  <2>4. ASSUME NEW i \in 1..(Used - wanted)
        PROVE  rest[i] = content[wanted + i]
    <3>1. i \in 1..(Len(content) - (wanted + 1) + 1) /\ (wanted + 1) + i - 1 = wanted + i
      BY <1>3, <1>4
    <3> QED BY <3>1, <2>2
  <2> QED BY <2>2, <2>3, <2>4
<1> HIDE DEF front, rest
<1>7. copyOut = front
  <2>1. \A i \in 1..wanted : copyOut[i] = buff[wrapIdx(readIdx + i - 1)]
    BY <1>1, <1>3 DEF ReaderInv
  <2>2. ASSUME NEW i \in 1..wanted
        PROVE  copyOut[i] = front[i]
    <3>1. i \in 1..Used
      BY <1>3
    <3>2. content[i] = buff[wrapIdx(readIdx + i - 1)]
      BY <3>1, <1>4
    <3> QED BY <3>2, <2>1, <1>5
  <2> QED BY <2>2, <1>3, <1>5, SeqEqual
<1>8. ASSUME NEW i \in 1..(Used - wanted)
      PROVE  content'[i] = rest[i]
  <2> DEFINE x == readIdx + wanted
             y == i - 1
  <2>1. x \in Int /\ y \in Int
    BY <1>3
  <2>2. i \in 1..Used'
    BY EndReadMoves
  <2>3. content'[i] = buff'[wrapIdx(readIdx + i - 1)']
    BY <2>2, <1>2 DEF ContentIsUsed
  <2>4. buff' = buff /\ capacity' = capacity /\ readIdx' = x % IndexModulus
    BY DEF EndRead
  <2> HIDE DEF x, y
  <2>5. ((x % IndexModulus) + y) % capacity = (x + y) % capacity
    BY <2>1, <1>3, ModMod, ZenonT(60)
  <2>6. (x % IndexModulus) \in Int
    BY <2>1, <1>3, DivMod
  <2>7. readIdx' + i - 1 = (x % IndexModulus) + y
    BY <2>4, <2>6 DEF y
  <2>8. x + y = readIdx + (wanted + i) - 1
    BY <1>3 DEF x, y
  <2>9. wrapIdx(readIdx + i - 1)' = wrapIdx(readIdx + (wanted + i) - 1)
    BY <2>4, <2>5, <2>7, <2>8 DEF wrapIdx
  <2>10. wanted + i \in 1..Used
    BY <1>3
  <2> QED BY <2>3, <2>4, <2>9, <2>10, <1>4, <1>6
<1>9. content' = rest
  BY <1>3, <1>4, <1>6, <1>8, SeqEqual
<1>10. taken' = front /\ capacity' = capacity /\ span' = span
  BY <1>7 DEF EndRead
<1>11. wanted \in 0..Len(content)
  BY <1>3, <1>4
<1> QED BY <1>9, <1>10, <1>11 DEF Queue!Get, front, rest

LEMMA ClearClears ==
    ASSUME RingInv, RingInv', Clear
    PROVE  Queue!Clear
<1>1. TypeOK /\ WriterInv
  BY DEF RingInv
<1>2. span = << >>
  BY <1>1 DEF WriterInv, Clear
<1>3. Used' = 0
  <2>1. 0 % IndexModulus = 0
    BY <1>1, Widths, ModSmall
  <2> QED BY <2>1, writeIdx' - readIdx' = 0 DEF Clear, clear, Used
<1>4. content' = << >>
  BY <1>3, ContentLawNext, EmptySeq DEF ContentIsUsed
<1> QED BY <1>2, <1>4 DEF Queue!Clear, Clear

\* The ring implements a queue of bounded length: what the reader takes is
\* what the writer put, in order, once.
THEOREM RingImplementsQueue == Spec => ImplementsQueue
<1>1. ASSUME RingInv, RingInv', [Next]_ringVars
      PROVE  [Queue!Next]_Queue!queueVars
  <2>1. CASE Next
    <3>1. CASE \E data \in Transfers : BeginWrite(data)
      BY <3>1, <1>1, BeginWriteOffers DEF Queue!Next
    <3>2. CASE CopyIn
      BY <3>2, <1>1, CopyInStutters DEF Queue!queueVars
    <3>3. CASE EndWrite
      BY <3>3, <1>1, EndWritePuts DEF Queue!Next
    <3>4. CASE \E n \in 0..MaxTransfer : BeginRead(n)
      BY <3>4, <1>1, ContentKept DEF BeginRead, Queue!queueVars
    <3>5. CASE CopyOut
      BY <3>5, <1>1, ContentKept DEF CopyOut, Queue!queueVars
    <3>6. CASE EndRead
      BY <3>6, <1>1, EndReadGets DEF Queue!Next
    <3>7. CASE Clear
      BY <3>7, <1>1, ClearClears DEF Queue!Next
    <3> QED BY <2>1, <3>1, <3>2, <3>3, <3>4, <3>5, <3>6, <3>7 DEF Next
  <2>2. CASE UNCHANGED ringVars
    BY <2>2, <1>1, ContentKept DEF ringVars, Queue!queueVars
  <2> QED BY <1>1, <2>1, <2>2
<1> QED BY RingInvariance, SpecResizes, InitQueue, <1>1, PTL DEF Spec, ImplementsQueue, Queue!Spec
=============================================================================
