---------------------------- MODULE MessagesProofs ----------------------------
(***************************************************************************)
(* The mailbox, the message queue and the data queue implement the         *)
(* abstract channel, the ring buffer the abstract stream, no slot of the   *)
(* message queue is lost or in two places, and the serial driver passes on *)
(* exactly what it was given, for every size of the buffers and every      *)
(* number of threads.                                                      *)
(***************************************************************************)
EXTENDS Messages, KernelProofs

\* What % does within one turn of a ring of size S
LEMMA Turn ==
    ASSUME NEW S \in Nat \ {0}, NEW a \in Int, -S <= a, a < 2 * S
    PROVE  a % S = IF a < 0 THEN a + S ELSE IF a < S THEN a ELSE a - S
<1>1. CASE a < 0
  BY <1>1
<1>2. CASE 0 <= a /\ a < S
  BY <1>2
<1>3. CASE S <= a
  BY <1>3
<1> QED
  BY <1>1, <1>2, <1>3

\* Two places less than S apart are different places of a ring of size S.
LEMMA ModDistinct ==
    ASSUME NEW S \in Nat \ {0}, NEW a \in Nat, NEW b \in Nat, a < b, b < a + S
    PROVE  a % S # b % S
<1>1. a = (a \div S) * S + (a % S) /\ b = (b \div S) * S + (b % S)
  OBVIOUS
<1>2. a \div S \in Int /\ b \div S \in Int /\ a % S \in Int /\ b % S \in Int
  OBVIOUS
<1>3. SUFFICES ASSUME a % S = b % S PROVE FALSE
  OBVIOUS
<1>4. PICK d \in Int : d = (b \div S) - (a \div S)
  BY <1>2
<1>5. b - a = d * S
  BY <1>1, <1>2, <1>3, <1>4
<1>6. \A e \in Int : e >= 1 => e * S >= S
  OBVIOUS
<1>7. \A e \in Int : e <= 0 => e * S <= 0
  OBVIOUS
<1> QED
  BY <1>4, <1>5, <1>6, <1>7

-----------------------------------------------------------------------------
(* The ring buffer *)

\* The place i cells behind place a of the ring
RbAt(a, i) == IF a + i < RbSize THEN a + i ELSE a + i - RbSize

\* How many cells place c is behind place a
RbDist(a, c) == IF a <= c THEN c - a ELSE c - a + RbSize

RbRecord == [rm : 0 .. 1, ri : Cells, wm : 0 .. 1, wi : Cells,
             cell : [Cells -> RbByte \cup {RbNone}]]

\* The mirrors tell an empty ring from a full one: in the same mirror the reader
\* is not ahead of the writer, in different ones not behind it.
RbGood(x) ==
    /\ x \in RbRecord
    /\ x.rm = x.wm => x.ri <= x.wi
    /\ x.rm # x.wm => x.wi <= x.ri

\* What the operators of RingBuffer say of the ring, of any ring.
RbLen(x) ==
    IF x.ri = x.wi THEN IF x.rm = x.wm THEN 0 ELSE RbSize
    ELSE IF x.wi > x.ri THEN x.wi - x.ri ELSE RbSize - (x.ri - x.wi)
RbOut(x, n) == [j \in 1 .. n |-> x.cell[(x.ri + j - 1) % RbSize]]
RbHeld(x) == RbOut(x, RbLen(x))
RbIn(x, d, n) ==
    [c \in Cells |-> LET j == ((c - x.wi) % RbSize) + 1 IN IF j <= n THEN d[j] ELSE x.cell[c]]

RbBut(x, n) == [c \in Cells |-> IF (c - x.ri) % RbSize < n THEN RbNone ELSE x.cell[c]]

LEMMA RbAtMod ==
    ASSUME NEW a \in Cells, NEW i \in 0 .. RbSize
    PROVE  (a + i) % RbSize = RbAt(a, i) /\ RbAt(a, i) \in Cells
<1>1. RbSize \in Nat \ {0} /\ a \in Int /\ a + i \in Int
  BY RingBufferAssumption DEF Cells
<1>2. -RbSize <= a + i /\ a + i < 2 * RbSize
  BY <1>1 DEF Cells
<1>3. (a + i) % RbSize = IF a + i < 0 THEN a + i + RbSize ELSE
                         IF a + i < RbSize THEN a + i ELSE a + i - RbSize
  <2>1. PICK e \in Int : e = a + i
    BY <1>1
  <2>2. e % RbSize = IF e < 0 THEN e + RbSize ELSE IF e < RbSize THEN e ELSE e - RbSize
    BY <1>1, <1>2, <2>1, Turn
  <2> QED
    BY <1>1, <2>1, <2>2
<1>4. a \in 0 .. RbSize - 1 /\ i \in 0 .. RbSize /\ ~(a + i < 0)
  BY <1>1 DEF Cells
<1>5. (a + i) % RbSize = RbAt(a, i)
  BY <1>3, <1>4 DEF RbAt
<1>6. RbAt(a, i) \in Cells
  BY <1>1, <1>4 DEF RbAt, Cells
<1> QED
  BY <1>5, <1>6

LEMMA RbDistMod ==
    ASSUME NEW a \in Cells, NEW c \in Cells
    PROVE  (c - a) % RbSize = RbDist(a, c) /\ RbDist(a, c) \in Cells
<1>1. RbSize \in Nat \ {0} /\ c - a \in Int
  BY RingBufferAssumption DEF Cells
<1>2. -RbSize <= c - a /\ c - a < RbSize /\ c - a < 2 * RbSize
  BY <1>1 DEF Cells
<1>3. (c - a) % RbSize = IF c - a < 0 THEN c - a + RbSize ELSE
                         IF c - a < RbSize THEN c - a ELSE c - a - RbSize
  BY <1>1, <1>2, Turn
<1> QED
  BY <1>1, <1>2, <1>3 DEF RbDist, Cells

\* Two places of the ring as seen from a third
LEMMA RbDistAt ==
    ASSUME NEW a \in Cells, NEW l \in 0 .. RbSize, NEW i \in 0 .. RbSize - 1
    PROVE  RbDist(RbAt(a, l), RbAt(a, i)) = IF i < l THEN i - l + RbSize ELSE i - l
<1>1. RbSize \in Nat \ {0}
  BY RingBufferAssumption
<1> QED
  BY <1>1 DEF RbDist, RbAt, Cells

\* The writer is RbLen cells ahead of the reader.
LEMMA RbLength ==
    ASSUME NEW x, RbGood(x)
    PROVE  /\ RbLen(x) \in 0 .. RbSize /\ RbLen(x) \in Nat /\ RbLen(x) <= RbSize
           /\ x.wi = RbAt(x.ri, RbLen(x))
           /\ x.ri \in Cells /\ x.wi \in Cells /\ x.rm \in 0 .. 1 /\ x.wm \in 0 .. 1
           /\ x.cell \in [Cells -> RbByte \cup {RbNone}]
<1>1. RbSize \in Nat \ {0}
  BY RingBufferAssumption
<1>2. /\ x.ri \in Cells /\ x.wi \in Cells /\ x.rm \in 0 .. 1 /\ x.wm \in 0 .. 1
      /\ x.cell \in [Cells -> RbByte \cup {RbNone}]
  BY DEF RbGood, RbRecord
<1>3. RbLen(x) \in 0 .. RbSize /\ x.wi = RbAt(x.ri, RbLen(x))
  BY <1>1, <1>2 DEF RbGood, RbLen, RbAt, Cells
<1> QED
  BY <1>1, <1>2, <1>3

\* What the ring holds as a sequence.
LEMMA RbOutSeq ==
    ASSUME NEW x, RbGood(x), NEW n \in 0 .. RbSize
    PROVE  /\ RbOut(x, n) \in Seq(RbByte \cup {RbNone}) /\ Len(RbOut(x, n)) = n
           /\ \A j \in 1 .. n : RbOut(x, n)[j] = x.cell[RbAt(x.ri, j - 1)]
<1>1. RbSize \in Nat \ {0} /\ n \in Nat /\ x.ri \in Cells
      /\ x.cell \in [Cells -> RbByte \cup {RbNone}]
  BY RingBufferAssumption, RbLength
<1>2. ASSUME NEW j \in 1 .. n
      PROVE  /\ x.cell[(x.ri + j - 1) % RbSize] = x.cell[RbAt(x.ri, j - 1)]
             /\ x.cell[(x.ri + j - 1) % RbSize] \in RbByte \cup {RbNone}
  <2>1. j - 1 \in 0 .. RbSize /\ x.ri + j - 1 = x.ri + (j - 1)
    BY <1>1 DEF Cells
  <2>2. (x.ri + (j - 1)) % RbSize = RbAt(x.ri, j - 1) /\ RbAt(x.ri, j - 1) \in Cells
    BY <1>1, <2>1, RbAtMod
  <2> QED
    BY <1>1, <2>1, <2>2
<1>3. RbOut(x, n) = [j \in 1 .. n |-> x.cell[(x.ri + j - 1) % RbSize]]
  BY DEF RbOut
<1>4. RbOut(x, n) \in [1 .. n -> RbByte \cup {RbNone}]
  BY <1>2, <1>3
<1>5. RbOut(x, n) \in Seq(RbByte \cup {RbNone}) /\ Len(RbOut(x, n)) = n
  BY <1>1, <1>4
<1>6. \A j \in 1 .. n : RbOut(x, n)[j] = x.cell[RbAt(x.ri, j - 1)]
  BY <1>2, <1>3
<1> QED
  BY <1>5, <1>6

LEMMA RbHeldSeq ==
    ASSUME NEW x, RbGood(x)
    PROVE  /\ RbHeld(x) \in Seq(RbByte \cup {RbNone}) /\ Len(RbHeld(x)) = RbLen(x)
           /\ \A j \in 1 .. RbLen(x) : RbHeld(x)[j] = x.cell[RbAt(x.ri, j - 1)]
BY RbLength, RbOutSeq DEF RbHeld

\* Copying n bytes in at the write index
LEMMA RbInSpec ==
    ASSUME NEW x, RbGood(x), NEW d, NEW n \in 0 .. RbSize, NEW c \in Cells
    PROVE  RbIn(x, d, n)[c] = IF RbDist(x.wi, c) < n THEN d[RbDist(x.wi, c) + 1] ELSE x.cell[c]
<1>1. x.wi \in Cells
  BY RbLength
<1>2. (c - x.wi) % RbSize = RbDist(x.wi, c) /\ RbDist(x.wi, c) \in Cells
  BY <1>1, RbDistMod
<1>3. RbIn(x, d, n)[c] = IF ((c - x.wi) % RbSize) + 1 <= n
                         THEN d[((c - x.wi) % RbSize) + 1] ELSE x.cell[c]
  BY DEF RbIn
<1>4. ((c - x.wi) % RbSize) + 1 <= n <=> RbDist(x.wi, c) < n
  BY <1>2, RingBufferAssumption DEF Cells
<1> QED
  BY <1>2, <1>3, <1>4

LEMMA RbInType ==
    ASSUME NEW x, RbGood(x), NEW d \in Seq(RbByte), NEW n \in 0 .. RbSize, n <= Len(d)
    PROVE  RbIn(x, d, n) \in [Cells -> RbByte \cup {RbNone}]
<1>1. /\ RbSize \in Nat \ {0} /\ x.wi \in Cells
      /\ x.cell \in [Cells -> RbByte \cup {RbNone}]
  BY RingBufferAssumption, RbLength
<1>2. ASSUME NEW c \in Cells
      PROVE  RbIn(x, d, n)[c] \in RbByte \cup {RbNone}
  <2>1. PICK i \in Cells : i = RbDist(x.wi, c)
    BY <1>1, RbDistMod
  <2>2. RbIn(x, d, n)[c] = IF i < n THEN d[i + 1] ELSE x.cell[c]
    BY <2>1, RbInSpec
  <2>3. i < n => i + 1 \in 1 .. Len(d)
    BY <1>1 DEF Cells
  <2> QED
    BY <1>1, <2>2, <2>3
<1>3. RbIn(x, d, n) = [c \in Cells |-> RbIn(x, d, n)[c]]
  BY DEF RbIn
<1> QED
  BY <1>2, <1>3

\* A put of n bytes that fit appends them.
LEMMA RbPutHolds ==
    ASSUME NEW x, RbGood(x), NEW y, NEW d \in Seq(RbByte), NEW n \in 1 .. RbSize,
           n <= Len(d), n <= RbSize - RbLen(x), y \in RbRecord,
           y.ri = x.ri, y.rm = x.rm, y.cell = RbIn(x, d, n),
           y.wi = Advance(x.wi, n), y.wm = Flip(x.wm, Rounds(x.wi, n))
    PROVE  RbGood(y) /\ RbLen(y) = RbLen(x) + n /\ RbHeld(y) = RbHeld(x) \o SubSeq(d, 1, n)
<1>1. /\ RbSize \in Nat \ {0} /\ RbLen(x) \in 0 .. RbSize
      /\ x.wi = RbAt(x.ri, RbLen(x)) /\ x.ri \in Cells /\ x.wi \in Cells
      /\ x.rm \in 0 .. 1 /\ x.wm \in 0 .. 1
  BY RingBufferAssumption, RbLength
<1>2. RbGood(y) /\ RbLen(y) = RbLen(x) + n
  <2>1. PICK r \in Cells, w \in Cells, l \in 0 .. RbSize, f \in 0 .. 1, g \in 0 .. 1 :
            r = x.ri /\ w = x.wi /\ l = RbLen(x) /\ f = x.rm /\ g = x.wm
    BY <1>1
  <2>2. /\ y.ri = r /\ y.rm = f
        /\ y.wi = IF RbSize - w <= n THEN n - (RbSize - w) ELSE w + n
        /\ y.wm = IF RbSize - w <= n THEN 1 - g ELSE g
    BY <2>1 DEF Advance, Flip, Rounds
  <2>3. /\ f = g => r <= w
        /\ f # g => w <= r
        /\ l = IF r = w THEN IF f = g THEN 0 ELSE RbSize
               ELSE IF w > r THEN w - r ELSE RbSize - (r - w)
    BY <2>1 DEF RbGood, RbLen
  <2>4. PICK v \in Cells, h \in 0 .. 1 : v = y.wi /\ h = y.wm
    BY DEF RbRecord
  <2>5. RbLen(y) = IF r = v THEN IF f = h THEN 0 ELSE RbSize
                   ELSE IF v > r THEN v - r ELSE RbSize - (r - v)
    BY <2>2, <2>4 DEF RbLen
  <2>6. /\ v = IF RbSize - w <= n THEN n - (RbSize - w) ELSE w + n
        /\ h = IF RbSize - w <= n THEN 1 - g ELSE g
        /\ n <= RbSize - l
    BY <2>1, <2>2, <2>4
  <2>7. /\ f = h => r <= v
        /\ f # h => v <= r
    BY <1>1, <2>3, <2>6 DEF Cells
  <2>8. RbLen(y) = l + n
    <3>1. CASE r = v
      BY <1>1, <2>3, <2>5, <2>6, <3>1 DEF Cells
    <3>2. CASE r # v
      BY <1>1, <2>3, <2>5, <2>6, <3>2 DEF Cells
    <3> QED
      BY <3>1, <3>2
  <2> QED
    BY <2>1, <2>2, <2>4, <2>7, <2>8 DEF RbGood
<1>3. /\ RbHeld(y) \in Seq(RbByte \cup {RbNone}) /\ Len(RbHeld(y)) = RbLen(x) + n
      /\ \A j \in 1 .. RbLen(x) + n : RbHeld(y)[j] = y.cell[RbAt(x.ri, j - 1)]
  BY <1>2, RbHeldSeq
<1>4. /\ RbHeld(x) \in Seq(RbByte \cup {RbNone}) /\ Len(RbHeld(x)) = RbLen(x)
      /\ \A j \in 1 .. RbLen(x) : RbHeld(x)[j] = x.cell[RbAt(x.ri, j - 1)]
  BY RbHeldSeq
<1>5. /\ SubSeq(d, 1, n) \in Seq(RbByte) /\ Len(SubSeq(d, 1, n)) = n
      /\ \A j \in 1 .. n : SubSeq(d, 1, n)[j] = d[j]
  OBVIOUS
<1>6. ASSUME NEW j \in 1 .. RbLen(x) + n
      PROVE  RbHeld(y)[j] = IF j <= RbLen(x) THEN RbHeld(x)[j] ELSE d[j - RbLen(x)]
  <2>1. j - 1 \in 0 .. RbSize - 1 /\ j - 1 \in 0 .. RbSize /\ j \in Int
    BY <1>1
  <2>2. PICK c \in Cells : c = RbAt(x.ri, j - 1)
    BY <1>1, <2>1, RbAtMod
  <2>3. RbDist(x.wi, c) = IF j - 1 < RbLen(x) THEN j - 1 - RbLen(x) + RbSize
                          ELSE j - 1 - RbLen(x)
    <3>1. PICK i \in 0 .. RbSize - 1 : i = j - 1
      BY <2>1
    <3>2. RbDist(RbAt(x.ri, RbLen(x)), RbAt(x.ri, i)) =
            IF i < RbLen(x) THEN i - RbLen(x) + RbSize ELSE i - RbLen(x)
      BY <1>1, RbDistAt
    <3> QED
      BY <1>1, <2>2, <3>1, <3>2
  <2>4. RbIn(x, d, n)[c] = IF RbDist(x.wi, c) < n THEN d[RbDist(x.wi, c) + 1] ELSE x.cell[c]
    BY RbInSpec
  <2>5. CASE j <= RbLen(x)
    <3>1. RbIn(x, d, n)[c] = x.cell[c]
      BY <1>1, <2>1, <2>3, <2>4, <2>5
    <3> QED
      BY <1>3, <1>4, <2>2, <2>5, <3>1
  <2>6. CASE ~(j <= RbLen(x))
    <3>1. RbDist(x.wi, c) + 1 = j - RbLen(x) /\ RbDist(x.wi, c) < n
      BY <1>1, <2>1, <2>3, <2>6
    <3> QED
      BY <1>3, <2>2, <2>4, <2>6, <3>1
  <2> QED
    BY <2>5, <2>6
<1> QED
  BY <1>1, <1>2, <1>3, <1>4, <1>5, <1>6, SMTT(30)

LEMMA RbAtAt ==
    ASSUME NEW a \in Cells, NEW n \in 0 .. RbSize, NEW i \in 0 .. RbSize - 1
    PROVE  RbAt(RbAt(a, n), i) =
               IF n + i < RbSize THEN RbAt(a, n + i) ELSE RbAt(a, n + i - RbSize)
<1>1. RbSize \in Nat \ {0}
  BY RingBufferAssumption
<1> QED
  BY <1>1 DEF RbAt, Cells

\* A get of n bytes takes them off the front.
LEMMA RbGetHolds ==
    ASSUME NEW x, RbGood(x), NEW y, NEW n \in 1 .. RbSize, n <= RbLen(x), y \in RbRecord,
           y.wi = x.wi, y.wm = x.wm, y.cell = RbBut(x, n),
           y.ri = Advance(x.ri, n), y.rm = Flip(x.rm, Rounds(x.ri, n))
    PROVE  /\ RbGood(y) /\ RbLen(y) = RbLen(x) - n
           /\ RbHeld(y) = SubSeq(RbHeld(x), n + 1, Len(RbHeld(x)))
<1>1. /\ RbSize \in Nat \ {0} /\ RbLen(x) \in 0 .. RbSize
      /\ x.wi = RbAt(x.ri, RbLen(x)) /\ x.ri \in Cells /\ x.wi \in Cells
      /\ x.rm \in 0 .. 1 /\ x.wm \in 0 .. 1
  BY RingBufferAssumption, RbLength
<1>2. RbGood(y) /\ RbLen(y) = RbLen(x) - n
  <2>1. PICK r \in Cells, w \in Cells, l \in 0 .. RbSize, f \in 0 .. 1, g \in 0 .. 1 :
            r = x.ri /\ w = x.wi /\ l = RbLen(x) /\ f = x.rm /\ g = x.wm
    BY <1>1
  <2>2. /\ y.wi = w /\ y.wm = g
        /\ y.ri = IF RbSize - r <= n THEN n - (RbSize - r) ELSE r + n
        /\ y.rm = IF RbSize - r <= n THEN 1 - f ELSE f
    BY <2>1 DEF Advance, Flip, Rounds
  <2>3. /\ f = g => r <= w
        /\ f # g => w <= r
        /\ l = IF r = w THEN IF f = g THEN 0 ELSE RbSize
               ELSE IF w > r THEN w - r ELSE RbSize - (r - w)
    BY <2>1 DEF RbGood, RbLen
  <2>4. PICK v \in Cells, h \in 0 .. 1 : v = y.ri /\ h = y.rm
    BY DEF RbRecord
  <2>5. RbLen(y) = IF v = w THEN IF h = g THEN 0 ELSE RbSize
                   ELSE IF w > v THEN w - v ELSE RbSize - (v - w)
    BY <2>2, <2>4 DEF RbLen
  <2>6. /\ v = IF RbSize - r <= n THEN n - (RbSize - r) ELSE r + n
        /\ h = IF RbSize - r <= n THEN 1 - f ELSE f
        /\ n <= l
    BY <2>1, <2>2, <2>4
  <2>7. /\ h = g => v <= w
        /\ h # g => w <= v
    BY <1>1, <2>3, <2>6 DEF Cells
  <2>8. RbLen(y) = l - n
    <3>1. CASE v = w
      BY <1>1, <2>3, <2>5, <2>6, <3>1 DEF Cells
    <3>2. CASE v # w
      BY <1>1, <2>3, <2>5, <2>6, <3>2 DEF Cells
    <3> QED
      BY <3>1, <3>2
  <2> QED
    BY <2>1, <2>2, <2>4, <2>7, <2>8 DEF RbGood
<1>3. y.ri = RbAt(x.ri, n)
  BY <1>1 DEF Advance, Rounds, RbAt, Cells
<1>4. /\ RbHeld(y) \in Seq(RbByte \cup {RbNone}) /\ Len(RbHeld(y)) = RbLen(x) - n
      /\ \A j \in 1 .. RbLen(x) - n : RbHeld(y)[j] = y.cell[RbAt(y.ri, j - 1)]
  BY <1>2, RbHeldSeq
<1>5. /\ RbHeld(x) \in Seq(RbByte \cup {RbNone}) /\ Len(RbHeld(x)) = RbLen(x)
      /\ \A j \in 1 .. RbLen(x) : RbHeld(x)[j] = x.cell[RbAt(x.ri, j - 1)]
  BY RbHeldSeq
<1>6. ASSUME NEW j \in 1 .. RbLen(x) - n
      PROVE  RbHeld(y)[j] = RbHeld(x)[n + j]
  <2>1. PICK l \in 0 .. RbSize : l = RbLen(x)
    BY <1>1
  <2>2. PICK i \in 0 .. RbSize - 1 : i = j - 1
    BY <1>1, <2>1
  <2>3. /\ n + i \in 0 .. RbSize - 1 /\ n + i \in 0 .. RbSize /\ n + i < RbSize
        /\ n + j \in 1 .. l /\ n + i = n + j - 1 /\ ~(n + i < n)
    BY <1>1, <2>1, <2>2
  <2>4. RbAt(y.ri, i) = RbAt(x.ri, n + i)
    BY <1>1, <1>3, <2>3, RbAtAt
  <2>5. PICK c \in Cells : c = RbAt(x.ri, n + i)
    BY <1>1, <2>3, RbAtMod
  <2>6. RbDist(x.ri, c) = n + i
    <3>1. RbAt(x.ri, 0) = x.ri
      BY <1>1 DEF RbAt, Cells
    <3>2. PICK m \in 0 .. RbSize - 1 : m = n + i
      BY <2>3
    <3>3. RbDist(RbAt(x.ri, 0), RbAt(x.ri, m)) = IF m < 0 THEN m - 0 + RbSize ELSE m - 0
      BY <1>1, <3>2, RbDistAt
    <3> QED
      BY <1>1, <2>5, <3>1, <3>2, <3>3
  <2>7. RbBut(x, n)[c] = x.cell[c]
    <3>1. (c - x.ri) % RbSize = n + i
      BY <1>1, <2>6, RbDistMod
    <3> QED
      BY <2>3, <3>1 DEF RbBut
  <2> QED
    BY <1>4, <1>5, <2>1, <2>2, <2>3, <2>4, <2>5, <2>7
<1> QED
  BY <1>1, <1>2, <1>4, <1>5, <1>6

\* A forced put of n bytes that do not fit keeps the newest RbSize bytes.  It needs
\* reader and writer in different mirrors.
LEMMA RbForceHolds ==
    ASSUME NEW x, RbGood(x), NEW y, NEW e \in Seq(RbByte), NEW n \in 1 .. RbSize,
           n = Len(e), n > RbSize - RbLen(x), x.rm # x.wm, y \in RbRecord,
           y.ri = Advance(x.wi, n), y.rm = Flip(x.rm, Rounds(x.wi, n)), y.cell = RbIn(x, e, n),
           y.wi = Advance(x.wi, n), y.wm = Flip(x.wm, Rounds(x.wi, n))
    PROVE  /\ RbGood(y) /\ RbLen(y) = RbSize
           /\ \A i \in 1 .. RbSize : RbHeld(y)[i] =
                IF i <= RbSize - n THEN RbHeld(x)[RbLen(x) + n - RbSize + i]
                ELSE e[i - (RbSize - n)]
<1>1. /\ RbSize \in Nat \ {0} /\ RbLen(x) \in 0 .. RbSize
      /\ x.wi = RbAt(x.ri, RbLen(x)) /\ x.ri \in Cells /\ x.wi \in Cells
      /\ x.rm \in 0 .. 1 /\ x.wm \in 0 .. 1
      /\ n \in 0 .. RbSize /\ n \in Nat /\ n >= 1 /\ n <= RbSize
  BY RingBufferAssumption, RbLength
<1>2. y.rm # y.wm /\ y.ri = y.wi /\ y.ri = RbAt(x.wi, n) /\ y.ri \in Cells
  <2>1. y.rm # y.wm
    BY <1>1 DEF Flip
  <2>2. y.ri = RbAt(x.wi, n)
    BY <1>1 DEF Advance, Rounds, RbAt, Cells
  <2> QED
    BY <1>1, <2>1, <2>2, RbAtMod
<1>3. RbGood(y) /\ RbLen(y) = RbSize
  BY <1>1, <1>2 DEF RbGood, RbLen, Cells
<1>4. \A j \in 1 .. RbSize : RbHeld(y)[j] = y.cell[RbAt(y.ri, j - 1)]
  BY <1>3, RbHeldSeq
<1>5. \A j \in 1 .. RbLen(x) : RbHeld(x)[j] = x.cell[RbAt(x.ri, j - 1)]
  BY RbHeldSeq
<1>6. ASSUME NEW j \in 1 .. RbSize
      PROVE  RbHeld(y)[j] = IF j <= RbSize - n THEN RbHeld(x)[RbLen(x) + n - RbSize + j]
                            ELSE e[j - (RbSize - n)]
  <2>1. PICK l \in 0 .. RbSize, i \in 0 .. RbSize - 1, w \in Cells :
            l = RbLen(x) /\ i = j - 1 /\ w = x.wi
    BY <1>1
  <2>2. /\ n > RbSize - l /\ j = i + 1 /\ i \in Int /\ l \in Int /\ RbSize \in Int
        /\ i >= 0 /\ i < RbSize
    BY <1>1, <2>1
  <2>3. RbAt(y.ri, i) = IF n + i < RbSize THEN RbAt(w, n + i) ELSE RbAt(w, n + i - RbSize)
    BY <1>1, <1>2, <2>1, RbAtAt, ZenonT(60)
  <2>4. RbAt(w, 0) = w
    BY <1>1 DEF RbAt, Cells
  <2>5. CASE n + i < RbSize
    <3>1. PICK m \in 0 .. RbSize - 1 : m = n + i
      BY <1>1, <2>1, <2>5
    <3>2. RbDist(w, RbAt(w, m)) = m
      <4>1. RbDist(RbAt(w, 0), RbAt(w, m)) = IF m < 0 THEN m - 0 + RbSize ELSE m - 0
        BY <1>1, RbDistAt
      <4> QED
        BY <1>1, <2>4, <4>1
    <3>3. RbAt(w, m) \in Cells
      BY <1>1, RbAtMod
    <3>4. ~(m < n) /\ m \in Int
      BY <1>1, <2>1, <3>1
    <3>5. RbIn(x, e, n)[RbAt(w, m)] = x.cell[RbAt(w, m)]
      BY <1>1, <2>1, <3>2, <3>3, <3>4, RbInSpec
    <3>6. RbAt(w, m) = RbAt(x.ri, l + m - RbSize)
      <4>1. l + m >= RbSize
        BY <1>1, <2>1, <3>1
      <4>2. RbAt(RbAt(x.ri, l), m) =
                IF l + m < RbSize THEN RbAt(x.ri, l + m) ELSE RbAt(x.ri, l + m - RbSize)
        BY <1>1, RbAtAt
      <4> QED
        BY <1>1, <2>1, <4>1, <4>2
    <3>7. l + n - RbSize + j \in 1 .. l /\ j <= RbSize - n
      <4>1. l + n - RbSize + j = l + (n + i) - RbSize + 1
        BY <1>1, <2>2
      <4>2. n + i < RbSize /\ l + n > RbSize
        BY <1>1, <2>5, <2>2
      <4>3. l + (n + i) - RbSize + 1 <= l /\ l + (n + i) - RbSize + 1 >= 1
        BY <1>1, <2>2, <4>2
      <4>4. l + n - RbSize + j \in Int
        BY <1>1
      <4>5. l + n - RbSize + j <= l /\ l + n - RbSize + j >= 1
        BY <4>1, <4>3
      <4>6. j <= RbSize - n
        BY <1>1, <2>5, <2>2
      <4> QED
        BY <4>4, <4>5, <4>6
    <3>8. RbHeld(x)[l + n - RbSize + j] = x.cell[RbAt(x.ri, l + m - RbSize)]
      <4>1. PICK p \in 1 .. l : p = l + n - RbSize + j
        BY <3>7
      <4>2. RbHeld(x)[p] = x.cell[RbAt(x.ri, p - 1)]
        BY <1>5, <2>1
      <4>3. p - 1 = l + m - RbSize
        BY <1>1, <2>2, <3>1, <4>1
      <4> QED
        BY <4>1, <4>2, <4>3
    <3>9. RbHeld(y)[j] = y.cell[RbAt(w, m)]
      BY <1>4, <2>1, <2>3, <2>5, <3>1
    <3> QED
      BY <2>1, <3>5, <3>6, <3>7, <3>8, <3>9
  <2>6. CASE ~(n + i < RbSize)
    <3>1. PICK m \in 0 .. RbSize - 1 : m = n + i - RbSize
      BY <1>1, <2>2, <2>6
    <3>2. RbDist(w, RbAt(w, m)) = m
      <4>1. RbDist(RbAt(w, 0), RbAt(w, m)) = IF m < 0 THEN m - 0 + RbSize ELSE m - 0
        BY <1>1, RbDistAt
      <4> QED
        BY <1>1, <2>4, <4>1
    <3>3. RbAt(w, m) \in Cells
      BY <1>1, RbAtMod
    <3>4. m < n /\ m \in Int /\ m + 1 = j - (RbSize - n) /\ ~(j <= RbSize - n)
      BY <1>1, <2>1, <3>1
    <3>5. RbIn(x, e, n)[RbAt(w, m)] = e[m + 1]
      BY <1>1, <2>1, <3>2, <3>3, <3>4, RbInSpec
    <3>6. RbHeld(y)[j] = y.cell[RbAt(w, m)]
      BY <1>4, <2>1, <2>3, <2>6, <3>1
    <3> QED
      BY <3>4, <3>5, <3>6
  <2> QED
    BY <2>5, <2>6
<1> QED
  BY <1>3, <1>6

-----------------------------------------------------------------------------
(* The operations of the ring buffer are the operations of the stream. *)

LEMMA RbOperators ==
    /\ data_len = RbLen(rb) /\ data_len' = RbLen(rb')
    /\ CopyOut(data_len) = RbHeld(rb) /\ CopyOut(data_len)' = RbHeld(rb')
    /\ space_len = RbSize - RbLen(rb)
    /\ \A n \in Nat : CopyOut(n) = RbOut(rb, n) /\ Without(n) = RbBut(rb, n)
    /\ \A n \in Nat : \A d : CopyIn(d, n, rb.wi) = RbIn(rb, d, n)
BY DEF data_len, RbLen, CopyOut, RbHeld, RbOut, space_len, Without, RbBut, CopyIn, RbIn

LEMMA Advances ==
    ASSUME NEW a \in Cells, NEW m \in 0 .. 1, NEW n \in 1 .. RbSize
    PROVE  Advance(a, n) \in Cells /\ Flip(m, Rounds(a, n)) \in 0 .. 1
<1>1. RbSize \in Nat \ {0}
  BY RingBufferAssumption
<1> QED
  BY <1>1 DEF Advance, Rounds, Flip, Cells

LEMMA BlockIsSeq ==
    ASSUME NEW d \in Blocks
    PROVE  d \in Seq(RbByte) /\ Len(d) \in Nat /\ Len(d) >= 1
<1>1. PICK n \in 1 .. RbBlock : d \in [1 .. n -> RbByte]
  BY DEF Blocks
<1>2. n \in Nat /\ n >= 1
  BY RingBufferAssumption
<1> QED
  BY <1>1, <1>2

LEMMA RbPutStep ==
    ASSUME RbGood(rb), NEW d \in Seq(RbByte), Len(d) >= 1, RbPut(d)
    PROVE  RbGood(rb') /\ RbStream!Put(d)
<1>1. /\ RbSize \in Nat \ {0} /\ RbLen(rb) \in 0 .. RbSize /\ Len(d) \in Nat
      /\ rb \in RbRecord /\ rb.wi \in Cells /\ rb.wm \in 0 .. 1
  BY RingBufferAssumption, RbLength DEF RbGood
<1>2. PICK n : n = Fitting(Len(d), space_len)
  OBVIOUS
<1>3. /\ n \in 1 .. RbSize /\ n <= Len(d) /\ n <= RbSize - RbLen(rb) /\ n \in Nat
      /\ n = RbStream!Least(Len(d), RbSize - RbLen(rb)) /\ n \in 0 .. RbSize
  BY <1>1, <1>2, RbOperators DEF RbPut, Fitting, RbStream!Least
<1>4. rb' = [rb EXCEPT !.cell = RbIn(rb, d, n), !.wi = Advance(rb.wi, n),
                       !.wm = Flip(rb.wm, Rounds(rb.wi, n))]
  BY <1>1, <1>2, <1>3, RbOperators DEF RbPut
<1>5. RbIn(rb, d, n) \in [Cells -> RbByte \cup {RbNone}]
  BY <1>3, RbInType
<1>6. Advance(rb.wi, n) \in Cells /\ Flip(rb.wm, Rounds(rb.wi, n)) \in 0 .. 1
  BY <1>1, <1>3, Advances
<1>7. rb' \in RbRecord
  BY <1>1, <1>4, <1>5, <1>6 DEF RbRecord
<1>8. /\ rb'.ri = rb.ri /\ rb'.rm = rb.rm /\ rb'.cell = RbIn(rb, d, n)
      /\ rb'.wi = Advance(rb.wi, n) /\ rb'.wm = Flip(rb.wm, Rounds(rb.wi, n))
  BY <1>1, <1>4 DEF RbRecord
<1>9. RbGood(rb') /\ RbHeld(rb') = RbHeld(rb) \o SubSeq(d, 1, n)
  BY <1>3, <1>7, <1>8, RbPutHolds
<1>10. Len(RbHeld(rb)) = RbLen(rb)
  BY RbHeldSeq
<1>11. rbout' = << >>
  BY DEF RbPut
<1> QED
  BY <1>3, <1>9, <1>10, <1>11, RbOperators DEF RbStream!Put

LEMMA RbGetStep ==
    ASSUME RbGood(rb), NEW len \in 1 .. RbSize, RbGet(len)
    PROVE  RbGood(rb') /\ RbStream!Get(len)
<1>1. /\ RbSize \in Nat \ {0} /\ RbLen(rb) \in 0 .. RbSize
      /\ rb \in RbRecord /\ rb.ri \in Cells /\ rb.rm \in 0 .. 1
      /\ rb.cell \in [Cells -> RbByte \cup {RbNone}]
  BY RingBufferAssumption, RbLength DEF RbGood
<1>2. PICK n : n = Fitting(len, data_len)
  OBVIOUS
<1>3. /\ n \in 1 .. RbSize /\ n <= RbLen(rb) /\ n \in Nat
      /\ n = RbStream!Least(len, RbLen(rb)) /\ n \in 0 .. RbSize
  BY <1>1, <1>2, RbOperators DEF RbGet, Fitting, RbStream!Least
<1>4. /\ rb' = [rb EXCEPT !.cell = RbBut(rb, n), !.ri = Advance(rb.ri, n),
                          !.rm = Flip(rb.rm, Rounds(rb.ri, n))]
      /\ rbout' = RbOut(rb, n)
  BY <1>1, <1>2, <1>3, RbOperators DEF RbGet
<1>5. RbBut(rb, n) \in [Cells -> RbByte \cup {RbNone}]
  BY <1>1 DEF RbBut
<1>6. Advance(rb.ri, n) \in Cells /\ Flip(rb.rm, Rounds(rb.ri, n)) \in 0 .. 1
  BY <1>1, <1>3, Advances
<1>7. rb' \in RbRecord
  BY <1>1, <1>4, <1>5, <1>6 DEF RbRecord
<1>8. /\ rb'.wi = rb.wi /\ rb'.wm = rb.wm /\ rb'.cell = RbBut(rb, n)
      /\ rb'.ri = Advance(rb.ri, n) /\ rb'.rm = Flip(rb.rm, Rounds(rb.ri, n))
  BY <1>1, <1>4 DEF RbRecord
<1>9. RbGood(rb') /\ RbHeld(rb') = SubSeq(RbHeld(rb), n + 1, Len(RbHeld(rb)))
  BY <1>3, <1>7, <1>8, RbGetHolds, SMTT(30)
<1>10. /\ RbHeld(rb) \in Seq(RbByte \cup {RbNone}) /\ Len(RbHeld(rb)) = RbLen(rb)
       /\ \A j \in 1 .. RbLen(rb) : RbHeld(rb)[j] = rb.cell[RbAt(rb.ri, j - 1)]
  BY RbHeldSeq
<1>11. /\ RbOut(rb, n) \in Seq(RbByte \cup {RbNone}) /\ Len(RbOut(rb, n)) = n
       /\ \A j \in 1 .. n : RbOut(rb, n)[j] = rb.cell[RbAt(rb.ri, j - 1)]
  BY <1>3, RbOutSeq
<1>12. RbOut(rb, n) = SubSeq(RbHeld(rb), 1, n)
  BY <1>1, <1>3, <1>10, <1>11
<1> QED
  BY <1>3, <1>4, <1>9, <1>10, <1>12, RbOperators DEF RbStream!Get

\* The newest c elements of a sequence
LEMMA NewestSpec ==
    ASSUME NEW B, NEW s \in Seq(B), NEW c \in Nat, NEW t \in Seq(B),
           Len(s) <= c => t = s,
           Len(s) > c => Len(t) = c /\ \A i \in 1 .. c : t[i] = s[Len(s) - c + i]
    PROVE  t = RbStream!Newest(s, c)
<1>1. CASE Len(s) <= c
  <2>1. RbStream!Least(c, Len(s)) = Len(s)
    BY <1>1 DEF RbStream!Least
  <2>2. RbStream!Newest(s, c) = SubSeq(s, 1, Len(s))
    BY <2>1 DEF RbStream!Newest
  <2> QED
    BY <1>1, <2>2
<1>2. CASE Len(s) > c
  <2>1. RbStream!Least(c, Len(s)) = c
    BY <1>2 DEF RbStream!Least
  <2>2. RbStream!Newest(s, c) = SubSeq(s, Len(s) - c + 1, Len(s))
    BY <2>1 DEF RbStream!Newest
  <2>3. /\ SubSeq(s, Len(s) - c + 1, Len(s)) \in Seq(B)
        /\ Len(SubSeq(s, Len(s) - c + 1, Len(s))) = c
        /\ \A i \in 1 .. c : SubSeq(s, Len(s) - c + 1, Len(s))[i] = s[Len(s) - c + i]
    BY <1>2
  <2> QED
    BY <1>2, <2>2, <2>3
<1> QED
  BY <1>1, <1>2

LEMMA ConcatSpec ==
    ASSUME NEW B, NEW s \in Seq(B), NEW t \in Seq(B)
    PROVE  /\ s \o t \in Seq(B) /\ Len(s \o t) = Len(s) + Len(t)
           /\ \A i \in 1 .. Len(s) + Len(t) :
                (s \o t)[i] = IF i <= Len(s) THEN s[i] ELSE t[i - Len(s)]
OBVIOUS

LEMMA ForcedPlaces ==
    ASSUME NEW S \in Nat, NEW l \in Nat, NEW m \in Nat, NEW n \in Nat, NEW p \in Nat,
           NEW i \in 1 .. S, n = IF m < S THEN m ELSE S, p = l + m - S + i
    PROVE  IF i <= S - n THEN p <= l /\ p = l + n - S + i
           ELSE ~(p <= l) /\ p - l = m - n + (i - (S - n))
OBVIOUS

LEMMA RbPutForceStep ==
    ASSUME RbGood(rb), NEW d \in Seq(RbByte), Len(d) >= 1, RbPutForce(d), ~RbLap
    PROVE  RbGood(rb') /\ RbStream!PutForce(d)
<1>1. /\ RbSize \in Nat \ {0} /\ RbLen(rb) \in 0 .. RbSize /\ Len(d) \in Nat
      /\ rb \in RbRecord /\ rb.wi \in Cells /\ rb.wm \in 0 .. 1 /\ rb.rm \in 0 .. 1
      /\ rb.ri \in Cells
  BY RingBufferAssumption, RbLength DEF RbGood
<1>2. PICK n : n = Fitting(Len(d), RbSize)
  OBVIOUS
<1>3. n \in 1 .. RbSize /\ n <= Len(d) /\ n \in Nat /\ n \in 0 .. RbSize
  BY <1>1, <1>2 DEF Fitting
<1>4. PICK e : e = SubSeq(d, Len(d) - n + 1, Len(d))
  OBVIOUS
<1>5. e \in Seq(RbByte) /\ Len(e) = n /\ \A i \in 1 .. n : e[i] = d[Len(d) - n + i]
  BY <1>1, <1>3, <1>4
<1> DEFINE over == n > RbSize - RbLen(rb)
<1>6. rb' = [rb EXCEPT !.cell = RbIn(rb, e, n), !.wi = Advance(rb.wi, n),
                       !.wm = Flip(rb.wm, Rounds(rb.wi, n)),
                       !.ri = IF over THEN Advance(rb.wi, n) ELSE rb.ri,
                       !.rm = Flip(rb.rm, over /\ Rounds(rb.wi, n))]
  BY <1>1, <1>2, <1>3, <1>4, RbOperators DEF RbPutForce
<1>7. RbIn(rb, e, n) \in [Cells -> RbByte \cup {RbNone}]
  BY <1>3, <1>5, RbInType
<1>8. Advance(rb.wi, n) \in Cells /\ Flip(rb.wm, Rounds(rb.wi, n)) \in 0 .. 1
  BY <1>1, <1>3, Advances
<1>9. Flip(rb.rm, over /\ Rounds(rb.wi, n)) \in 0 .. 1
  BY <1>1 DEF Flip
<1>10. rb' \in RbRecord
  BY <1>1, <1>6, <1>7, <1>8, <1>9 DEF RbRecord
<1>11. /\ rb'.ri = IF over THEN Advance(rb.wi, n) ELSE rb.ri
       /\ rb'.rm = Flip(rb.rm, over /\ Rounds(rb.wi, n))
       /\ rb'.cell = RbIn(rb, e, n)
       /\ rb'.wi = Advance(rb.wi, n) /\ rb'.wm = Flip(rb.wm, Rounds(rb.wi, n))
  BY <1>1, <1>6 DEF RbRecord
<1>12. /\ RbHeld(rb) \in Seq(RbByte \cup {RbNone}) /\ Len(RbHeld(rb)) = RbLen(rb)
       /\ d \in Seq(RbByte \cup {RbNone})
  BY RbHeldSeq
<1>13. rbout' = Forced
  BY DEF RbPutForce
<1>14. PICK s : s = RbHeld(rb) \o d
  OBVIOUS
<1>15. /\ s \in Seq(RbByte \cup {RbNone}) /\ Len(s) = RbLen(rb) + Len(d)
       /\ \A i \in 1 .. RbLen(rb) + Len(d) :
            s[i] = IF i <= RbLen(rb) THEN RbHeld(rb)[i] ELSE d[i - RbLen(rb)]
  <2>1. PICK B : B = RbByte \cup {RbNone}
    OBVIOUS
  <2>2. PICK h \in Seq(B) : h = RbHeld(rb)
    BY <1>12, <2>1
  <2>3. PICK f \in Seq(B) : f = d
    BY <1>12, <2>1
  <2>4. /\ h \o f \in Seq(B) /\ Len(h \o f) = Len(h) + Len(f)
        /\ \A i \in 1 .. Len(h) + Len(f) :
             (h \o f)[i] = IF i <= Len(h) THEN h[i] ELSE f[i - Len(h)]
    BY ConcatSpec
  <2>5. Len(h) = RbLen(rb)
    BY <1>12, <2>2
  <2> QED
    BY <1>14, <2>1, <2>2, <2>3, <2>4, <2>5
<1>16. CASE ~over
  <2>1. SubSeq(e, 1, n) = e
    BY <1>3, <1>5
  <2>2. rb'.ri = rb.ri /\ rb'.rm = rb.rm /\ n <= RbSize - RbLen(rb)
    BY <1>1, <1>3, <1>11, <1>16 DEF Flip
  <2>3. RbGood(rb') /\ RbHeld(rb') = RbHeld(rb) \o e
    <3>1. n <= Len(e) /\ Len(e) \in Nat
      BY <1>3, <1>5
    <3> QED
      BY <1>3, <1>5, <1>10, <1>11, <2>1, <2>2, <3>1, RbPutHolds, ZenonT(60)
  <2>4. PICK t \in Seq(RbByte \cup {RbNone}) : t = RbHeld(rb')
    BY <2>3, RbHeldSeq
  <2>5. PICK l \in 0 .. RbSize, m \in Nat : l = RbLen(rb) /\ m = Len(d)
    BY <1>1
  <2>6. n = (IF m < RbSize THEN m ELSE RbSize) /\ n <= RbSize - l /\ Len(s) = l + m
    BY <1>2, <1>15, <2>2, <2>5 DEF Fitting
  <2>7. ASSUME m <= RbSize
        PROVE  t = RbStream!Newest(s, RbSize)
    <3>1. n = m /\ l + m <= RbSize
      BY <1>1, <1>3, <2>5, <2>6, <2>7
    <3>2. e = d
      BY <1>3, <1>5, <2>5, <3>1
    <3>3. t = s /\ Len(s) <= RbSize /\ ~(Len(s) > RbSize)
      BY <1>1, <1>14, <2>3, <2>4, <2>5, <2>6, <3>1, <3>2
    <3> QED
      BY <1>1, <1>15, <2>4, <3>3, NewestSpec
  <2>8. ASSUME m > RbSize
        PROVE  t = RbStream!Newest(s, RbSize)
    <3>1. n = RbSize /\ l = 0
      BY <1>1, <1>3, <2>5, <2>6, <2>8
    <3>2. RbHeld(rb) = << >>
      BY <1>12, <2>5, <3>1
    <3>3. t = e /\ s = d
      BY <1>5, <1>12, <1>14, <2>3, <2>4, <3>2
    <3>4. /\ Len(t) = RbSize /\ ~(Len(s) <= RbSize)
          /\ \A i \in 1 .. RbSize : t[i] = s[Len(s) - RbSize + i]
      BY <1>1, <1>5, <2>5, <2>8, <3>1, <3>3
    <3> QED
      BY <1>1, <1>15, <2>4, <3>4, NewestSpec
  <2>9. t = RbStream!Newest(s, RbSize)
    BY <2>5, <2>7, <2>8, <1>1
  <2> QED
    BY <1>13, <1>14, <2>3, <2>4, <2>9, RbOperators DEF RbStream!PutForce
<1>17. CASE over
  <2>1. rb.rm # rb.wm /\ n > RbSize - RbLen(rb)
    <3>1. n > space_len
      BY <1>17, RbOperators
    <3> QED
      BY <1>2, <1>17, <3>1 DEF RbPutForce
  <2>2. rb'.ri = Advance(rb.wi, n) /\ rb'.rm = Flip(rb.rm, Rounds(rb.wi, n))
    BY <1>11, <1>17 DEF Flip
  <2>3. /\ RbGood(rb') /\ RbLen(rb') = RbSize
        /\ \A i \in 1 .. RbSize : RbHeld(rb')[i] =
                IF i <= RbSize - n THEN RbHeld(rb)[RbLen(rb) + n - RbSize + i]
                ELSE e[i - (RbSize - n)]
    BY <1>3, <1>5, <1>10, <1>11, <2>1, <2>2, RbForceHolds
  <2>4. RbHeld(rb') \in Seq(RbByte \cup {RbNone}) /\ Len(RbHeld(rb')) = RbSize
    BY <2>3, RbHeldSeq
  <2>5. Len(s) > RbSize
    BY <1>1, <1>3, <1>15, <2>1
  <2>6. ASSUME NEW i \in 1 .. RbSize
        PROVE  RbHeld(rb')[i] = s[Len(s) - RbSize + i]
    <3>1. PICK l \in 0 .. RbSize, m \in Nat, p \in Nat :
                l = RbLen(rb) /\ m = Len(d) /\ p = Len(s) - RbSize + i
      BY <1>1, <1>15, <2>5
    <3>2. p \in 1 .. l + m /\ p = l + m - RbSize + i /\ n = IF m < RbSize THEN m ELSE RbSize
      <4>1. n = IF m < RbSize THEN m ELSE RbSize
        BY <1>2, <3>1 DEF Fitting
      <4>2. p = l + m - RbSize + i
        BY <1>1, <1>15, <3>1
      <4>3. n > RbSize - l
        BY <2>1, <3>1
      <4> QED
        BY <1>1, <3>1, <4>1, <4>2, <4>3, SMTT(30)
    <3>3. s[p] = IF p <= l THEN RbHeld(rb)[p] ELSE d[p - l]
      BY <1>15, <3>1, <3>2
    <3>4. CASE i <= RbSize - n
      <4>1. p <= l /\ p = l + n - RbSize + i
        BY <1>1, <1>3, <3>2, <3>4, ForcedPlaces
      <4> QED
        BY <2>3, <3>1, <3>3, <3>4, <4>1
    <3>5. CASE ~(i <= RbSize - n)
      <4>1. PICK q \in 1 .. n : q = i - (RbSize - n)
        BY <1>1, <1>3, <3>5
      <4>2. n <= m
        BY <1>3, <3>1
      <4>3. ~(p <= l) /\ p - l = m - n + q
        BY <1>1, <1>3, <3>2, <3>5, <4>1, ForcedPlaces
      <4>4. e[q] = d[m - n + q]
        BY <1>5, <3>1
      <4> QED
        BY <2>3, <3>1, <3>3, <3>5, <4>1, <4>3, <4>4
    <3> QED
      BY <3>4, <3>5
  <2>7. RbHeld(rb') = RbStream!Newest(s, RbSize)
    <3>1. PICK t \in Seq(RbByte \cup {RbNone}) : t = RbHeld(rb')
      BY <2>4
    <3>2. Len(t) = RbSize /\ \A i \in 1 .. RbSize : t[i] = s[Len(s) - RbSize + i]
      BY <2>4, <2>6, <3>1
    <3>3. ~(Len(s) <= RbSize)
      BY <1>1, <1>15, <2>5
    <3>4. t = RbStream!Newest(s, RbSize)
      BY <1>1, <1>15, <3>1, <3>2, <3>3, NewestSpec
    <3> QED
      BY <3>1, <3>4
  <2> QED
    BY <1>13, <1>14, <2>3, <2>7, RbOperators DEF RbStream!PutForce
<1> QED
  BY <1>16, <1>17

\* The operations on one character are those on a block of one.
LEMMA CharSteps ==
    ASSUME NEW a \in Cells
    PROVE  Advance(a, 1) = Step(a) /\ (Rounds(a, 1) <=> AtEnd(a)) /\ Step(a) \in Cells
<1>1. RbSize \in Nat \ {0}
  BY RingBufferAssumption
<1> QED
  BY <1>1 DEF Advance, Rounds, Step, AtEnd, Cells

LEMMA NoDistance ==
    ASSUME NEW a \in Cells, NEW c \in Cells
    PROVE  /\ (c - a) % RbSize < 1 <=> c = a
           /\ ((c - a) % RbSize) + 1 <= 1 <=> c = a
           /\ c = a => ((c - a) % RbSize) + 1 = 1
<1>1. RbSize \in Nat \ {0}
  BY RingBufferAssumption
<1>2. (c - a) % RbSize = RbDist(a, c)
  BY RbDistMod
<1>3. PICK i \in Nat : i = RbDist(a, c)
  BY <1>1, RbDistMod DEF Cells
<1>4. i = 0 <=> c = a
  BY <1>1, <1>3 DEF RbDist, Cells
<1> QED
  BY <1>2, <1>3, <1>4

LEMMA InOne ==
    ASSUME RbGood(rb), NEW b \in RbByte
    PROVE  RbIn(rb, <<b>>, 1) = [rb.cell EXCEPT ![rb.wi] = b]
<1>1. rb.wi \in Cells /\ rb.cell \in [Cells -> RbByte \cup {RbNone}]
  BY RbLength
<1>2. ASSUME NEW c \in Cells
      PROVE  RbIn(rb, <<b>>, 1)[c] = IF c = rb.wi THEN b ELSE rb.cell[c]
  BY <1>1, NoDistance DEF RbIn
<1>3. RbIn(rb, <<b>>, 1) = [c \in Cells |-> RbIn(rb, <<b>>, 1)[c]]
  BY DEF RbIn
<1> QED
  BY <1>1, <1>2, <1>3

LEMMA ButOne ==
    ASSUME RbGood(rb)
    PROVE  RbBut(rb, 1) = [rb.cell EXCEPT ![rb.ri] = RbNone]
<1>1. rb.ri \in Cells /\ rb.cell \in [Cells -> RbByte \cup {RbNone}]
  BY RbLength
<1>2. ASSUME NEW c \in Cells
      PROVE  RbBut(rb, 1)[c] = IF c = rb.ri THEN RbNone ELSE rb.cell[c]
  BY <1>1, NoDistance DEF RbBut
<1>3. RbBut(rb, 1) = [c \in Cells |-> RbBut(rb, 1)[c]]
  BY DEF RbBut
<1> QED
  BY <1>1, <1>2, <1>3

LEMMA PutCharIsPut ==
    ASSUME RbGood(rb), NEW b \in RbByte, RbPutChar(b)
    PROVE  RbPut(<<b>>)
<1>1. /\ RbSize \in Nat \ {0} /\ RbLen(rb) \in 0 .. RbSize /\ rb.wi \in Cells
      /\ rb \in RbRecord
  BY RingBufferAssumption, RbLength DEF RbGood
<1>2. Fitting(Len(<<b>>), space_len) = 1
  BY <1>1, RbOperators DEF RbPutChar, Fitting
<1>3. CopyIn(<<b>>, 1, rb.wi) = [rb.cell EXCEPT ![rb.wi] = b]
  BY InOne, RbOperators
<1>4. Advance(rb.wi, 1) = Step(rb.wi) /\ (Rounds(rb.wi, 1) <=> AtEnd(rb.wi))
  BY <1>1, CharSteps
<1>5. Flip(rb.wm, Rounds(rb.wi, 1)) = Flip(rb.wm, AtEnd(rb.wi))
  BY <1>4 DEF Flip
<1>6. rb' = [rb EXCEPT !.cell = CopyIn(<<b>>, 1, rb.wi), !.wi = Advance(rb.wi, 1),
                       !.wm = Flip(rb.wm, Rounds(rb.wi, 1))]
  BY <1>1, <1>3, <1>4, <1>5 DEF RbPutChar, RbRecord
<1> QED
  BY <1>1, <1>2, <1>6 DEF RbPut, RbPutChar

LEMMA OneIsBlock ==
    ASSUME NEW b \in RbByte
    PROVE  <<b>> \in Blocks /\ <<b>> \in Seq(RbByte) /\ Len(<<b>>) >= 1
<1>1. 1 \in 1 .. RbBlock
  BY RingBufferAssumption
<1>2. <<b>> \in [1 .. 1 -> RbByte]
  OBVIOUS
<1> QED
  BY <1>1, <1>2 DEF Blocks

LEMMA PutCharForceIsPutForce ==
    ASSUME RbGood(rb), NEW b \in RbByte, RbPutCharForce(b)
    PROVE  RbPutForce(<<b>>)
<1>1. /\ RbSize \in Nat \ {0} /\ RbLen(rb) \in 0 .. RbSize /\ rb.wi \in Cells
      /\ rb \in RbRecord /\ rb.ri \in Cells /\ rb.rm \in 0 .. 1 /\ rb.wm \in 0 .. 1
  BY RingBufferAssumption, RbLength DEF RbGood
<1>2. Fitting(Len(<<b>>), RbSize) = 1
  BY <1>1 DEF Fitting
<1>3. SubSeq(<<b>>, Len(<<b>>) - 1 + 1, Len(<<b>>)) = <<b>>
  <2>1. PICK s \in Seq(RbByte) : s = <<b>>
    BY OneIsBlock
  <2>2. SubSeq(s, 1, Len(s)) = s
    OBVIOUS
  <2>3. Len(<<b>>) - 1 + 1 = 1
    OBVIOUS
  <2> QED
    BY <2>1, <2>2, <2>3
<1>4. CopyIn(<<b>>, 1, rb.wi) = [rb.cell EXCEPT ![rb.wi] = b]
  BY InOne, RbOperators
<1>5. Advance(rb.wi, 1) = Step(rb.wi) /\ (Rounds(rb.wi, 1) <=> AtEnd(rb.wi))
  BY <1>1, CharSteps
<1>6. 1 > space_len <=> rb.ri = rb.wi /\ rb.rm # rb.wm
  <2>1. PICK l \in 0 .. RbSize : l = RbLen(rb)
    BY <1>1
  <2>2. l = RbSize <=> rb.ri = rb.wi /\ rb.rm # rb.wm
    BY <1>1, <2>1 DEF RbLen, Cells
  <2>3. space_len = RbSize - l
    BY <2>1, RbOperators
  <2> QED
    BY <1>1, <2>2, <2>3
<1>7. /\ Flip(rb.wm, Rounds(rb.wi, 1)) = Flip(rb.wm, AtEnd(rb.wi))
      /\ Flip(rb.rm, 1 > space_len /\ Rounds(rb.wi, 1)) =
         Flip(rb.rm, (rb.ri = rb.wi /\ rb.rm # rb.wm) /\ AtEnd(rb.wi))
      /\ (IF 1 > space_len THEN Advance(rb.wi, 1) ELSE rb.ri) =
         (IF rb.ri = rb.wi /\ rb.rm # rb.wm THEN Step(rb.wi) ELSE rb.ri)
  BY <1>5, <1>6 DEF Flip
<1>8. rb' = [rb EXCEPT !.cell = [rb.cell EXCEPT ![rb.wi] = b], !.wi = Step(rb.wi),
                       !.wm = Flip(rb.wm, AtEnd(rb.wi)),
                       !.ri = IF rb.ri = rb.wi /\ rb.rm # rb.wm THEN Step(rb.wi) ELSE rb.ri,
                       !.rm = Flip(rb.rm, (rb.ri = rb.wi /\ rb.rm # rb.wm) /\ AtEnd(rb.wi))]
  BY <1>1 DEF RbPutCharForce, RbRecord
<1>9. rb' = [rb EXCEPT !.cell = CopyIn(<<b>>, 1, rb.wi), !.wi = Advance(rb.wi, 1),
                       !.wm = Flip(rb.wm, Rounds(rb.wi, 1)),
                       !.ri = IF 1 > space_len THEN Advance(rb.wi, 1) ELSE rb.ri,
                       !.rm = Flip(rb.rm, 1 > space_len /\ Rounds(rb.wi, 1))]
  BY <1>4, <1>5, <1>7, <1>8
<1>10. RbLap \/ ~(1 > space_len) \/ rb.rm # rb.wm
  BY <1>6
<1>11. rbout' = Forced
  BY DEF RbPutCharForce
<1> QED
  BY <1>1, <1>2, <1>3, <1>9, <1>10, <1>11 DEF RbPutForce

LEMMA GetCharIsGet ==
    ASSUME RbGood(rb), RbGetChar
    PROVE  RbGet(1)
<1>1. /\ RbSize \in Nat \ {0} /\ RbLen(rb) \in 0 .. RbSize /\ rb.ri \in Cells
      /\ rb \in RbRecord /\ rb.cell \in [Cells -> RbByte \cup {RbNone}]
  BY RingBufferAssumption, RbLength DEF RbGood
<1>2. Fitting(1, data_len) = 1
  BY <1>1, RbOperators DEF RbGetChar, Fitting
<1>3. Without(1) = [rb.cell EXCEPT ![rb.ri] = RbNone]
  BY <1>1, ButOne, RbOperators
<1>4. Advance(rb.ri, 1) = Step(rb.ri) /\ (Rounds(rb.ri, 1) <=> AtEnd(rb.ri))
  BY <1>1, CharSteps
<1>5. Flip(rb.rm, Rounds(rb.ri, 1)) = Flip(rb.rm, AtEnd(rb.ri))
  BY <1>4 DEF Flip
<1>6. rb' = [rb EXCEPT !.cell = Without(1), !.ri = Advance(rb.ri, 1),
                       !.rm = Flip(rb.rm, Rounds(rb.ri, 1))]
  BY <1>1, <1>3, <1>4, <1>5 DEF RbGetChar, RbRecord
<1>7. CopyOut(1) = <<rb.cell[rb.ri]>>
  <2>1. (rb.ri + 1 - 1) % RbSize = rb.ri
    BY <1>1 DEF Cells
  <2>2. CopyOut(1) = [j \in 1 .. 1 |-> rb.cell[rb.ri]]
    BY <2>1 DEF CopyOut
  <2> QED
    BY <2>2
<1> QED
  BY <1>1, <1>2, <1>6, <1>7 DEF RbGet, RbGetChar

LEMMA RbResetStep ==
    ASSUME RbReset
    PROVE  RbGood(rb') /\ RbStream!Clear
<1>1. RbSize \in Nat \ {0} /\ 0 \in Cells
  BY RingBufferAssumption DEF Cells
<1>2. /\ rb'.rm = 0 /\ rb'.ri = 0 /\ rb'.wm = 0 /\ rb'.wi = 0
      /\ rb' \in RbRecord
  BY <1>1 DEF RbReset, RbRecord
<1>3. RbGood(rb') /\ RbLen(rb') = 0
  BY <1>2 DEF RbGood, RbLen
<1>4. RbHeld(rb') = << >>
  BY <1>3, RbHeldSeq
<1>5. rbout' = Cleared
  BY DEF RbReset
<1> QED
  BY <1>3, <1>4, <1>5, RbOperators DEF RbStream!Clear

\* Every operation of the ring buffer is one of the stream, or leaves both alone.
LEMMA RbStepIsStreamStep ==
    ASSUME RbGood(rb), RbStep, ~RbLap
    PROVE  RbGood(rb') /\ [RbStream!Next]_<<CopyOut(data_len), rbout>>
<1> DEFINE Op == \/ \E d \in Blocks : RbStream!Put(d) \/ RbStream!PutForce(d)
                 \/ \E n \in 1 .. RbSize : RbStream!Get(n)
                 \/ RbStream!Clear
<1>1. SUFFICES RbGood(rb') /\ Op
  <2>1. Blocks = RbStream!Block
    BY DEF Blocks, RbStream!Block
  <2> QED
    BY <2>1 DEF RbStream!Next, RbStream!Changes
<1>2. ASSUME NEW d \in Blocks, RbPut(d)
      PROVE  RbGood(rb') /\ Op
  BY <1>2, BlockIsSeq, RbPutStep
<1>3. ASSUME NEW d \in Blocks, RbPutForce(d)
      PROVE  RbGood(rb') /\ Op
  BY <1>3, BlockIsSeq, RbPutForceStep
<1>4. ASSUME NEW n \in 1 .. RbSize, RbGet(n)
      PROVE  RbGood(rb') /\ Op
  BY <1>4, RbGetStep
<1>5. ASSUME NEW b \in RbByte, RbPutChar(b)
      PROVE  RbGood(rb') /\ Op
  BY <1>2, <1>5, PutCharIsPut, OneIsBlock
<1>6. ASSUME NEW b \in RbByte, RbPutCharForce(b)
      PROVE  RbGood(rb') /\ Op
  BY <1>3, <1>6, PutCharForceIsPutForce, OneIsBlock
<1>7. CASE RbGetChar
  <2>1. 1 \in 1 .. RbSize
    BY RingBufferAssumption
  <2> QED
    BY <1>4, <1>7, <2>1, GetCharIsGet
<1>8. CASE RbReset
  BY <1>8, RbResetStep
<1> QED
  BY <1>2, <1>3, <1>4, <1>5, <1>6, <1>7, <1>8 DEF RbStep

LEMMA WithinMod ==
    ASSUME NEW S \in Nat, NEW n \in 0 .. S - 1
    PROVE  n % S = n
OBVIOUS

-----------------------------------------------------------------------------
(* Who waits to send what *)

\* A thread that waits in rt_mb_send_wait or rt_data_queue_push still has what it
\* sends: the refinements need it when the send is completed after a wait.
SendersHold ==
    /\ sys \in Systems /\ DOMAIN pc = Thread
    /\ mail \in [Thread -> Mail \cup {Null}] /\ item \in [Thread -> Item \cup {Null}]
    /\ \A t \in Thread : Taking(t, MbTx) => mail[t] \in Mail
    /\ \A t \in Thread : Taking(t, DqPush) => item[t] \in Item

\* No thread begins to wait for a place in the mailbox or in the data queue.
NoNewSender ==
    /\ DOMAIN pc' = Thread
    /\ \A u \in Thread : \A o \in {MbTx, DqPush} : Taking(u, o)' => Taking(u, o)

LEMMA GoesElsewhere ==
    ASSUME DOMAIN pc = Thread, NEW t, NEW at, NEW arg, Goto(t, at, arg),
           at \notin {"take_sched", "take_ret"}
    PROVE  NoNewSender
<1>1. /\ DOMAIN pc' = Thread
      /\ \A u \in Thread : pc'[u] = IF u = t THEN [at |-> at, arg |-> arg] ELSE pc[u]
  BY DEF Goto
<1>2. ASSUME NEW u \in Thread, NEW o \in {MbTx, DqPush}, Taking(u, o)'
      PROVE  Taking(u, o)
  <2>1. pc'[u].at \in {"take_sched", "take_ret"} /\ pc'[u].arg = o
    BY <1>2 DEF Taking
  <2>2. u # t
    BY <1>1, <2>1
  <2> QED
    BY <1>1, <2>1, <2>2 DEF Taking
<1> QED
  BY <1>1, <1>2 DEF NoNewSender

LEMMA WaitsElsewhere ==
    ASSUME DOMAIN pc = Thread, NEW t, NEW o, Goto(t, "take_sched", o)
    PROVE  /\ DOMAIN pc' = Thread
           /\ \A u \in Thread : \A l \in {MbTx, DqPush} :
                Taking(u, l)' => Taking(u, l) \/ (u = t /\ l = o)
           /\ o \notin {MbTx, DqPush} => NoNewSender
<1>1. /\ DOMAIN pc' = Thread
      /\ \A u \in Thread : pc'[u] = IF u = t THEN [at |-> "take_sched", arg |-> o] ELSE pc[u]
  BY DEF Goto
<1>2. ASSUME NEW u \in Thread, NEW l \in {MbTx, DqPush}, Taking(u, l)'
      PROVE  Taking(u, l) \/ (u = t /\ l = o)
  <2>1. pc'[u].at \in {"take_sched", "take_ret"} /\ pc'[u].arg = l
    BY <1>2 DEF Taking
  <2>2. CASE u = t
    BY <1>1, <2>1, <2>2
  <2>3. CASE u # t
    BY <1>1, <2>1, <2>3 DEF Taking
  <2> QED
    BY <2>2, <2>3
<1> QED
  BY <1>1, <1>2 DEF NoNewSender

LEMMA PcStays ==
    ASSUME DOMAIN pc = Thread, pc' = pc
    PROVE  NoNewSender
BY DEF NoNewSender, Taking

\* The steps that do not depend on the kind of object
LEMMA IpcStepSenders ==
    ASSUME DOMAIN pc = Thread, NEW D, IpcStep(D)
    PROVE  NoNewSender
<1>1. CASE TickInterrupt
  BY <1>1, PcStays DEF TickInterrupt
<1>2. ASSUME NEW t \in User, CallSchedule(t)
      PROVE  NoNewSender
  <2>1. Goto(t, After[pc[t].at], pc[t].arg) /\ pc[t].at \in DOMAIN After
    BY <1>2 DEF CallSchedule
  <2>2. CASE pc[t].at = "take_sched"
    <3>1. After[pc[t].at] = "take_ret"
      BY <2>2 DEF After
    <3>2. /\ DOMAIN pc' = Thread
          /\ \A u \in Thread :
                pc'[u] = IF u = t THEN [at |-> "take_ret", arg |-> pc[t].arg] ELSE pc[u]
      BY <2>1, <3>1 DEF Goto
    <3>3. ASSUME NEW u \in Thread, NEW o \in {MbTx, DqPush}, Taking(u, o)'
          PROVE  Taking(u, o)
      <4>1. pc'[u].at \in {"take_sched", "take_ret"} /\ pc'[u].arg = o
        BY <3>3 DEF Taking
      <4>2. CASE u = t
        BY <2>2, <3>2, <4>1, <4>2 DEF Taking
      <4>3. CASE u # t
        BY <3>2, <4>1, <4>3 DEF Taking
      <4> QED
        BY <4>2, <4>3
    <3> QED
      BY <3>2, <3>3 DEF NoNewSender
  <2>3. CASE pc[t].at # "take_sched"
    <3>1. After[pc[t].at] \notin {"take_sched", "take_ret"}
      BY <2>1, <2>3 DEF After
    <3> QED
      BY <2>1, <3>1, GoesElsewhere
  <2> QED
    BY <2>2, <2>3
<1>3. ASSUME NEW t \in User, Slept(t)
      PROVE  NoNewSender
  BY <1>3, GoesElsewhere DEF Slept
<1>4. ASSUME NEW t \in User, NEW d \in Delays, Sleep(t, d)
      PROVE  NoNewSender
  BY <1>4, GoesElsewhere DEF Sleep
<1>5. ASSUME NEW t \in User, NEW o \in D, Delete(t, o)
      PROVE  NoNewSender
  BY <1>5, GoesElsewhere DEF Delete
<1>6. ASSUME NEW t \in User, WakeCheck(t)
      PROVE  NoNewSender
  <2>1. \/ Goto(t, "wake_one", pc[t].arg)
        \/ Goto(t, "wake_check", Second[pc[t].arg])
        \/ Goto(t, "run", t)
    BY <1>6 DEF WakeCheck
  <2> QED
    BY <2>1, GoesElsewhere
<1>7. ASSUME NEW t \in User, WakeOne(t)
      PROVE  NoNewSender
  <2>1. Goto(t, "wake_check", pc[t].arg)
    BY <1>7 DEF WakeOne
  <2> QED
    BY <2>1, GoesElsewhere
<1>8. ASSUME NEW t \in User, NEW u \in User, NEW p \in Prio, Control(t, u, p)
      PROVE  NoNewSender
  BY <1>8, PcStays DEF Control
<1> QED
  BY <1>1, <1>2, <1>3, <1>4, <1>5, <1>6, <1>7, <1>8 DEF IpcStep, SystemStep

LEMMA ResumeFirstSenders ==
    ASSUME DOMAIN pc = Thread, NEW t, NEW o, ResumeFirst(t, o)
    PROVE  NoNewSender
<1>1. Goto(t, "sched", t) \/ Goto(t, "run", t)
  BY DEF ResumeFirst
<1> QED
  BY <1>1, GoesElsewhere

LEMMA WaitFailsSenders ==
    ASSUME DOMAIN pc = Thread, NEW t, NEW o, WaitFails(t, o) \/ TimeIsUp(t, o)
    PROVE  NoNewSender
<1>1. Goto(t, "run", t)
  BY DEF WaitFails, TimeIsUp
<1> QED
  BY <1>1, GoesElsewhere

\* A thread that gave up or completed its send holds nothing and does not wait.
LEMMA LeavesSend ==
    ASSUME DOMAIN pc = Thread, NEW t \in Thread, NEW at, Goto(t, at, t),
           at \notin {"take_sched", "take_ret"}
    PROVE  \A o : ~Taking(t, o)'
<1>1. pc'[t] = [at |-> at, arg |-> t]
  BY DEF Goto
<1> QED
  BY <1>1 DEF Taking

-----------------------------------------------------------------------------
(* The mailbox *)

\* What a step does to the mails: nothing, or one operation of the ring.
MbClears ==
    mb' = [mb EXCEPT !.pool = [i \in DOMAIN mb.pool |-> Null],
                     !.in = 0, !.out = 0, !.entry = 0, !.last = "reset"]

MbMoves ==
    \/ mb' = mb
    \/ ~MbFull /\ \E m \in Mail : MbPut(m)
    \/ ~MbEmpty /\ MbTake
    \/ MbClears

\* How the steps of the mailbox leave the senders.
MailsHeld ==
    /\ DOMAIN pc' = Thread
    /\ mail' \in [Thread -> Mail \cup {Null}]
    /\ \A t \in Thread : Taking(t, MbTx)' => mail'[t] \in Mail
    /\ \A t \in Thread : Taking(t, DqPush)' => Taking(t, DqPush)

LEMMA MailsStay ==
    ASSUME SendersHold, NoNewSender, mail' = mail
    PROVE  MailsHeld
BY DEF SendersHold, NoNewSender, MailsHeld

\* A thread completes its send or gives it up.
LEMMA MailDone ==
    ASSUME SendersHold, NEW t \in Thread, mail' = [mail EXCEPT ![t] = Null],
           Goto(t, "sched", t) \/ Goto(t, "run", t)
    PROVE  MailsHeld
<1>1. NoNewSender /\ \A o : ~Taking(t, o)'
  BY GoesElsewhere, LeavesSend DEF SendersHold
<1>2. mail' \in [Thread -> Mail \cup {Null}] /\ \A u \in Thread : u # t => mail'[u] = mail[u]
  BY DEF SendersHold
<1> QED
  BY <1>1, <1>2 DEF SendersHold, NoNewSender, MailsHeld

LEMMA MbStepMoves ==
    ASSUME SendersHold, NEW producer \in SUBSET User, NEW consumer \in SUBSET User,
           MbStep(producer, consumer)
    PROVE  MbMoves /\ MailsHeld
<1>1. DOMAIN pc = Thread /\ User \subseteq Thread /\ MbRx \notin {MbTx, DqPush}
      /\ MbTx # DqPush
  BY MessagesAssumption DEF SendersHold, User
<1>2. CASE MbIsrRecv
  BY <1>1, <1>2, PcStays, MailsStay DEF MbIsrRecv, IsrResumeFirst, MbMoves
<1>3. ASSUME NEW m \in Mail, MbIsrSend(m)
      PROVE  MbMoves /\ MailsHeld
  BY <1>1, <1>3, PcStays, MailsStay DEF MbIsrSend, IsrResumeFirst, MbMoves
<1>4. ASSUME NEW t \in producer, NEW m \in Mail, MbSend(t, m)
      PROVE  MbMoves /\ MailsHeld
  BY <1>1, <1>4, ResumeFirstSenders, MailsStay DEF MbSend, MbMoves
<1>5. ASSUME NEW t \in producer, NEW m \in Mail, NEW time, MbSendBlocks(t, m, time)
      PROVE  MbMoves /\ MailsHeld
  <2>1. /\ Goto(t, "take_sched", MbTx) /\ mb' = mb /\ mail' = [mail EXCEPT ![t] = m]
        /\ t \in Thread
    BY <1>1, <1>5 DEF MbSendBlocks, WaitFirst, Wait
  <2>2. /\ DOMAIN pc' = Thread
        /\ \A u \in Thread : \A l \in {MbTx, DqPush} :
             Taking(u, l)' => Taking(u, l) \/ (u = t /\ l = MbTx)
    BY <1>1, <2>1, WaitsElsewhere
  <2>3. /\ mail' \in [Thread -> Mail \cup {Null}] /\ mail'[t] = m
        /\ \A u \in Thread : u # t => mail'[u] = mail[u]
    BY <2>1 DEF SendersHold
  <2> QED
    BY <1>1, <2>1, <2>2, <2>3 DEF MbMoves, MailsHeld, SendersHold
<1>6. ASSUME NEW t \in producer, MbSendResumed(t)
      PROVE  MbMoves /\ MailsHeld
  <2>1. /\ ~MbFull /\ MbPut(mail[t]) /\ Taking(t, MbTx) /\ t \in Thread
        /\ mail' = [mail EXCEPT ![t] = Null]
        /\ Goto(t, "sched", t) \/ Goto(t, "run", t)
    BY <1>1, <1>6 DEF MbSendResumed, Resumed, Is, Taking, ResumeFirst
  <2>2. mail[t] \in Mail
    BY <2>1 DEF SendersHold
  <2> QED
    BY <2>1, <2>2, MailDone DEF MbMoves
<1>7. ASSUME NEW t \in producer, MbSendAgain(t)
      PROVE  MbMoves /\ MailsHeld
  <2>1. /\ Goto(t, "take_sched", MbTx) /\ mb' = mb /\ mail' = mail /\ t \in Thread
        /\ Taking(t, MbTx)
    BY <1>1, <1>7 DEF MbSendAgain, WaitAgain, Wait, mailbox, Resumed, Is, Taking
  <2>2. /\ DOMAIN pc' = Thread
        /\ \A u \in Thread : \A l \in {MbTx, DqPush} :
             Taking(u, l)' => Taking(u, l) \/ (u = t /\ l = MbTx)
    BY <1>1, <2>1, WaitsElsewhere
  <2> QED
    BY <1>1, <2>1, <2>2 DEF MbMoves, MailsHeld, SendersHold
<1>8. ASSUME NEW t \in producer, MbSendGivesUp(t)
      PROVE  MbMoves /\ MailsHeld
  <2>1. /\ mb' = mb /\ mail' = [mail EXCEPT ![t] = Null] /\ t \in Thread
        /\ Goto(t, "run", t)
    BY <1>1, <1>8 DEF MbSendGivesUp, WaitFails, TimeIsUp
  <2> QED
    BY <2>1, MailDone DEF MbMoves
<1>9. ASSUME NEW t \in consumer, MbRecv(t)
      PROVE  MbMoves /\ MailsHeld
  BY <1>1, <1>9, ResumeFirstSenders, MailsStay DEF MbRecv, MbMoves
<1>10. ASSUME NEW t \in consumer, NEW time, MbRecvBlocks(t, time)
       PROVE  MbMoves /\ MailsHeld
  <2>1. Goto(t, "take_sched", MbRx) /\ mb' = mb /\ mail' = mail
    BY <1>10 DEF MbRecvBlocks, WaitFirst, Wait, mailbox
  <2> QED
    BY <1>1, <2>1, WaitsElsewhere, MailsStay DEF MbMoves
<1>11. ASSUME NEW t \in consumer, MbRecvResumed(t)
       PROVE  MbMoves /\ MailsHeld
  BY <1>1, <1>11, ResumeFirstSenders, MailsStay DEF MbRecvResumed, MbMoves
<1>12. ASSUME NEW t \in consumer, MbRecvAgain(t)
       PROVE  MbMoves /\ MailsHeld
  <2>1. Goto(t, "take_sched", MbRx) /\ mb' = mb /\ mail' = mail
    BY <1>12 DEF MbRecvAgain, WaitAgain, Wait, mailbox
  <2> QED
    BY <1>1, <2>1, WaitsElsewhere, MailsStay DEF MbMoves
<1>13. ASSUME NEW t \in consumer, MbRecvGivesUp(t)
       PROVE  MbMoves /\ MailsHeld
  <2>1. (WaitFails(t, MbRx) \/ TimeIsUp(t, MbRx)) /\ mb' = mb /\ mail' = mail
    BY <1>13 DEF MbRecvGivesUp, mailbox
  <2> QED
    BY <1>1, <2>1, WaitFailsSenders, MailsStay DEF MbMoves
<1>14. ASSUME NEW t \in User, MbReset(t)
       PROVE  MbMoves /\ MailsHeld
  <2>1. Goto(t, "sched", t) /\ mail' = mail /\ MbClears
    BY <1>14 DEF MbReset, MbClears
  <2> QED
    BY <1>1, <2>1, GoesElsewhere, MailsStay DEF MbMoves
<1> QED
  BY <1>2, <1>3, <1>4, <1>5, <1>6, <1>7, <1>8, <1>9, <1>10, <1>11, <1>12, <1>13, <1>14
     DEF MbStep

MbCells == 0 .. MbSize - 1
MbRecord == [in : MbCells, out : MbCells, entry : 0 .. MbSize,
             last : Mail \cup {Null, "reset"},
             pool : [MbCells -> Mail \cup {Null}]]

\* The place that is filled next is behind the mails in the ring.
MbGood(x) == x \in MbRecord /\ x.in = (x.out + x.entry) % MbSize

MbHeld(x) == [i \in 1 .. x.entry |-> x.pool[(x.out + i - 1) % MbSize]]

LEMMA MbTypes ==
    ASSUME NEW x, MbGood(x)
    PROVE  /\ MbSize \in Nat \ {0} /\ x.in \in MbCells /\ x.out \in MbCells
           /\ x.entry \in 0 .. MbSize /\ x.entry \in Nat
           /\ x.pool \in [MbCells -> Mail \cup {Null}] /\ x.last \in Mail \cup {Null, "reset"}
           /\ x.in = (x.out + x.entry) % MbSize
BY MailboxAssumption DEF MbGood, MbRecord

LEMMA MbPlace ==
    ASSUME NEW a \in MbCells, NEW i \in 0 .. MbSize
    PROVE  /\ (a + i) % MbSize \in MbCells
           /\ (a + i) % MbSize = IF a + i < MbSize THEN a + i ELSE a + i - MbSize
<1>1. MbSize \in Nat \ {0} /\ a \in Nat /\ a < MbSize /\ i \in Nat /\ i <= MbSize
  BY MailboxAssumption DEF MbCells
<1>2. PICK e \in Nat : e = a + i
  BY <1>1
<1>3. e % MbSize = IF e < 0 THEN e + MbSize ELSE IF e < MbSize THEN e ELSE e - MbSize
  <2>1. e \in Int /\ -MbSize <= e /\ e < 2 * MbSize
    BY <1>1, <1>2
  <2> QED
    BY <1>1, <2>1, Turn
<1> QED
  BY <1>1, <1>2, <1>3 DEF MbCells

LEMMA MbHeldSeq ==
    ASSUME NEW x, MbGood(x)
    PROVE  /\ MbHeld(x) \in Seq(Mail \cup {Null}) /\ Len(MbHeld(x)) = x.entry
           /\ \A i \in 1 .. x.entry : /\ MbHeld(x)[i] = x.pool[(x.out + i - 1) % MbSize]
                                      /\ (x.out + i - 1) % MbSize \in MbCells
<1>1. /\ MbSize \in Nat \ {0} /\ x.out \in MbCells /\ x.entry \in 0 .. MbSize
      /\ x.entry \in Nat /\ x.pool \in [MbCells -> Mail \cup {Null}]
  BY MbTypes
<1>2. ASSUME NEW i \in 1 .. x.entry
      PROVE  (x.out + i - 1) % MbSize \in MbCells
  <2>1. x.out + i - 1 \in Int
    BY <1>1 DEF MbCells
  <2> QED
    BY <1>1, <2>1 DEF MbCells
<1>3. MbHeld(x) \in [1 .. x.entry -> Mail \cup {Null}]
  BY <1>1, <1>2 DEF MbHeld
<1>4. MbHeld(x) \in Seq(Mail \cup {Null}) /\ Len(MbHeld(x)) = x.entry
  BY <1>1, <1>3
<1>5. \A i \in 1 .. x.entry : MbHeld(x)[i] = x.pool[(x.out + i - 1) % MbSize]
  BY DEF MbHeld
<1> QED
  BY <1>2, <1>4, <1>5

LEMMA MbNextMod ==
    ASSUME NEW a \in MbCells, NEW n \in 0 .. MbSize - 1
    PROVE  MbNext((a + n) % MbSize) = (a + (n + 1)) % MbSize
<1>1. MbSize \in Nat \ {0} /\ n \in 0 .. MbSize /\ n + 1 \in 0 .. MbSize /\ a \in Nat
  BY MailboxAssumption DEF MbCells
<1>2. (a + n) % MbSize = IF a + n < MbSize THEN a + n ELSE a + n - MbSize
  BY <1>1, MbPlace
<1>3. (a + (n + 1)) % MbSize =
        IF a + (n + 1) < MbSize THEN a + (n + 1) ELSE a + (n + 1) - MbSize
  BY <1>1, MbPlace
<1> QED
  BY <1>1, <1>2, <1>3 DEF MbNext, MbCells

LEMMA MbPutAppends ==
    ASSUME NEW x, MbGood(x), x.entry # MbSize, NEW m \in Mail, NEW y,
           y = [x EXCEPT !.pool[x.in] = m, !.in = MbNext(x.in), !.entry = x.entry + 1,
                         !.last = Null]
    PROVE  MbGood(y) /\ MbHeld(y) = Append(MbHeld(x), m) /\ y.last = Null
<1>1. /\ MbSize \in Nat \ {0} /\ x.in \in MbCells /\ x.out \in MbCells
      /\ x.entry \in 0 .. MbSize - 1 /\ x.entry \in Nat
      /\ x.pool \in [MbCells -> Mail \cup {Null}] /\ x \in MbRecord
      /\ x.in = (x.out + x.entry) % MbSize
  BY MbTypes DEF MbGood
<1>2. /\ y.in = MbNext(x.in) /\ y.out = x.out /\ y.entry = x.entry + 1 /\ y.last = Null
      /\ y.pool = [x.pool EXCEPT ![x.in] = m]
  BY <1>1 DEF MbRecord
<1>3. MbNext(x.in) = (x.out + (x.entry + 1)) % MbSize
  BY <1>1, MbNextMod
<1>4. MbNext(x.in) \in MbCells /\ x.entry + 1 \in 0 .. MbSize
  BY <1>1 DEF MbNext, MbCells
<1>5. [x.pool EXCEPT ![x.in] = m] \in [MbCells -> Mail \cup {Null}]
  BY <1>1
<1>6. y \in MbRecord
  BY <1>1, <1>4, <1>5 DEF MbRecord
<1>7. MbGood(y)
  BY <1>2, <1>3, <1>6 DEF MbGood
<1>8. /\ MbHeld(x) \in Seq(Mail \cup {Null}) /\ Len(MbHeld(x)) = x.entry
      /\ \A i \in 1 .. x.entry : /\ MbHeld(x)[i] = x.pool[(x.out + i - 1) % MbSize]
                                 /\ (x.out + i - 1) % MbSize \in MbCells
  BY MbHeldSeq
<1>9. /\ MbHeld(y) \in Seq(Mail \cup {Null}) /\ Len(MbHeld(y)) = x.entry + 1
      /\ \A i \in 1 .. x.entry + 1 : MbHeld(y)[i] = y.pool[(x.out + i - 1) % MbSize]
  <2>1. /\ MbHeld(y) \in Seq(Mail \cup {Null}) /\ Len(MbHeld(y)) = y.entry
        /\ \A i \in 1 .. y.entry : MbHeld(y)[i] = y.pool[(y.out + i - 1) % MbSize]
    BY <1>7, MbHeldSeq
  <2> QED
    BY <1>2, <2>1
<1>10. ASSUME NEW i \in 1 .. x.entry
       PROVE  MbHeld(y)[i] = MbHeld(x)[i]
  <2>1. PICK a \in Nat, b \in Nat : a = x.out + i - 1 /\ b = x.out + x.entry
    BY <1>1 DEF MbCells
  <2>2. a < b /\ b < a + MbSize
    BY <1>1, <2>1, SMTT(30) DEF MbCells
  <2>3. a % MbSize # b % MbSize
    BY <1>1, <2>2, ModDistinct
  <2>4. i \in 1 .. x.entry + 1
    BY <1>1
  <2> QED
    BY <1>1, <1>2, <1>8, <1>9, <2>1, <2>3, <2>4
<1>11. MbHeld(y)[x.entry + 1] = m
  <2>1. x.out + (x.entry + 1) - 1 = x.out + x.entry /\ x.entry + 1 \in 1 .. x.entry + 1
    BY <1>1 DEF MbCells
  <2>2. MbHeld(y)[x.entry + 1] = y.pool[(x.out + (x.entry + 1) - 1) % MbSize]
    BY <1>9, <2>1
  <2>3. (x.out + (x.entry + 1) - 1) % MbSize = x.in
    BY <1>1, <2>1
  <2> QED
    BY <1>1, <1>2, <2>2, <2>3
<1>12. MbHeld(y) = Append(MbHeld(x), m)
  BY <1>1, <1>8, <1>9, <1>10, <1>11
<1> QED
  BY <1>2, <1>7, <1>12

LEMMA MbTakeIsTail ==
    ASSUME NEW x, MbGood(x), x.entry # 0, NEW y,
           y = [x EXCEPT !.pool[x.out] = Null, !.out = MbNext(x.out), !.entry = x.entry - 1,
                         !.last = x.pool[x.out]]
    PROVE  /\ MbGood(y) /\ MbHeld(x) # << >> /\ MbHeld(y) = Tail(MbHeld(x))
           /\ y.last = Head(MbHeld(x))
<1>1. /\ MbSize \in Nat \ {0} /\ x.in \in MbCells /\ x.out \in MbCells
      /\ x.entry \in 1 .. MbSize /\ x.entry \in Nat
      /\ x.pool \in [MbCells -> Mail \cup {Null}] /\ x \in MbRecord
      /\ x.in = (x.out + x.entry) % MbSize
  BY MbTypes DEF MbGood
<1>2. /\ y.in = x.in /\ y.out = MbNext(x.out) /\ y.entry = x.entry - 1
      /\ y.last = x.pool[x.out] /\ y.pool = [x.pool EXCEPT ![x.out] = Null]
  BY <1>1 DEF MbRecord
<1>3. MbNext(x.out) \in MbCells /\ x.entry - 1 \in 0 .. MbSize
  BY <1>1 DEF MbNext, MbCells
<1>4. [x.pool EXCEPT ![x.out] = Null] \in [MbCells -> Mail \cup {Null}]
  BY <1>1
<1>5. y \in MbRecord
  BY <1>1, <1>3, <1>4 DEF MbRecord
<1>6. ASSUME NEW n \in 0 .. MbSize - 1
      PROVE  (MbNext(x.out) + n) % MbSize = (x.out + (n + 1)) % MbSize
  <2>1. n \in 0 .. MbSize /\ n + 1 \in 0 .. MbSize
    BY <1>1
  <2>2. (MbNext(x.out) + n) % MbSize =
        IF MbNext(x.out) + n < MbSize THEN MbNext(x.out) + n ELSE MbNext(x.out) + n - MbSize
    BY <1>3, <2>1, MbPlace
  <2>3. (x.out + (n + 1)) % MbSize =
        IF x.out + (n + 1) < MbSize THEN x.out + (n + 1) ELSE x.out + (n + 1) - MbSize
    BY <1>1, <2>1, MbPlace
  <2>4. PICK a \in MbCells, b \in MbCells : a = x.out /\ b = MbNext(x.out)
    BY <1>1, <1>3
  <2>5. b = IF a + 1 >= MbSize THEN 0 ELSE a + 1
    BY <2>4 DEF MbNext
  <2> QED
    <3>1. CASE a + 1 >= MbSize
      BY <1>1, <2>2, <2>3, <2>4, <2>5, <3>1, SMTT(30) DEF MbCells
    <3>2. CASE a + 1 < MbSize
      <4>1. ~(a + 1 >= MbSize) /\ a \in Int /\ n \in Int
        BY <1>1, <3>2 DEF MbCells
      <4>2. b = a + 1
        BY <2>5, <4>1
      <4>3. b + n = a + (n + 1)
        BY <4>1, <4>2
      <4> QED
        BY <2>4, <4>3
    <3> QED
      BY <1>1, <3>1, <3>2 DEF MbCells
<1>7. MbGood(y)
  <2>1. x.entry - 1 \in 0 .. MbSize - 1 /\ (x.entry - 1) + 1 = x.entry
    BY <1>1
  <2>2. (MbNext(x.out) + (x.entry - 1)) % MbSize = (x.out + ((x.entry - 1) + 1)) % MbSize
    BY <1>6, <2>1
  <2> QED
    BY <1>1, <1>2, <1>5, <2>1, <2>2 DEF MbGood
<1>8. /\ MbHeld(x) \in Seq(Mail \cup {Null}) /\ Len(MbHeld(x)) = x.entry
      /\ \A i \in 1 .. x.entry : /\ MbHeld(x)[i] = x.pool[(x.out + i - 1) % MbSize]
                                 /\ (x.out + i - 1) % MbSize \in MbCells
  BY MbHeldSeq
<1>9. /\ MbHeld(y) \in Seq(Mail \cup {Null}) /\ Len(MbHeld(y)) = x.entry - 1
      /\ \A i \in 1 .. x.entry - 1 : MbHeld(y)[i] = y.pool[(MbNext(x.out) + i - 1) % MbSize]
  <2>1. /\ MbHeld(y) \in Seq(Mail \cup {Null}) /\ Len(MbHeld(y)) = y.entry
        /\ \A i \in 1 .. y.entry : MbHeld(y)[i] = y.pool[(y.out + i - 1) % MbSize]
    BY <1>7, MbHeldSeq
  <2> QED
    BY <1>2, <2>1
<1>10. ASSUME NEW i \in 1 .. x.entry - 1
       PROVE  MbHeld(y)[i] = MbHeld(x)[i + 1]
  <2>1. PICK n \in 0 .. MbSize - 1, a \in MbCells, c \in MbCells, l \in 1 .. MbSize :
            n = i - 1 /\ a = x.out /\ c = MbNext(x.out) /\ l = x.entry
    BY <1>1, <1>3
  <2>2. PICK b \in Nat : b = a + (n + 1)
    BY <1>1 DEF MbCells
  <2>3. /\ c + i - 1 = c + n /\ i + 1 \in 1 .. l /\ a + (i + 1) - 1 = b /\ a \in Nat
        /\ a < b /\ b < a + MbSize
    BY <1>1, <2>1, <2>2, SMTT(30) DEF MbCells
  <2>4. x.out % MbSize # b % MbSize /\ x.out % MbSize = x.out
    <3>1. a % MbSize # b % MbSize
      BY <1>1, <2>3, ModDistinct
    <3>2. a % MbSize = a
      BY <1>1, WithinMod DEF MbCells
    <3> QED
      BY <2>1, <3>1, <3>2
  <2>5. MbHeld(x)[i + 1] = x.pool[b % MbSize] /\ b % MbSize \in MbCells
    BY <1>8, <2>1, <2>3
  <2>6. MbHeld(y)[i] = y.pool[b % MbSize]
    BY <1>6, <1>9, <2>1, <2>2, <2>3
  <2> QED
    BY <1>1, <1>2, <2>4, <2>5, <2>6
<1>11. MbHeld(x)[1] = x.pool[x.out]
  <2>1. (x.out + 1 - 1) % MbSize = x.out /\ 1 \in 1 .. x.entry
    <3>1. PICK a \in MbCells : a = x.out
      BY <1>1
    <3>2. a + 1 - 1 = a /\ a % MbSize = a
      BY <1>1, WithinMod DEF MbCells
    <3> QED
      BY <1>1, <3>1, <3>2
  <2> QED
    BY <1>8, <2>1
<1>12. MbHeld(x) # << >> /\ Head(MbHeld(x)) = x.pool[x.out]
  BY <1>1, <1>8, <1>11
<1>13. MbHeld(y) = Tail(MbHeld(x))
  BY <1>1, <1>8, <1>9, <1>10, <1>12
<1> QED
  BY <1>2, <1>7, <1>12, <1>13

LEMMA MbReset0 ==
    ASSUME NEW x, MbGood(x), NEW y,
           y = [x EXCEPT !.pool = [i \in DOMAIN x.pool |-> Null],
                         !.in = 0, !.out = 0, !.entry = 0, !.last = "reset"]
    PROVE  MbGood(y) /\ MbHeld(y) = << >> /\ y.last = "reset"
<1>1. MbSize \in Nat \ {0} /\ x \in MbRecord /\ x.pool \in [MbCells -> Mail \cup {Null}]
  BY MbTypes DEF MbGood
<1>2. 0 \in MbCells /\ 0 \in 0 .. MbSize /\ 0 % MbSize = 0
  BY <1>1 DEF MbCells
<1>3. [i \in DOMAIN x.pool |-> Null] \in [MbCells -> Mail \cup {Null}]
  BY <1>1
<1>4. y \in MbRecord /\ y.in = 0 /\ y.out = 0 /\ y.entry = 0 /\ y.last = "reset"
  BY <1>1, <1>2, <1>3 DEF MbRecord
<1>5. MbGood(y)
  BY <1>2, <1>4 DEF MbGood
<1>6. MbHeld(y) \in Seq(Mail \cup {Null}) /\ Len(MbHeld(y)) = 0
  BY <1>4, <1>5, MbHeldSeq
<1> QED
  BY <1>4, <1>5, <1>6

\* Every step on the mailbox is a step of the channel or changes nothing there.
LEMMA MbMovesAreChannelSteps ==
    ASSUME MbGood(mb), MbMoves
    PROVE  MbGood(mb') /\ [MbChannel!Next]_<<MbContents, mb.last>>
<1>1. MbContents = MbHeld(mb) /\ MbContents' = MbHeld(mb')
  BY DEF MbContents, MbHeld
<1>2. CASE mb' = mb
  BY <1>1, <1>2
<1>3. ASSUME ~MbFull, NEW m \in Mail, MbPut(m)
      PROVE  MbGood(mb') /\ MbChannel!Send(m)
  <2>1. mb' = [mb EXCEPT !.pool[mb.in] = m, !.in = MbNext(mb.in), !.entry = mb.entry + 1,
                         !.last = Null]
    BY <1>3 DEF MbPut, MbGood, MbRecord
  <2>2. mb.entry # MbSize
    BY <1>3 DEF MbFull
  <2>3. MbGood(mb') /\ MbHeld(mb') = Append(MbHeld(mb), m) /\ mb'.last = Null
    BY <2>1, <2>2, MbPutAppends
  <2>4. Len(MbHeld(mb)) < MbSize
    BY <2>2, MbHeldSeq, MbTypes
  <2> QED
    BY <1>1, <2>3, <2>4 DEF MbChannel!Send
<1>4. ASSUME ~MbEmpty, MbTake
      PROVE  MbGood(mb') /\ MbChannel!Receive
  <2>1. mb' = [mb EXCEPT !.pool[mb.out] = Null, !.out = MbNext(mb.out),
                         !.entry = mb.entry - 1, !.last = mb.pool[mb.out]]
    BY <1>4 DEF MbTake, MbGood, MbRecord
  <2>2. mb.entry # 0
    BY <1>4 DEF MbEmpty
  <2>3. /\ MbGood(mb') /\ MbHeld(mb) # << >> /\ MbHeld(mb') = Tail(MbHeld(mb))
        /\ mb'.last = Head(MbHeld(mb))
    BY <2>1, <2>2, MbTakeIsTail
  <2> QED
    BY <1>1, <2>3 DEF MbChannel!Receive
<1>5. ASSUME MbClears
      PROVE  MbGood(mb') /\ MbChannel!Clear
  <2>1. MbGood(mb') /\ MbHeld(mb') = << >> /\ mb'.last = "reset"
    BY <1>5, MbReset0 DEF MbClears
  <2> QED
    BY <1>1, <2>1 DEF MbChannel!Clear
<1> QED
  BY <1>2, <1>3, <1>4, <1>5 DEF MbMoves, MbChannel!Next

LEMMA MbForgets ==
    ASSUME MbGood(mb), mb' = [mb EXCEPT !.last = Null]
    PROVE  MbGood(mb') /\ MbChannel!Next
<1>1. /\ mb'.in = mb.in /\ mb'.out = mb.out /\ mb'.entry = mb.entry /\ mb'.pool = mb.pool
      /\ mb'.last = Null /\ mb' \in MbRecord
  BY DEF MbGood, MbRecord
<1>2. MbGood(mb')
  BY <1>1 DEF MbGood
<1>3. MbContents' = MbContents
  BY <1>1 DEF MbContents
<1> QED
  BY <1>1, <1>2, <1>3 DEF MbChannel!Next, MbChannel!Forget

-----------------------------------------------------------------------------
(* The data queue *)

DqMoves ==
    \/ dq' = dq
    \/ ~DqFull /\ DqMayPush /\ \E m \in Item : DqPut(m)
    \/ ~DqEmpty /\ DqTake

\* How the steps of the data queue leave the senders.
ItemsHeld ==
    /\ DOMAIN pc' = Thread
    /\ item' \in [Thread -> Item \cup {Null}]
    /\ \A t \in Thread : Taking(t, DqPush)' => item'[t] \in Item
    /\ \A t \in Thread : Taking(t, MbTx)' => Taking(t, MbTx)

LEMMA ItemsStay ==
    ASSUME SendersHold, NoNewSender, item' = item
    PROVE  ItemsHeld
BY DEF SendersHold, NoNewSender, ItemsHeld

LEMMA ItemDone ==
    ASSUME SendersHold, NEW t \in Thread, item' = [item EXCEPT ![t] = Null],
           Goto(t, "sched", t) \/ Goto(t, "run", t)
    PROVE  ItemsHeld
<1>1. NoNewSender /\ \A o : ~Taking(t, o)'
  BY GoesElsewhere, LeavesSend DEF SendersHold
<1>2. item' \in [Thread -> Item \cup {Null}] /\ \A u \in Thread : u # t => item'[u] = item[u]
  BY DEF SendersHold
<1> QED
  BY <1>1, <1>2 DEF SendersHold, NoNewSender, ItemsHeld

LEMMA PushMoves ==
    ASSUME SendersHold, NEW t \in User,
           \/ \E m \in Item : Push(t, m) \/ \E time \in Int : PushBlocks(t, m, time)
           \/ PushResumed(t) \/ PushAgain(t) \/ PushFails(t)
    PROVE  DqMoves /\ ItemsHeld
<1>1. DOMAIN pc = Thread /\ t \in Thread /\ MbTx # DqPush
  BY MessagesAssumption DEF SendersHold, User
<1>2. ASSUME NEW m \in Item, Push(t, m)
      PROVE  DqMoves /\ ItemsHeld
  BY <1>1, <1>2, ResumeFirstSenders, ItemsStay DEF Push, DqMoves
<1>3. ASSUME NEW m \in Item, NEW time \in Int, PushBlocks(t, m, time)
      PROVE  DqMoves /\ ItemsHeld
  <2>1. Goto(t, "take_sched", DqPush) /\ dq' = dq /\ item' = [item EXCEPT ![t] = m]
    BY <1>3 DEF PushBlocks, WaitFirst, Wait
  <2>2. /\ DOMAIN pc' = Thread
        /\ \A u \in Thread : \A l \in {MbTx, DqPush} :
             Taking(u, l)' => Taking(u, l) \/ (u = t /\ l = DqPush)
    BY <1>1, <2>1, WaitsElsewhere
  <2>3. /\ item' \in [Thread -> Item \cup {Null}] /\ item'[t] = m
        /\ \A u \in Thread : u # t => item'[u] = item[u]
    BY <1>1, <2>1 DEF SendersHold
  <2> QED
    BY <1>1, <2>1, <2>2, <2>3 DEF DqMoves, ItemsHeld, SendersHold
<1>4. CASE PushResumed(t)
  <2>1. /\ ~DqFull /\ DqMayPush /\ DqPut(item[t]) /\ Taking(t, DqPush)
        /\ item' = [item EXCEPT ![t] = Null]
        /\ Goto(t, "sched", t) \/ Goto(t, "run", t)
    BY <1>4 DEF PushResumed, Resumed, Is, Taking, ResumeFirst
  <2>2. item[t] \in Item
    BY <1>1, <2>1 DEF SendersHold
  <2> QED
    BY <1>1, <2>1, <2>2, ItemDone DEF DqMoves
<1>5. CASE PushAgain(t)
  <2>1. Goto(t, "take_sched", DqPush) /\ dq' = dq /\ item' = item /\ Taking(t, DqPush)
    BY <1>5 DEF PushAgain, WaitAgain, Wait, dataqueue, Resumed, Is, Taking
  <2>2. /\ DOMAIN pc' = Thread
        /\ \A u \in Thread : \A l \in {MbTx, DqPush} :
             Taking(u, l)' => Taking(u, l) \/ (u = t /\ l = DqPush)
    BY <1>1, <2>1, WaitsElsewhere
  <2> QED
    BY <1>1, <2>1, <2>2 DEF DqMoves, ItemsHeld, SendersHold
<1>6. CASE PushFails(t)
  <2>1. dq' = dq /\ item' = [item EXCEPT ![t] = Null] /\ Goto(t, "run", t)
    BY <1>6 DEF PushFails, WaitFails
  <2> QED
    BY <1>1, <2>1, ItemDone DEF DqMoves
<1> QED
  BY <1>2, <1>3, <1>4, <1>5, <1>6

LEMMA PopMoves ==
    ASSUME SendersHold, NEW t \in User,
           \/ Pop(t) \/ \E time \in Int : PopBlocks(t, time)
           \/ PopResumed(t) \/ PopAgain(t) \/ PopFails(t)
    PROVE  DqMoves /\ ItemsHeld
<1>1. DOMAIN pc = Thread /\ DqPop \notin {MbTx, DqPush}
  BY MessagesAssumption DEF SendersHold
<1>2. CASE Pop(t)
  <2>1. ~DqEmpty /\ DqTake /\ item' = item /\ (ResumeFirst(t, DqPush) \/ pc' = pc)
    BY <1>2 DEF Pop
  <2> QED
    BY <1>1, <2>1, ResumeFirstSenders, PcStays, ItemsStay DEF DqMoves
<1>3. ASSUME NEW time \in Int, PopBlocks(t, time)
      PROVE  DqMoves /\ ItemsHeld
  <2>1. Goto(t, "take_sched", DqPop) /\ dq' = dq /\ item' = item
    BY <1>3 DEF PopBlocks, WaitFirst, Wait, dataqueue
  <2> QED
    BY <1>1, <2>1, WaitsElsewhere, ItemsStay DEF DqMoves
<1>4. CASE PopResumed(t)
  <2>1. ~DqEmpty /\ DqTake /\ item' = item /\ (ResumeFirst(t, DqPush) \/ Goto(t, "run", t))
    BY <1>4 DEF PopResumed
  <2> QED
    BY <1>1, <2>1, ResumeFirstSenders, GoesElsewhere, ItemsStay DEF DqMoves
<1>5. CASE PopAgain(t)
  <2>1. Goto(t, "take_sched", DqPop) /\ dq' = dq /\ item' = item
    BY <1>5 DEF PopAgain, WaitAgain, Wait, dataqueue
  <2> QED
    BY <1>1, <2>1, WaitsElsewhere, ItemsStay DEF DqMoves
<1>6. CASE PopFails(t)
  <2>1. dq' = dq /\ item' = item /\ WaitFails(t, DqPop)
    BY <1>6 DEF PopFails, dataqueue
  <2> QED
    BY <1>1, <2>1, WaitFailsSenders, ItemsStay DEF DqMoves
<1> QED
  BY <1>2, <1>3, <1>4, <1>5, <1>6

LEMMA IsrMoves ==
    ASSUME SendersHold, IsrPop \/ \E m \in Item : IsrPush(m)
    PROVE  DqMoves /\ ItemsHeld
<1>1. DOMAIN pc = Thread
  BY DEF SendersHold
<1>2. CASE IsrPop
  <2>1. ~DqEmpty /\ DqTake /\ item' = item /\ pc' = pc
    BY <1>2 DEF IsrPop, IsrResumeFirst
  <2> QED
    BY <1>1, <2>1, PcStays, ItemsStay DEF DqMoves
<1>3. ASSUME NEW m \in Item, IsrPush(m)
      PROVE  DqMoves /\ ItemsHeld
  <2>1. ~DqFull /\ DqMayPush /\ DqPut(m) /\ item' = item /\ pc' = pc
    BY <1>3 DEF IsrPush, IsrResumeFirst
  <2> QED
    BY <1>1, <2>1, PcStays, ItemsStay DEF DqMoves
<1> QED
  BY <1>2, <1>3

LEMMA DqResetMoves ==
    ASSUME SendersHold, NEW t \in User,
           DqReset(t) \/ DqResetCheck(t) \/ DqResetWake(t) \/ DqResetSchedule(t)
    PROVE  DqMoves /\ ItemsHeld
<1>1. DOMAIN pc = Thread
  BY DEF SendersHold
<1>2. dq' = dq /\ item' = item
  BY DEF DqReset, DqResetCheck, DqResetWake, DqResetSchedule, dataqueue
<1>3. \E at \in {"dq_check", "dq_wake", "dq_unlocked", "sched"} : \E o : Goto(t, at, o)
  BY DEF DqReset, DqResetCheck, DqResetWake, DqResetSchedule
<1>4. NoNewSender
  BY <1>1, <1>3, GoesElsewhere
<1> QED
  BY <1>2, <1>4, ItemsStay DEF DqMoves

LEMMA TimesAreInts ==
    ASSUME NEW t
    PROVE  TimesOf(t) \subseteq Int
BY IpcAssumption DEF TimesOf

LEMMA DqStepMoves ==
    ASSUME SendersHold, NEW producer \in SUBSET User, NEW consumer \in SUBSET User,
           DqStep(producer, consumer)
    PROVE  DqMoves /\ ItemsHeld
BY IsrMoves, PushMoves, PopMoves, DqResetMoves, TimesAreInts DEF DqStep

LEMMA TxStepMoves ==
    ASSUME SendersHold, NEW producer \in SUBSET User, TxStep(producer)
    PROVE  DqMoves /\ ItemsHeld
<1>1. DOMAIN pc = Thread
  BY DEF SendersHold
<1>2. CASE TxDmaDone
  <2>1. CASE IsrPop
    BY <2>1, IsrMoves
  <2>2. CASE UNCHANGED <<kernel, waiting, dataqueue>>
    <3>1. dq' = dq /\ item' = item /\ pc' = pc
      BY <2>2 DEF kernel, dataqueue
    <3> QED
      BY <1>1, <3>1, PcStays, ItemsStay DEF DqMoves
  <2> QED
    BY <1>2, <2>1, <2>2 DEF TxDmaDone
<1>3. ASSUME NEW t \in producer, TxPushResumed(t)
      PROVE  DqMoves /\ ItemsHeld
  BY <1>3, PushMoves DEF TxPushResumed
<1>4. ASSUME NEW t \in producer, TxActivate(t)
      PROVE  DqMoves /\ ItemsHeld
  <2>1. dq' = dq /\ item' = item /\ (pc' = pc \/ Goto(t, "tx_start", t))
    BY <1>4 DEF TxActivate, dataqueue
  <2> QED
    BY <1>1, <2>1, PcStays, GoesElsewhere, ItemsStay DEF DqMoves
<1>5. ASSUME NEW t \in producer, TxStart(t)
      PROVE  DqMoves /\ ItemsHeld
  <2>1. dq' = dq /\ item' = item /\ Goto(t, "run", t)
    BY <1>5 DEF TxStart, dataqueue
  <2> QED
    BY <1>1, <2>1, GoesElsewhere, ItemsStay DEF DqMoves
<1>6. ASSUME NEW t \in producer, NEW m \in Item, TxPush(t, m)
      PROVE  DqMoves /\ ItemsHeld
  <2>1. Push(t, m) \/ PushBlocks(t, m, -1)
    BY <1>6 DEF TxPush
  <2>2. -1 \in Int
    OBVIOUS
  <2> QED
    BY <2>1, <2>2, PushMoves
<1> QED
  BY <1>2, <1>3, <1>4, <1>5, <1>6 DEF TxStep

DqCells == 0 .. DqSize - 1
DqRecord == [put : 0 .. IdxMod - 1, get : 0 .. IdxMod - 1, count : Nat,
             last : Item \cup {Null}, cell : [DqCells -> Item \cup {Null}]]

\* As long as the indexes do not wrap, put is at most DqSize ahead of get.
DqGood(x) ==
    /\ x \in DqRecord
    /\ x.get <= x.put /\ x.put - x.get <= DqSize /\ x.count = x.put - x.get

DqHeld(x) == [i \in 1 .. x.put - x.get |-> x.cell[(x.get + i - 1) % DqSize]]

LEMMA DqTypes ==
    ASSUME NEW x, DqGood(x)
    PROVE  /\ DqSize \in Nat \ {0} /\ IdxMod \in Nat /\ x \in DqRecord
           /\ x.put \in Nat /\ x.get \in Nat /\ x.put < IdxMod /\ x.get <= x.put
           /\ x.put - x.get \in Nat /\ x.put - x.get <= DqSize /\ x.count = x.put - x.get
           /\ x.cell \in [DqCells -> Item \cup {Null}]
<1>1. DqSize \in Nat \ {0} /\ IdxMod \in Nat
  BY DataQueueAssumption
<1>2. /\ x \in DqRecord /\ x.put \in 0 .. IdxMod - 1 /\ x.get \in 0 .. IdxMod - 1
      /\ x.cell \in [DqCells -> Item \cup {Null}]
  BY DEF DqGood, DqRecord
<1>3. x.get <= x.put /\ x.put - x.get <= DqSize /\ x.count = x.put - x.get
  BY DEF DqGood
<1> QED
  BY <1>1, <1>2, <1>3

LEMMA DqHeldSeq ==
    ASSUME NEW x, DqGood(x), NEW n, n = x.put - x.get
    PROVE  /\ n \in Nat /\ DqHeld(x) \in Seq(Item \cup {Null}) /\ Len(DqHeld(x)) = n
           /\ \A i \in 1 .. n : /\ DqHeld(x)[i] = x.cell[(x.get + i - 1) % DqSize]
                                /\ (x.get + i - 1) % DqSize \in DqCells
<1>1. /\ DqSize \in Nat \ {0} /\ x.get \in Nat /\ n \in Nat
      /\ x.cell \in [DqCells -> Item \cup {Null}]
  BY DqTypes
<1>2. ASSUME NEW i \in 1 .. n
      PROVE  (x.get + i - 1) % DqSize \in DqCells
  <2>1. x.get + i - 1 \in Int
    BY <1>1
  <2> QED
    BY <1>1, <2>1 DEF DqCells
<1>3. DqHeld(x) = [i \in 1 .. n |-> x.cell[(x.get + i - 1) % DqSize]]
  BY DEF DqHeld
<1>4. DqHeld(x) \in [1 .. n -> Item \cup {Null}]
  BY <1>1, <1>2, <1>3
<1>5. DqHeld(x) \in Seq(Item \cup {Null}) /\ Len(DqHeld(x)) = n
  BY <1>1, <1>4
<1>6. \A i \in 1 .. n : DqHeld(x)[i] = x.cell[(x.get + i - 1) % DqSize]
  BY <1>3
<1> QED
  BY <1>1, <1>2, <1>5, <1>6

LEMMA DqPutAppends ==
    ASSUME NEW x, DqGood(x), x.put - x.get # DqSize, x.put + 1 < IdxMod, NEW m \in Item, NEW y,
           y = [x EXCEPT !.cell[x.put % DqSize] = m, !.put = (x.put + 1) % IdxMod,
                         !.count = x.count + 1, !.last = Null]
    PROVE  DqGood(y) /\ DqHeld(y) = Append(DqHeld(x), m) /\ y.last = Null
<1>1. /\ DqSize \in Nat \ {0} /\ IdxMod \in Nat /\ x \in DqRecord
      /\ x.put \in Nat /\ x.get \in Nat /\ x.put < IdxMod /\ x.get <= x.put
      /\ x.count = x.put - x.get /\ x.cell \in [DqCells -> Item \cup {Null}]
      /\ x.put - x.get \in Nat /\ x.put - x.get < DqSize
  BY DqTypes
<1>2. (x.put + 1) % IdxMod = x.put + 1 /\ x.put + 1 \in 0 .. IdxMod - 1
  BY <1>1, WithinMod
<1>3. x.put % DqSize \in DqCells
  BY <1>1 DEF DqCells
<1>4. /\ y.put = x.put + 1 /\ y.get = x.get /\ y.count = x.count + 1 /\ y.last = Null
      /\ y.cell = [x.cell EXCEPT ![x.put % DqSize] = m]
  BY <1>1, <1>2 DEF DqRecord
<1>5. [x.cell EXCEPT ![x.put % DqSize] = m] \in [DqCells -> Item \cup {Null}]
  BY <1>1, <1>3
<1>6. x.count + 1 \in Nat
  BY <1>1
<1>7. y \in DqRecord
  BY <1>1, <1>2, <1>5, <1>6 DEF DqRecord
<1>8. DqGood(y)
  BY <1>1, <1>4, <1>7 DEF DqGood
<1>9. PICK n \in Nat : n = x.put - x.get
  BY <1>1
<1>10. y.put - y.get = n + 1
  BY <1>1, <1>4, <1>9
<1>11. /\ DqHeld(x) \in Seq(Item \cup {Null}) /\ Len(DqHeld(x)) = n
       /\ \A i \in 1 .. n : /\ DqHeld(x)[i] = x.cell[(x.get + i - 1) % DqSize]
                            /\ (x.get + i - 1) % DqSize \in DqCells
  BY <1>9, DqHeldSeq
<1>12. /\ DqHeld(y) \in Seq(Item \cup {Null}) /\ Len(DqHeld(y)) = n + 1
       /\ \A i \in 1 .. n + 1 : DqHeld(y)[i] = y.cell[(x.get + i - 1) % DqSize]
  <2>1. /\ DqHeld(y) \in Seq(Item \cup {Null}) /\ Len(DqHeld(y)) = n + 1
        /\ \A i \in 1 .. n + 1 : DqHeld(y)[i] = y.cell[(y.get + i - 1) % DqSize]
    BY <1>8, <1>10, DqHeldSeq
  <2> QED
    BY <1>4, <2>1
<1>13. ASSUME NEW i \in 1 .. n
       PROVE  DqHeld(y)[i] = DqHeld(x)[i]
  <2>1. PICK a \in Nat, b \in Nat : a = x.get + i - 1 /\ b = x.put
    BY <1>1
  <2>2. a < b /\ b < a + DqSize
    BY <1>1, <1>9, <2>1
  <2>3. a % DqSize # b % DqSize
    BY <1>1, <2>2, ModDistinct
  <2>4. i \in 1 .. n + 1
    BY <1>9
  <2> QED
    BY <1>1, <1>4, <1>11, <1>12, <2>1, <2>3, <2>4
<1>14. DqHeld(y)[n + 1] = m
  <2>1. x.get + (n + 1) - 1 = x.put /\ n + 1 \in 1 .. n + 1
    BY <1>1, <1>9
  <2>2. DqHeld(y)[n + 1] = y.cell[(x.get + (n + 1) - 1) % DqSize]
    BY <1>12, <2>1
  <2> QED
    BY <1>1, <1>3, <1>4, <2>1, <2>2
<1>15. DqHeld(y) = Append(DqHeld(x), m)
  BY <1>11, <1>12, <1>13, <1>14
<1> QED
  BY <1>4, <1>8, <1>15

LEMMA DqTakeIsTail ==
    ASSUME NEW x, DqGood(x), x.put # x.get, NEW y,
           y = [x EXCEPT !.get = (x.get + 1) % IdxMod, !.last = x.cell[x.get % DqSize],
                         !.count = x.count - 1, !.cell[x.get % DqSize] = Null]
    PROVE  /\ DqGood(y) /\ DqHeld(x) # << >> /\ DqHeld(y) = Tail(DqHeld(x))
           /\ y.last = Head(DqHeld(x))
<1>1. /\ DqSize \in Nat \ {0} /\ IdxMod \in Nat /\ x \in DqRecord
      /\ x.put \in Nat /\ x.get \in Nat /\ x.put < IdxMod /\ x.get < x.put
      /\ x.count = x.put - x.get /\ x.cell \in [DqCells -> Item \cup {Null}]
      /\ x.put - x.get \in Nat /\ x.put - x.get <= DqSize
  BY DqTypes
<1>2. (x.get + 1) % IdxMod = x.get + 1 /\ x.get + 1 \in 0 .. IdxMod - 1
  BY <1>1, WithinMod
<1>3. x.get % DqSize \in DqCells
  BY <1>1 DEF DqCells
<1>4. /\ y.put = x.put /\ y.get = x.get + 1 /\ y.count = x.count - 1
      /\ y.last = x.cell[x.get % DqSize]
      /\ y.cell = [x.cell EXCEPT ![x.get % DqSize] = Null]
  BY <1>1, <1>2 DEF DqRecord
<1>5. [x.cell EXCEPT ![x.get % DqSize] = Null] \in [DqCells -> Item \cup {Null}]
  BY <1>1, <1>3
<1>6. x.count - 1 \in Nat /\ x.cell[x.get % DqSize] \in Item \cup {Null}
  BY <1>1, <1>3
<1>7. y \in DqRecord
  BY <1>1, <1>2, <1>5, <1>6 DEF DqRecord
<1>8. DqGood(y)
  BY <1>1, <1>4, <1>7 DEF DqGood
<1>9. PICK n \in Nat : n = x.put - x.get /\ n >= 1
  BY <1>1
<1>10. y.put - y.get = n - 1 /\ n - 1 \in Nat
  BY <1>1, <1>4, <1>9
<1>11. /\ DqHeld(x) \in Seq(Item \cup {Null}) /\ Len(DqHeld(x)) = n
       /\ \A i \in 1 .. n : /\ DqHeld(x)[i] = x.cell[(x.get + i - 1) % DqSize]
                            /\ (x.get + i - 1) % DqSize \in DqCells
  BY <1>9, DqHeldSeq
<1>12. /\ DqHeld(y) \in Seq(Item \cup {Null}) /\ Len(DqHeld(y)) = n - 1
       /\ \A i \in 1 .. n - 1 : DqHeld(y)[i] = y.cell[(y.get + i - 1) % DqSize]
  BY <1>8, <1>10, DqHeldSeq
<1>13. ASSUME NEW i \in 1 .. n - 1
       PROVE  DqHeld(y)[i] = DqHeld(x)[i + 1]
  <2>1. PICK a \in Nat, b \in Nat : a = x.get /\ b = x.get + i
    BY <1>1
  <2>2. a < b /\ b < a + DqSize
    BY <1>1, <1>9, <2>1
  <2>3. a % DqSize # b % DqSize
    BY <1>1, <2>2, ModDistinct
  <2>4. i + 1 \in 1 .. n /\ x.get + (i + 1) - 1 = b /\ y.get + i - 1 = b
    BY <1>1, <1>4, <1>9, <2>1
  <2>5. DqHeld(x)[i + 1] = x.cell[b % DqSize] /\ b % DqSize \in DqCells
    BY <1>11, <2>4
  <2>6. DqHeld(y)[i] = y.cell[b % DqSize]
    BY <1>12, <2>4
  <2> QED
    BY <1>1, <1>4, <2>1, <2>3, <2>5, <2>6
<1>14. DqHeld(x)[1] = x.cell[x.get % DqSize]
  <2>1. x.get + 1 - 1 = x.get /\ 1 \in 1 .. n
    BY <1>1, <1>9
  <2> QED
    BY <1>11, <2>1
<1>15. DqHeld(x) # << >> /\ Head(DqHeld(x)) = x.cell[x.get % DqSize]
  BY <1>9, <1>11, <1>14
<1>16. DqHeld(y) = Tail(DqHeld(x))
  BY <1>9, <1>11, <1>12, <1>13, <1>15
<1> QED
  BY <1>4, <1>8, <1>15, <1>16

LEMMA DqMovesAreChannelSteps ==
    ASSUME DqGood(dq), DqMoves, "dq_wrap" \notin Ops
    PROVE  DqGood(dq') /\ [DqChannel!Next]_<<DqHeld(dq), dq.last>>
<1>1. CASE dq' = dq
  BY <1>1
<1>2. ASSUME ~DqFull, DqMayPush, NEW m \in Item, DqPut(m)
      PROVE  DqGood(dq') /\ DqChannel!Send(m)
  <2>1. dq' = [dq EXCEPT !.cell[dq.put % DqSize] = m, !.put = (dq.put + 1) % IdxMod,
                         !.count = dq.count + 1, !.last = Null]
    BY <1>2 DEF DqPut, DqGood, DqRecord
  <2>2. dq.put - dq.get # DqSize /\ dq.put + 1 < IdxMod
    BY <1>2 DEF DqFull, DqMayPush
  <2>3. DqGood(dq') /\ DqHeld(dq') = Append(DqHeld(dq), m) /\ dq'.last = Null
    BY <2>1, <2>2, DqPutAppends
  <2>4. Len(DqHeld(dq)) < DqSize
    BY <2>2, DqHeldSeq, DqTypes
  <2> QED
    BY <2>3, <2>4 DEF DqChannel!Send, DqHeld
<1>3. ASSUME ~DqEmpty, DqTake
      PROVE  DqGood(dq') /\ DqChannel!Receive
  <2>1. dq' = [dq EXCEPT !.get = (dq.get + 1) % IdxMod, !.last = dq.cell[dq.get % DqSize],
                         !.count = dq.count - 1, !.cell[dq.get % DqSize] = Null]
    BY <1>3 DEF DqTake, DqGood, DqRecord
  <2>2. dq.put # dq.get
    BY <1>3 DEF DqEmpty
  <2>3. /\ DqGood(dq') /\ DqHeld(dq) # << >> /\ DqHeld(dq') = Tail(DqHeld(dq))
        /\ dq'.last = Head(DqHeld(dq))
    BY <2>1, <2>2, DqTakeIsTail
  <2> QED
    BY <2>3 DEF DqChannel!Receive, DqHeld
<1> QED
  BY <1>1, <1>2, <1>3 DEF DqMoves, DqChannel!Next

LEMMA DqForgets ==
    ASSUME DqGood(dq), dq' = [dq EXCEPT !.last = Null]
    PROVE  DqGood(dq') /\ DqChannel!Next
<1>1. /\ dq'.put = dq.put /\ dq'.get = dq.get /\ dq'.count = dq.count /\ dq'.cell = dq.cell
      /\ dq'.last = Null /\ dq' \in DqRecord
  BY DEF DqGood, DqRecord
<1>2. DqGood(dq')
  BY <1>1 DEF DqGood
<1> QED
  BY <1>1, <1>2 DEF DqChannel!Next, DqChannel!Forget

-----------------------------------------------------------------------------
(* The whole system *)

LEMMA MqStepSenders ==
    ASSUME DOMAIN pc = Thread, NEW producer, NEW consumer, MqStep(producer, consumer)
    PROVE  NoNewSender
<1>1. MqRx \notin {MbTx, DqPush}
  BY MessagesAssumption
<1>2. ASSUME NEW m \in Message, MqIsrSend(m)
      PROVE  NoNewSender
  BY <1>2, PcStays DEF MqIsrSend, IsrResumeFirst
<1>3. ASSUME NEW t, NEW m, NEW at \in {"mq_send", "mq_urgent"}, MqSend(t, m, at)
      PROVE  NoNewSender
  BY <1>3, GoesElsewhere DEF MqSend
<1>4. ASSUME NEW t, MqLink(t)
      PROVE  NoNewSender
  BY <1>4, ResumeFirstSenders DEF MqLink
<1>5. ASSUME NEW t, MqRecv(t) \/ MqRecvResumed(t)
      PROVE  NoNewSender
  BY <1>5, GoesElsewhere DEF MqRecv, MqRecvResumed, MqUnlink
<1>6. ASSUME NEW t, NEW time, MqRecvBlocks(t, time)
      PROVE  NoNewSender
  BY <1>1, <1>6, WaitsElsewhere DEF MqRecvBlocks, WaitFirst, Wait
<1>7. ASSUME NEW t, MqRecvAgain(t)
      PROVE  NoNewSender
  BY <1>1, <1>7, WaitsElsewhere DEF MqRecvAgain, WaitAgain, Wait
<1>8. ASSUME NEW t, MqRecvGivesUp(t)
      PROVE  NoNewSender
  BY <1>8, WaitFailsSenders DEF MqRecvGivesUp
<1>9. ASSUME NEW t, MqCopied(t)
      PROVE  NoNewSender
  BY <1>9, GoesElsewhere DEF MqCopied
<1>10. ASSUME NEW t, MqReset(t)
       PROVE  NoNewSender
  BY <1>10, GoesElsewhere DEF MqReset
<1> QED
  BY <1>2, <1>3, <1>4, <1>5, <1>6, <1>7, <1>8, <1>9, <1>10 DEF MqStep

\* The threads that send and receive are threads.
LEMMA Parties ==
    ASSUME SendersHold
    PROVE  sys.producer \in SUBSET User /\ sys.consumer \in SUBSET User
BY MessagesAssumption DEF SendersHold

\* The disjuncts of the next-state relation, with what each leaves alone.
LEMMA NextCases ==
    ASSUME [Next]_vars
    PROVE  /\ sys' = sys
           /\ \/ /\ IpcStep(Deletable) /\ Forget
                 /\ UNCHANGED <<mail, mine, text, item, rb, serial>>
              \/ /\ "mailbox" \in sys.has /\ MbStep(sys.producer, sys.consumer)
                 /\ UNCHANGED <<queue, dataqueue, serial, ring>>
              \/ /\ "queue" \in sys.has /\ MqStep(sys.producer, sys.consumer)
                 /\ UNCHANGED <<mailbox, dataqueue, serial, ring>>
              \/ /\ "dataqueue" \in sys.has /\ DqStep(sys.producer, sys.consumer)
                 /\ UNCHANGED <<mailbox, queue, serial, ring>>
              \/ /\ RbStep
                 /\ UNCHANGED <<kernel, waiting, mailbox, queue, dataqueue, serial>>
              \/ /\ RxStep(sys.consumer)
                 /\ UNCHANGED <<kernel, waiting, mailbox, queue, dataqueue, tx, ring>>
              \/ /\ "tx" \in sys.has /\ TxStep(sys.producer)
                 /\ UNCHANGED <<mailbox, queue, rx, rxin, ring>>
              \/ UNCHANGED <<kernel, waiting, mailbox, queue, dataqueue, serial, ring>>
BY DEF Next, vars

LEMMA SendersInit ==
    ASSUME Init
    PROVE  SendersHold
<1>1. sys \in Systems /\ pc = [t \in Thread |-> [at |-> "run", arg |-> t]]
      /\ mail = [t \in Thread |-> Null] /\ item = [t \in Thread |-> Null]
  BY DEF Init, SystemInit, MbInit, DqInit
<1>2. \A t \in Thread : \A o : ~Taking(t, o)
  BY <1>1 DEF Taking
<1> QED
  BY <1>1, <1>2 DEF SendersHold

LEMMA SendersNext ==
    ASSUME SendersHold, [Next]_vars
    PROVE  SendersHold'
<1>1. sys' \in Systems /\ DOMAIN pc = Thread
      /\ sys.producer \in SUBSET User /\ sys.consumer \in SUBSET User
  BY NextCases, Parties DEF SendersHold
<1>2. ASSUME NoNewSender, mail' = mail, item' = item
      PROVE  SendersHold'
  BY <1>1, <1>2 DEF SendersHold, NoNewSender
<1>3. CASE IpcStep(Deletable) /\ UNCHANGED <<mail, mine, text, item, rb, serial>>
  BY <1>1, <1>2, <1>3, IpcStepSenders
<1>4. CASE /\ MbStep(sys.producer, sys.consumer)
           /\ UNCHANGED <<queue, dataqueue, serial, ring>>
  <2>1. MailsHeld /\ item' = item
    BY <1>1, <1>4, MbStepMoves DEF dataqueue
  <2> QED
    BY <1>1, <2>1 DEF MailsHeld, SendersHold
<1>5. CASE MqStep(sys.producer, sys.consumer) /\ UNCHANGED <<mailbox, dataqueue, serial, ring>>
  BY <1>1, <1>2, <1>5, MqStepSenders DEF mailbox, dataqueue
<1>6. CASE DqStep(sys.producer, sys.consumer) /\ UNCHANGED <<mailbox, queue, serial, ring>>
  <2>1. ItemsHeld /\ mail' = mail
    BY <1>1, <1>6, DqStepMoves DEF mailbox
  <2> QED
    BY <1>1, <2>1 DEF ItemsHeld, SendersHold
<1>7. CASE TxStep(sys.producer) /\ UNCHANGED <<mailbox, queue, rx, rxin, ring>>
  <2>1. ItemsHeld /\ mail' = mail
    BY <1>1, <1>7, TxStepMoves DEF mailbox
  <2> QED
    BY <1>1, <2>1 DEF ItemsHeld, SendersHold
<1>8. CASE UNCHANGED <<kernel, waiting, mailbox, queue, dataqueue>>
  BY <1>1, <1>2, <1>8, PcStays DEF kernel, mailbox, dataqueue
<1> QED
  BY <1>3, <1>4, <1>5, <1>6, <1>7, <1>8, NextCases

LEMMA MbNextStep ==
    ASSUME SendersHold, MbGood(mb), [Next]_vars
    PROVE  MbGood(mb') /\ [MbChannel!Next]_<<MbContents, mb.last>>
<1>1. sys.producer \in SUBSET User /\ sys.consumer \in SUBSET User
  BY Parties
<1>2. CASE Forget
  BY <1>2, MbForgets DEF Forget
<1>3. CASE MbStep(sys.producer, sys.consumer)
  BY <1>1, <1>3, MbStepMoves, MbMovesAreChannelSteps
<1>4. CASE UNCHANGED mailbox
  BY <1>4, MbMovesAreChannelSteps DEF mailbox, MbMoves
<1> QED
  BY <1>2, <1>3, <1>4, NextCases

LEMMA DqNextStep ==
    ASSUME SendersHold, DqGood(dq), [Next]_vars, "dq_wrap" \notin Ops
    PROVE  DqGood(dq') /\ [DqChannel!Next]_<<DqHeld(dq), dq.last>>
<1>1. sys.producer \in SUBSET User /\ sys.consumer \in SUBSET User
  BY Parties
<1>2. CASE Forget
  BY <1>2, DqForgets DEF Forget
<1>3. CASE DqStep(sys.producer, sys.consumer)
  BY <1>1, <1>3, DqStepMoves, DqMovesAreChannelSteps
<1>4. CASE TxStep(sys.producer)
  BY <1>1, <1>4, TxStepMoves, DqMovesAreChannelSteps
<1>5. CASE UNCHANGED dataqueue
  BY <1>5, DqMovesAreChannelSteps DEF dataqueue, DqMoves
<1> QED
  BY <1>2, <1>3, <1>4, <1>5, NextCases

LEMMA RbNextStep ==
    ASSUME RbGood(rb), [Next]_vars, ~RbLap
    PROVE  RbGood(rb') /\ [RbStream!Next]_<<CopyOut(data_len), rbout>>
<1>1. CASE RbStep
  BY <1>1, RbStepIsStreamStep
<1>2. ASSUME rb' = rb
      PROVE  RbGood(rb') /\ CopyOut(data_len)' = CopyOut(data_len)
  BY <1>2 DEF CopyOut, data_len
<1>3. CASE Forget /\ rb' = rb
  BY <1>2, <1>3 DEF Forget, RbStream!Next, RbStream!Changes, RbStream!Forget
<1>4. CASE UNCHANGED ring
  BY <1>2, <1>4 DEF ring
<1> QED
  BY <1>1, <1>3, <1>4, NextCases

LEMMA DqInitGood ==
    ASSUME Init
    PROVE  DqGood(dq) /\ dq.put - dq.get = 0 /\ dq.last = Null
<1>1. dq = [put |-> 0, get |-> 0, count |-> 0, last |-> Null,
            cell |-> [i \in 0 .. DqSize - 1 |-> Null]]
  BY DEF Init, DqInit
<1>2. DqSize \in Nat \ {0} /\ 0 \in 0 .. IdxMod - 1
  BY DataQueueAssumption
<1> QED
  BY <1>1, <1>2 DEF DqGood, DqRecord, DqCells

\* The mailbox of ipc.c implements a bounded first-in first-out channel, for every size
\* and however many threads and handlers send, receive, time out, reset and delete.
THEOREM MailboxImplementsChannel == Spec => MailboxIsChannel
<1>1. Init => SendersHold /\ MbGood(mb) /\ MbChannel!Init
  <2> SUFFICES ASSUME Init
               PROVE  SendersHold /\ MbGood(mb) /\ MbChannel!Init
    OBVIOUS
  <2>1. mb = [in |-> 0, out |-> 0, entry |-> 0, last |-> Null,
              pool |-> [i \in 0 .. MbSize - 1 |-> Null]]
    BY DEF Init, MbInit
  <2>2. MbSize \in Nat \ {0} /\ 0 \in MbCells /\ 0 \in 0 .. MbSize /\ 0 % MbSize = 0
    BY MailboxAssumption, WithinMod DEF MbCells
  <2>3. MbGood(mb)
    BY <2>1, <2>2 DEF MbGood, MbRecord, MbCells
  <2>4. MbContents = << >>
    BY <2>1 DEF MbContents
  <2> QED
    BY <2>1, <2>3, <2>4, SendersInit DEF MbChannel!Init
<1>2. SendersHold /\ MbGood(mb) /\ [Next]_vars =>
        (SendersHold /\ MbGood(mb))' /\ [MbChannel!Next]_<<MbContents, mb.last>>
  BY SendersNext, MbNextStep
<1> QED
  BY <1>1, <1>2, PTL DEF Spec, MailboxIsChannel, MbChannel!Spec

\* As long as the indexes do not wrap, the data queue of dataqueue.c implements a
\* bounded first-in first-out channel, for every size, low water mark and number of
\* threads, also when the serial driver pushes and pops.
THEOREM DataQueueImplementsChannel ==
    ASSUME "dq_wrap" \notin Ops
    PROVE  Spec => DataQueueIsChannel
<1>1. Init => SendersHold /\ DqGood(dq) /\ DqChannel!Init
  BY SendersInit, DqInitGood DEF DqChannel!Init
<1>2. SendersHold /\ DqGood(dq) /\ [Next]_vars =>
        (SendersHold /\ DqGood(dq))' /\ [DqChannel!Next]_<<DqHeld(dq), dq.last>>
  BY SendersNext, DqNextStep
<1> QED
  BY <1>1, <1>2, PTL DEF Spec, DataQueueIsChannel, DqChannel!Spec, DqHeld

\* The same condition under which the indexes are right keeps the data queue within
\* its size.
THEOREM DataQueueStaysWithinSize ==
    ASSUME "dq_wrap" \notin Ops
    PROVE  Spec => []DataQueueWithinSize
<1>1. Init => SendersHold /\ DqGood(dq)
  BY SendersInit, DqInitGood
<1>2. SendersHold /\ DqGood(dq) /\ [Next]_vars => (SendersHold /\ DqGood(dq))'
  BY SendersNext, DqNextStep
<1>3. DqGood(dq) => DataQueueWithinSize
  BY DqTypes DEF DataQueueWithinSize
<1> QED
  BY <1>1, <1>2, <1>3, PTL DEF Spec

\* The ring buffer of ringbuffer.c implements a bounded stream of bytes, for every
\* size and length of blocks: without put_force lapping a reader in the same mirror.
THEOREM RingImplementsStream ==
    ASSUME ~RbLap
    PROVE  Spec => RingIsStream
<1>1. Init => RbGood(rb) /\ RbStream!Init
  <2> SUFFICES ASSUME Init
               PROVE  RbGood(rb) /\ RbStream!Init
    OBVIOUS
  <2>1. /\ rb = [rm |-> 0, ri |-> 0, wm |-> 0, wi |-> 0, cell |-> [i \in Cells |-> RbNone]]
        /\ rbout = << >>
    BY DEF Init, RbInit
  <2>2. 0 \in Cells
    BY RingBufferAssumption DEF Cells
  <2>3. RbGood(rb)
    BY <2>1, <2>2 DEF RbGood, RbRecord
  <2>4. data_len = 0
    BY <2>1 DEF data_len
  <2>5. CopyOut(data_len) = << >>
    BY <2>4 DEF CopyOut
  <2> QED
    BY <2>1, <2>3, <2>5 DEF RbStream!Init
<1>2. RbGood(rb) /\ [Next]_vars =>
        RbGood(rb)' /\ [RbStream!Next]_<<CopyOut(data_len), rbout>>
  BY RbNextStep
<1> QED
  BY <1>1, <1>2, PTL DEF Spec, RingIsStream, RbStream!Spec

-----------------------------------------------------------------------------
(* The lists of the message queue *)

MqRecord ==
    [head : Slot \cup {Null}, tail : Slot \cup {Null}, free : Slot \cup {Null},
     entry : 0 .. Cardinality(Slot), next : [Slot -> Slot \cup {Null}],
     body : [Slot -> Message \cup {Null}], last : Message \cup {Null, "reset"}]

\* The slots of s are linked by x, each to the next one, from p on.
Chain(x, p, s) ==
    /\ s \in Seq(Slot) /\ \A i, j \in 1 .. Len(s) : s[i] = s[j] => i = j
    /\ p = IF Len(s) = 0 THEN Null ELSE s[1]
    /\ \A i \in 1 .. Len(s) : x[s[i]] = IF i = Len(s) THEN Null ELSE s[i + 1]

Among(y, s) == \E i \in 1 .. Len(s) : s[i] = y

\* There are no more slots in a list than there are.
LEMMA ChainFits ==
    ASSUME NEW x, NEW p, NEW s, Chain(x, p, s)
    PROVE  Len(s) \in Nat /\ Len(s) <= Cardinality(Slot) /\ Cardinality(Slot) \in Nat
<1>1. s \in Seq(Slot) /\ IsInjective(s)
  BY DEF Chain, IsInjective
<1>2. Cardinality(ToSet(s)) = Len(s) /\ Len(s) \in Nat
  BY <1>1, SeqCardinality
<1>3. ToSet(s) \subseteq Slot
  BY <1>1 DEF ToSet
<1> QED
  BY <1>2, <1>3, MessageQueueAssumption, FS_Subset, FS_CardinalityType

\* The recursion of Path
PathBody(q, p, m, f) == [n \in 0 .. m |-> IF n = 0 THEN << >> ELSE Follow(q, p, f[n - 1])]

\* It defines a function.
LEMMA PathExists ==
    ASSUME NEW q, NEW p, NEW n \in Nat
    PROVE  \E f : f = PathBody(q, p, n, f)
<1> DEFINE I == {m \in Nat : \E f : f = PathBody(q, p, m, f)}
<1>1. 0 \in I
  <2> DEFINE f == [m \in 0 .. 0 |-> << >>]
  <2>1. f = PathBody(q, p, 0, f)
    BY DEF PathBody
  <2> QED
    BY <2>1
<1>2. ASSUME NEW m \in Nat, m \in I PROVE m + 1 \in I
  <2>1. PICK f : f = PathBody(q, p, m, f)
    BY <1>2
  <2> DEFINE g == PathBody(q, p, m + 1, f)
  <2>2. \A i \in 0 .. m : g[i] = f[i]
    <3> SUFFICES ASSUME NEW i \in 0 .. m PROVE g[i] = f[i]
      OBVIOUS
    <3>1. i \in 0 .. m + 1
      OBVIOUS
    <3>2. g[i] = IF i = 0 THEN << >> ELSE Follow(q, p, f[i - 1])
      BY <3>1 DEF PathBody
    <3>3. PathBody(q, p, m, f)[i] = IF i = 0 THEN << >> ELSE Follow(q, p, f[i - 1])
      BY DEF PathBody
    <3> QED
      BY <2>1, <3>2, <3>3
  <2>3. g = PathBody(q, p, m + 1, g)
    <3> HIDE DEF g
    <3>1. \A i \in 0 .. m + 1 : i # 0 => f[i - 1] = g[i - 1]
      <4> SUFFICES ASSUME NEW i \in 0 .. m + 1, i # 0 PROVE f[i - 1] = g[i - 1]
        OBVIOUS
      <4>1. i - 1 \in 0 .. m
        OBVIOUS
      <4> QED
        BY <2>2, <4>1
    <3>2. PathBody(q, p, m + 1, f) = PathBody(q, p, m + 1, g)
      BY <3>1, Zenon DEF PathBody
    <3> QED
      BY <3>2 DEF g
  <2> HIDE DEF g
  <2> QED
    BY <2>3
<1> QED
  <2> HIDE DEF I
  <2>1. n \in I
    BY <1>1, <1>2, AllNumbers
  <2> QED
    BY <2>1 DEF I

\* The first n of some elements
Upto(s, n) == [i \in 1 .. n |-> s[i]]

\* Path follows the links: it yields the slots that are linked from p on.
LEMMA PathOfChain ==
    ASSUME NEW q, NEW p, NEW s, Chain(q.next, p, s)
    PROVE  Path(q, p) = s
<1>1. PICK N : N = Cardinality(Slot)
  OBVIOUS
<1>2. PICK L : L = Len(s)
  OBVIOUS
<1>3. N \in Nat /\ L \in Nat /\ L <= N /\ s \in Seq(Slot) /\ Len(s) = L
  BY <1>1, <1>2, ChainFits DEF Chain
<1> DEFINE upto == CHOOSE f : f = PathBody(q, p, N, f)
<1>4. Path(q, p) = upto[N]
  BY <1>1 DEF Path, PathBody
<1>5. upto = PathBody(q, p, N, upto)
  BY <1>3, PathExists
<1> HIDE DEF upto
<1>6. \A n \in 0 .. N : upto[n] = IF n = 0 THEN << >> ELSE Follow(q, p, upto[n - 1])
  <2> SUFFICES ASSUME NEW n \in 0 .. N
               PROVE  upto[n] = IF n = 0 THEN << >> ELSE Follow(q, p, upto[n - 1])
    OBVIOUS
  <2>1. PathBody(q, p, N, upto)[n] = IF n = 0 THEN << >> ELSE Follow(q, p, upto[n - 1])
    BY DEF PathBody
  <2> QED
    BY <1>5, <2>1
<1>7. ASSUME NEW n \in 0 .. L
      PROVE  Follow(q, p, Upto(s, n)) = Upto(s, IF n < L THEN n + 1 ELSE n)
  <2>1. Upto(s, n) \in Seq(Slot) /\ Len(Upto(s, n)) = n /\ (Upto(s, n) = << >> <=> n = 0)
    BY <1>3 DEF Upto
  <2>2. n # 0 => Last(Upto(s, n)) = s[n]
    BY <2>1 DEF Last, Upto
  <2>3. CASE n = L
    <3>1. (IF Upto(s, n) = << >> THEN p ELSE q.next[Last(Upto(s, n))]) = Null
      BY <1>2, <1>3, <2>1, <2>2, <2>3 DEF Chain
    <3> QED
      BY <1>3, <2>3, <3>1 DEF Follow
  <2>4. CASE n < L
    <3>1. n + 1 \in 1 .. L /\ s[n + 1] \in Slot /\ s[n + 1] # Null
      BY <1>3, <2>4, MessageQueueAssumption
    <3>2. (IF Upto(s, n) = << >> THEN p ELSE q.next[Last(Upto(s, n))]) = s[n + 1]
      BY <1>2, <1>3, <2>1, <2>2, <2>4 DEF Chain
    <3>3. Follow(q, p, Upto(s, n)) = Append(Upto(s, n), s[n + 1])
      BY <3>1, <3>2 DEF Follow
    <3>4. Append(Upto(s, n), s[n + 1]) = Upto(s, n + 1)
      <4> DEFINE a == Append(Upto(s, n), s[n + 1])
                 b == Upto(s, n + 1)
      <4>1. a \in Seq(Slot) /\ Len(a) = n + 1
        BY <2>1, <3>1
      <4>2. b \in Seq(Slot) /\ Len(b) = n + 1
        BY <1>3, <2>4 DEF Upto
      <4>3. \A i \in 1 .. n + 1 : a[i] = b[i]
        <5> SUFFICES ASSUME NEW i \in 1 .. n + 1 PROVE a[i] = b[i]
          OBVIOUS
        <5>1. b[i] = s[i]
          BY DEF Upto
        <5>2. a[i] = IF i = n + 1 THEN s[n + 1] ELSE Upto(s, n)[i]
          BY <2>1, <3>1
        <5> QED
          BY <5>1, <5>2 DEF Upto
      <4> HIDE DEF a, b
      <4>4. a = b
        BY <4>1, <4>2, <4>3
      <4> QED
        BY <4>4 DEF a, b
    <3> QED
      BY <2>4, <3>3, <3>4
  <2> QED
    BY <1>3, <2>3, <2>4
<1> DEFINE J == {n \in Nat : n <= N => upto[n] = Upto(s, IF n < L THEN n ELSE L)}
<1>8. 0 \in J
  <2>1. upto[0] = << >> /\ Upto(s, 0) = << >>
    BY <1>3, <1>6 DEF Upto
  <2> QED
    BY <1>3, <2>1
<1>9. ASSUME NEW n \in Nat, n \in J PROVE n + 1 \in J
  <2> SUFFICES ASSUME n + 1 <= N
               PROVE  upto[n + 1] = Upto(s, IF n + 1 < L THEN n + 1 ELSE L)
    OBVIOUS
  <2>1. n + 1 \in 0 .. N /\ n + 1 # 0 /\ (n + 1) - 1 = n /\ n <= N
    BY <1>3
  <2>2. upto[n + 1] = Follow(q, p, upto[n])
    BY <1>6, <2>1
  <2>3. upto[n] = Upto(s, IF n < L THEN n ELSE L)
    BY <1>9, <2>1
  <2>4. CASE n < L
    <3>1. Follow(q, p, Upto(s, n)) = Upto(s, n + 1)
      BY <1>3, <1>7, <2>4
    <3>2. (IF n + 1 < L THEN n + 1 ELSE L) = n + 1
      BY <1>3, <2>4
    <3> QED
      BY <2>2, <2>3, <2>4, <3>1, <3>2
  <2>5. CASE ~(n < L)
    <3>1. Follow(q, p, Upto(s, L)) = Upto(s, L)
      BY <1>3, <1>7
    <3>2. ~(n + 1 < L)
      BY <1>3, <2>5
    <3> QED
      BY <2>2, <2>3, <2>5, <3>1, <3>2
  <2> QED
    BY <2>4, <2>5
<1>10. N \in J
  <2> HIDE DEF J
  <2> QED
    BY <1>3, <1>8, <1>9, AllNumbers
<1>11. upto[N] = Upto(s, L)
  <2>1. upto[N] = Upto(s, IF N < L THEN N ELSE L)
    BY <1>3, <1>10
  <2>2. (IF N < L THEN N ELSE L) = L
    BY <1>3
  <2> QED
    BY <2>1, <2>2
<1>12. Upto(s, L) = s
  BY <1>3 DEF Upto
<1> QED
  BY <1>4, <1>11, <1>12

\* The queue holds the slots of us in this order, the free list those of fs, and the
\* threads those of h: each slot is in one of them, once.
Holds(q, h, us, fs) ==
    /\ q \in MqRecord
    /\ Chain(q.next, q.head, us) /\ Chain(q.next, q.free, fs)
    /\ \A y \in Slot : y \in h \/ Among(y, us) \/ Among(y, fs)
    /\ \A y \in Slot : Among(y, us) => y \notin h /\ ~Among(y, fs)
    /\ \A y \in Slot : Among(y, fs) => y \notin h
    /\ q.entry = Len(us)
    /\ q.tail = IF Len(us) = 0 THEN Null ELSE us[Len(us)]
    /\ \A i \in 1 .. Len(us) : q.body[us[i]] \in Message

\* The messages of the queue, in their order
Bodies(q, us) == [i \in 1 .. Len(us) |-> q.body[us[i]]]

\* A slot more at the end or at the front of a list
LEMMA AmongAppend ==
    ASSUME NEW s \in Seq(Slot), NEW x \in Slot, NEW y
    PROVE  Among(y, Append(s, x)) <=> Among(y, s) \/ y = x
<1> DEFINE a == Append(s, x)
<1>1. Len(a) = Len(s) + 1 /\ Len(s) \in Nat /\ a[Len(s) + 1] = x
      /\ \A i \in 1 .. Len(s) : a[i] = s[i]
  OBVIOUS
<1> HIDE DEF a
<1>2. Among(y, a) => Among(y, s) \/ y = x
  <2> SUFFICES ASSUME NEW i \in 1 .. Len(a), a[i] = y PROVE Among(y, s) \/ y = x
    BY DEF Among
  <2>1. i \in 1 .. Len(s) \/ i = Len(s) + 1
    BY <1>1
  <2> QED
    BY <1>1, <2>1 DEF Among
<1>3. Among(y, s) => Among(y, a)
  BY <1>1 DEF Among
<1>4. y = x => Among(y, a)
  <2>1. Len(s) + 1 \in 1 .. Len(a)
    BY <1>1
  <2> QED
    BY <1>1, <2>1 DEF Among
<1> QED
  BY <1>2, <1>3, <1>4 DEF a

\* A sequence without its last element
LEMMA FrontIsSeq ==
    ASSUME NEW s \in Seq(Slot), NEW x \in Slot
    PROVE  /\ <<x>> \o s \in Seq(Slot) /\ Len(<<x>> \o s) = Len(s) + 1 /\ Len(s) \in Nat
           /\ (<<x>> \o s)[1] = x
           /\ \A i \in 1 .. Len(s) + 1 : (<<x>> \o s)[i] = IF i = 1 THEN x ELSE s[i - 1]
           /\ \A i \in 1 .. Len(s) : (<<x>> \o s)[i + 1] = s[i]
OBVIOUS

\* What it still contains
LEMMA AmongFront ==
    ASSUME NEW s \in Seq(Slot), NEW x \in Slot, NEW y
    PROVE  Among(y, <<x>> \o s) <=> Among(y, s) \/ y = x
<1> DEFINE a == <<x>> \o s
<1>1. Len(a) = Len(s) + 1 /\ Len(s) \in Nat /\ a[1] = x
      /\ \A i \in 1 .. Len(s) : a[i + 1] = s[i]
  BY FrontIsSeq
<1> HIDE DEF a
<1>2. Among(y, a) => Among(y, s) \/ y = x
  <2> SUFFICES ASSUME NEW i \in 1 .. Len(a), a[i] = y, i # 1 PROVE Among(y, s)
    BY <1>1 DEF Among
  <2>1. i - 1 \in 1 .. Len(s) /\ (i - 1) + 1 = i
    BY <1>1
  <2> QED
    BY <1>1, <2>1 DEF Among
<1>3. Among(y, s) => Among(y, a)
  <2> SUFFICES ASSUME NEW i \in 1 .. Len(s), s[i] = y PROVE Among(y, a)
    BY DEF Among
  <2>1. i + 1 \in 1 .. Len(a) /\ a[i + 1] = y
    BY <1>1
  <2> QED
    BY <2>1 DEF Among
<1>4. y = x => Among(y, a)
  <2>1. 1 \in 1 .. Len(a)
    BY <1>1
  <2> QED
    BY <1>1, <2>1 DEF Among
<1> QED
  BY <1>2, <1>3, <1>4 DEF a

\* A list without its first slot
LEMMA ChainTail ==
    ASSUME NEW x, NEW p, NEW s, Chain(x, p, s), p # Null
    PROVE  /\ Len(s) # 0 /\ p = s[1] /\ p \in Slot /\ Len(s) \in Nat
           /\ Tail(s) \in Seq(Slot) /\ Len(Tail(s)) = Len(s) - 1
           /\ \A i \in 1 .. Len(s) - 1 : Tail(s)[i] = s[i + 1]
           /\ Chain(x, x[p], Tail(s))
           /\ \A y : Among(y, s) <=> Among(y, Tail(s)) \/ y = p
           /\ ~Among(p, Tail(s))
<1>1. s \in Seq(Slot) /\ Len(s) # 0 /\ p = s[1] /\ p \in Slot /\ Len(s) \in Nat
  BY DEF Chain
<1> DEFINE r == Tail(s)
<1>2. /\ r \in Seq(Slot) /\ Len(r) = Len(s) - 1 /\ Len(r) \in Nat
      /\ \A i \in 1 .. Len(s) - 1 : r[i] = s[i + 1]
  BY <1>1
<1> HIDE DEF r
<1>3. Chain(x, x[p], r)
  <2>1. ASSUME NEW i \in 1 .. Len(r), NEW j \in 1 .. Len(r), r[i] = r[j]
        PROVE  i = j
    <3>1. i + 1 \in 1 .. Len(s) /\ j + 1 \in 1 .. Len(s) /\ s[i + 1] = s[j + 1]
      BY <1>1, <1>2, <2>1
    <3>2. i + 1 = j + 1
      BY <3>1 DEF Chain
    <3> QED
      BY <3>2
  <2>2. x[p] = IF Len(r) = 0 THEN Null ELSE r[1]
    <3>1. 1 \in 1 .. Len(s)
      BY <1>1
    <3>2. x[s[1]] = IF 1 = Len(s) THEN Null ELSE s[1 + 1]
      BY <3>1 DEF Chain
    <3> QED
      BY <1>1, <1>2, <3>2
  <2>3. ASSUME NEW i \in 1 .. Len(r)
        PROVE  x[r[i]] = IF i = Len(r) THEN Null ELSE r[i + 1]
    <3>1. i + 1 \in 1 .. Len(s) /\ r[i] = s[i + 1] /\ (i = Len(r) <=> i + 1 = Len(s))
      BY <1>1, <1>2
    <3>2. x[s[i + 1]] = IF i + 1 = Len(s) THEN Null ELSE s[(i + 1) + 1]
      BY <3>1 DEF Chain
    <3>3. i # Len(r) => r[i + 1] = s[(i + 1) + 1]
      BY <1>1, <1>2
    <3> QED
      BY <3>1, <3>2, <3>3
  <2> QED
    BY <1>2, <2>1, <2>2, <2>3 DEF Chain
<1>4. ASSUME NEW y PROVE Among(y, s) <=> Among(y, r) \/ y = p
  <2>1. Among(y, s) => Among(y, r) \/ y = p
    <3> SUFFICES ASSUME NEW i \in 1 .. Len(s), s[i] = y, i # 1 PROVE Among(y, r)
      BY <1>1 DEF Among
    <3>1. i - 1 \in 1 .. Len(r) /\ r[i - 1] = y
      BY <1>1, <1>2
    <3> QED
      BY <3>1 DEF Among
  <2>2. Among(y, r) => Among(y, s)
    <3> SUFFICES ASSUME NEW i \in 1 .. Len(r), r[i] = y PROVE Among(y, s)
      BY DEF Among
    <3>1. i + 1 \in 1 .. Len(s) /\ s[i + 1] = y
      BY <1>1, <1>2
    <3> QED
      BY <3>1 DEF Among
  <2>3. y = p => Among(y, s)
    <3>1. 1 \in 1 .. Len(s)
      BY <1>1
    <3> QED
      BY <1>1, <3>1 DEF Among
  <2> QED
    BY <2>1, <2>2, <2>3
<1>5. ~Among(p, r)
  <2> SUFFICES ASSUME NEW i \in 1 .. Len(r), r[i] = p PROVE FALSE
    BY DEF Among
  <2>1. i + 1 \in 1 .. Len(s) /\ s[i + 1] = s[1] /\ 1 \in 1 .. Len(s)
    BY <1>1, <1>2
  <2>2. i + 1 = 1
    BY <2>1 DEF Chain
  <2> QED
    BY <2>2
<1> QED
  BY <1>1, <1>2, <1>3, <1>4, <1>5 DEF r

\* The links of other slots may change.
LEMMA ChainStays ==
    ASSUME NEW x, NEW z, NEW p, NEW s, Chain(x, p, s), \A y \in Slot : Among(y, s) => z[y] = x[y]
    PROVE  Chain(z, p, s)
<1>1. \A i \in 1 .. Len(s) : s[i] \in Slot /\ Among(s[i], s)
  BY DEF Chain, Among
<1> QED
  BY <1>1 DEF Chain

\* A slot is put in front.
LEMMA ChainFront ==
    ASSUME NEW x \in [Slot -> Slot \cup {Null}], NEW p, NEW s, Chain(x, p, s),
           NEW y \in Slot, ~Among(y, s)
    PROVE  Chain([x EXCEPT ![y] = p], y, <<y>> \o s)
<1> DEFINE a == <<y>> \o s
           z == [x EXCEPT ![y] = p]
<1>1. /\ s \in Seq(Slot) /\ a \in Seq(Slot) /\ Len(a) = Len(s) + 1 /\ Len(s) \in Nat /\ a[1] = y
      /\ \A i \in 1 .. Len(s) + 1 : a[i] = IF i = 1 THEN y ELSE s[i - 1]
      /\ \A i \in 1 .. Len(s) : a[i + 1] = s[i]
  BY FrontIsSeq DEF Chain
<1>2. z[y] = p /\ \A i \in 1 .. Len(s) : s[i] # y /\ z[s[i]] = x[s[i]]
  BY <1>1 DEF Among
<1> HIDE DEF a, z
<1>3. ASSUME NEW i \in 1 .. Len(a), NEW j \in 1 .. Len(a), a[i] = a[j]
      PROVE  i = j
  <2>1. /\ i # 1 => i - 1 \in 1 .. Len(s) /\ a[i] = s[i - 1]
        /\ j # 1 => j - 1 \in 1 .. Len(s) /\ a[j] = s[j - 1]
    BY <1>1
  <2>2. CASE i = 1 \/ j = 1
    BY <1>1, <1>2, <1>3, <2>1, <2>2
  <2>3. CASE i # 1 /\ j # 1
    <3>1. i - 1 = j - 1
      BY <1>3, <2>1, <2>3 DEF Chain
    <3> QED
      BY <3>1
  <2> QED
    BY <2>2, <2>3
<1>4. ASSUME NEW i \in 1 .. Len(a)
      PROVE  z[a[i]] = IF i = Len(a) THEN Null ELSE a[i + 1]
  <2>1. CASE i = 1
    <3>1. a[i] = y /\ z[a[i]] = p /\ (i = Len(a) <=> Len(s) = 0)
      BY <1>1, <1>2, <2>1
    <3>2. Len(s) # 0 => a[1 + 1] = s[1]
      BY <1>1
    <3> QED
      BY <2>1, <3>1, <3>2 DEF Chain
  <2>2. CASE i # 1
    <3>1. i - 1 \in 1 .. Len(s) /\ a[i] = s[i - 1] /\ (i = Len(a) <=> i - 1 = Len(s))
      BY <1>1, <2>2
    <3>2. z[s[i - 1]] = IF i - 1 = Len(s) THEN Null ELSE s[(i - 1) + 1]
      BY <1>2, <3>1 DEF Chain
    <3>3. i # Len(a) => a[i + 1] = s[(i - 1) + 1]
      BY <1>1
    <3> QED
      BY <3>1, <3>2, <3>3
  <2> QED
    BY <2>1, <2>2
<1>5. Chain(z, y, a)
  BY <1>1, <1>3, <1>4 DEF Chain
<1> QED
  BY <1>5 DEF a, z

\* A slot is linked to the end of a list.
LEMMA ChainBack ==
    ASSUME NEW x \in [Slot -> Slot \cup {Null}], NEW p, NEW s, Chain(x, p, s),
           NEW y \in Slot, ~Among(y, s),
           NEW z, z[y] = Null, Len(s) # 0 => z[s[Len(s)]] = y,
           \A i \in 1 .. Len(s) - 1 : z[s[i]] = x[s[i]]
    PROVE  Chain(z, IF p = Null THEN y ELSE p, Append(s, y))
<1> DEFINE a == Append(s, y)
<1>1. /\ s \in Seq(Slot) /\ a \in Seq(Slot) /\ Len(a) = Len(s) + 1 /\ Len(s) \in Nat
      /\ a[Len(s) + 1] = y /\ \A i \in 1 .. Len(s) : a[i] = s[i]
  BY DEF Chain
<1>2. \A i \in 1 .. Len(s) : s[i] # y /\ s[i] \in Slot /\ s[i] # Null
  BY <1>1, MessageQueueAssumption DEF Among
<1> HIDE DEF a
<1>3. ASSUME NEW i \in 1 .. Len(a), NEW j \in 1 .. Len(a), a[i] = a[j]
      PROVE  i = j
  <2>1. (i \in 1 .. Len(s) \/ i = Len(s) + 1) /\ (j \in 1 .. Len(s) \/ j = Len(s) + 1)
    BY <1>1
  <2> QED
    BY <1>1, <1>2, <1>3, <2>1 DEF Chain
<1>4. ASSUME NEW i \in 1 .. Len(a)
      PROVE  z[a[i]] = IF i = Len(a) THEN Null ELSE a[i + 1]
  <2>1. CASE i = Len(s) + 1
    BY <1>1, <2>1
  <2>2. CASE i = Len(s)
    BY <1>1, <2>2
  <2>3. CASE i \in 1 .. Len(s) - 1
    <3>1. i \in 1 .. Len(s) /\ i + 1 \in 1 .. Len(s) /\ i # Len(s) /\ i # Len(a)
      BY <1>1, <2>3
    <3>2. x[s[i]] = s[i + 1]
      BY <3>1 DEF Chain
    <3> QED
      BY <1>1, <2>3, <3>1, <3>2
  <2> QED
    BY <1>1, <2>1, <2>2, <2>3
<1>5. (IF p = Null THEN y ELSE p) = IF Len(a) = 0 THEN Null ELSE a[1]
  <2>1. CASE Len(s) = 0
    BY <1>1, <2>1 DEF Chain
  <2>2. CASE Len(s) # 0
    <3>1. p = s[1] /\ s[1] # Null /\ a[1] = s[1] /\ Len(a) # 0
      BY <1>1, <1>2, <2>2 DEF Chain
    <3> QED
      BY <3>1
  <2> QED
    BY <2>1, <2>2
<1>6. Chain(z, IF p = Null THEN y ELSE p, a)
  BY <1>1, <1>3, <1>4, <1>5 DEF Chain
<1> QED
  BY <1>6 DEF a

-----------------------------------------------------------------------------
(* What the functions of the message queue do to its lists *)

\* A slot comes off the free list.
LEMMA TakeSlotHolds ==
    ASSUME NEW q, NEW h, NEW us, NEW fs, Holds(q, h, us, fs), q.free # Null
    PROVE  /\ q.free \in Slot /\ q.free \notin h
           /\ Holds(TakeSlot(q), h \cup {q.free}, us, Tail(fs))
           /\ Bodies(TakeSlot(q), us) = Bodies(q, us) /\ TakeSlot(q).last = q.last
<1> DEFINE r == TakeSlot(q)
           f == q.free
           gs == Tail(fs)
<1>1. /\ f \in Slot /\ Chain(q.next, q.next[f], gs)
      /\ \A y : Among(y, fs) <=> Among(y, gs) \/ y = f
      /\ ~Among(f, gs)
  BY ChainTail DEF Holds
<1>2. /\ r.head = q.head /\ r.tail = q.tail /\ r.free = q.next[f] /\ r.entry = q.entry
      /\ r.next = q.next /\ r.body = q.body /\ r.last = q.last /\ r \in MqRecord
  BY <1>1 DEF Holds, MqRecord, TakeSlot
<1> HIDE DEF r, f, gs
<1>3. Chain(r.next, r.head, us) /\ Chain(r.next, r.free, gs)
  BY <1>1, <1>2 DEF Holds
<1>4. Holds(r, h \cup {f}, us, gs)
  BY <1>1, <1>2, <1>3 DEF Holds
<1>5. f \notin h
  BY <1>1 DEF Holds
<1> QED
  BY <1>1, <1>2, <1>4, <1>5 DEF r, f, gs, Bodies

\* A slot comes back to the free list.
LEMMA GiveSlotHolds ==
    ASSUME NEW q, NEW h, NEW us, NEW fs, Holds(q, h, us, fs), NEW s \in Slot, s \in h
    PROVE  /\ Holds(GiveSlot(q, s), h \ {s}, us, <<s>> \o fs)
           /\ Bodies(GiveSlot(q, s), us) = Bodies(q, us) /\ GiveSlot(q, s).last = q.last
<1> DEFINE r == GiveSlot(q, s)
           gs == <<s>> \o fs
<1>1. /\ r.head = q.head /\ r.tail = q.tail /\ r.free = s /\ r.entry = q.entry
      /\ r.next = [q.next EXCEPT ![s] = q.free] /\ r.body = [q.body EXCEPT ![s] = Null]
      /\ r.last = q.last /\ r \in MqRecord
  BY DEF Holds, MqRecord, GiveSlot
<1>2. q.next \in [Slot -> Slot \cup {Null}] /\ q.body \in [Slot -> Message \cup {Null}]
      /\ fs \in Seq(Slot) /\ us \in Seq(Slot)
  BY DEF Holds, MqRecord, Chain
<1>3. ~Among(s, us) /\ ~Among(s, fs)
  BY DEF Holds
<1>4. Chain(r.next, r.free, gs)
  BY <1>1, <1>2, <1>3, ChainFront DEF Holds
<1>5. Chain(r.next, r.head, us)
  <2>1. \A y \in Slot : Among(y, us) => r.next[y] = q.next[y]
    BY <1>1, <1>2, <1>3
  <2> QED
    BY <1>1, <2>1, ChainStays DEF Holds
<1>6. \A y : Among(y, gs) <=> Among(y, fs) \/ y = s
  BY <1>2, AmongFront
<1>7. \A i \in 1 .. Len(us) : r.body[us[i]] = q.body[us[i]]
  BY <1>1, <1>2, <1>3 DEF Among
<1> HIDE DEF r, gs
<1>8. Holds(r, h \ {s}, us, gs)
  BY <1>1, <1>3, <1>4, <1>5, <1>6, <1>7 DEF Holds
<1>9. Bodies(r, us) = Bodies(q, us)
  BY <1>7 DEF Bodies
<1> QED
  BY <1>1, <1>8, <1>9 DEF r, gs

\* The first message is taken out.
LEMMA TakeHeadHolds ==
    ASSUME NEW q, NEW h, NEW us, NEW fs, Holds(q, h, us, fs), q.entry # 0
    PROVE  /\ q.head \in Slot /\ q.head \notin h /\ Len(us) # 0
           /\ Holds(TakeHead(q), h \cup {q.head}, Tail(us), fs)
           /\ Bodies(TakeHead(q), Tail(us)) = Tail(Bodies(q, us))
           /\ TakeHead(q).last = Head(Bodies(q, us))
<1> DEFINE r == TakeHead(q)
           f == q.head
           vs == Tail(us)
<1>1. Len(us) # 0 /\ Len(us) \in Nat /\ us \in Seq(Slot) /\ f # Null
  <2>1. Len(us) # 0 /\ us \in Seq(Slot)
    BY DEF Holds, Chain
  <2>2. f = us[1] /\ us[1] \in Slot
    BY <2>1 DEF Holds, Chain
  <2> QED
    BY <2>1, <2>2, MessageQueueAssumption
<1>2. /\ f = us[1] /\ f \in Slot /\ Chain(q.next, q.next[f], vs)
      /\ vs \in Seq(Slot) /\ Len(vs) = Len(us) - 1 /\ Len(vs) \in Nat
      /\ \A i \in 1 .. Len(us) - 1 : vs[i] = us[i + 1]
      /\ \A y : Among(y, us) <=> Among(y, vs) \/ y = f
      /\ ~Among(f, vs)
  BY <1>1, ChainTail DEF Holds
<1>3. q.body[f] \in Message
  <2>1. 1 \in 1 .. Len(us)
    BY <1>1
  <2> QED
    BY <1>2, <2>1 DEF Holds
<1>4. /\ r.head = q.next[f] /\ r.tail = (IF q.tail = f THEN Null ELSE q.tail)
      /\ r.free = q.free /\ r.entry = q.entry - 1
      /\ r.next = q.next /\ r.body = q.body /\ r.last = q.body[f]
  BY DEF Holds, MqRecord, TakeHead
<1>5. r \in MqRecord
  <2>1. q.entry - 1 \in 0 .. Cardinality(Slot)
    BY ChainFits DEF Holds, MqRecord
  <2> QED
    BY <1>2, <1>3, <2>1 DEF Holds, MqRecord, TakeHead
<1> HIDE DEF r, vs
<1>6. r.tail = IF Len(vs) = 0 THEN Null ELSE vs[Len(vs)]
  <2>1. CASE Len(vs) = 0
    <3>1. Len(us) = 1
      BY <1>1, <1>2, <2>1
    <3> QED
      BY <1>2, <1>4, <2>1, <3>1 DEF Holds
  <2>2. CASE Len(vs) # 0
    <3>1. Len(vs) \in 1 .. Len(us) - 1 /\ Len(vs) + 1 = Len(us) /\ Len(vs) \in 1 .. Len(vs)
      BY <1>1, <1>2, <2>2
    <3>2. q.tail = vs[Len(vs)]
      BY <1>1, <1>2, <3>1 DEF Holds
    <3>3. q.tail # f
      BY <1>2, <3>1, <3>2 DEF Among
    <3> QED
      BY <1>4, <2>2, <3>2, <3>3
  <2> QED
    BY <2>1, <2>2
<1>7. \A i \in 1 .. Len(vs) : r.body[vs[i]] \in Message
  <2> SUFFICES ASSUME NEW i \in 1 .. Len(vs) PROVE r.body[vs[i]] \in Message
    OBVIOUS
  <2>1. i + 1 \in 1 .. Len(us) /\ vs[i] = us[i + 1]
    BY <1>1, <1>2
  <2> QED
    BY <1>4, <2>1 DEF Holds
<1>8. Chain(r.next, r.head, vs) /\ Chain(r.next, r.free, fs)
  BY <1>2, <1>4 DEF Holds
<1>9. f \notin h
  BY <1>2 DEF Holds
<1>10. r.entry = Len(vs)
  BY <1>2, <1>4 DEF Holds
<1>11. Holds(r, h \cup {f}, vs, fs)
  BY <1>2, <1>5, <1>6, <1>7, <1>8, <1>9, <1>10 DEF Holds
<1>12. Bodies(r, vs) = Tail(Bodies(q, us)) /\ q.body[f] = Head(Bodies(q, us))
  <2> DEFINE b == Bodies(q, us)
             c == Bodies(r, vs)
  <2>1. b \in Seq(Message) /\ Len(b) = Len(us) /\ \A i \in 1 .. Len(us) : b[i] = q.body[us[i]]
    BY <1>1 DEF Holds, Bodies
  <2>2. c \in Seq(Message) /\ Len(c) = Len(us) - 1
        /\ \A i \in 1 .. Len(us) - 1 : c[i] = q.body[vs[i]]
    BY <1>1, <1>2, <1>4, <1>7 DEF Bodies
  <2> HIDE DEF b, c
  <2>3. Tail(b) \in Seq(Message) /\ Len(Tail(b)) = Len(us) - 1
        /\ \A i \in 1 .. Len(us) - 1 : Tail(b)[i] = b[i + 1]
    BY <1>1, <2>1
  <2>4. \A i \in 1 .. Len(us) - 1 : c[i] = Tail(b)[i]
    <3> SUFFICES ASSUME NEW i \in 1 .. Len(us) - 1 PROVE c[i] = Tail(b)[i]
      OBVIOUS
    <3>1. i + 1 \in 1 .. Len(us)
      BY <1>1
    <3> QED
      BY <1>2, <2>1, <2>2, <2>3, <3>1
  <2>5. c = Tail(b)
    BY <2>2, <2>3, <2>4
  <2>6. 1 \in 1 .. Len(us) /\ Head(b) = b[1]
    BY <1>1, <2>1
  <2>7. Head(b) = q.body[f]
    BY <1>2, <2>1, <2>6
  <2> QED
    BY <2>5, <2>7 DEF b, c
<1> QED
  BY <1>1, <1>2, <1>4, <1>9, <1>11, <1>12 DEF r, vs

\* A sequence with one more at its front
Before(x, s) == <<x>> \o s

\* A message is linked in front of the others.
LEMMA LinkHeadHolds ==
    ASSUME NEW q, NEW h, NEW us, NEW fs, Holds(q, h, us, fs), NEW s \in Slot, s \in h,
           NEW m \in Message
    PROVE  /\ Holds(LinkHead(q, s, m), h \ {s}, Before(s, us), fs)
           /\ Bodies(LinkHead(q, s, m), Before(s, us)) = Before(m, Bodies(q, us))
           /\ LinkHead(q, s, m).last = Null
           /\ Len(us) < Cardinality(Slot)
<1> DEFINE r == LinkHead(q, s, m)
           vs == Before(s, us)
<1>1. q.next \in [Slot -> Slot \cup {Null}] /\ q.body \in [Slot -> Message \cup {Null}]
      /\ fs \in Seq(Slot) /\ us \in Seq(Slot) /\ q.entry \in Nat
  BY DEF Holds, MqRecord, Chain
<1>2. ~Among(s, us) /\ ~Among(s, fs) /\ s # Null
  BY MessageQueueAssumption DEF Holds
<1>3. /\ r.head = s /\ r.tail = (IF q.tail = Null THEN s ELSE q.tail)
      /\ r.free = q.free /\ r.entry = q.entry + 1
      /\ r.next = [q.next EXCEPT ![s] = q.head] /\ r.body = [q.body EXCEPT ![s] = m]
      /\ r.last = Null
  BY DEF Holds, MqRecord, LinkHead
<1>4. /\ vs \in Seq(Slot) /\ Len(vs) = Len(us) + 1 /\ Len(us) \in Nat /\ vs[1] = s
      /\ \A i \in 1 .. Len(us) + 1 : vs[i] = IF i = 1 THEN s ELSE us[i - 1]
      /\ \A i \in 1 .. Len(us) : vs[i + 1] = us[i]
  BY <1>1, FrontIsSeq DEF Before
<1>5. Chain(r.next, r.head, vs)
  BY <1>1, <1>2, <1>3, ChainFront DEF Holds, Before
<1>6. Chain(r.next, r.free, fs)
  <2>1. \A y \in Slot : Among(y, fs) => r.next[y] = q.next[y]
    BY <1>1, <1>2, <1>3
  <2> QED
    BY <1>3, <2>1, ChainStays DEF Holds
<1>7. r.entry = Len(vs) /\ r.entry \in 0 .. Cardinality(Slot) /\ Len(us) < Cardinality(Slot)
  <2>1. Len(vs) <= Cardinality(Slot) /\ Cardinality(Slot) \in Nat
    BY <1>5, ChainFits
  <2> QED
    BY <1>3, <1>4, <2>1 DEF Holds
<1>8. r \in MqRecord
  BY <1>7 DEF Holds, MqRecord, LinkHead
<1>9. \A y : Among(y, vs) <=> Among(y, us) \/ y = s
  BY <1>1, AmongFront DEF Before
<1>10. r.tail = vs[Len(vs)] /\ Len(vs) # 0
  <2>1. CASE Len(us) = 0
    BY <1>3, <1>4, <2>1 DEF Holds
  <2>2. CASE Len(us) # 0
    <3>1. Len(us) \in 1 .. Len(us)
      BY <1>4, <2>2
    <3>2. q.tail = us[Len(us)] /\ q.tail # Null /\ vs[Len(us) + 1] = us[Len(us)]
      BY <1>1, <1>4, <2>2, <3>1, MessageQueueAssumption DEF Holds
    <3> QED
      BY <1>3, <1>4, <3>2
  <2> QED
    BY <2>1, <2>2
<1>11. /\ r.body[s] = m /\ \A i \in 1 .. Len(us) : r.body[us[i]] = q.body[us[i]]
  BY <1>1, <1>2, <1>3 DEF Among
<1> HIDE DEF r, vs
<1>12. \A i \in 1 .. Len(vs) : r.body[vs[i]] = IF i = 1 THEN m ELSE q.body[us[i - 1]]
  <2> SUFFICES ASSUME NEW i \in 1 .. Len(vs), i # 1 PROVE r.body[vs[i]] = q.body[us[i - 1]]
    BY <1>4, <1>11
  <2>1. i - 1 \in 1 .. Len(us)
    BY <1>4
  <2> QED
    BY <1>4, <1>11, <2>1
<1>13. \A i \in 1 .. Len(vs) : r.body[vs[i]] \in Message
  <2> SUFFICES ASSUME NEW i \in 1 .. Len(vs), i # 1 PROVE q.body[us[i - 1]] \in Message
    BY <1>12
  <2>1. i - 1 \in 1 .. Len(us)
    BY <1>4
  <2> QED
    BY <2>1 DEF Holds
<1>14. Holds(r, h \ {s}, vs, fs)
  BY <1>2, <1>5, <1>6, <1>7, <1>8, <1>9, <1>10, <1>13 DEF Holds
<1>15. Bodies(r, vs) = Before(m, Bodies(q, us))
  <2> DEFINE b == Bodies(q, us)
             c == Bodies(r, vs)
             d == Before(m, b)
  <2>1. b \in Seq(Message) /\ Len(b) = Len(us) /\ \A i \in 1 .. Len(us) : b[i] = q.body[us[i]]
    BY <1>1 DEF Holds, Bodies
  <2>2. c \in Seq(Message) /\ Len(c) = Len(us) + 1
        /\ \A i \in 1 .. Len(us) + 1 : c[i] = r.body[vs[i]]
    BY <1>4, <1>13 DEF Bodies
  <2> HIDE DEF b, c
  <2>3. d \in Seq(Message) /\ Len(d) = Len(us) + 1
        /\ \A i \in 1 .. Len(us) + 1 : d[i] = IF i = 1 THEN m ELSE b[i - 1]
    BY <1>4, <2>1 DEF Before
  <2> HIDE DEF d
  <2>4. \A i \in 1 .. Len(us) + 1 : c[i] = d[i]
    <3> SUFFICES ASSUME NEW i \in 1 .. Len(us) + 1, i # 1 PROVE c[i] = d[i]
      BY <1>4, <1>12, <2>2, <2>3
    <3>1. i - 1 \in 1 .. Len(us)
      BY <1>4
    <3>2. c[i] = q.body[us[i - 1]]
      BY <1>4, <1>12, <2>2
    <3>3. d[i] = q.body[us[i - 1]]
      BY <2>1, <2>3, <3>1
    <3> QED
      BY <3>2, <3>3
  <2>5. c = d
    BY <2>2, <2>3, <2>4
  <2> QED
    BY <2>5 DEF b, c, d
<1> QED
  BY <1>3, <1>7, <1>14, <1>15 DEF r, vs

\* A sequence with one more at the end
Behind(s, x) == Append(s, x)

\* A message is linked behind the others.
LEMMA LinkTailHolds ==
    ASSUME NEW q, NEW h, NEW us, NEW fs, Holds(q, h, us, fs), NEW s \in Slot, s \in h,
           NEW m \in Message
    PROVE  /\ Holds(LinkTail(q, s, m), h \ {s}, Behind(us, s), fs)
           /\ Bodies(LinkTail(q, s, m), Behind(us, s)) = Behind(Bodies(q, us), m)
           /\ LinkTail(q, s, m).last = Null
           /\ Len(us) < Cardinality(Slot)
<1> DEFINE r == LinkTail(q, s, m)
           vs == Behind(us, s)
<1>1. q.next \in [Slot -> Slot \cup {Null}] /\ q.body \in [Slot -> Message \cup {Null}]
      /\ fs \in Seq(Slot) /\ us \in Seq(Slot) /\ q.entry \in Nat
  BY DEF Holds, MqRecord, Chain
<1>2. ~Among(s, us) /\ ~Among(s, fs) /\ s # Null
  BY MessageQueueAssumption DEF Holds
<1>3. /\ vs \in Seq(Slot) /\ Len(vs) = Len(us) + 1 /\ Len(us) \in Nat /\ vs[Len(us) + 1] = s
      /\ \A i \in 1 .. Len(us) : vs[i] = us[i]
  BY <1>1 DEF Behind
<1>4. \A i \in 1 .. Len(us) : us[i] \in Slot /\ us[i] # s /\ us[i] # Null
  BY <1>1, <1>2, MessageQueueAssumption DEF Among
<1>5. q.tail = Null <=> Len(us) = 0
  <2>1. Len(us) # 0 => Len(us) \in 1 .. Len(us)
    BY <1>3
  <2> QED
    BY <1>4, <2>1 DEF Holds
<1>6. /\ r.head = (IF q.head = Null THEN s ELSE q.head) /\ r.tail = s
      /\ r.free = q.free /\ r.entry = q.entry + 1
      /\ r.body = [q.body EXCEPT ![s] = m] /\ r.last = Null
      /\ r.next \in [Slot -> Slot \cup {Null}] /\ r.next[s] = Null
      /\ Len(us) # 0 => r.next[us[Len(us)]] = s
      /\ \A y \in Slot : y # s /\ (Len(us) # 0 => y # us[Len(us)]) => r.next[y] = q.next[y]
  <2>1. CASE q.tail = Null
    BY <1>1, <1>5, <2>1 DEF Holds, MqRecord, LinkTail
  <2>2. CASE q.tail # Null
    <3>1. Len(us) # 0 /\ q.tail = us[Len(us)] /\ q.tail \in Slot /\ q.tail # s
      <4>1. Len(us) # 0 /\ Len(us) \in 1 .. Len(us)
        BY <1>3, <1>5, <2>2
      <4> QED
        BY <1>4, <4>1 DEF Holds
    <3>2. r = [q EXCEPT !.body[s] = m, !.next = [[q.next EXCEPT ![s] = Null] EXCEPT ![q.tail] = s],
                        !.entry = @ + 1, !.tail = s,
                        !.head = IF @ = Null THEN s ELSE @, !.last = Null]
      BY <2>2 DEF Holds, MqRecord, LinkTail
    <3> HIDE DEF r
    <3> QED
      BY <1>1, <3>1, <3>2 DEF Holds, MqRecord
  <2> QED
    BY <2>1, <2>2
<1>7. r = [head |-> r.head, tail |-> r.tail, free |-> r.free, entry |-> r.entry,
           next |-> r.next, body |-> r.body, last |-> r.last]
  <2>1. CASE q.tail = Null
    BY <2>1 DEF Holds, MqRecord, LinkTail
  <2>2. CASE q.tail # Null
    BY <2>2 DEF Holds, MqRecord, LinkTail
  <2> QED
    BY <2>1, <2>2
<1> HIDE DEF r, vs
<1>8. Chain(r.next, r.head, vs)
  <2>1. \A i \in 1 .. Len(us) - 1 : r.next[us[i]] = q.next[us[i]]
    <3> SUFFICES ASSUME NEW i \in 1 .. Len(us) - 1 PROVE r.next[us[i]] = q.next[us[i]]
      OBVIOUS
    <3>1. i \in 1 .. Len(us) /\ Len(us) \in 1 .. Len(us) /\ i # Len(us)
      BY <1>3
    <3>2. us[i] # us[Len(us)]
      BY <3>1 DEF Holds, Chain
    <3> QED
      BY <1>4, <1>6, <3>1, <3>2
  <2> QED
    BY <1>1, <1>2, <1>6, <2>1, ChainBack DEF Holds, vs, Behind
<1>9. Chain(r.next, r.free, fs)
  <2>1. \A y \in Slot : Among(y, fs) => r.next[y] = q.next[y]
    <3> SUFFICES ASSUME NEW y \in Slot, Among(y, fs) PROVE r.next[y] = q.next[y]
      OBVIOUS
    <3>1. ~Among(y, us) /\ y # s
      BY <1>2 DEF Holds
    <3>2. Len(us) # 0 => Len(us) \in 1 .. Len(us)
      BY <1>3
    <3>3. Len(us) # 0 => y # us[Len(us)]
      BY <3>1, <3>2 DEF Among
    <3> QED
      BY <1>6, <3>1, <3>3
  <2> QED
    BY <1>6, <2>1, ChainStays DEF Holds
<1>10. r.entry = Len(vs) /\ r.entry \in 0 .. Cardinality(Slot) /\ Len(us) < Cardinality(Slot)
  <2>1. Len(vs) <= Cardinality(Slot) /\ Cardinality(Slot) \in Nat
    BY <1>8, ChainFits
  <2> QED
    BY <1>3, <1>6, <2>1 DEF Holds
<1>11. r \in MqRecord
  <2>1. /\ r.head \in Slot \cup {Null} /\ r.tail \in Slot \cup {Null}
        /\ r.free \in Slot \cup {Null} /\ r.entry \in 0 .. Cardinality(Slot)
        /\ r.next \in [Slot -> Slot \cup {Null}] /\ r.body \in [Slot -> Message \cup {Null}]
        /\ r.last \in Message \cup {Null, "reset"}
    BY <1>6, <1>10 DEF Holds, MqRecord
  <2> QED
    BY <1>7, <2>1 DEF MqRecord
<1>12. \A y : Among(y, vs) <=> Among(y, us) \/ y = s
  BY <1>1, AmongAppend DEF vs, Behind
<1>13. /\ r.body[s] = m /\ \A i \in 1 .. Len(us) : r.body[us[i]] = q.body[us[i]]
  BY <1>1, <1>4, <1>6
<1>14. \A i \in 1 .. Len(vs) : r.body[vs[i]] = IF i = Len(us) + 1 THEN m ELSE q.body[us[i]]
  <2> SUFFICES ASSUME NEW i \in 1 .. Len(vs)
               PROVE  r.body[vs[i]] = IF i = Len(us) + 1 THEN m ELSE q.body[us[i]]
    OBVIOUS
  <2>1. i = Len(us) + 1 \/ i \in 1 .. Len(us)
    BY <1>3
  <2> QED
    BY <1>3, <1>13, <2>1
<1>15. \A i \in 1 .. Len(vs) : r.body[vs[i]] \in Message
  <2> SUFFICES ASSUME NEW i \in 1 .. Len(vs), i # Len(us) + 1 PROVE q.body[us[i]] \in Message
    BY <1>14
  <2>1. i \in 1 .. Len(us)
    BY <1>3
  <2> QED
    BY <2>1 DEF Holds
<1>16. Holds(r, h \ {s}, vs, fs)
  BY <1>2, <1>3, <1>6, <1>8, <1>9, <1>10, <1>11, <1>12, <1>15 DEF Holds
<1>17. Bodies(r, vs) = Behind(Bodies(q, us), m)
  <2> DEFINE b == Bodies(q, us)
             c == Bodies(r, vs)
             d == Behind(b, m)
  <2>1. b \in Seq(Message) /\ Len(b) = Len(us) /\ \A i \in 1 .. Len(us) : b[i] = q.body[us[i]]
    BY <1>1 DEF Holds, Bodies
  <2>2. c \in Seq(Message) /\ Len(c) = Len(us) + 1
        /\ \A i \in 1 .. Len(us) + 1 : c[i] = r.body[vs[i]]
    BY <1>3, <1>15 DEF Bodies
  <2> HIDE DEF b, c
  <2>3. d \in Seq(Message) /\ Len(d) = Len(us) + 1
        /\ \A i \in 1 .. Len(us) + 1 : d[i] = IF i = Len(us) + 1 THEN m ELSE b[i]
    BY <1>3, <2>1 DEF Behind
  <2> HIDE DEF d
  <2>4. \A i \in 1 .. Len(us) + 1 : c[i] = d[i]
    <3> SUFFICES ASSUME NEW i \in 1 .. Len(us) + 1, i # Len(us) + 1 PROVE c[i] = d[i]
      BY <1>3, <1>14, <2>2, <2>3
    <3>1. i \in 1 .. Len(us)
      BY <1>3
    <3> QED
      BY <1>3, <1>14, <2>1, <2>2, <2>3, <3>1
  <2>5. c = d
    BY <2>2, <2>3, <2>4
  <2> QED
    BY <2>5 DEF b, c, d
<1> QED
  BY <1>6, <1>10, <1>16, <1>17 DEF r, vs

-----------------------------------------------------------------------------
(* The walks along a list *)

\* One turn of the loop of the message queue's reset, and of rt_ipc_list_resume_all
Stride(kind, o, r, x) == IF kind = "give" THEN GiveSlot(r, x) ELSE ResumeOneWithError(r, o)

StrideBody(kind, o, base, seq, S, g) ==
    [s \in SUBSET S |-> IF s = {} THEN base
                        ELSE Stride(kind, o, g[s \ {Max(s)}], seq[Max(s)])]

\* The recursion of the walk defines a function.
LEMMA WalkExists ==
    ASSUME NEW kind, NEW o, NEW base, NEW seq, NEW n \in Nat
    PROVE  \E f : f = StrideBody(kind, o, base, seq, 1 .. n, f)
<1> DEFINE S == 1 .. n
           Small(m) == {s \in SUBSET S : Cardinality(s) <= m}
           Body(m, f) == [s \in Small(m) |-> IF s = {} THEN base
                                ELSE Stride(kind, o, f[s \ {Max(s)}], seq[Max(s)])]
           I == {m \in Nat : \E f : f = Body(m, f)}
<1>1. \A s \in SUBSET S : IsFiniteSet(s) /\ Cardinality(s) \in Nat /\ Cardinality(s) <= n
                           /\ (Cardinality(s) = 0 <=> s = {})
  <2>1. IsFiniteSet(S) /\ Cardinality(S) = n
    <3>1. IsFiniteSet(1 .. n) /\ Cardinality(1 .. n) = IF 1 > n THEN 0 ELSE n - 1 + 1
      BY FS_Interval
    <3> QED
      BY <3>1
  <2> HIDE DEF S
  <2> QED
    BY <2>1, FS_Subset, FS_CardinalityType, FS_EmptySet
<1>2. \A s \in SUBSET S : s # {} => /\ s \ {Max(s)} \in SUBSET S
                                    /\ Cardinality(s \ {Max(s)}) = Cardinality(s) - 1
  <2> SUFFICES ASSUME NEW s \in SUBSET S, s # {}
               PROVE  /\ s \ {Max(s)} \in SUBSET S
                      /\ Cardinality(s \ {Max(s)}) = Cardinality(s) - 1
    OBVIOUS
  <2>1. Max(s) \in s
    BY MaxSpec
  <2> QED
    BY <1>1, <2>1, FS_RemoveElement
<1>3. 0 \in I
  <2> DEFINE f == [s \in Small(0) |-> base]
  <2>1. \A s \in Small(0) : s = {}
    BY <1>1
  <2>2. f = Body(0, f)
    BY <2>1
  <2> QED
    BY <2>2
<1>4. ASSUME NEW m \in Nat, m \in I PROVE m + 1 \in I
  <2>1. PICK f : f = Body(m, f)
    BY <1>4
  <2> DEFINE g == Body(m + 1, f)
  <2>2. \A s \in Small(m + 1) : s # {} => s \ {Max(s)} \in Small(m)
    BY <1>1, <1>2
  <2>3. \A s \in Small(m) : s \in Small(m + 1) /\ f[s] = g[s]
    <3> SUFFICES ASSUME NEW s \in Small(m) PROVE s \in Small(m + 1) /\ f[s] = g[s]
      OBVIOUS
    <3>1. s \in Small(m + 1)
      BY <1>1
    <3>2. f[s] = Body(m, f)[s]
      BY <2>1
    <3> QED
      BY <3>1, <3>2
  <2>4. g = Body(m + 1, g)
    <3>1. \A s \in Small(m + 1) : Body(m + 1, f)[s] = Body(m + 1, g)[s]
      <4> SUFFICES ASSUME NEW s \in Small(m + 1), s # {}
                   PROVE  f[s \ {Max(s)}] = g[s \ {Max(s)}]
        BY Zenon
      <4> HIDE DEF g, Small
      <4> QED
        BY <2>2, <2>3
    <3> QED
      BY <3>1
  <2> HIDE DEF g, Body
  <2> QED
    BY <2>4
<1>5. \A m \in Nat : m \in I
  <2> HIDE DEF I
  <2> QED
    BY <1>3, <1>4, AllNumbers
<1>6. Small(n) = SUBSET S
  BY <1>1
<1>7. PICK f : f = Body(n, f)
  BY <1>5
<1>8. Body(n, f) = StrideBody(kind, o, base, seq, S, f)
  BY <1>6 DEF StrideBody
<1> QED
  BY <1>7, <1>8

\* A walk along n elements, one by one
Walk(kind, o, base, seq, n, c) ==
    /\ c[0] = base
    /\ \A i \in 1 .. n : c[i] = Stride(kind, o, c[i - 1], seq[i])

\* Its values on the first elements are the states of the walk.
LEMMA WalkChain ==
    ASSUME NEW kind, NEW o, NEW base, NEW seq, NEW n \in Nat,
           NEW f, f = StrideBody(kind, o, base, seq, 1 .. n, f)
    PROVE  \E c : Walk(kind, o, base, seq, n, c) /\ c[n] = f[1 .. n]
<1> DEFINE c == [i \in 0 .. n |-> f[1 .. i]]
<1>1. \A s \in SUBSET (1 .. n) : f[s] = IF s = {} THEN base
                                         ELSE Stride(kind, o, f[s \ {Max(s)}], seq[Max(s)])
  <2> DEFINE b == StrideBody(kind, o, base, seq, 1 .. n, f)
  <2>1. \A s \in SUBSET (1 .. n) : b[s] = IF s = {} THEN base
                                         ELSE Stride(kind, o, f[s \ {Max(s)}], seq[Max(s)])
    BY DEF StrideBody
  <2> QED
    BY <2>1
<1>2. \A i \in 1 .. n : Max(1 .. i) = i /\ (1 .. i) \ {i} = 1 .. (i - 1)
  <2> SUFFICES ASSUME NEW i \in 1 .. n
               PROVE  Max(1 .. i) = i /\ (1 .. i) \ {i} = 1 .. (i - 1)
    OBVIOUS
  <2>1. Max(1 .. i) \in 1 .. i /\ \A y \in 1 .. i : Max(1 .. i) >= y
    <3>1. i \in Nat /\ 1 .. i \subseteq 1 .. i /\ i \in 1 .. i
      OBVIOUS
    <3>2. 1 .. i # {}
      BY <3>1
    <3> QED
      BY ONLY <3>1, <3>2, MaxSpec
  <2> QED
    BY <2>1
<1>3. c[0] = base
  <2>1. 1 .. 0 = {} /\ 0 \in 0 .. n
    OBVIOUS
  <2> QED
    BY <1>1, <2>1
<1>4. c[n] = f[1 .. n]
  OBVIOUS
<1>5. ASSUME NEW i \in 1 .. n PROVE c[i] = Stride(kind, o, c[i - 1], seq[i])
  <2>1. /\ 1 .. i \in SUBSET (1 .. n) /\ 1 .. i # {}
        /\ i \in 0 .. n /\ i - 1 \in 0 .. n
    <3>1. i \in 1 .. i /\ i \in 0 .. n /\ i - 1 \in 0 .. n
      OBVIOUS
    <3>2. \A j \in 1 .. i : j \in 1 .. n
      OBVIOUS
    <3> QED
      BY <3>1, <3>2
  <2>2. f[1 .. i] = Stride(kind, o, f[(1 .. i) \ {i}], seq[i])
    BY <1>1, <1>2, <2>1
  <2>3. c[i] = f[1 .. i] /\ c[i - 1] = f[1 .. (i - 1)]
    BY <2>1
  <2> HIDE DEF c
  <2> QED
    BY <1>2, <2>2, <2>3
<1> HIDE DEF c
<1>6. Walk(kind, o, base, seq, n, c)
  BY <1>3, <1>5 DEF Walk
<1> QED
  BY <1>4, <1>6

\* The slots of the queue go back to the free list.
LEMMA GiveWalk ==
    ASSUME NEW base, NEW T, NEW seq \in Seq(T), NEW r, r = FoldLeft(GiveSlot, base, seq)
    PROVE  \E c : Walk("give", Null, base, seq, Len(seq), c)
                /\ r = c[Len(seq)]
<1>1. PICK D : D = DOMAIN seq
  OBVIOUS
<1>2. PICK n \in Nat : n = Len(seq) /\ D = 1 .. n
  BY ONLY <1>1, seq \in Seq(T)
<1> DEFINE Body(g) == [s \in SUBSET D |-> IF s = {} THEN base
                                          ELSE GiveSlot(g[s \ {Max(s)}], seq[Max(s)])]
           iter == CHOOSE g : g = Body(g)
<1>3. r = iter[D]
  BY <1>1 DEF FoldLeft, MapThenFoldSet
<1>4. ASSUME NEW g PROVE Body(g) = StrideBody("give", Null, base, seq, D, g)
  BY DEF StrideBody, Stride
<1>5. \E g : g = Body(g)
  <2>1. PICK g : g = StrideBody("give", Null, base, seq, 1 .. n, g)
    BY WalkExists
  <2>2. StrideBody("give", Null, base, seq, 1 .. n, g) = StrideBody("give", Null, base, seq, D, g)
    BY <1>2
  <2> HIDE DEF Body
  <2>3. Body(g) = StrideBody("give", Null, base, seq, D, g)
    BY <1>4
  <2> QED
    BY <2>1, <2>2, <2>3
<1>6. iter = Body(iter)
  BY <1>5
<1> HIDE DEF iter, Body
<1>7. iter = StrideBody("give", Null, base, seq, 1 .. n, iter)
  <2>1. StrideBody("give", Null, base, seq, 1 .. n, iter)
        = StrideBody("give", Null, base, seq, D, iter)
    BY <1>2
  <2>2. Body(iter) = StrideBody("give", Null, base, seq, D, iter)
    BY <1>4
  <2> QED
    BY <1>6, <2>1, <2>2
<1>8. \E c : Walk("give", Null, base, seq, n, c) /\ c[n] = iter[1 .. n]
  <2>1. PICK f : f = iter
    OBVIOUS
  <2>2. f = StrideBody("give", Null, base, seq, 1 .. n, f)
    BY ONLY <1>7, <2>1
  <2>3. \E c : Walk("give", Null, base, seq, n, c) /\ c[n] = f[1 .. n]
    BY ONLY <2>2, n \in Nat, WalkChain
  <2> QED
    BY <2>1, <2>3
<1> QED
  BY <1>2, <1>3, <1>8


\* What the reset does besides moving the slots
Bare(q) == [q EXCEPT !.head = Null, !.tail = Null, !.entry = 0, !.last = "reset"]

BareIs(b, q) ==
    /\ b \in MqRecord /\ b.head = Null /\ b.tail = Null /\ b.entry = 0 /\ b.last = "reset"
    /\ b.free = q.free /\ b.next = q.next /\ b.body = q.body

\* What is known of the record it yields
LEMMA BareSpec ==
    ASSUME NEW q \in MqRecord
    PROVE  BareIs(Bare(q), q)
<1>1. PICK e : e = 0
  OBVIOUS
<1>2. PICK z : z = "reset"
  OBVIOUS
<1>3. e \in 0 .. Cardinality(Slot) /\ z \in Message \cup {Null, "reset"}
  BY <1>1, <1>2, MessageQueueAssumption, FS_CardinalityType
<1>4. PICK b : b = [q EXCEPT !.head = Null, !.tail = Null, !.entry = e, !.last = z]
  OBVIOUS
<1>5. b \in MqRecord
  BY <1>3, <1>4 DEF MqRecord
<1>6. /\ b.head = Null /\ b.tail = Null /\ b.entry = e /\ b.last = z
      /\ b.free = q.free /\ b.next = q.next /\ b.body = q.body
  BY <1>4 DEF MqRecord
<1>7. Bare(q) = b
  BY <1>1, <1>2, <1>4 DEF Bare
<1> QED
  BY <1>1, <1>2, <1>5, <1>6, <1>7 DEF BareIs

\* It does not matter when it does it.
LEMMA GiveSlotBare ==
    ASSUME NEW q \in MqRecord, NEW s \in Slot
    PROVE  GiveSlot(q, s) \in MqRecord /\ Bare(GiveSlot(q, s)) = GiveSlot(Bare(q), s)
<1>1. q.next \in [Slot -> Slot \cup {Null}] /\ q.body \in [Slot -> Message \cup {Null}]
  BY DEF MqRecord
<1>2. ASSUME NEW x \in MqRecord
      PROVE  /\ GiveSlot(x, s) \in MqRecord
             /\ GiveSlot(x, s).head = x.head /\ GiveSlot(x, s).tail = x.tail
             /\ GiveSlot(x, s).free = s /\ GiveSlot(x, s).entry = x.entry
             /\ GiveSlot(x, s).next = [x.next EXCEPT ![s] = x.free]
             /\ GiveSlot(x, s).body = [x.body EXCEPT ![s] = Null]
             /\ GiveSlot(x, s).last = x.last
  BY DEF GiveSlot, MqRecord
<1>3. ASSUME NEW x \in MqRecord PROVE BareIs(Bare(x), x)
  BY BareSpec
<1>4. PICK a : a = Bare(GiveSlot(q, s))
  OBVIOUS
<1>5. PICK b : b = GiveSlot(Bare(q), s)
  OBVIOUS
<1>6. GiveSlot(q, s) \in MqRecord /\ Bare(q) \in MqRecord
  BY <1>2, <1>3 DEF BareIs
<1>7. /\ a \in MqRecord /\ a.head = Null /\ a.tail = Null /\ a.entry = 0 /\ a.last = "reset"
      /\ a.free = s /\ a.next = [q.next EXCEPT ![s] = q.free]
      /\ a.body = [q.body EXCEPT ![s] = Null]
  BY <1>2, <1>3, <1>4, <1>6 DEF BareIs
<1>8. /\ b \in MqRecord /\ b.head = Null /\ b.tail = Null /\ b.entry = 0 /\ b.last = "reset"
      /\ b.free = s /\ b.next = [q.next EXCEPT ![s] = q.free]
      /\ b.body = [q.body EXCEPT ![s] = Null]
  BY <1>2, <1>3, <1>5, <1>6 DEF BareIs
<1>9. a = b
  <2>1. PICK x : x = [q.next EXCEPT ![s] = q.free]
    OBVIOUS
  <2>2. PICK y : y = [q.body EXCEPT ![s] = Null]
    OBVIOUS
  <2> QED
    BY ONLY <1>7, <1>8, <2>1, <2>2 DEF MqRecord
<1> QED
  BY <1>4, <1>5, <1>6, <1>9

\* A reset moves all slots of the queue to the free list.
LEMMA EmptiedHolds ==
    ASSUME NEW q, NEW h, NEW us, NEW fs, Holds(q, h, us, fs)
    PROVE  \E gs : Holds(Emptied(q), h, << >>, gs) /\ Emptied(q).last = "reset"
<1>1. PICK n : n = Len(us)
  OBVIOUS
<1>2. n \in Nat /\ n = Len(us) /\ us \in Seq(Slot) /\ q \in MqRecord
      /\ \A i \in 1 .. n : us[i] \in Slot
  BY <1>1 DEF Holds, Chain
<1>3. Path(q, q.head) = us
  BY PathOfChain DEF Holds
<1>4. PICK c : Walk("give", Null, q, us, n, c) /\ FoldLeft(GiveSlot, q, us) = c[n]
  BY <1>2, GiveWalk
<1>5. Emptied(q) = Bare(c[n])
  BY <1>3, <1>4 DEF Emptied, Bare
<1> DEFINE h2(i) == h \cup {us[j] : j \in i + 1 .. n}
           I == {i \in Nat : i <= n => /\ c[i] \in MqRecord
                                       /\ \E gs : Holds(Bare(c[i]), h2(i), << >>, gs)}
<1> HIDE DEF h2
<1>6. 0 \in I
  <2> SUFFICES c[0] \in MqRecord /\ \E gs : Holds(Bare(c[0]), h2(0), << >>, gs)
    OBVIOUS
  <2>1. c[0] = q
    BY <1>4 DEF Walk
  <2>2. PICK b : b = Bare(q)
    OBVIOUS
  <2>3. BareIs(b, q)
    BY <1>2, <2>2, BareSpec
  <2>4. \A y \in Slot : y \in h2(0) <=> y \in h \/ Among(y, us)
    <3>1. 0 + 1 = 1
      OBVIOUS
    <3> QED
      BY <1>2, <3>1 DEF Among, h2
  <2>5. Chain(b.next, b.head, << >>) /\ Chain(b.next, b.free, fs) /\ \A y : ~Among(y, << >>)
    BY <2>3 DEF Holds, Chain, Among, BareIs
  <2>6. Holds(b, h2(0), << >>, fs)
    BY <2>3, <2>4, <2>5 DEF Holds, BareIs
  <2> QED
    BY <1>2, <2>1, <2>2, <2>6
<1>7. ASSUME NEW i \in Nat, i \in I PROVE i + 1 \in I
  <2> SUFFICES ASSUME i + 1 <= n
               PROVE  /\ c[i + 1] \in MqRecord
                      /\ \E gs : Holds(Bare(c[i + 1]), h2(i + 1), << >>, gs)
    OBVIOUS
  <2>1. i + 1 \in 1 .. n /\ (i + 1) - 1 = i /\ i <= n
    BY <1>2
  <2>2. PICK s : s = us[i + 1]
    OBVIOUS
  <2>3. s \in Slot
    BY <1>2, <2>1, <2>2
  <2>4. PICK x : x = c[i]
    OBVIOUS
  <2>5. c[i + 1] = GiveSlot(x, s)
    BY <1>4, <2>1, <2>2, <2>4 DEF Walk, Stride
  <2>6. x \in MqRecord
    BY <1>7, <2>1, <2>4
  <2>7. PICK gs : Holds(Bare(x), h2(i), << >>, gs)
    BY <1>7, <2>1, <2>4
  <2>8. GiveSlot(x, s) \in MqRecord /\ Bare(GiveSlot(x, s)) = GiveSlot(Bare(x), s)
    BY <2>3, <2>6, GiveSlotBare
  <2>9. s \in h2(i)
    BY <2>1, <2>2 DEF h2
  <2>10. h2(i) \ {s} = h2(i + 1)
    <3>1. s \notin h
      <4>1. Among(s, us)
        BY <1>2, <2>1, <2>2 DEF Among
      <4> QED
        BY <2>3, <4>1 DEF Holds
    <3>2. \A j \in (i + 1) + 1 .. n : us[j] # s
      <4> SUFFICES ASSUME NEW j \in (i + 1) + 1 .. n, us[j] = us[i + 1] PROVE FALSE
        BY <2>2
      <4>1. j \in 1 .. n /\ j # i + 1
        BY <1>2
      <4> QED
        BY <1>2, <2>1, <4>1 DEF Holds, Chain
    <3>3. \A j \in i + 1 .. n : j = i + 1 \/ j \in (i + 1) + 1 .. n
      BY <1>2
    <3>4. \A j \in (i + 1) + 1 .. n : j \in i + 1 .. n
      BY <1>2
    <3>5. \A y : y \in h2(i) /\ y # s <=> y \in h2(i + 1)
      BY <2>2, <3>1, <3>2, <3>3, <3>4, Zenon DEF h2
    <3> QED
      BY <3>5
  <2>11. Holds(GiveSlot(Bare(x), s), h2(i) \ {s}, << >>, <<s>> \o gs)
    BY <2>3, <2>7, <2>9, GiveSlotHolds
  <2> QED
    BY <2>5, <2>8, <2>10, <2>11
<1>8. n \in I
  <2> HIDE DEF I
  <2> QED
    BY <1>2, <1>6, <1>7, AllNumbers
<1>9. c[n] \in MqRecord /\ \E gs : Holds(Bare(c[n]), h2(n), << >>, gs)
  BY <1>2, <1>8
<1>10. h2(n) = h
  <2>1. n + 1 .. n = {}
    BY <1>2
  <2> QED
    BY <2>1 DEF h2
<1> HIDE DEF I
<1>11. PICK gs : Holds(Bare(c[n]), h2(n), << >>, gs)
  BY <1>9
<1>12. Bare(c[n]).last = "reset"
  BY <1>9, BareSpec DEF BareIs
<1> QED
  BY <1>5, <1>10, <1>11, <1>12

-----------------------------------------------------------------------------
(* Who has a slot in its hands *)

\* The points at which a thread copies a message
QueuePlace == {"mq_send", "mq_urgent", "mq_copy"}

\* The threads that have a slot are those that copy a message, and each has its own.
SlotsHeld ==
    /\ mine \in [Thread -> Slot \cup {Null}] /\ text \in [Thread -> Message \cup {Null}]
    /\ \A t \in Thread : pc[t].at \in QueuePlace <=> mine[t] # Null
    /\ \A t \in Thread : pc[t].at \in {"mq_send", "mq_urgent"} => text[t] \in Message
    /\ \A t, u \in Thread : mine[t] = mine[u] /\ mine[t] # Null => t = u

Hands == {mine[t] : t \in {u \in Thread : mine[u] # Null}}

\* Every slot is in the queue, in the free list or in the hands of one thread.
MqInv == SlotsHeld /\ \E us, fs : Holds(mq, Hands, us, fs)

\* Nobody begins or ends to copy a message.
NoCopier ==
    /\ DOMAIN pc' = Thread
    /\ \A u \in Thread :
        pc[u].at \in QueuePlace \/ pc'[u].at \in QueuePlace => pc'[u].at = pc[u].at

\* Thread t, which copies no message, goes on without one.
Passes(t) ==
    \/ pc' = pc
    \/ /\ pc[t].at \notin QueuePlace
       /\ \E at, arg : at \notin QueuePlace /\ Goto(t, at, arg)

\* Such a thread keeps everybody from beginning or ending to copy.
LEMMA PassesBy ==
    ASSUME DOMAIN pc = Thread, NEW t, Passes(t)
    PROVE  NoCopier
<1>1. CASE pc' = pc
  BY <1>1 DEF NoCopier
<1>2. ASSUME pc[t].at \notin QueuePlace, NEW at, NEW arg, at \notin QueuePlace, Goto(t, at, arg)
      PROVE  NoCopier
  <2>1. /\ DOMAIN pc' = Thread
        /\ \A u \in Thread : pc'[u] = IF u = t THEN [at |-> at, arg |-> arg] ELSE pc[u]
    BY <1>2 DEF Goto
  <2>2. \A u \in Thread : u = t => pc'[u].at = at /\ pc[u].at = pc[t].at
    BY <2>1
  <2> QED
    BY <1>2, <2>1, <2>2 DEF NoCopier
<1> QED
  BY <1>1, <1>2 DEF Passes

\* A call begins, goes on or is over.
LEMMA CallPasses ==
    ASSUME NEW t, pc[t].at \in {"run", "take_ret"},
           \/ \E o : ResumeFirst(t, o) \/ Goto(t, "take_sched", o) \/ WaitFails(t, o)
                     \/ TimeIsUp(t, o)
           \/ Goto(t, "run", t) \/ Goto(t, "sched", t)
    PROVE  Passes(t)
<1>1. \E at \in {"run", "sched", "take_sched"} : \E arg : Goto(t, at, arg)
  BY DEF ResumeFirst, WaitFails, TimeIsUp
<1> QED
  BY <1>1 DEF Passes, QueuePlace

\* No step that the models of the IPC objects share copies a message ...
LEMMA IpcStepPasses ==
    ASSUME DOMAIN pc = Thread, NEW D, IpcStep(D)
    PROVE  NoCopier
<1>1. CASE TickInterrupt \/ \E t \in User, u \in User, p \in Prio : Control(t, u, p)
  <2>1. \A t : Passes(t)
    BY <1>1 DEF TickInterrupt, Control, Passes
  <2> QED
    BY <2>1, PassesBy
<1>2. ASSUME NEW t \in User, CallSchedule(t)
      PROVE  Passes(t)
  <2>1. Goto(t, After[pc[t].at], pc[t].arg) /\ pc[t].at \in DOMAIN After
    BY <1>2 DEF CallSchedule
  <2>2. After[pc[t].at] \notin QueuePlace /\ pc[t].at \notin QueuePlace
    BY <2>1 DEF After, QueuePlace
  <2> QED
    BY <2>1, <2>2 DEF Passes
<1>3. ASSUME NEW t \in User, Slept(t) \/ \E d \in Delays : Sleep(t, d)
      PROVE  Passes(t)
  <2>1. /\ pc[t].at \in {"slept", "run"}
        /\ \E at \in {"run", "sleep_sched"} : \E arg : Goto(t, at, arg)
    BY <1>3 DEF Slept, Sleep, Calls, Is
  <2> QED
    BY <2>1 DEF Passes, QueuePlace
<1>4. ASSUME NEW t \in User, WakeCheck(t) \/ WakeOne(t) \/ \E o \in D : Delete(t, o)
      PROVE  Passes(t)
  <2>1. /\ pc[t].at \in {"wake_check", "wake_one", "run"}
        /\ \E at \in {"wake_one", "wake_check", "run"} : \E arg : Goto(t, at, arg)
    BY <1>4 DEF WakeCheck, WakeOne, Delete, CallsOn, Calls, Is
  <2> QED
    BY <2>1 DEF Passes, QueuePlace
<1> QED
  BY <1>1, <1>2, <1>3, <1>4, PassesBy DEF IpcStep, SystemStep

\* ... nor does a step of the mailbox ...
LEMMA MbStepPasses ==
    ASSUME DOMAIN pc = Thread, NEW producer, NEW consumer, MbStep(producer, consumer)
    PROVE  NoCopier
<1>1. CASE MbIsrRecv \/ \E m \in Mail : MbIsrSend(m)
  <2>1. \A t : Passes(t)
    BY <1>1 DEF MbIsrRecv, MbIsrSend, IsrResumeFirst, Passes
  <2> QED
    BY <2>1, PassesBy
<1>2. ASSUME NEW t, \/ \E m : MbSend(t, m) \/ \E time : MbSendBlocks(t, m, time)
                    \/ MbSendResumed(t) \/ MbSendAgain(t) \/ MbSendGivesUp(t)
                    \/ MbRecv(t) \/ \E time : MbRecvBlocks(t, time)
                    \/ MbRecvResumed(t) \/ MbRecvAgain(t) \/ MbRecvGivesUp(t) \/ MbReset(t)
      PROVE  Passes(t)
  <2>1. pc[t].at \in {"run", "take_ret"}
    BY <1>2 DEF MbSend, MbSendBlocks, MbSendResumed, MbSendAgain, MbSendGivesUp, MbRecv,
       MbRecvBlocks, MbRecvResumed, MbRecvAgain, MbRecvGivesUp, MbReset, CallsOn, Calls, Is,
       Resumed, WaitFails, TimeIsUp
  <2>2. \/ \E o : ResumeFirst(t, o) \/ Goto(t, "take_sched", o) \/ WaitFails(t, o)
                     \/ TimeIsUp(t, o)
        \/ Goto(t, "run", t) \/ Goto(t, "sched", t)
    BY <1>2 DEF MbSend, MbSendBlocks, MbSendResumed, MbSendAgain, MbSendGivesUp, MbRecv,
       MbRecvBlocks, MbRecvResumed, MbRecvAgain, MbRecvGivesUp, MbReset, WaitFirst, WaitAgain,
       Wait
  <2> QED
    BY <2>1, <2>2, CallPasses
<1> QED
  BY <1>1, <1>2, PassesBy DEF MbStep

\* ... of those that push into the data queue ...
LEMMA PushPasses ==
    ASSUME NEW t, \/ \E m : Push(t, m) \/ \E time : PushBlocks(t, m, time)
                  \/ PushResumed(t) \/ PushAgain(t) \/ PushFails(t)
    PROVE  Passes(t)
<1>1. pc[t].at \in {"run", "take_ret"}
  BY DEF Push, PushBlocks, PushResumed, PushAgain, PushFails, CallsOn, Calls, Is, Resumed,
     WaitFails
<1>2. \E o : ResumeFirst(t, o) \/ Goto(t, "take_sched", o) \/ WaitFails(t, o)
  BY DEF Push, PushBlocks, PushResumed, PushAgain, PushFails, WaitFirst, WaitAgain, Wait
<1> QED
  BY <1>1, <1>2, CallPasses

\* ... or pop from it ...
LEMMA PopPasses ==
    ASSUME NEW t, \/ Pop(t) \/ \E time : PopBlocks(t, time)
                  \/ PopResumed(t) \/ PopAgain(t) \/ PopFails(t)
    PROVE  Passes(t)
<1>1. pc[t].at \in {"run", "take_ret"}
  BY DEF Pop, PopBlocks, PopResumed, PopAgain, PopFails, CallsOn, Calls, Is, Resumed, WaitFails
<1>2. CASE \/ \E o : ResumeFirst(t, o) \/ Goto(t, "take_sched", o) \/ WaitFails(t, o)
           \/ Goto(t, "run", t)
  BY <1>1, <1>2, CallPasses
<1>3. CASE pc' = pc
  BY <1>3 DEF Passes
<1> QED
  BY <1>2, <1>3 DEF Pop, PopBlocks, PopResumed, PopAgain, PopFails, WaitFirst, WaitAgain, Wait

\* ... and so none of the data queue does.
LEMMA DqStepPasses ==
    ASSUME DOMAIN pc = Thread, NEW producer, NEW consumer,
           DqStep(producer, consumer) \/ TxStep(producer)
    PROVE  NoCopier
<1>1. CASE IsrPop \/ (\E m \in Item : IsrPush(m)) \/ TxDmaDone
  <2>1. pc' = pc
    BY <1>1 DEF IsrPop, IsrPush, IsrResumeFirst, TxDmaDone, kernel
  <2> QED
    BY <2>1, PassesBy DEF Passes
<1>2. ASSUME NEW t, \/ DqReset(t) \/ DqResetCheck(t) \/ DqResetWake(t) \/ DqResetSchedule(t)
                    \/ TxActivate(t) \/ TxStart(t)
      PROVE  Passes(t)
  <2>1. pc[t].at \in {"run", "dq_check", "dq_wake", "dq_unlocked", "tx_start"}
    BY <1>2 DEF DqReset, DqResetCheck, DqResetWake, DqResetSchedule, TxActivate, TxStart, CallsOn,
       Calls, Is
  <2>2. \/ pc' = pc
        \/ \E at \in {"run", "sched", "dq_check", "dq_wake", "dq_unlocked", "tx_start"} :
             \E arg : Goto(t, at, arg)
    BY <1>2 DEF DqReset, DqResetCheck, DqResetWake, DqResetSchedule, TxActivate, TxStart
  <2> QED
    BY <2>1, <2>2 DEF Passes, QueuePlace
<1>3. \A t : \/ \E m : Push(t, m) \/ \E time : PushBlocks(t, m, time)
             \/ PushResumed(t) \/ PushAgain(t) \/ PushFails(t)
             => NoCopier
  BY PushPasses, PassesBy
<1>4. \A t : \/ Pop(t) \/ \E time : PopBlocks(t, time)
             \/ PopResumed(t) \/ PopAgain(t) \/ PopFails(t)
             => NoCopier
  BY PopPasses, PassesBy
<1>5. \A t : \/ DqReset(t) \/ DqResetCheck(t) \/ DqResetWake(t) \/ DqResetSchedule(t)
             \/ TxActivate(t) \/ TxStart(t)
             => NoCopier
  BY <1>2, PassesBy
<1>6. CASE DqStep(producer, consumer)
  BY <1>1, <1>3, <1>4, <1>5, <1>6 DEF DqStep
<1>7. CASE TxStep(producer)
  BY <1>1, <1>3, <1>5, <1>7 DEF TxStep, TxPush, TxPushResumed
<1> QED
  BY <1>6, <1>7

\* How a step changes who has which slot
LEMMA KeepsSlots ==
    ASSUME SlotsHeld, NoCopier, mine' = mine, text' = text
    PROVE  SlotsHeld' /\ Hands' = Hands
<1>1. ASSUME NEW t \in Thread
      PROVE  /\ pc'[t].at \in QueuePlace <=> pc[t].at \in QueuePlace
             /\ pc'[t].at \in {"mq_send", "mq_urgent"} => pc[t].at = pc'[t].at
  BY DEF NoCopier, QueuePlace
<1> QED
  BY <1>1 DEF SlotsHeld, Hands

\* A thread takes a slot into its hands ...
LEMMA TakesSlot ==
    ASSUME DOMAIN pc = Thread, SlotsHeld, NEW t \in Thread, NEW s \in Slot, s \notin Hands,
           pc[t].at \notin QueuePlace, NEW at \in QueuePlace, NEW arg, Goto(t, at, arg),
           mine' = [mine EXCEPT ![t] = s], text' \in [Thread -> Message \cup {Null}],
           \A u \in Thread : u # t => text'[u] = text[u],
           at # "mq_copy" => text'[t] \in Message
    PROVE  SlotsHeld' /\ Hands' = Hands \cup {s}
<1>1. mine' \in [Thread -> Slot \cup {Null}] /\ s # Null
      /\ \A u \in Thread : mine'[u] = IF u = t THEN s ELSE mine[u]
  BY MessageQueueAssumption DEF SlotsHeld
<1>2. /\ pc'[t].at = at
      /\ \A u \in Thread : u # t => pc'[u] = pc[u]
  BY DEF Goto
<1>3. mine[t] = Null
  BY DEF SlotsHeld
<1>4. \A u \in Thread : mine[u] # s
  BY <1>1 DEF Hands
<1>5. ASSUME NEW u \in Thread
      PROVE  /\ pc'[u].at \in QueuePlace <=> mine'[u] # Null
             /\ pc'[u].at \in {"mq_send", "mq_urgent"} => text'[u] \in Message
  <2>1. CASE u = t
    BY <1>1, <1>2, <2>1 DEF QueuePlace
  <2>2. CASE u # t
    BY <1>1, <1>2, <2>2 DEF SlotsHeld
  <2> QED
    BY <2>1, <2>2
<1>6. ASSUME NEW u \in Thread, NEW v \in Thread, mine'[u] = mine'[v], mine'[u] # Null
      PROVE  u = v
  BY <1>1, <1>4, <1>6 DEF SlotsHeld
<1>7. SlotsHeld'
  BY <1>1, <1>5, <1>6 DEF SlotsHeld
<1>8. \A y : y \in Hands' <=> y \in Hands \/ y = s
  <2>1. \A y : y \in Hands' <=> \E u \in Thread : mine'[u] # Null /\ y = mine'[u]
    BY DEF Hands
  <2>2. \A y : y \in Hands <=> \E u \in Thread : mine[u] # Null /\ y = mine[u]
    BY DEF Hands
  <2> QED
    BY <1>1, <1>3, <2>1, <2>2
<1> QED
  BY <1>7, <1>8

\* ... and lets it go.
LEMMA DropsSlot ==
    ASSUME DOMAIN pc = Thread, SlotsHeld, NEW t \in Thread, pc[t].at \in QueuePlace,
           NEW at, at \notin QueuePlace, NEW arg, Goto(t, at, arg),
           mine' = [mine EXCEPT ![t] = Null],
           text' = text \/ text' = [text EXCEPT ![t] = Null]
    PROVE  /\ SlotsHeld' /\ Hands' = Hands \ {mine[t]}
           /\ mine[t] \in Slot /\ mine[t] \in Hands
<1>1. mine' \in [Thread -> Slot \cup {Null}]
      /\ \A u \in Thread : mine'[u] = IF u = t THEN Null ELSE mine[u]
  BY DEF SlotsHeld
<1>2. /\ pc'[t].at = at
      /\ \A u \in Thread : u # t => pc'[u] = pc[u]
  BY DEF Goto
<1>3. mine[t] # Null /\ mine[t] \in Slot /\ mine[t] \in Hands
  <2>1. mine[t] # Null /\ mine[t] \in Slot \cup {Null}
    BY DEF SlotsHeld
  <2> QED
    BY <2>1 DEF Hands
<1>4. text' \in [Thread -> Message \cup {Null}]
      /\ \A u \in Thread : u # t => text'[u] = text[u]
  BY DEF SlotsHeld
<1>5. ASSUME NEW u \in Thread
      PROVE  /\ pc'[u].at \in QueuePlace <=> mine'[u] # Null
             /\ pc'[u].at \in {"mq_send", "mq_urgent"} => text'[u] \in Message
  <2>1. CASE u = t
    BY <1>1, <1>2, <2>1 DEF QueuePlace
  <2>2. CASE u # t
    BY <1>1, <1>2, <1>4, <2>2 DEF SlotsHeld
  <2> QED
    BY <2>1, <2>2
<1>6. ASSUME NEW u \in Thread, NEW v \in Thread, mine'[u] = mine'[v], mine'[u] # Null
      PROVE  u = v
  BY <1>1, <1>6 DEF SlotsHeld
<1>7. SlotsHeld'
  BY <1>1, <1>4, <1>5, <1>6 DEF SlotsHeld
<1>8. \A y : y \in Hands' <=> y \in Hands /\ y # mine[t]
  <2>1. \A y : y \in Hands' <=> \E u \in Thread : mine'[u] # Null /\ y = mine'[u]
    BY DEF Hands
  <2>2. \A y : y \in Hands <=> \E u \in Thread : mine[u] # Null /\ y = mine[u]
    BY DEF Hands
  <2>3. ASSUME NEW y, y \in Hands' PROVE y \in Hands /\ y # mine[t]
    <3>1. PICK u \in Thread : mine'[u] # Null /\ y = mine'[u]
      BY <2>1, <2>3
    <3>2. u # t /\ mine[u] # Null /\ y = mine[u]
      BY <1>1, <3>1
    <3> QED
      BY <2>2, <3>2 DEF SlotsHeld
  <2>4. ASSUME NEW y, y \in Hands, y # mine[t] PROVE y \in Hands'
    <3>1. PICK u \in Thread : mine[u] # Null /\ y = mine[u]
      BY <2>2, <2>4
    <3>2. mine'[u] # Null /\ y = mine'[u]
      BY <1>1, <2>4, <3>1
    <3> QED
      BY <2>1, <3>2
  <2> QED
    BY <2>3, <2>4
<1> QED
  BY <1>3, <1>7, <1>8

-----------------------------------------------------------------------------
(* The message queue and the channel *)

\* What the refinement mapping takes for the channel
ChanOf(q) == LET used == Path(q, q.head) IN [i \in 1 .. Len(used) |-> q.body[used[i]]]

\* The messages of the channel are those of the slots in the queue.
LEMMA ChanIsBodies ==
    ASSUME NEW q, NEW h, NEW us, NEW fs, Holds(q, h, us, fs)
    PROVE  /\ ChanOf(q) = Bodies(q, us) /\ Bodies(q, us) \in Seq(Message)
           /\ Len(Bodies(q, us)) = Len(us) /\ Len(us) \in Nat
<1>1. Path(q, q.head) = us
  BY PathOfChain DEF Holds
<1>2. Len(us) \in Nat /\ \A i \in 1 .. Len(us) : q.body[us[i]] \in Message
  BY DEF Holds, Chain
<1> QED
  BY <1>1, <1>2 DEF ChanOf, Bodies

\* A step of the message queue is one of the channel.
MqMoves == MqInv' /\ [MqChannel!Next]_<<ChanOf(mq), mq.last>>

\* A step that copies no message and changes no list is none of the channel's.
LEMMA MqStays ==
    ASSUME MqInv, NoCopier, mq' = mq \/ mq' = [mq EXCEPT !.last = Null], mine' = mine, text' = text
    PROVE  MqMoves
<1>1. SlotsHeld' /\ Hands' = Hands
  BY KeepsSlots DEF MqInv
<1>2. PICK us, fs : Holds(mq, Hands, us, fs)
  BY DEF MqInv
<1>3. /\ mq'.head = mq.head /\ mq'.tail = mq.tail /\ mq'.free = mq.free /\ mq'.entry = mq.entry
      /\ mq'.next = mq.next /\ mq'.body = mq.body /\ mq' \in MqRecord
      /\ mq' = mq \/ mq'.last = Null
  BY <1>2 DEF Holds, MqRecord
<1>4. Holds(mq', Hands', us, fs)
  BY <1>1, <1>2, <1>3 DEF Holds
<1>5. ChanOf(mq') = ChanOf(mq)
  <2>1. Bodies(mq', us) = Bodies(mq, us)
    BY <1>3 DEF Bodies
  <2> QED
    BY <1>2, <1>4, <2>1, ChanIsBodies
<1>6. [MqChannel!Next]_<<ChanOf(mq), mq.last>>
  BY <1>3, <1>5 DEF MqChannel!Next, MqChannel!Forget, ChanOf
<1> QED
  BY <1>1, <1>4, <1>6 DEF MqMoves, MqInv

\* rt_mq_send and rt_mq_urgent take a free slot: the channel does not change.
LEMMA MqSendMoves ==
    ASSUME DOMAIN pc = Thread, MqInv, NEW t \in Thread, NEW m \in Message,
           NEW at \in {"mq_send", "mq_urgent"}, MqSend(t, m, at)
    PROVE  MqMoves
<1>1. PICK us, fs : Holds(mq, Hands, us, fs)
  BY DEF MqInv
<1>2. /\ mq.free # Null /\ mine' = [mine EXCEPT ![t] = mq.free] /\ mq' = TakeSlot(mq)
      /\ text' = [text EXCEPT ![t] = m] /\ pc[t].at = "run" /\ Goto(t, at, MqRx)
  BY DEF MqSend, CallsOn, Calls, Is
<1>3. /\ mq.free \in Slot /\ mq.free \notin Hands
      /\ Holds(mq', Hands \cup {mq.free}, us, Tail(fs))
      /\ Bodies(mq', us) = Bodies(mq, us) /\ mq'.last = mq.last
  BY <1>1, <1>2, TakeSlotHolds
<1>4. SlotsHeld' /\ Hands' = Hands \cup {mq.free}
  <2>1. /\ text' \in [Thread -> Message \cup {Null}] /\ text'[t] = m
        /\ \A u \in Thread : u # t => text'[u] = text[u]
    BY <1>2 DEF MqInv, SlotsHeld
  <2>2. at \in QueuePlace /\ "run" \notin QueuePlace
    BY DEF QueuePlace
  <2> QED
    BY <1>2, <1>3, <2>1, <2>2, TakesSlot DEF MqInv
<1>5. ChanOf(mq') = ChanOf(mq)
  BY <1>1, <1>3, ChanIsBodies
<1> QED
  BY <1>3, <1>4, <1>5 DEF MqMoves, MqInv, ChanOf

\* They link it: the channel has a message more, at its end or at its front.
LEMMA MqLinkMoves ==
    ASSUME DOMAIN pc = Thread, MqInv, NEW t \in Thread, MqLink(t)
    PROVE  MqMoves
<1>1. PICK us, fs : Holds(mq, Hands, us, fs)
  BY DEF MqInv
<1>2. PICK s : s = mine[t]
  OBVIOUS
<1>3. PICK m : m = text[t]
  OBVIOUS
<1>4. /\ pc[t].at \in {"mq_send", "mq_urgent"}
      /\ mq' = IF pc[t].at = "mq_send" THEN LinkTail(mq, s, m) ELSE LinkHead(mq, s, m)
      /\ mine' = [mine EXCEPT ![t] = Null] /\ text' = [text EXCEPT ![t] = Null]
      /\ \E at \in {"run", "sched"} : Goto(t, at, t)
  BY <1>2, <1>3 DEF MqLink, Is, ResumeFirst
<1>5. /\ SlotsHeld' /\ Hands' = Hands \ {s} /\ s \in Slot /\ s \in Hands
  <2>1. pc[t].at \in QueuePlace /\ "run" \notin QueuePlace /\ "sched" \notin QueuePlace
    BY <1>4 DEF QueuePlace
  <2> QED
    BY <1>2, <1>4, <2>1, DropsSlot DEF MqInv
<1>6. m \in Message
  BY <1>3, <1>4 DEF MqInv, SlotsHeld
<1>7. /\ ChanOf(mq) = Bodies(mq, us) /\ Len(Bodies(mq, us)) = Len(us)
  BY <1>1, ChanIsBodies
<1>8. CASE pc[t].at = "mq_send"
  <2>1. /\ Holds(mq', Hands', Behind(us, s), fs)
        /\ Bodies(mq', Behind(us, s)) = Behind(Bodies(mq, us), m)
        /\ mq'.last = Null /\ Len(us) < Cardinality(Slot)
    BY <1>1, <1>4, <1>5, <1>6, <1>8, LinkTailHolds
  <2>2. ChanOf(mq') = Append(ChanOf(mq), m) /\ Len(ChanOf(mq)) < Cardinality(Slot)
    BY <1>7, <2>1, ChanIsBodies DEF Behind
  <2>3. MqChannel!Next
    BY <1>6, <2>1, <2>2 DEF MqChannel!Next, MqChannel!Send, ChanOf
  <2> QED
    BY <1>5, <2>1, <2>3 DEF MqMoves, MqInv
<1>9. CASE pc[t].at # "mq_send"
  <2>1. /\ Holds(mq', Hands', Before(s, us), fs)
        /\ Bodies(mq', Before(s, us)) = Before(m, Bodies(mq, us))
        /\ mq'.last = Null /\ Len(us) < Cardinality(Slot)
    BY <1>1, <1>4, <1>5, <1>6, <1>9, LinkHeadHolds
  <2>2. ChanOf(mq') = <<m>> \o ChanOf(mq) /\ Len(ChanOf(mq)) < Cardinality(Slot)
    BY <1>7, <2>1, ChanIsBodies DEF Before
  <2>3. MqChannel!Next
    BY <1>6, <2>1, <2>2 DEF MqChannel!Next, MqChannel!SendUrgent, ChanOf
  <2> QED
    BY <1>5, <2>1, <2>3 DEF MqMoves, MqInv
<1> QED
  BY <1>8, <1>9

\* rt_mq_send in an interrupt handler does both in one step.
LEMMA MqIsrSendMoves ==
    ASSUME DOMAIN pc = Thread, MqInv, NEW m \in Message, MqIsrSend(m)
    PROVE  MqMoves
<1>1. PICK us, fs : Holds(mq, Hands, us, fs)
  BY DEF MqInv
<1>2. PICK s : s = mq.free
  OBVIOUS
<1>3. PICK q : q = TakeSlot(mq)
  OBVIOUS
<1>4. /\ s # Null /\ mq' = LinkTail(q, s, m) /\ pc' = pc /\ mine' = mine /\ text' = text
  BY <1>2, <1>3 DEF MqIsrSend, IsrResumeFirst
<1>5. /\ s \in Slot /\ s \notin Hands
      /\ Holds(q, Hands \cup {s}, us, Tail(fs)) /\ Bodies(q, us) = Bodies(mq, us)
  BY <1>1, <1>2, <1>3, <1>4, TakeSlotHolds
<1>6. SlotsHeld' /\ Hands' = Hands
  BY <1>4, KeepsSlots DEF MqInv, NoCopier
<1>7. /\ Holds(mq', Hands', Behind(us, s), Tail(fs))
      /\ Bodies(mq', Behind(us, s)) = Behind(Bodies(q, us), m)
      /\ mq'.last = Null /\ Len(us) < Cardinality(Slot)
  <2>1. (Hands \cup {s}) \ {s} = Hands' /\ s \in Hands \cup {s}
    BY <1>5, <1>6
  <2> QED
    BY <1>4, <1>5, <2>1, LinkTailHolds
<1>8. ChanOf(mq') = Append(ChanOf(mq), m) /\ Len(ChanOf(mq)) < Cardinality(Slot)
  BY <1>1, <1>5, <1>7, ChanIsBodies DEF Behind
<1>9. MqChannel!Next
  BY <1>7, <1>8 DEF MqChannel!Next, MqChannel!Send, ChanOf
<1> QED
  BY <1>6, <1>7, <1>9 DEF MqMoves, MqInv

\* rt_mq_recv takes the head out: that message is delivered.
LEMMA MqUnlinkMoves ==
    ASSUME DOMAIN pc = Thread, MqInv, NEW t \in Thread, MqRecv(t) \/ MqRecvResumed(t)
    PROVE  MqMoves
<1>1. PICK us, fs : Holds(mq, Hands, us, fs)
  BY DEF MqInv
<1>2. /\ mq.entry # 0 /\ mine' = [mine EXCEPT ![t] = mq.head] /\ mq' = TakeHead(mq)
      /\ text' = text /\ pc[t].at \in {"run", "take_ret"} /\ Goto(t, "mq_copy", MqRx)
  BY DEF MqRecv, MqRecvResumed, MqUnlink, CallsOn, Calls, Is, Resumed
<1>3. /\ mq.head \in Slot /\ mq.head \notin Hands /\ Len(us) # 0
      /\ Holds(mq', Hands \cup {mq.head}, Tail(us), fs)
      /\ Bodies(mq', Tail(us)) = Tail(Bodies(mq, us))
      /\ mq'.last = Head(Bodies(mq, us))
  BY <1>1, <1>2, TakeHeadHolds
<1>4. SlotsHeld' /\ Hands' = Hands \cup {mq.head}
  <2>1. "mq_copy" \in QueuePlace /\ "run" \notin QueuePlace /\ "take_ret" \notin QueuePlace
    BY DEF QueuePlace
  <2>2. text' \in [Thread -> Message \cup {Null}]
    BY <1>2 DEF MqInv, SlotsHeld
  <2> QED
    BY <1>2, <1>3, <2>1, <2>2, TakesSlot DEF MqInv
<1>5. ChanOf(mq') = Tail(ChanOf(mq)) /\ ChanOf(mq) # << >> /\ mq'.last = Head(ChanOf(mq))
  BY <1>1, <1>3, ChanIsBodies
<1>6. MqChannel!Next
  BY <1>5 DEF MqChannel!Next, MqChannel!Receive, ChanOf
<1> QED
  BY <1>3, <1>4, <1>6 DEF MqMoves, MqInv

\* It gives the slot back: the channel does not change.
LEMMA MqCopiedMoves ==
    ASSUME DOMAIN pc = Thread, MqInv, NEW t \in Thread, MqCopied(t)
    PROVE  MqMoves
<1>1. PICK us, fs : Holds(mq, Hands, us, fs)
  BY DEF MqInv
<1>2. PICK s : s = mine[t]
  OBVIOUS
<1>3. /\ pc[t].at = "mq_copy" /\ mq' = GiveSlot(mq, s)
      /\ mine' = [mine EXCEPT ![t] = Null] /\ text' = text /\ Goto(t, "run", t)
  BY <1>2 DEF MqCopied, Is
<1>4. /\ SlotsHeld' /\ Hands' = Hands \ {s} /\ s \in Slot /\ s \in Hands
  <2>1. pc[t].at \in QueuePlace /\ "run" \notin QueuePlace
    BY <1>3 DEF QueuePlace
  <2> QED
    BY <1>2, <1>3, <2>1, DropsSlot DEF MqInv
<1>5. /\ Holds(mq', Hands', us, <<s>> \o fs)
      /\ Bodies(mq', us) = Bodies(mq, us) /\ mq'.last = mq.last
  BY <1>1, <1>3, <1>4, GiveSlotHolds
<1>6. ChanOf(mq') = ChanOf(mq)
  BY <1>1, <1>5, ChanIsBodies
<1> QED
  BY <1>4, <1>5, <1>6 DEF MqMoves, MqInv, ChanOf

\* rt_mq_control empties the channel.
LEMMA MqResetMoves ==
    ASSUME DOMAIN pc = Thread, MqInv, NEW t \in Thread, MqReset(t)
    PROVE  MqMoves
<1>1. PICK us, fs : Holds(mq, Hands, us, fs)
  BY DEF MqInv
<1>2. /\ pc[t].at = "run" /\ mq' = Emptied(mq) /\ mine' = mine /\ text' = text
      /\ Goto(t, "sched", t)
  BY DEF MqReset, CallsOn, Calls, Is
<1>3. SlotsHeld' /\ Hands' = Hands
  <2>1. Passes(t)
    BY <1>2 DEF Passes, QueuePlace
  <2> QED
    BY <1>2, <2>1, PassesBy, KeepsSlots DEF MqInv
<1>4. PICK gs : Holds(mq', Hands', << >>, gs) /\ mq'.last = "reset"
  BY <1>1, <1>2, <1>3, EmptiedHolds
<1>5. ChanOf(mq') = << >>
  <2>1. Bodies(mq', << >>) = << >>
    BY DEF Bodies
  <2> QED
    BY <1>4, <2>1, ChanIsBodies
<1>6. MqChannel!Next
  BY <1>4, <1>5 DEF MqChannel!Next, MqChannel!Clear, ChanOf
<1> QED
  BY <1>3, <1>4, <1>6 DEF MqMoves, MqInv

\* Every step of the message queue
LEMMA MqStepMoves ==
    ASSUME DOMAIN pc = Thread, MqInv, NEW producer \in SUBSET User, NEW consumer \in SUBSET User,
           MqStep(producer, consumer)
    PROVE  MqMoves
<1>1. User \subseteq Thread
  BY DEF User
<1>2. ASSUME NEW t, (\E time : MqRecvBlocks(t, time)) \/ MqRecvAgain(t) \/ MqRecvGivesUp(t)
      PROVE  MqMoves
  <2>1. pc[t].at \in {"run", "take_ret"}
    BY <1>2 DEF MqRecvBlocks, MqRecvAgain, MqRecvGivesUp, CallsOn, Calls, Is, Resumed, WaitFails,
       TimeIsUp
  <2>2. \E o : Goto(t, "take_sched", o) \/ WaitFails(t, o) \/ TimeIsUp(t, o)
    BY <1>2 DEF MqRecvBlocks, MqRecvAgain, MqRecvGivesUp, WaitFirst, WaitAgain, Wait
  <2>3. mq' = mq /\ mine' = mine /\ text' = text
    BY <1>2 DEF MqRecvBlocks, MqRecvAgain, MqRecvGivesUp, queue
  <2>4. NoCopier
    BY <2>1, <2>2, CallPasses, PassesBy
  <2> QED
    BY <2>3, <2>4, MqStays
<1> QED
  BY <1>1, <1>2, MqSendMoves, MqLinkMoves, MqIsrSendMoves, MqUnlinkMoves, MqCopiedMoves,
     MqResetMoves DEF MqStep

\* Every step of the system is, for the message queue, one of the channel's or none.
LEMMA MqNextStep ==
    ASSUME SendersHold, MqInv, [Next]_vars
    PROVE  MqMoves
<1>1. sys.producer \in SUBSET User /\ sys.consumer \in SUBSET User /\ DOMAIN pc = Thread
  BY Parties DEF SendersHold
<1>2. CASE IpcStep(Deletable) /\ Forget /\ UNCHANGED <<mail, mine, text, item, rb, serial>>
  BY <1>1, <1>2, IpcStepPasses, MqStays DEF Forget
<1>3. CASE MqStep(sys.producer, sys.consumer)
  BY <1>1, <1>3, MqStepMoves
<1>4. CASE UNCHANGED queue /\ (MbStep(sys.producer, sys.consumer)
                               \/ DqStep(sys.producer, sys.consumer) \/ TxStep(sys.producer))
  BY <1>1, <1>4, MbStepPasses, DqStepPasses, MqStays DEF queue
<1>5. CASE UNCHANGED <<kernel, queue>>
  <2>1. NoCopier
    BY <1>1, <1>5 DEF NoCopier, kernel
  <2> QED
    BY <1>5, <2>1, MqStays DEF queue
<1> QED
  BY <1>2, <1>3, <1>4, <1>5, NextCases

\* At first all slots are free, the last one first.
LEMMA MqInitGood ==
    ASSUME Init
    PROVE  MqInv /\ ChanOf(mq) = << >> /\ mq.last = Null
<1>1. PICK n : n = Cardinality(Slot)
  OBVIOUS
<1>2. n \in Nat /\ n # 0 /\ Slot = 1 .. n /\ Null \notin Slot
  BY <1>1, MessageQueueAssumption, FS_CardinalityType
<1>3. /\ mq.head = Null /\ mq.tail = Null /\ mq.free = n /\ mq.entry = 0 /\ mq.last = Null
      /\ mq.next = [s \in Slot |-> IF s = 1 THEN Null ELSE s - 1]
      /\ mq.body = [s \in Slot |-> Null]
      /\ mq = [head |-> mq.head, tail |-> mq.tail, free |-> mq.free, entry |-> mq.entry,
               next |-> mq.next, body |-> mq.body, last |-> mq.last]
  BY <1>1 DEF Init, MqInit
<1>4. /\ DOMAIN pc = Thread /\ \A t \in Thread : pc[t].at \notin QueuePlace
      /\ mine = [t \in Thread |-> Null] /\ text = [t \in Thread |-> Null]
  BY DEF Init, MqInit, SystemInit, QueuePlace
<1>5. SlotsHeld /\ Hands = {}
  BY <1>4, MessageQueueAssumption DEF SlotsHeld, Hands, QueuePlace
<1>6. mq.next \in [Slot -> Slot \cup {Null}] /\ mq.body \in [Slot -> Message \cup {Null}]
  BY <1>2, <1>3
<1>7. mq \in MqRecord
  <2>1. /\ mq.head \in Slot \cup {Null} /\ mq.tail \in Slot \cup {Null}
        /\ mq.free \in Slot \cup {Null} /\ mq.entry \in 0 .. Cardinality(Slot)
        /\ mq.last \in Message \cup {Null, "reset"}
    BY <1>1, <1>2, <1>3
  <2> QED
    BY <1>3, <1>6, <2>1 DEF MqRecord
<1> DEFINE fs == [i \in 1 .. n |-> n + 1 - i]
<1>8. fs \in Seq(Slot) /\ Len(fs) = n /\ \A i \in 1 .. n : fs[i] = n + 1 - i
  BY <1>2
<1>9. \A y \in Slot : Among(y, fs)
  <2> SUFFICES ASSUME NEW y \in Slot PROVE Among(y, fs)
    OBVIOUS
  <2>1. n + 1 - y \in 1 .. n /\ fs[n + 1 - y] = y
    BY <1>2
  <2> QED
    BY <1>8, <2>1 DEF Among
<1> HIDE DEF fs
<1>10. Chain(mq.next, mq.free, fs)
  <2>1. \A i, j \in 1 .. Len(fs) : fs[i] = fs[j] => i = j
    BY <1>2, <1>8
  <2>2. mq.free = IF Len(fs) = 0 THEN Null ELSE fs[1]
    BY <1>2, <1>3, <1>8
  <2>3. ASSUME NEW i \in 1 .. Len(fs)
        PROVE  mq.next[fs[i]] = IF i = Len(fs) THEN Null ELSE fs[i + 1]
    <3>1. i \in 1 .. n /\ fs[i] = n + 1 - i /\ n + 1 - i \in Slot /\ n + 1 - i \in Int
      BY <1>2, <1>8
    <3>2. mq.next[fs[i]] = IF i = n THEN Null ELSE n - i
      BY <1>2, <1>3, <3>1
    <3>3. i # n => fs[i + 1] = n - i
      BY <1>2, <1>8, <3>1
    <3> QED
      BY <1>8, <3>2, <3>3
  <2> QED
    BY <1>8, <2>1, <2>2, <2>3 DEF Chain
<1>11. Holds(mq, Hands, << >>, fs)
  <2>1. Chain(mq.next, mq.head, << >>)
    BY <1>3 DEF Chain
  <2>2. \A y : ~Among(y, << >>)
    BY DEF Among
  <2> QED
    BY <1>3, <1>5, <1>7, <1>9, <1>10, <2>1, <2>2 DEF Holds
<1>12. ChanOf(mq) = << >>
  <2>1. Bodies(mq, << >>) = << >>
    BY DEF Bodies
  <2> QED
    BY <1>11, <2>1, ChanIsBodies
<1> QED
  BY <1>3, <1>5, <1>11, <1>12 DEF MqInv

\* What MqInv says of the lists is what SlotsAccounted says of the pointers.
LEMMA MqInvAccounts ==
    ASSUME MqInv
    PROVE  SlotsAccounted
<1>1. PICK us, fs : Holds(mq, Hands, us, fs)
  BY DEF MqInv
<1>2. Path(mq, mq.head) = us /\ Path(mq, mq.free) = fs
  BY <1>1, PathOfChain DEF Holds
<1>3. us \in Seq(Slot) /\ fs \in Seq(Slot)
  BY <1>1 DEF Holds, Chain
<1> DEFINE a == us \o fs
<1>4. /\ a \in Seq(Slot) /\ Len(a) = Len(us) + Len(fs) /\ Len(us) \in Nat /\ Len(fs) \in Nat
      /\ DOMAIN a = 1 .. Len(a)
      /\ \A i \in 1 .. Len(us) : a[i] = us[i]
      /\ \A i \in 1 .. Len(a) : i > Len(us) => a[i] = fs[i - Len(us)]
  BY <1>3
<1> HIDE DEF a
<1>5. ASSUME NEW i \in 1 .. Len(a)
      PROVE  \/ i \in 1 .. Len(us) /\ a[i] = us[i]
             \/ i - Len(us) \in 1 .. Len(fs) /\ a[i] = fs[i - Len(us)]
  <2>1. CASE i <= Len(us)
    BY <1>4, <2>1
  <2>2. CASE i > Len(us)
    <3>1. i - Len(us) \in 1 .. Len(fs)
      BY <1>4, <2>2
    <3> QED
      BY <1>4, <2>2, <3>1
  <2> QED
    BY <1>4, <2>1, <2>2
<1>6. ASSUME NEW i \in 1 .. Len(us), NEW j \in 1 .. Len(fs)
      PROVE  us[i] # fs[j]
  <2>1. us[i] \in Slot /\ Among(us[i], us)
    BY <1>3 DEF Among
  <2>2. ~Among(us[i], fs)
    BY <1>1, <2>1 DEF Holds
  <2> QED
    BY <2>2 DEF Among
<1>7. ASSUME NEW i \in 1 .. Len(a), NEW j \in 1 .. Len(a), a[i] = a[j]
      PROVE  i = j
  <2>1. CASE i \in 1 .. Len(us) /\ a[i] = us[i]
    <3>1. j \in 1 .. Len(us) /\ a[j] = us[j]
      BY <1>5, <1>6, <1>7, <2>1
    <3>2. us[i] = us[j]
      BY <1>7, <2>1, <3>1
    <3> QED
      BY <1>1, <2>1, <3>1, <3>2 DEF Holds, Chain
  <2>2. CASE i - Len(us) \in 1 .. Len(fs) /\ a[i] = fs[i - Len(us)]
    <3>1. j - Len(us) \in 1 .. Len(fs) /\ a[j] = fs[j - Len(us)]
      BY <1>5, <1>6, <1>7, <2>2
    <3>2. i - Len(us) = j - Len(us)
      BY <1>1, <1>7, <2>2, <3>1 DEF Holds, Chain
    <3> QED
      BY <1>4, <3>2
  <2> QED
    BY <1>5, <2>1, <2>2
<1>8. IsInjective(a)
  BY <1>4, <1>7 DEF IsInjective
<1>9. \A y : y \in ToSet(a) <=> Among(y, us) \/ Among(y, fs)
  <2> SUFFICES ASSUME NEW y PROVE y \in ToSet(a) <=> Among(y, us) \/ Among(y, fs)
    OBVIOUS
  <2>1. y \in ToSet(a) <=> \E i \in 1 .. Len(a) : a[i] = y
    BY <1>4 DEF ToSet
  <2>2. ASSUME NEW i \in 1 .. Len(us), us[i] = y PROVE y \in ToSet(a)
    <3>1. i \in 1 .. Len(a) /\ a[i] = y
      BY <1>4, <2>2
    <3> QED
      BY <2>1, <3>1
  <2>3. ASSUME NEW i \in 1 .. Len(fs), fs[i] = y PROVE y \in ToSet(a)
    <3>1. PICK j : j = Len(us) + i
      OBVIOUS
    <3>2. j \in 1 .. Len(a) /\ j > Len(us) /\ j - Len(us) = i
      BY <1>4, <3>1
    <3>3. a[j] = fs[i]
      BY <1>4, <3>2
    <3> QED
      BY <2>1, <2>3, <3>2, <3>3
  <2>4. ASSUME NEW i \in 1 .. Len(a), a[i] = y PROVE Among(y, us) \/ Among(y, fs)
    BY <1>5, <2>4 DEF Among
  <2> QED
    BY <2>1, <2>2, <2>3, <2>4 DEF Among
<1>10. Hands = Slot \ ToSet(a)
  <2>1. Hands \subseteq Slot
    BY DEF Hands, MqInv, SlotsHeld
  <2>2. \A y \in Slot : y \in Hands <=> y \notin ToSet(a)
    BY <1>1, <1>9 DEF Holds
  <2> QED
    BY <2>1, <2>2
<1> DEFINE out == {t \in Thread : mine[t] # Null}
<1>11. Cardinality(Hands) = Cardinality(out)
  <2> DEFINE f == [y \in Hands |-> CHOOSE t \in out : mine[t] = y]
  <2>1. \A y \in Hands : f[y] \in out /\ mine[f[y]] = y
    BY DEF Hands
  <2>2. \A t \in out : mine[t] \in Hands /\ f[mine[t]] = t
    <3> SUFFICES ASSUME NEW t \in out PROVE mine[t] \in Hands /\ f[mine[t]] = t
      OBVIOUS
    <3>1. mine[t] \in Hands
      BY DEF Hands
    <3>2. f[mine[t]] \in out /\ mine[f[mine[t]]] = mine[t]
      BY <2>1, <3>1
    <3> QED
      BY <3>1, <3>2 DEF MqInv, SlotsHeld
  <2> HIDE DEF out
  <2>3. f \in [Hands -> out]
    BY <2>1
  <2> HIDE DEF f
  <2>4. f \in Bijection(Hands, out)
    BY <2>1, <2>2, <2>3 DEF Bijection, Injection, Surjection, IsInjective
  <2>5. ExistsBijection(Hands, out)
    BY <2>4 DEF ExistsBijection
  <2>6. IsFiniteSet(Hands)
    BY <1>10, MessageQueueAssumption, FS_Subset
  <2> QED
    BY <2>5, <2>6, FS_Bijection
<1>12. {mine[t] : t \in out} = Hands
  BY DEF Hands
<1>13. mq.tail = (IF us = << >> THEN Null ELSE Last(us)) /\ mq.entry = Len(us)
  <2>1. us = << >> <=> Len(us) = 0
    BY <1>3
  <2> QED
    BY <1>1, <2>1 DEF Holds, Last
<1> QED
  BY <1>2, <1>8, <1>10, <1>11, <1>12, <1>13 DEF SlotsAccounted, a

\* The message queue of ipc.c implements a bounded channel in which urgent messages
\* overtake the others, for every number of slots and however many threads and handlers
\* send, receive, time out, reset and delete.
THEOREM MessageQueueImplementsChannel == Spec => QueueIsChannel
<1>1. Init => SendersHold /\ MqInv /\ MqChannel!Init
  BY SendersInit, MqInitGood DEF MqChannel!Init, ChanOf
<1>2. SendersHold /\ MqInv /\ [Next]_vars =>
        (SendersHold /\ MqInv)' /\ [MqChannel!Next]_<<ChanOf(mq), mq.last>>
  BY SendersNext, MqNextStep DEF MqMoves
<1> QED
  BY <1>1, <1>2, PTL DEF Spec, QueueIsChannel, MqChannel!Spec, ChanOf

\* No slot of the message queue is lost, in two places or in the hands of two threads.
THEOREM SlotsStayAccounted == Spec => []SlotsAccounted
<1>1. Init => SendersHold /\ MqInv
  BY SendersInit, MqInitGood
<1>2. SendersHold /\ MqInv /\ [Next]_vars => (SendersHold /\ MqInv)'
  BY SendersNext, MqNextStep DEF MqMoves
<1>3. MqInv => SlotsAccounted
  BY MqInvAccounts
<1> QED
  BY <1>1, <1>2, <1>3, PTL DEF Spec

-----------------------------------------------------------------------------
(* The receive FIFO of the serial device *)

\* The place i cells behind place c of the FIFO
RxAt(c, i) == IF c + i < Bufsz THEN c + i ELSE c + i - Bufsz

RxRecord == [mode : {"int", "dma"}, put : RxCells, get : RxCells, full : BOOLEAN,
             cell : [RxCells -> RxByte \cup {Null}], pos : RxCells, new : 0 .. Bufsz]

\* The put index is as far behind the get index as bytes are reported and not read.
\* In interrupt mode is_full stays set when the FIFO has discarded a byte, and the
\* FIFO holds one byte less than it has cells; in DMA mode is_full tells a full
\* FIFO from an empty one and the controller is ahead of the put index.  A byte
\* reported is in its cell, unless the controller has passed it since.
RxGood(x, s) ==
    /\ x \in RxRecord /\ s \in Seq(RxByte \cup {Null})
    /\ Len(s) <= Bufsz /\ x.put = RxAt(x.get, Len(s))
    /\ x.mode = "int" => x.new = 0 /\ Len(s) < Bufsz /\ (x.full => Len(s) = Bufsz - 1)
    /\ x.mode = "dma" => x.pos = RxAt(x.put, x.new) /\ (x.full <=> Len(s) = Bufsz)
    /\ \A j \in 1 .. Len(s) :
          j > Len(s) + x.new - Bufsz => s[j] = x.cell[RxAt(x.get, j - 1)]

LEMMA RxAtMod ==
    ASSUME NEW c \in RxCells, NEW i \in 0 .. Bufsz
    PROVE  (c + i) % Bufsz = RxAt(c, i) /\ RxAt(c, i) \in RxCells
<1>1. Bufsz \in Nat \ {0} /\ c \in 0 .. Bufsz - 1
  BY SerialAssumption DEF RxCells
<1>2. PICK e \in Int : e = c + i /\ e >= 0 /\ -Bufsz <= e /\ e < 2 * Bufsz
  BY <1>1
<1>3. e % Bufsz = IF e < 0 THEN e + Bufsz ELSE IF e < Bufsz THEN e ELSE e - Bufsz
  BY <1>1, <1>2, Turn
<1>4. (c + i) % Bufsz = RxAt(c, i)
  BY <1>1, <1>2, <1>3 DEF RxAt
<1>5. RxAt(c, i) \in RxCells
  BY <1>1 DEF RxAt, RxCells
<1> QED
  BY <1>4, <1>5

LEMMA RxAtAt ==
    ASSUME NEW c \in RxCells, NEW n \in 0 .. Bufsz, NEW i \in 0 .. Bufsz
    PROVE  RxAt(RxAt(c, n), i) =
               IF n + i < Bufsz THEN RxAt(c, n + i) ELSE RxAt(c, n + i - Bufsz)
<1>1. Bufsz \in Nat \ {0} /\ c \in 0 .. Bufsz - 1
  BY SerialAssumption DEF RxCells
<1> QED
  BY <1>1 DEF RxAt

LEMMA RxAtBehind ==
    ASSUME NEW c \in RxCells, NEW n \in 0 .. Bufsz, NEW j \in 1 .. Bufsz, n + j <= Bufsz
    PROVE  RxAt(RxAt(c, n), j - 1) = RxAt(c, n + j - 1)
<1>1. PICK i \in 0 .. Bufsz : i = j - 1 /\ n + i < Bufsz /\ n + j - 1 = n + i
  BY SerialAssumption
<1> QED
  BY <1>1, RxAtAt

LEMMA RxAtDistinct ==
    ASSUME NEW c \in RxCells, NEW i \in 0 .. Bufsz - 1, NEW j \in 0 .. Bufsz - 1, i # j
    PROVE  RxAt(c, i) # RxAt(c, j)
<1>1. Bufsz \in Nat \ {0} /\ c \in 0 .. Bufsz - 1
  BY SerialAssumption DEF RxCells
<1> QED
  BY <1>1 DEF RxAt

LEMMA RxTypes ==
    ASSUME NEW x, NEW s, RxGood(x, s)
    PROVE  /\ Bufsz \in Nat \ {0} /\ Bufsz > 1 /\ x \in RxRecord
           /\ s \in Seq(RxByte \cup {Null}) /\ Len(s) \in 0 .. Bufsz /\ Len(s) \in Nat
           /\ x.put \in RxCells /\ x.get \in RxCells /\ x.pos \in RxCells
           /\ x.new \in 0 .. Bufsz /\ x.full \in BOOLEAN /\ x.mode \in {"int", "dma"}
           /\ x.cell \in [RxCells -> RxByte \cup {Null}] /\ x.put = RxAt(x.get, Len(s))
<1>1. Bufsz \in Nat \ {0} /\ Bufsz > 1
  BY SerialAssumption
<1>2. /\ x \in RxRecord /\ s \in Seq(RxByte \cup {Null}) /\ Len(s) <= Bufsz
      /\ x.put = RxAt(x.get, Len(s))
  BY DEF RxGood
<1>3. /\ x.put \in RxCells /\ x.get \in RxCells /\ x.pos \in RxCells
      /\ x.new \in 0 .. Bufsz /\ x.full \in BOOLEAN /\ x.mode \in {"int", "dma"}
      /\ x.cell \in [RxCells -> RxByte \cup {Null}]
  BY <1>2 DEF RxRecord
<1>4. Len(s) \in Nat
  BY <1>2
<1> QED
  BY <1>1, <1>2, <1>3, <1>4

\* What _serial_fifo_calc_recved_len computes is the number of bytes reported.
LEMMA RecvedLenExact ==
    ASSUME RxGood(rx, rxin)
    PROVE  RecvedLen = Len(rxin)
<1>1. /\ Bufsz \in Nat \ {0} /\ rx.get \in RxCells /\ Len(rxin) \in 0 .. Bufsz
      /\ rx.put = RxAt(rx.get, Len(rxin)) /\ rx.full \in BOOLEAN
      /\ rx.mode \in {"int", "dma"} /\ Bufsz > 1
  BY RxTypes
<1>2. PICK g \in 0 .. Bufsz - 1, l \in 0 .. Bufsz : g = rx.get /\ l = Len(rxin)
  BY <1>1 DEF RxCells
<1>3. (l = Bufsz => rx.full) /\ (l = 0 => ~rx.full)
  <2>1. CASE rx.mode = "int"
    <3>1. l < Bufsz /\ (rx.full => l = Bufsz - 1)
      BY <1>2, <2>1 DEF RxGood
    <3> QED
      BY <1>1, <1>2, <3>1
  <2>2. CASE rx.mode = "dma"
    <3>1. rx.full <=> l = Bufsz
      BY <1>2, <2>2 DEF RxGood
    <3> QED
      BY <1>1, <1>2, <3>1
  <2> QED
    BY <1>1, <2>1, <2>2
<1>4. rx.put = IF g + l < Bufsz THEN g + l ELSE g + l - Bufsz
  BY <1>1, <1>2 DEF RxAt
<1>5. CASE l = 0
  BY <1>1, <1>2, <1>3, <1>4, <1>5 DEF RecvedLen
<1>6. CASE l = Bufsz
  BY <1>1, <1>2, <1>3, <1>4, <1>6 DEF RecvedLen
<1>7. CASE l # 0 /\ l # Bufsz
  BY <1>1, <1>2, <1>4, <1>7 DEF RecvedLen
<1> QED
  BY <1>5, <1>6, <1>7

\* A FIFO that the controller has not lapped holds what was reported.
LEMMA RxGoodExact ==
    ASSUME RxGood(rx, rxin), "rx_torn" \notin Ops
    PROVE  RxExact
<1>1. SUFFICES ASSUME ~Lapped
               PROVE  [j \in 1 .. RecvedLen |-> rx.cell[(rx.get + j - 1) % Bufsz]] = rxin
  BY DEF RxExact, MayRead
<1>2. /\ Bufsz \in Nat \ {0} /\ rx.get \in RxCells /\ Len(rxin) \in 0 .. Bufsz
      /\ rx.new \in 0 .. Bufsz /\ rxin \in Seq(RxByte \cup {Null})
  BY RxTypes
<1>3. PICK l \in 0 .. Bufsz, n \in 0 .. Bufsz : l = Len(rxin) /\ n = rx.new /\ l + n <= Bufsz
  BY <1>1, <1>2 DEF Lapped
<1>4. ASSUME NEW j \in 1 .. l
      PROVE  rx.cell[(rx.get + j - 1) % Bufsz] = rxin[j]
  <2>1. PICK i \in 0 .. Bufsz : i = j - 1
    BY <1>2, <1>3
  <2>2. rx.get + j - 1 = rx.get + i
    BY <1>2, <2>1 DEF RxCells
  <2>3. (rx.get + i) % Bufsz = RxAt(rx.get, i)
    BY <1>2, RxAtMod
  <2>4. j > l + n - Bufsz
    BY <1>2, <1>3
  <2>5. rxin[j] = rx.cell[RxAt(rx.get, j - 1)]
    BY <1>3, <2>4 DEF RxGood
  <2> QED
    BY <2>1, <2>2, <2>3, <2>5
<1>5. RecvedLen = l
  BY <1>3, RecvedLenExact
<1> QED
  BY <1>2, <1>3, <1>4, <1>5

\* The byte of an interrupt goes behind the others; a full FIFO discards its oldest.
LEMMA RxIndKeeps ==
    ASSUME RxGood(rx, rxin), NEW b \in RxByte, RxInd(b)
    PROVE  RxGood(rx', rxin')
<1>1. /\ Bufsz \in Nat \ {0} /\ Bufsz > 1 /\ rx \in RxRecord
      /\ rxin \in Seq(RxByte \cup {Null}) /\ Len(rxin) \in 0 .. Bufsz
      /\ rx.put \in RxCells /\ rx.get \in RxCells /\ rx.full \in BOOLEAN
      /\ rx.cell \in [RxCells -> RxByte \cup {Null}] /\ rx.put = RxAt(rx.get, Len(rxin))
  BY RxTypes
<1>2. PICK l \in 0 .. Bufsz - 1, g \in RxCells, p \in RxCells,
          c \in [RxCells -> RxByte \cup {Null}], f \in BOOLEAN :
        l = Len(rxin) /\ g = rx.get /\ p = rx.put /\ c = rx.cell /\ f = rx.full
  BY <1>1 DEF RxInd, RxGood
<1>3. rx.mode = "int" /\ rx.new = 0 /\ (f => l = Bufsz - 1) /\ p = RxAt(g, l)
  BY <1>1, <1>2 DEF RxInd, RxGood
<1>4. \A j \in 1 .. l : rxin[j] = c[RxAt(g, j - 1)]
  <2>1. \A j \in 1 .. l : j > l + 0 - Bufsz
    BY <1>1, <1>2
  <2> QED
    BY <1>2, <1>3, <2>1 DEF RxGood
<1>5. (p + 1) % Bufsz = RxAt(g, l + 1) /\ (g + 1) % Bufsz = RxAt(g, 1)
  <2>1. (p + 1) % Bufsz = RxAt(p, 1) /\ (g + 1) % Bufsz = RxAt(g, 1)
    BY <1>1, RxAtMod
  <2>2. RxAt(p, 1) = RxAt(g, l + 1)
    BY <1>1, <1>3 DEF RxAt, RxCells
  <2> QED
    BY <2>1, <2>2
<1>6. RxAt(g, l + 1) \in RxCells /\ RxAt(g, 1) \in RxCells
  <2>1. l + 1 \in 0 .. Bufsz /\ 1 \in 0 .. Bufsz
    BY <1>1
  <2> QED
    BY <2>1, RxAtMod
<1>7. Append(rxin, b) \in Seq(RxByte \cup {Null}) /\ Len(Append(rxin, b)) = l + 1
  BY <1>1, <1>2
<1>8. CASE RxAt(g, l + 1) # g
  <2>1. l + 1 <= Bufsz - 1 /\ ~f
    BY <1>1, <1>3, <1>8 DEF RxAt, RxCells
  <2>2. rx' = [rx EXCEPT !.put = RxAt(g, l + 1), !.full = f, !.get = g,
                         !.cell = [c EXCEPT ![p] = b]]
    BY <1>1, <1>2, <1>5, <1>8 DEF RxInd, RxRecord
  <2>3. rxin' = Append(rxin, b)
    BY <1>1, <1>7, <2>1 DEF RxInd, Newest
  <2>4. [c EXCEPT ![p] = b] \in [RxCells -> RxByte \cup {Null}]
    BY <1>1, <1>2
  <2>5. rx' \in RxRecord
    BY <1>1, <1>2, <1>6, <2>2, <2>4 DEF RxRecord
  <2>6. /\ rx'.put = RxAt(g, l + 1) /\ rx'.full = f /\ rx'.get = g /\ rx'.mode = "int"
        /\ rx'.cell = [c EXCEPT ![p] = b] /\ rx'.new = 0
    BY <1>1, <1>3, <2>2 DEF RxRecord
  <2>7. ASSUME NEW j \in 1 .. l + 1
        PROVE  rxin'[j] = rx'.cell[RxAt(g, j - 1)]
    <3>1. CASE j = l + 1
      BY <1>1, <1>2, <1>3, <2>3, <2>6, <3>1
    <3>2. CASE j \in 1 .. l
      <4>1. PICK i \in 0 .. Bufsz - 1 : i = j - 1 /\ i # l
        BY <1>1, <3>2
      <4>2. RxAt(g, i) # p /\ RxAt(g, i) \in RxCells
        BY <1>1, <1>3, <4>1, RxAtDistinct, RxAtMod
      <4>3. rxin'[j] = rxin[j] /\ rxin[j] = c[RxAt(g, i)]
        BY <1>1, <1>2, <1>4, <2>3, <3>2, <4>1
      <4> QED
        BY <1>1, <1>2, <2>6, <4>1, <4>2, <4>3
    <3> QED
      BY <1>2, <3>1, <3>2
  <2> QED
    BY <1>1, <1>7, <2>1, <2>3, <2>5, <2>6, <2>7 DEF RxGood
<1>9. CASE RxAt(g, l + 1) = g
  <2>1. l = Bufsz - 1
    BY <1>1, <1>9 DEF RxAt, RxCells
  <2>2. rx' = [rx EXCEPT !.put = g, !.full = TRUE, !.get = RxAt(g, 1),
                         !.cell = [c EXCEPT ![p] = b, ![g] = Null]]
    BY <1>1, <1>2, <1>5, <1>9 DEF RxInd, RxRecord
  <2>3. rxin' = SubSeq(Append(rxin, b), 2, Bufsz)
    <3>1. Len(Append(rxin, b)) = Bufsz /\ Len(Append(rxin, b)) > Bufsz - 1
      BY <1>1, <1>7, <2>1
    <3>2. Bufsz - (Bufsz - 1) + 1 = 2
      BY <1>1
    <3> QED
      BY <3>1, <3>2 DEF RxInd, Newest
  <2>4. /\ rxin' \in Seq(RxByte \cup {Null}) /\ Len(rxin') = l
        /\ \A j \in 1 .. l : rxin'[j] = Append(rxin, b)[j + 1]
    BY <1>1, <1>7, <2>1, <2>3
  <2>5. [c EXCEPT ![p] = b, ![g] = Null] \in [RxCells -> RxByte \cup {Null}]
    BY <1>1, <1>2
  <2>6. rx' \in RxRecord
    BY <1>1, <1>2, <1>6, <2>2, <2>5 DEF RxRecord
  <2>7. /\ rx'.put = g /\ rx'.full = TRUE /\ rx'.get = RxAt(g, 1) /\ rx'.mode = "int"
        /\ rx'.cell = [c EXCEPT ![p] = b, ![g] = Null] /\ rx'.new = 0
    BY <1>1, <1>3, <2>2 DEF RxRecord
  <2>8. g = RxAt(RxAt(g, 1), l) /\ g = RxAt(g, 0)
    <3>1. g = RxAt(g, 0)
      BY <1>1 DEF RxAt, RxCells
    <3>2. 1 \in 0 .. Bufsz /\ l \in 0 .. Bufsz /\ ~(1 + l < Bufsz) /\ 1 + l - Bufsz = 0
      BY <1>1, <2>1
    <3>3. RxAt(RxAt(g, 1), l) = RxAt(g, 1 + l - Bufsz)
      BY <3>2, RxAtAt
    <3> QED
      BY <3>1, <3>2, <3>3
  <2>9. ASSUME NEW j \in 1 .. l
        PROVE  rxin'[j] = rx'.cell[RxAt(RxAt(g, 1), j - 1)]
    <3>1. RxAt(RxAt(g, 1), j - 1) = RxAt(g, j)
      <4>1. 1 \in 0 .. Bufsz /\ j \in 1 .. Bufsz /\ 1 + j <= Bufsz /\ 1 + j - 1 = j
        BY <1>1, <2>1
      <4> QED
        BY <4>1, RxAtBehind
    <3>2. PICK i \in 0 .. Bufsz - 1 : i = j /\ i # 0
      BY <1>1, <2>1
    <3>3. RxAt(g, i) # g /\ RxAt(g, i) \in RxCells
      BY <1>1, <2>8, <3>2, RxAtDistinct, RxAtMod
    <3>4. CASE j = l
      <4>1. Append(rxin, b)[j + 1] = b
        BY <1>1, <1>2, <3>4
      <4>2. RxAt(g, i) = p
        BY <1>3, <3>2, <3>4
      <4> QED
        BY <1>1, <1>2, <2>4, <2>7, <3>1, <3>2, <3>3, <4>1, <4>2
    <3>5. CASE j # l
      <4>1. j + 1 \in 1 .. l
        BY <1>1, <3>5
      <4>2. Append(rxin, b)[j + 1] = rxin[j + 1] /\ rxin[j + 1] = c[RxAt(g, j + 1 - 1)]
        BY <1>1, <1>2, <1>4, <4>1
      <4>3. j + 1 - 1 = i
        BY <3>2
      <4>4. RxAt(g, i) # p
        BY <1>1, <1>3, <3>2, <3>5, RxAtDistinct
      <4> QED
        BY <1>1, <1>2, <2>4, <2>7, <3>1, <3>2, <3>3, <4>2, <4>3, <4>4
    <3> QED
      BY <3>4, <3>5
  <2>10. Len(rxin') <= Bufsz /\ Len(rxin') < Bufsz /\ Len(rxin') = Bufsz - 1
    BY <1>1, <2>1, <2>4
  <2>11. rx'.put = RxAt(rx'.get, Len(rxin'))
    BY <2>4, <2>7, <2>8
  <2>12. \A j \in 1 .. Len(rxin') : rxin'[j] = rx'.cell[RxAt(rx'.get, j - 1)]
    BY <2>4, <2>7, <2>9, ZenonT(60)
  <2> QED
    BY <2>4, <2>6, <2>7, <2>10, <2>11, <2>12 DEF RxGood
<1> QED
  BY <1>8, <1>9

\* A reader in interrupt mode takes the oldest byte.
LEMMA RxReadByteKeeps ==
    ASSUME RxGood(rx, rxin), NEW t, RxReadByte(t)
    PROVE  RxGood(rx', rxin')
<1>1. /\ Bufsz \in Nat \ {0} /\ Bufsz > 1 /\ rx \in RxRecord
      /\ rxin \in Seq(RxByte \cup {Null}) /\ Len(rxin) \in 0 .. Bufsz
      /\ rx.put \in RxCells /\ rx.get \in RxCells /\ rx.full \in BOOLEAN
      /\ rx.cell \in [RxCells -> RxByte \cup {Null}] /\ rx.put = RxAt(rx.get, Len(rxin))
  BY RxTypes
<1>2. PICK l \in 0 .. Bufsz - 1, g \in RxCells, p \in RxCells,
          c \in [RxCells -> RxByte \cup {Null}], f \in BOOLEAN :
        l = Len(rxin) /\ g = rx.get /\ p = rx.put /\ c = rx.cell /\ f = rx.full
  BY <1>1 DEF RxReadByte, RxGood
<1>3. rx.mode = "int" /\ rx.new = 0 /\ (f => l = Bufsz - 1) /\ p = RxAt(g, l)
  BY <1>1, <1>2 DEF RxReadByte, RxGood
<1>4. \A j \in 1 .. l : rxin[j] = c[RxAt(g, j - 1)]
  <2>1. \A j \in 1 .. l : j > l + 0 - Bufsz
    BY <1>1, <1>2
  <2> QED
    BY <1>2, <1>3, <2>1 DEF RxGood
<1>5. l # 0
  <2>1. g # p \/ f
    BY <1>2 DEF RxReadByte
  <2> QED
    BY <1>1, <1>3, <2>1 DEF RxAt, RxCells
<1>6. rx' = [rx EXCEPT !.get = RxAt(g, 1), !.full = FALSE, !.cell = [c EXCEPT ![g] = Null]]
  <2>1. (g + 1) % Bufsz = RxAt(g, 1)
    BY <1>1, RxAtMod
  <2> QED
    BY <1>1, <1>2, <2>1 DEF RxReadByte, RxRecord
<1>7. /\ rxin' \in Seq(RxByte \cup {Null}) /\ Len(rxin') = l - 1
      /\ \A j \in 1 .. l - 1 : rxin'[j] = rxin[j + 1]
  BY <1>1, <1>2, <1>5 DEF RxReadByte
<1>8. RxAt(g, 1) \in RxCells
  BY <1>1, RxAtMod
<1>9. [c EXCEPT ![g] = Null] \in [RxCells -> RxByte \cup {Null}]
  BY <1>1, <1>2
<1>10. rx' \in RxRecord
  BY <1>1, <1>2, <1>6, <1>8, <1>9 DEF RxRecord
<1>11. /\ rx'.put = p /\ rx'.full = FALSE /\ rx'.get = RxAt(g, 1) /\ rx'.mode = "int"
       /\ rx'.cell = [c EXCEPT ![g] = Null] /\ rx'.new = 0
  BY <1>1, <1>2, <1>3, <1>6 DEF RxRecord
<1>12. p = RxAt(RxAt(g, 1), l - 1) /\ g = RxAt(g, 0)
  BY <1>1, <1>3, <1>5 DEF RxAt, RxCells
<1>13. ASSUME NEW j \in 1 .. l - 1
       PROVE  rxin'[j] = rx'.cell[RxAt(RxAt(g, 1), j - 1)]
  <2>1. RxAt(RxAt(g, 1), j - 1) = RxAt(g, j)
    <3>1. 1 \in 0 .. Bufsz /\ j \in 1 .. Bufsz /\ 1 + j <= Bufsz /\ 1 + j - 1 = j
      BY <1>1, <1>2
    <3> QED
      BY <3>1, RxAtBehind
  <2>2. PICK i \in 0 .. Bufsz - 1 : i = j /\ i # 0
    BY <1>1, <1>2
  <2>3. RxAt(g, i) # g /\ RxAt(g, i) \in RxCells
    BY <1>1, <1>12, <2>2, RxAtDistinct, RxAtMod
  <2>4. j + 1 \in 1 .. l /\ j + 1 - 1 = i
    BY <1>1, <2>2
  <2>5. rxin[j + 1] = c[RxAt(g, i)]
    BY <1>4, <2>4
  <2> QED
    BY <1>1, <1>2, <1>7, <1>11, <2>1, <2>2, <2>3, <2>5
<1> QED
  BY <1>1, <1>2, <1>5, <1>7, <1>10, <1>11, <1>12, <1>13 DEF RxGood

\* The l bytes that wait for the reader and the n that DMA wrote behind them, in the
\* cells c from the read index g on
DmaParts(x, s, l, n, g, p, c) ==
    /\ l = Len(s) /\ n = x.new /\ g = x.get /\ p = x.put /\ c = x.cell
    /\ p = RxAt(g, l) /\ x.pos = RxAt(p, n) /\ (x.full <=> l = Bufsz)
    /\ \A j \in 1 .. l : j > l + n - Bufsz => s[j] = c[RxAt(g, j - 1)]

\* What RxGood says in DMA mode
LEMMA DmaGood ==
    ASSUME NEW x, NEW s, RxGood(x, s), x.mode = "dma"
    PROVE  \E l \in 0 .. Bufsz, n \in 0 .. Bufsz, g \in RxCells, p \in RxCells,
              c \in [RxCells -> RxByte \cup {Null}] :
             DmaParts(x, s, l, n, g, p, c)
<1>1. /\ Len(s) \in 0 .. Bufsz /\ x.new \in 0 .. Bufsz /\ x.get \in RxCells
      /\ x.put \in RxCells /\ x.cell \in [RxCells -> RxByte \cup {Null}]
  BY RxTypes
<1>2. /\ x.put = RxAt(x.get, Len(s)) /\ x.pos = RxAt(x.put, x.new)
      /\ x.full <=> Len(s) = Bufsz
      /\ \A j \in 1 .. Len(s) :
           j > Len(s) + x.new - Bufsz => s[j] = x.cell[RxAt(x.get, j - 1)]
  BY DEF RxGood
<1>3. DmaParts(x, s, Len(s), x.new, x.get, x.put, x.cell)
  BY <1>1, <1>2 DEF DmaParts
<1> QED
  BY <1>1, <1>3

\* The controller writes behind the bytes it has not reported, and over the oldest
\* reported ones once it has lapped the reader.
LEMMA DmaReceivesKeeps ==
    ASSUME RxGood(rx, rxin), NEW b \in RxByte, DmaReceives(b)
    PROVE  RxGood(rx', rxin')
<1>1. /\ Bufsz \in Nat \ {0} /\ rx \in RxRecord /\ rxin \in Seq(RxByte \cup {Null})
      /\ rx.mode = "dma" /\ rxin' = rxin /\ rx.pos \in RxCells /\ rx.full \in BOOLEAN
  BY RxTypes DEF DmaReceives
<1>parts. PICK l \in 0 .. Bufsz, n \in 0 .. Bufsz, g \in RxCells, p \in RxCells,
               c \in [RxCells -> RxByte \cup {Null}] :
            DmaParts(rx, rxin, l, n, g, p, c)
  BY <1>1, DmaGood
<1>2. /\ l = Len(rxin) /\ n = rx.new /\ g = rx.get /\ p = rx.put /\ c = rx.cell
      /\ p = RxAt(g, l) /\ rx.pos = RxAt(p, n) /\ (rx.full <=> l = Bufsz)
      /\ \A j \in 1 .. l : j > l + n - Bufsz => rxin[j] = c[RxAt(g, j - 1)]
  BY <1>parts DEF DmaParts
<1>3. n + 1 \in 0 .. Bufsz /\ n < Bufsz
  BY <1>1, <1>2 DEF DmaReceives
<1>4. (rx.pos + 1) % Bufsz = RxAt(p, n + 1) /\ RxAt(p, n + 1) \in RxCells
  <2>1. 1 \in 0 .. Bufsz
    BY <1>1
  <2>2. (rx.pos + 1) % Bufsz = RxAt(rx.pos, 1)
    BY <1>1, <2>1, RxAtMod
  <2>3. RxAt(RxAt(p, n), 1) = RxAt(p, n + 1)
    BY <1>1, <1>3 DEF RxAt, RxCells
  <2> QED
    BY <1>2, <1>3, <2>2, <2>3, RxAtMod
<1>5. rx' = [rx EXCEPT !.cell = [c EXCEPT ![rx.pos] = b], !.pos = RxAt(p, n + 1),
                       !.new = n + 1]
  BY <1>1, <1>2, <1>4 DEF DmaReceives, RxRecord
<1>6. [c EXCEPT ![rx.pos] = b] \in [RxCells -> RxByte \cup {Null}]
  BY <1>1
<1>7. rx' \in RxRecord
  BY <1>1, <1>3, <1>4, <1>5, <1>6 DEF RxRecord
<1>8. /\ rx'.put = p /\ rx'.get = g /\ rx'.full = rx.full /\ rx'.mode = "dma"
      /\ rx'.cell = [c EXCEPT ![rx.pos] = b] /\ rx'.pos = RxAt(p, n + 1) /\ rx'.new = n + 1
  BY <1>1, <1>2, <1>5 DEF RxRecord
<1>9. ASSUME NEW j \in 1 .. l, j > l + (n + 1) - Bufsz
      PROVE  rxin[j] = rx'.cell[RxAt(g, j - 1)]
  <2>1. PICK i \in 0 .. Bufsz - 1 : i = j - 1
    BY <1>1
  <2>2. PICK e \in 0 .. Bufsz - 1 : e = IF l + n < Bufsz THEN l + n ELSE l + n - Bufsz
    <3>1. CASE l + n < Bufsz
      BY <1>1, <3>1
    <3>2. CASE ~(l + n < Bufsz)
      <4>1. l + n - Bufsz \in 0 .. Bufsz - 1
        BY <1>1, <1>3, <3>2
      <4> QED
        BY <3>2, <4>1
    <3> QED
      BY <3>1, <3>2
  <2>3. rx.pos = RxAt(g, e)
    BY <1>2, <2>2, RxAtAt
  <2>4. e # i
    BY <1>1, <1>3, <1>9, <2>1, <2>2
  <2>5. RxAt(g, i) # rx.pos /\ RxAt(g, i) \in RxCells
    BY <1>1, <2>3, <2>4, RxAtDistinct, RxAtMod
  <2>6. j > l + n - Bufsz
    BY <1>1, <1>9
  <2>7. rxin[j] = c[RxAt(g, j - 1)]
    BY <1>2, <2>6
  <2> QED
    BY <1>8, <2>1, <2>5, <2>7
<1> QED
  BY <1>1, <1>2, <1>7, <1>8, <1>9 DEF RxGood

\* A reader in DMA mode that is not lapped takes bytes off the front.
LEMMA RxReadKeeps ==
    ASSUME RxGood(rx, rxin), NEW t, NEW m \in 1 .. Bufsz, RxRead(t, m), "rx_torn" \notin Ops
    PROVE  RxGood(rx', rxin')
<1>1. /\ Bufsz \in Nat \ {0} /\ rx \in RxRecord /\ rxin \in Seq(RxByte \cup {Null})
      /\ rx.mode = "dma" /\ rx.pos \in RxCells
  BY RxTypes DEF RxRead
<1>parts. PICK l \in 0 .. Bufsz, n \in 0 .. Bufsz, g \in RxCells, p \in RxCells,
               c \in [RxCells -> RxByte \cup {Null}] :
            DmaParts(rx, rxin, l, n, g, p, c)
  BY <1>1, DmaGood
<1>2. /\ l = Len(rxin) /\ n = rx.new /\ g = rx.get /\ p = rx.put /\ c = rx.cell
      /\ p = RxAt(g, l) /\ rx.pos = RxAt(p, n) /\ (rx.full <=> l = Bufsz)
      /\ \A j \in 1 .. l : j > l + n - Bufsz => rxin[j] = c[RxAt(g, j - 1)]
  BY <1>parts DEF DmaParts
<1>3. RecvedLen = l
  BY <1>2, RecvedLenExact
<1>4. PICK r : r = IF m < l THEN m ELSE l
  OBVIOUS
<1>5. r \in 1 .. l /\ r \in 0 .. Bufsz
  <2>1. r > 0
    BY <1>3, <1>4 DEF RxRead
  <2> QED
    BY <1>1, <1>4, <2>1
<1>6. l + n <= Bufsz
  BY <1>1, <1>2 DEF RxRead, MayRead, Lapped
<1>7. rx' = [rx EXCEPT !.get = RxAt(g, r), !.full = FALSE]
  <2>1. (g + r) % Bufsz = RxAt(g, r)
    BY <1>5, RxAtMod
  <2> QED
    BY <1>1, <1>2, <1>3, <1>4, <2>1 DEF RxRead, RxRecord
<1>8. rxin' = SubSeq(rxin, r + 1, l)
  BY <1>2, <1>3, <1>4 DEF RxRead
<1>9. /\ rxin' \in Seq(RxByte \cup {Null}) /\ Len(rxin') = l - r
      /\ \A j \in 1 .. l - r : rxin'[j] = rxin[r + j]
  BY <1>1, <1>2, <1>5, <1>8
<1>10. RxAt(g, r) \in RxCells
  BY <1>5, RxAtMod
<1>11. rx' \in RxRecord
  BY <1>1, <1>7, <1>10 DEF RxRecord
<1>12. /\ rx'.put = p /\ rx'.get = RxAt(g, r) /\ rx'.full = FALSE /\ rx'.mode = "dma"
       /\ rx'.cell = c /\ rx'.pos = RxAt(p, n) /\ rx'.new = n
  BY <1>1, <1>2, <1>7 DEF RxRecord
<1>13. p = RxAt(RxAt(g, r), l - r)
  <2>1. PICK i \in 0 .. Bufsz : i = l - r /\ r + i = l
    BY <1>1, <1>5
  <2>2. RxAt(RxAt(g, r), i) = IF l < Bufsz THEN RxAt(g, l) ELSE RxAt(g, l - Bufsz)
    <3>1. RxAt(RxAt(g, r), i) =
              IF r + i < Bufsz THEN RxAt(g, r + i) ELSE RxAt(g, r + i - Bufsz)
      BY <1>5, RxAtAt
    <3>2. r + i = l /\ r + i - Bufsz = l - Bufsz
      BY <1>1, <1>5, <2>1
    <3> QED
      BY <1>5, <3>1, <3>2
  <2>3. l = Bufsz => RxAt(g, l) = RxAt(g, l - Bufsz)
    BY <1>1 DEF RxAt, RxCells
  <2> QED
    BY <1>1, <1>2, <2>1, <2>2, <2>3
<1>14. ASSUME NEW j \in 1 .. l - r
       PROVE  rxin'[j] = rx'.cell[RxAt(RxAt(g, r), j - 1)]
  <2>1. j \in 1 .. Bufsz /\ r + j <= Bufsz /\ r + j \in 1 .. l /\ r + j > l + n - Bufsz
    BY <1>1, <1>5, <1>6
  <2>2. RxAt(RxAt(g, r), j - 1) = RxAt(g, r + j - 1)
    <3>1. j \in 1 .. Bufsz /\ r + j <= Bufsz
      BY <2>1
    <3> QED
      BY <1>5, <3>1, RxAtBehind
  <2>3. rxin[r + j] = c[RxAt(g, r + j - 1)]
    <3>1. PICK q \in 1 .. l : q = r + j /\ q > l + n - Bufsz
      BY <2>1
    <3>2. rxin[q] = c[RxAt(g, q - 1)]
      BY <1>2, <3>1
    <3> QED
      BY <1>5, <3>1, <3>2
  <2> QED
    BY <1>9, <1>12, <2>2, <2>3
<1>15. l - r <= Bufsz /\ l - r # Bufsz
  BY <1>1, <1>5
<1> QED
  BY <1>9, <1>11, <1>12, <1>13, <1>14, <1>15 DEF RxGood

\* The newest n elements of a sequence, by place
LEMMA SerialNewest ==
    ASSUME NEW B, NEW s \in Seq(B), NEW n \in Nat
    PROVE  /\ Newest(s, n) \in Seq(B)
           /\ Len(s) <= n => Newest(s, n) = s
           /\ Len(s) >= n => /\ Len(Newest(s, n)) = n
                             /\ \A i \in 1 .. n : Newest(s, n)[i] = s[Len(s) - n + i]
<1>1. CASE Len(s) > n
  <2>1. Newest(s, n) = SubSeq(s, Len(s) - n + 1, Len(s))
    BY <1>1 DEF Newest
  <2> QED
    BY <1>1, <2>1
<1>2. CASE ~(Len(s) > n)
  <2>1. Newest(s, n) = s
    BY <1>2 DEF Newest
  <2> QED
    BY <1>2, <2>1
<1> QED
  BY <1>1, <1>2

\* rt_dma_recv_update_put_index finds out that the bytes reported and not read and
\* the new ones fill the FIFO.
LEMMA OverflowFound ==
    ASSUME NEW g \in RxCells, NEW l \in 0 .. Bufsz, NEW n \in 1 .. Bufsz, NEW p, p = RxAt(g, l)
    PROVE  (l = Bufsz \/ IF g <= p THEN p + n >= Bufsz /\ RxAt(p, n) >= g ELSE p + n >= g)
           <=> l + n >= Bufsz
<1>1. Bufsz \in Nat \ {0} /\ g \in 0 .. Bufsz - 1
  BY SerialAssumption DEF RxCells
<1>2. p = IF g + l < Bufsz THEN g + l ELSE g + l - Bufsz
  BY DEF RxAt
<1>3. CASE g + l < Bufsz
  <2>1. p = g + l /\ g <= p /\ p \in Int
    BY <1>1, <1>2, <1>3
  <2> QED
    BY <1>1, <1>3, <2>1 DEF RxAt
<1>4. CASE g + l >= Bufsz /\ l = Bufsz
  BY <1>1, <1>4
<1>5. CASE g + l >= Bufsz /\ l # Bufsz
  <2>1. p = g + l - Bufsz /\ ~(g <= p) /\ p \in Int
    BY <1>1, <1>2, <1>5
  <2> QED
    BY <1>1, <1>5, <2>1
<1> QED
  BY <1>1, <1>3, <1>4, <1>5

\* The cell from which the report takes its j-th byte
LEMMA ReportPlace ==
    ASSUME NEW p \in RxCells, NEW n \in 1 .. Bufsz, NEW j \in 1 .. n
    PROVE  (RxAt(p, n) - n + j - 1) % Bufsz = RxAt(p, j - 1) /\ RxAt(p, j - 1) \in RxCells
<1>1. Bufsz \in Nat \ {0} /\ p \in 0 .. Bufsz - 1
  BY SerialAssumption DEF RxCells
<1>2. PICK q \in Int : q = RxAt(p, n) /\ (q = p + n \/ q = p + n - Bufsz)
  BY <1>1 DEF RxAt
<1>3. PICK e \in Int : /\ e = RxAt(p, n) - n + j - 1
                       /\ e = p + j - 1 \/ e = p + j - 1 - Bufsz
  BY <1>1, <1>2
<1>4. -Bufsz <= e /\ e < 2 * Bufsz
  BY <1>1, <1>3
<1>5. e % Bufsz = IF e < 0 THEN e + Bufsz ELSE IF e < Bufsz THEN e ELSE e - Bufsz
  BY <1>1, <1>4, Turn
<1>6. p + j - 1 < Bufsz => e = p + j - 1 \/ (e = p + j - 1 - Bufsz /\ e < 0)
  BY <1>1, <1>3
<1>7. ~(p + j - 1 < Bufsz) => e >= 0
  BY <1>1, <1>3
<1>8. e % Bufsz = RxAt(p, j - 1)
  <2>1. CASE p + j - 1 < Bufsz
    <3>1. RxAt(p, j - 1) = p + j - 1
      BY <1>1, <2>1 DEF RxAt
    <3> QED
      BY <1>1, <1>5, <1>6, <2>1, <3>1
  <2>2. CASE ~(p + j - 1 < Bufsz)
    <3>1. RxAt(p, j - 1) = p + j - 1 - Bufsz
      BY <1>1, <2>2 DEF RxAt
    <3> QED
      BY <1>1, <1>3, <1>5, <1>7, <2>2, <3>1
  <2> QED
    BY <2>1, <2>2
<1>9. RxAt(p, j - 1) \in RxCells
  BY <1>1 DEF RxAt, RxCells
<1> QED
  BY <1>3, <1>8, <1>9

\* A report of the controller puts the new bytes behind the others, and drops the
\* oldest when all of them are more than the FIFO has cells.
LEMMA RxDmaDoneKeeps ==
    ASSUME RxGood(rx, rxin), RxDmaDone
    PROVE  RxGood(rx', rxin')
<1>1. /\ Bufsz \in Nat \ {0} /\ rx \in RxRecord /\ rxin \in Seq(RxByte \cup {Null})
      /\ rx.mode = "dma" /\ rx.pos \in RxCells /\ rx.full \in BOOLEAN
  BY RxTypes DEF RxDmaDone
<1>parts. PICK l \in 0 .. Bufsz, n \in 0 .. Bufsz, g \in RxCells, p \in RxCells,
               c \in [RxCells -> RxByte \cup {Null}] :
            DmaParts(rx, rxin, l, n, g, p, c)
  BY <1>1, DmaGood
<1>2. /\ l = Len(rxin) /\ n = rx.new /\ g = rx.get /\ p = rx.put /\ c = rx.cell
      /\ p = RxAt(g, l) /\ rx.pos = RxAt(p, n) /\ (rx.full <=> l = Bufsz)
      /\ \A j \in 1 .. l : j > l + n - Bufsz => rxin[j] = c[RxAt(g, j - 1)]
  BY <1>parts DEF DmaParts
<1>3. n \in 1 .. Bufsz
  BY <1>1, <1>2 DEF RxDmaDone
<1>4. (p + n) % Bufsz = RxAt(p, n) /\ RxAt(p, n) \in RxCells
  BY RxAtMod
<1> DEFINE over == IF g <= p THEN p + n >= Bufsz /\ RxAt(p, n) >= g ELSE p + n >= g
           fresh == [j \in 1 .. n |-> c[RxAt(p, j - 1)]]
           out == RxAt(p, n)
<1>5. (rx.full \/ over) <=> l + n >= Bufsz
  BY <1>2, <1>3, OverflowFound
<1>6. rx' = [rx EXCEPT !.put = out, !.full = rx.full \/ over, !.new = 0,
                       !.get = IF rx.full \/ over THEN out ELSE g]
  BY <1>1, <1>2, <1>4 DEF RxDmaDone, UpdatePut, RxRecord
<1>7. PICK h \in RxCells, v \in BOOLEAN :
        /\ l + n >= Bufsz => h = out /\ v
        /\ ~(l + n >= Bufsz) => h = g /\ ~v
        /\ rx' = [rx EXCEPT !.put = out, !.full = v, !.new = 0, !.get = h]
  <2>1. CASE l + n >= Bufsz
    <3>1. (rx.full \/ over) = TRUE
      BY <1>5, <2>1
    <3>2. rx' = [rx EXCEPT !.put = out, !.full = TRUE, !.new = 0, !.get = out]
      BY <1>6, <3>1
    <3> QED
      BY <1>4, <2>1, <3>2
  <2>2. CASE ~(l + n >= Bufsz)
    <3>1. (rx.full \/ over) = FALSE
      BY <1>5, <2>2
    <3>2. rx' = [rx EXCEPT !.put = out, !.full = FALSE, !.new = 0, !.get = g]
      BY <1>6, <3>1
    <3> QED
      BY <2>2, <3>2
  <2> QED
    BY <2>1, <2>2
<1>8. rx' \in RxRecord
  <2>1. 0 \in 0 .. Bufsz
    BY <1>1
  <2> QED
    BY <1>1, <1>4, <1>7, <2>1 DEF RxRecord
<1>9. /\ rx'.put = out /\ rx'.get = h /\ rx'.full = v /\ rx'.mode = "dma"
      /\ rx'.cell = c /\ rx'.pos = out /\ rx'.new = 0
  BY <1>1, <1>2, <1>7 DEF RxRecord
<1>10. fresh \in Seq(RxByte \cup {Null}) /\ Len(fresh) = n
  <2>1. \A j \in 1 .. n : RxAt(p, j - 1) \in RxCells
    BY <1>3, ReportPlace
  <2>2. fresh \in [1 .. n -> RxByte \cup {Null}]
    BY <2>1
  <2> QED
    BY <1>3, <2>2
<1>11. PICK all \in Seq(RxByte \cup {Null}) :
         /\ all = rxin \o fresh /\ Len(all) = l + n
         /\ \A i \in 1 .. l + n : all[i] = IF i <= l THEN rxin[i] ELSE fresh[i - l]
  <2>1. PICK f \in Seq(RxByte \cup {Null}) : f = fresh /\ Len(f) = n
    BY <1>10
  <2>2. /\ rxin \o f \in Seq(RxByte \cup {Null}) /\ Len(rxin \o f) = Len(rxin) + Len(f)
        /\ \A i \in 1 .. Len(rxin) + Len(f) :
             (rxin \o f)[i] = IF i <= Len(rxin) THEN rxin[i] ELSE f[i - Len(rxin)]
    BY <1>1, ConcatSpec
  <2> HIDE DEF fresh
  <2> QED
    BY <1>2, <2>1, <2>2, ZenonT(60)
<1>12. rxin' = Newest(all, Bufsz)
  <2>1. [j \in 1 .. n |-> c[(out - n + j - 1) % Bufsz]] = fresh
    BY <1>3, ReportPlace
  <2> QED
    BY <1>2, <1>11, <2>1 DEF RxDmaDone
<1>13. RxAt(out, 0) = out
  BY <1>1, <1>4 DEF RxAt, RxCells
<1>14. CASE l + n < Bufsz
  <2>1. rxin' = all /\ ~v /\ h = g
    <3>1. Bufsz \in Nat /\ Len(all) <= Bufsz
      BY <1>1, <1>11, <1>14
    <3>2. Newest(all, Bufsz) = all
      BY <3>1, SerialNewest
    <3>3. ~(l + n >= Bufsz)
      BY <1>1, <1>14
    <3> QED
      BY <1>7, <1>12, <3>2, <3>3
  <2>2. out = RxAt(g, l + n)
    BY <1>2, <1>14, RxAtAt
  <2>3. ASSUME NEW j \in 1 .. l + n
        PROVE  all[j] = c[RxAt(g, j - 1)]
    <3>1. CASE j <= l
      <4>1. j \in 1 .. l /\ j > l + n - Bufsz
        BY <1>1, <1>14, <3>1
      <4> QED
        BY <1>2, <1>11, <3>1, <4>1
    <3>2. CASE ~(j <= l)
      <4>1. PICK i \in 1 .. n : i = j - l /\ l + i = j
        BY <3>2
      <4>2. i \in 1 .. Bufsz /\ l + i <= Bufsz
        BY <1>1, <1>14, <4>1
      <4>3. RxAt(p, i - 1) = RxAt(g, l + i - 1)
        <5>1. RxAt(RxAt(g, l), i - 1) = RxAt(g, l + i - 1)
          BY <4>2, RxAtBehind
        <5> QED
          BY <1>2, <5>1
      <4> QED
        BY <1>11, <3>2, <4>1, <4>3
    <3> QED
      BY <3>1, <3>2
  <2>4. l + n <= Bufsz /\ l + n # Bufsz
    BY <1>1, <1>14
  <2> QED
    BY <1>8, <1>9, <1>11, <1>13, <2>1, <2>2, <2>3, <2>4, SMTT(30) DEF RxGood
<1>15. CASE l + n >= Bufsz
  <2>1. /\ rxin' \in Seq(RxByte \cup {Null}) /\ Len(rxin') = Bufsz
        /\ \A i \in 1 .. Bufsz : rxin'[i] = all[l + n - Bufsz + i]
    <3>1. Bufsz \in Nat /\ Len(all) >= Bufsz
      BY <1>1, <1>11, <1>15
    <3>2. /\ Newest(all, Bufsz) \in Seq(RxByte \cup {Null})
          /\ Len(Newest(all, Bufsz)) = Bufsz
          /\ \A i \in 1 .. Bufsz : Newest(all, Bufsz)[i] = all[Len(all) - Bufsz + i]
      BY <3>1, SerialNewest
    <3>3. ASSUME NEW i \in 1 .. Bufsz
          PROVE  rxin'[i] = all[l + n - Bufsz + i]
      <4>1. rxin'[i] = all[Len(all) - Bufsz + i]
        BY <1>12, <3>2
      <4>2. Len(all) = l + n
        BY <1>11
      <4> QED
        BY <1>1, <4>1, <4>2
    <3> QED
      BY <1>12, <3>2, <3>3
  <2>2. v /\ h = out
    BY <1>7, <1>15
  <2>3. RxAt(out, Bufsz) = out
    BY <1>1, <1>4 DEF RxAt, RxCells
  <2>4. ASSUME NEW i \in 1 .. Bufsz
        PROVE  rxin'[i] = c[RxAt(out, i - 1)]
    <3>1. PICK q \in 1 .. l + n, d \in 0 .. Bufsz : q = l + n - Bufsz + i /\ d = i - 1
      BY <1>1, <1>15
    <3>2. RxAt(out, d) = IF n + d < Bufsz THEN RxAt(p, n + d) ELSE RxAt(p, n + d - Bufsz)
      BY <3>1, RxAtAt
    <3>3. CASE n + d < Bufsz
      <4>1. q \in 1 .. l /\ q <= l /\ q > l + n - Bufsz
        BY <1>1, <3>1, <3>3
      <4>2. PICK e \in 0 .. Bufsz : e = n + d /\ ~(l + e < Bufsz) /\ l + e - Bufsz = q - 1
        BY <1>1, <1>15, <3>1, <3>3
      <4>3. RxAt(p, e) = RxAt(g, q - 1)
        <5>1. RxAt(RxAt(g, l), e) = RxAt(g, l + e - Bufsz)
          BY <4>2, RxAtAt
        <5> QED
          BY <1>2, <4>2, <5>1
      <4>4. all[q] = c[RxAt(g, q - 1)]
        BY <1>2, <1>11, <4>1
      <4> QED
        BY <2>1, <3>1, <3>2, <3>3, <4>2, <4>3, <4>4
    <3>4. CASE ~(n + d < Bufsz)
      <4>1. PICK e \in 1 .. n : e = q - l /\ e - 1 = n + d - Bufsz /\ ~(q <= l)
        BY <1>1, <3>1, <3>4
      <4>2. all[q] = c[RxAt(p, e - 1)]
        BY <1>11, <3>1, <4>1
      <4> QED
        BY <2>1, <3>1, <3>2, <3>4, <4>1, <4>2
    <3> QED
      BY <3>3, <3>4
  <2> QED
    BY <1>8, <1>9, <1>13, <2>1, <2>2, <2>3, <2>4 DEF RxGood
<1> QED
  BY <1>1, <1>14, <1>15

LEMMA RxStepKeeps ==
    ASSUME RxGood(rx, rxin), NEW consumer, RxStep(consumer), "rx_torn" \notin Ops
    PROVE  RxGood(rx', rxin')
BY RxDmaDoneKeeps, RxIndKeeps, DmaReceivesKeeps, RxReadByteKeeps, RxReadKeeps DEF RxStep

LEMMA RxInitGood ==
    ASSUME SerInit
    PROVE  RxGood(rx, rxin)
<1>1. /\ rx.mode \in {"int", "dma"} /\ rx.put = 0 /\ rx.get = 0 /\ rx.full = FALSE
      /\ rx.cell = [i \in RxCells |-> Null] /\ rx.pos = 0 /\ rx.new = 0 /\ rxin = << >>
  BY DEF SerInit
<1>2. Bufsz \in Nat \ {0} /\ 0 \in RxCells /\ 0 \in 0 .. Bufsz
  BY SerialAssumption DEF RxCells
<1>3. rx \in RxRecord
  BY <1>1, <1>2 DEF SerInit, RxRecord
<1>4. RxAt(0, 0) = 0 /\ Len(rxin) = 0 /\ rxin \in Seq(RxByte \cup {Null})
  BY <1>1, <1>2 DEF RxAt
<1>5. 1 .. Len(rxin) = {}
  BY <1>4
<1> QED
  BY <1>1, <1>2, <1>3, <1>4, <1>5 DEF RxGood

-----------------------------------------------------------------------------
(* The transmitter of the serial device *)

\* A serial device has one writer, and its data queue is used for nothing else.
OneWriter ==
    \A s \in Systems : "tx" \in s.has =>
        /\ s.has \cap {"mailbox", "queue", "dataqueue"} = {}
        /\ \A t, u \in s.producer : t = u

TxRecord == [active : BOOLEAN, wire : Item \cup {Null}, data : [Thread -> Item \cup {Null}]]

\* A writer that has a buffer in hand waits for a place in the queue or is on its way
\* to look at activated, with its buffer in the queue.
WriterAccounted(h) ==
    \A t \in Thread :
        /\ tx.data[t] # Null => t \in sys.producer /\ (OnItsWay(t) \/ Taking(t, DqPush))
        /\ Taking(t, DqPush) => item[t] = tx.data[t]
        /\ OnItsWay(t) => h # << >>
        /\ pc[t].at = "tx_start" => tx.active /\ tx.wire = Null /\ tx.data[t] # Null

\* The controller transmits the buffer at the head of the queue; when it is idle, the
\* queue is empty or holds the one buffer whose writer is on its way.
WireAccounted(h) ==
    /\ tx.wire # Null => h # << >> /\ tx.wire = Head(h)
    /\ ~tx.active => tx.wire = Null
    /\ tx.active /\ tx.wire = Null => \E t \in Thread : pc[t].at = "tx_start"
    /\ tx.wire = Null /\ h # << >> =>
            Len(h) = 1 /\ \E t \in Thread : OnItsWay(t) /\ Head(h) = tx.data[t]

TxGood ==
    /\ tx \in TxRecord /\ DqHeld(dq) \in Seq(Item)
    /\ "tx" \notin sys.has => tx.wire = Null
    /\ "tx" \in sys.has => WriterAccounted(DqHeld(dq)) /\ WireAccounted(DqHeld(dq))

\* Thread t stays where it is as far as the transmitter is concerned.
KeepsPlace(t) ==
    /\ Taking(t, DqPush)' <=> Taking(t, DqPush)
    /\ pc[t].at \in {"run", "sched"} => pc'[t].at \in {"run", "sched"}
    /\ pc'[t].at = "tx_start" <=> pc[t].at = "tx_start"

LEMMA TxKept ==
    ASSUME TxGood, sys' = sys, tx' = tx, item' = item, DqHeld(dq)' = DqHeld(dq),
           \A t \in Thread : KeepsPlace(t)
    PROVE  TxGood'
<1>1. ASSUME NEW t \in Thread, "tx" \in sys.has
      PROVE  OnItsWay(t)' <=> OnItsWay(t)
  <2>1. OnItsWay(t) => OnItsWay(t)'
    BY <1>1 DEF KeepsPlace, OnItsWay
  <2>2. ASSUME OnItsWay(t)'
        PROVE  OnItsWay(t)
    <3>1. tx.data[t] # Null /\ ~Taking(t, DqPush)'
      BY <2>2 DEF OnItsWay, Taking
    <3>2. ~Taking(t, DqPush)
      BY <1>1, <3>1 DEF KeepsPlace
    <3> QED
      BY <1>1, <3>1, <3>2 DEF TxGood, WriterAccounted
  <2> QED
    BY <2>1, <2>2
<1>2. CASE "tx" \in sys.has
  <2>1. WriterAccounted(DqHeld(dq))'
    <3>1. WriterAccounted(DqHeld(dq))
      BY <1>2 DEF TxGood
    <3> QED
      BY <1>1, <1>2, <3>1 DEF WriterAccounted, KeepsPlace
  <2>2. WireAccounted(DqHeld(dq))'
    <3>1. WireAccounted(DqHeld(dq))
      BY <1>2 DEF TxGood
    <3> QED
      BY <1>1, <1>2, <3>1 DEF WireAccounted, KeepsPlace
  <2> QED
    BY <1>2, <2>1, <2>2 DEF TxGood
<1>3. CASE "tx" \notin sys.has
  BY <1>3 DEF TxGood
<1> QED
  BY <1>2, <1>3

LEMMA PlaceKept ==
    ASSUME DOMAIN pc = Thread, NEW t, NEW at, NEW arg, Goto(t, at, arg),
           \/ pc[t].at = "take_sched" /\ at = "take_ret" /\ arg = pc[t].arg
           \/ pc[t].at = "take_ret" /\ at = "take_sched" /\ arg = pc[t].arg
           \/ /\ pc[t].at \notin {"take_sched", "take_ret", "tx_start"}
              /\ at \notin {"take_sched", "take_ret", "tx_start"}
              /\ pc[t].at \in {"run", "sched"} => at \in {"run", "sched"}
    PROVE  \A u \in Thread : KeepsPlace(u)
<1>1. SUFFICES ASSUME NEW u \in Thread
               PROVE  KeepsPlace(u)
  OBVIOUS
<1>2. pc'[u] = IF u = t THEN [at |-> at, arg |-> arg] ELSE pc[u]
  BY DEF Goto
<1>3. CASE u = t
  <2>1. pc'[u].at = at /\ pc'[u].arg = arg
    BY <1>2, <1>3
  <2> QED
    BY <1>3, <2>1 DEF KeepsPlace, Taking
<1>4. CASE u # t
  <2>1. pc'[u] = pc[u]
    BY <1>2, <1>4
  <2> QED
    BY <2>1 DEF KeepsPlace, Taking
<1> QED
  BY <1>3, <1>4

LEMMA PcKept ==
    ASSUME pc' = pc
    PROVE  \A u \in Thread : KeepsPlace(u)
BY DEF KeepsPlace, Taking

\* With nothing to delete, the steps of the kernel leave a writer on its way.
LEMMA IpcStepKeepsPlaces ==
    ASSUME DOMAIN pc = Thread, IpcStep({}), "sleep" \notin Ops
    PROVE  \A u \in Thread : KeepsPlace(u)
<1>1. CASE TickInterrupt
  BY <1>1, PcKept DEF TickInterrupt
<1>2. ASSUME NEW t \in User, CallSchedule(t)
      PROVE  \A u \in Thread : KeepsPlace(u)
  <2>1. Goto(t, After[pc[t].at], pc[t].arg) /\ pc[t].at \in DOMAIN After
    BY <1>2 DEF CallSchedule
  <2>2. CASE pc[t].at = "take_sched"
    <3>1. After[pc[t].at] = "take_ret"
      BY <2>2 DEF After
    <3> QED
      BY <2>1, <2>2, <3>1, PlaceKept
  <2>3. CASE pc[t].at # "take_sched"
    <3>1. /\ pc[t].at \in {"sched", "sleep_sched", "exit_sched"}
          /\ After[pc[t].at] \in {"run", "slept", "exited"}
          /\ pc[t].at = "sched" => After[pc[t].at] = "run"
      BY <2>1, <2>3 DEF After
    <3> QED
      BY <2>1, <3>1, PlaceKept
  <2> QED
    BY <2>2, <2>3
<1>3. ASSUME NEW t \in User, Slept(t)
      PROVE  \A u \in Thread : KeepsPlace(u)
  BY <1>3, PlaceKept DEF Slept, Is
<1>4. ASSUME NEW t \in User, WakeCheck(t)
      PROVE  \A u \in Thread : KeepsPlace(u)
  <2>1. /\ \/ Goto(t, "wake_one", pc[t].arg)
           \/ Goto(t, "wake_check", Second[pc[t].arg])
           \/ Goto(t, "run", t)
        /\ pc[t].at = "wake_check"
    BY <1>4 DEF WakeCheck, Is
  <2> QED
    BY <2>1, PlaceKept
<1>5. ASSUME NEW t \in User, WakeOne(t)
      PROVE  \A u \in Thread : KeepsPlace(u)
  <2>1. Goto(t, "wake_check", pc[t].arg) /\ pc[t].at = "wake_one"
    BY <1>5 DEF WakeOne, Is
  <2> QED
    BY <2>1, PlaceKept
<1>6. ASSUME NEW t \in User, NEW u \in User, NEW p \in Prio, Control(t, u, p)
      PROVE  \A v \in Thread : KeepsPlace(v)
  BY <1>6, PcKept DEF Control
<1>7. \A t, d : ~Sleep(t, d)
  BY DEF Sleep, Calls
<1> QED
  BY <1>1, <1>2, <1>3, <1>4, <1>5, <1>6, <1>7 DEF IpcStep, SystemStep

LEMMA DqHead ==
    ASSUME NEW x, DqGood(x)
    PROVE  /\ Len(DqHeld(x)) = x.put - x.get
           /\ x.put = x.get <=> DqHeld(x) = << >>
           /\ x.put # x.get => Head(DqHeld(x)) = x.cell[x.get % DqSize]
<1>1. PICK n : n = x.put - x.get
  OBVIOUS
<1>2. /\ n \in Nat /\ DqHeld(x) \in Seq(Item \cup {Null}) /\ Len(DqHeld(x)) = n
      /\ \A i \in 1 .. n : DqHeld(x)[i] = x.cell[(x.get + i - 1) % DqSize]
  BY <1>1, DqHeldSeq
<1>3. x.put \in Nat /\ x.get \in Nat
  BY DqTypes
<1>4. x.put = x.get <=> n = 0
  BY <1>1, <1>3
<1>5. n = 0 <=> DqHeld(x) = << >>
  BY <1>2
<1>6. ASSUME n # 0
      PROVE  Head(DqHeld(x)) = x.cell[x.get % DqSize]
  <2>1. 1 \in 1 .. n /\ x.get + 1 - 1 = x.get
    BY <1>2, <1>3, <1>6
  <2>2. DqHeld(x)[1] = x.cell[x.get % DqSize]
    BY <1>2, <2>1
  <2> QED
    BY <1>2, <1>5, <1>6, <2>2
<1> QED
  BY <1>1, <1>2, <1>4, <1>5, <1>6

LEMMA DqPutHeld ==
    ASSUME DqGood(dq), ~DqFull, DqMayPush, "dq_wrap" \notin Ops, NEW m \in Item, DqPut(m)
    PROVE  DqHeld(dq)' = Append(DqHeld(dq), m)
<1>1. dq' = [dq EXCEPT !.cell[dq.put % DqSize] = m, !.put = (dq.put + 1) % IdxMod,
                       !.count = dq.count + 1, !.last = Null]
  BY DEF DqPut, DqGood, DqRecord
<1>2. dq.put - dq.get # DqSize /\ dq.put + 1 < IdxMod
  BY DEF DqFull, DqMayPush
<1> QED
  BY <1>1, <1>2, DqPutAppends

LEMMA DqTakeHeld ==
    ASSUME DqGood(dq), ~DqEmpty, DqTake
    PROVE  DqGood(dq)' /\ DqHeld(dq) # << >> /\ DqHeld(dq)' = Tail(DqHeld(dq))
<1>1. dq' = [dq EXCEPT !.get = (dq.get + 1) % IdxMod, !.last = dq.cell[dq.get % DqSize],
                       !.count = dq.count - 1, !.cell[dq.get % DqSize] = Null]
  BY DEF DqTake, DqGood, DqRecord
<1>2. dq.put # dq.get
  BY DEF DqEmpty
<1> QED
  BY <1>1, <1>2, DqTakeIsTail

\* The end of a transfer
LEMMA TxDmaDoneKeeps ==
    ASSUME SendersHold, DqGood(dq), TxGood, "tx" \in sys.has, sys' = sys, TxDmaDone,
           "tx_late" \notin Ops
    PROVE  TxGood'
<1> DEFINE h == DqHeld(dq)
<1>1. /\ tx \in TxRecord /\ h \in Seq(Item) /\ WriterAccounted(h) /\ WireAccounted(h)
      /\ Null \notin Item
  BY DataQueueAssumption DEF TxGood
<1>2. tx.wire # Null /\ h # << >>
  BY <1>1 DEF TxDmaDone, WireAccounted
<1>3. ~DqEmpty /\ Len(h) = dq.put - dq.get
  BY <1>2, DqHead DEF DqEmpty
<1>4. DqTake /\ pc' = pc /\ item' = item
  BY <1>3 DEF TxDmaDone, IsrPop, IsrResumeFirst
<1>5. DqGood(dq)' /\ h' = Tail(h)
  BY <1>3, <1>4, DqTakeHeld
<1>6. h' \in Seq(Item) /\ Len(h') = Len(h) - 1
  BY <1>1, <1>2, <1>5
<1>7. TxNext = IF h' = << >> THEN Null ELSE Head(h')
  BY <1>5, DqHead DEF TxNext
<1>8. /\ TxNext \in Item \cup {Null} /\ (TxNext = Null <=> h' = << >>)
      /\ h' # << >> => TxNext = Head(h')
  BY <1>1, <1>6, <1>7
<1>9. tx' = [tx EXCEPT !.wire = TxNext, !.active = (TxNext # Null)]
  BY DEF TxDmaDone
<1>10. tx' \in TxRecord
  BY <1>1, <1>8, <1>9 DEF TxRecord
<1>11. /\ tx'.wire = TxNext /\ tx'.data = tx.data /\ (tx'.active <=> TxNext # Null)
  BY <1>1, <1>9 DEF TxRecord
<1>12. WriterAccounted(DqHeld(dq))'
  <2>1. SUFFICES ASSUME NEW t \in Thread
                 PROVE  /\ tx'.data[t] # Null =>
                              t \in sys'.producer /\ (OnItsWay(t)' \/ Taking(t, DqPush)')
                        /\ Taking(t, DqPush)' => item'[t] = tx'.data[t]
                        /\ OnItsWay(t)' => h' # << >>
                        /\ pc'[t].at # "tx_start"
    BY DEF WriterAccounted
  <2>2. /\ OnItsWay(t)' <=> OnItsWay(t)
        /\ Taking(t, DqPush)' <=> Taking(t, DqPush)
    BY <1>4, <1>11 DEF OnItsWay, Taking
  <2>3. pc[t].at # "tx_start"
    BY <1>1, <1>2 DEF WriterAccounted
  <2>4. OnItsWay(t) => Len(h) > 1
    BY <1>3 DEF TxDmaDone, InTime
  <2>5. OnItsWay(t) => h' # << >>
    BY <1>1, <1>6, <2>4
  <2> QED
    BY <1>1, <1>4, <1>11, <2>2, <2>3, <2>5 DEF WriterAccounted
<1>13. WireAccounted(DqHeld(dq))'
  BY <1>8, <1>11 DEF WireAccounted
<1> QED
  BY <1>6, <1>10, <1>12, <1>13 DEF TxGood

LEMMA SoleWriter ==
    ASSUME OneWriter, SendersHold, TxGood, "tx" \in sys.has, NEW t \in sys.producer
    PROVE  \A u \in Thread : u # t => /\ tx.data[u] = Null /\ ~OnItsWay(u)
                                      /\ pc[u].at # "tx_start"
<1>1. \A v, u \in sys.producer : v = u
  BY DEF OneWriter, SendersHold
<1>2. WriterAccounted(DqHeld(dq))
  BY DEF TxGood
<1> QED
  BY <1>1, <1>2 DEF WriterAccounted, OnItsWay

\* The writer's buffer m comes to the end of the queue.
LEMMA BufferPushed ==
    ASSUME OneWriter, SendersHold, TxGood, "tx" \in sys.has, sys' = sys,
           NEW t \in sys.producer, t \in Thread, NEW m \in Item,
           DqHeld(dq)' = Append(DqHeld(dq), m), ~OnItsWay(t), pc[t].at # "tx_start",
           tx' = [tx EXCEPT !.data = [tx.data EXCEPT ![t] = m]],
           Goto(t, "sched", t) \/ Goto(t, "run", t),
           \A u \in Thread : u # t => item'[u] = item[u]
    PROVE  TxGood'
<1> DEFINE h == DqHeld(dq)
<1>1. /\ tx \in TxRecord /\ h \in Seq(Item) /\ WriterAccounted(h) /\ WireAccounted(h)
      /\ Null \notin Item /\ DOMAIN pc = Thread
  BY DataQueueAssumption DEF TxGood, SendersHold
<1>2. \A u \in Thread : u # t => tx.data[u] = Null /\ ~OnItsWay(u) /\ pc[u].at # "tx_start"
  BY SoleWriter
<1>3. [tx.data EXCEPT ![t] = m] \in [Thread -> Item \cup {Null}]
  BY <1>1 DEF TxRecord
<1>4. tx' \in TxRecord
  BY <1>1, <1>3 DEF TxRecord
<1>5. /\ tx'.wire = tx.wire /\ tx'.active = tx.active /\ tx'.data[t] = m
      /\ \A u \in Thread : u # t => tx'.data[u] = tx.data[u]
  BY <1>1, <1>3 DEF TxRecord
<1>6. /\ pc'[t].at \in {"sched", "run"}
      /\ \A u \in Thread : u # t => pc'[u] = pc[u]
  BY <1>1 DEF Goto
<1>7. OnItsWay(t)' /\ ~Taking(t, DqPush)'
  BY <1>1, <1>5, <1>6 DEF OnItsWay, Taking
<1>8. \A u \in Thread : u # t => ~OnItsWay(u)' /\ (Taking(u, DqPush)' <=> Taking(u, DqPush))
  BY <1>2, <1>5, <1>6 DEF OnItsWay, Taking
<1>9. h' \in Seq(Item) /\ h' # << >> /\ Len(h') = Len(h) + 1
  BY <1>1
<1>10. WriterAccounted(DqHeld(dq))'
  <2>1. SUFFICES ASSUME NEW u \in Thread
                 PROVE  /\ tx'.data[u] # Null =>
                              u \in sys'.producer /\ (OnItsWay(u)' \/ Taking(u, DqPush)')
                        /\ Taking(u, DqPush)' => item'[u] = tx'.data[u]
                        /\ OnItsWay(u)' => h' # << >>
                        /\ pc'[u].at # "tx_start"
    BY DEF WriterAccounted
  <2>2. CASE u = t
    BY <1>6, <1>7, <1>9, <2>2
  <2>3. CASE u # t
    BY <1>1, <1>2, <1>5, <1>6, <1>8, <2>3 DEF WriterAccounted
  <2> QED
    BY <2>2, <2>3
<1>11. tx.wire # Null => h # << >> /\ Head(h') = tx.wire
  BY <1>1 DEF WireAccounted
<1>12. ASSUME tx.wire = Null
       PROVE  ~tx.active /\ Len(h') = 1 /\ Head(h') = m
  <2>1. ~tx.active /\ h = << >>
    BY <1>1, <1>2, <1>12 DEF WireAccounted
  <2> QED
    BY <1>1, <2>1
<1>13. WireAccounted(DqHeld(dq))'
  BY <1>1, <1>5, <1>7, <1>9, <1>11, <1>12 DEF WireAccounted
<1> QED
  BY <1>4, <1>9, <1>10, <1>13 DEF TxGood

LEMMA TxPushKeeps ==
    ASSUME OneWriter, SendersHold, DqGood(dq), TxGood, "tx" \in sys.has, sys' = sys,
           NEW t \in sys.producer, t \in Thread, NEW m \in Item, TxPush(t, m),
           "dq_wrap" \notin Ops
    PROVE  TxGood'
<1> DEFINE h == DqHeld(dq)
<1>1. /\ tx \in TxRecord /\ h \in Seq(Item) /\ WriterAccounted(h) /\ WireAccounted(h)
      /\ Null \notin Item /\ DOMAIN pc = Thread /\ tx.data[t] = Null
      /\ item \in [Thread -> Item \cup {Null}]
  BY DataQueueAssumption DEF TxGood, SendersHold, TxPush
<1>2. ~OnItsWay(t) /\ pc[t].at # "tx_start"
  BY <1>1 DEF OnItsWay, WriterAccounted
<1>3. tx' = [tx EXCEPT !.data = [tx.data EXCEPT ![t] = m]]
  BY <1>1 DEF TxPush, TxRecord
<1>4. CASE Push(t, m)
  <2>1. ~DqFull /\ DqMayPush /\ DqPut(m) /\ item' = item
    BY <1>4 DEF Push
  <2>2. Goto(t, "sched", t) \/ Goto(t, "run", t)
    BY <1>4 DEF Push, ResumeFirst
  <2> QED
    BY <1>2, <1>3, <2>1, <2>2, DqPutHeld, BufferPushed
<1>5. CASE PushBlocks(t, m, -1)
  <2>1. Goto(t, "take_sched", DqPush) /\ dq' = dq /\ item' = [item EXCEPT ![t] = m]
    BY <1>5 DEF PushBlocks, WaitFirst, Wait
  <2>2. \A u \in Thread : u # t => tx.data[u] = Null /\ ~OnItsWay(u) /\ pc[u].at # "tx_start"
    BY SoleWriter
  <2>3. [tx.data EXCEPT ![t] = m] \in [Thread -> Item \cup {Null}]
    BY <1>1 DEF TxRecord
  <2>4. tx' \in TxRecord
    BY <1>1, <1>3, <2>3 DEF TxRecord
  <2>5. /\ tx'.wire = tx.wire /\ tx'.active = tx.active /\ tx'.data[t] = m
        /\ \A u \in Thread : u # t => tx'.data[u] = tx.data[u]
    BY <1>1, <1>3, <2>3 DEF TxRecord
  <2>6. /\ pc'[t].at = "take_sched" /\ pc'[t].arg = DqPush
        /\ \A u \in Thread : u # t => pc'[u] = pc[u]
    BY <1>1, <2>1 DEF Goto
  <2>7. item'[t] = m /\ \A u \in Thread : u # t => item'[u] = item[u]
    BY <1>1, <2>1
  <2>8. ~OnItsWay(t)' /\ Taking(t, DqPush)'
    BY <2>6 DEF OnItsWay, Taking
  <2>9. \A u \in Thread : u # t => ~OnItsWay(u)' /\ (Taking(u, DqPush)' <=> Taking(u, DqPush))
    BY <2>2, <2>5, <2>6 DEF OnItsWay, Taking
  <2>10. h' = h
    BY <2>1
  <2>11. WriterAccounted(DqHeld(dq))'
    <3>1. SUFFICES ASSUME NEW u \in Thread
                   PROVE  /\ tx'.data[u] # Null =>
                                u \in sys'.producer /\ (OnItsWay(u)' \/ Taking(u, DqPush)')
                          /\ Taking(u, DqPush)' => item'[u] = tx'.data[u]
                          /\ OnItsWay(u)' => h' # << >>
                          /\ pc'[u].at # "tx_start"
      BY DEF WriterAccounted
    <3>2. CASE u = t
      BY <2>5, <2>6, <2>7, <2>8, <3>2
    <3>3. CASE u # t
      BY <1>1, <2>2, <2>5, <2>6, <2>7, <2>9, <3>3 DEF WriterAccounted
    <3> QED
      BY <3>2, <3>3
  <2>12. WireAccounted(DqHeld(dq))'
    <3>1. tx.wire = Null => ~tx.active /\ h = << >>
      BY <1>1, <1>2, <2>2 DEF WireAccounted
    <3> QED
      BY <1>1, <2>5, <2>10, <3>1 DEF WireAccounted
  <2> QED
    BY <1>1, <2>4, <2>10, <2>11, <2>12 DEF TxGood
<1> QED
  BY <1>4, <1>5 DEF TxPush

LEMMA TxPushResumedKeeps ==
    ASSUME OneWriter, SendersHold, DqGood(dq), TxGood, "tx" \in sys.has, sys' = sys,
           NEW t \in sys.producer, t \in Thread, TxPushResumed(t), "dq_wrap" \notin Ops
    PROVE  TxGood'
<1>1. /\ tx \in TxRecord /\ WriterAccounted(DqHeld(dq)) /\ DOMAIN pc = Thread /\ tx' = tx
      /\ item \in [Thread -> Item \cup {Null}]
  BY DEF TxGood, SendersHold, TxPushResumed
<1>2. Taking(t, DqPush) /\ pc[t].at = "take_ret" /\ pc[t].arg = DqPush
  BY DEF TxPushResumed, PushResumed, PushAgain, Resumed, Is, Taking
<1>3. item[t] \in Item /\ tx.data[t] = item[t]
  BY <1>1, <1>2 DEF SendersHold, WriterAccounted
<1>4. CASE PushResumed(t)
  <2>1. /\ ~DqFull /\ DqMayPush /\ DqPut(item[t]) /\ item' = [item EXCEPT ![t] = Null]
        /\ Goto(t, "sched", t) \/ Goto(t, "run", t)
    BY <1>4 DEF PushResumed, ResumeFirst
  <2>2. DqHeld(dq)' = Append(DqHeld(dq), item[t])
    BY <1>3, <2>1, DqPutHeld
  <2>3. ~OnItsWay(t) /\ pc[t].at # "tx_start"
    BY <1>2 DEF OnItsWay
  <2>4. tx' = [tx EXCEPT !.data = [tx.data EXCEPT ![t] = item[t]]]
    <3>1. [tx.data EXCEPT ![t] = item[t]] = tx.data
      BY <1>1, <1>3 DEF TxRecord
    <3>2. [tx EXCEPT !.data = tx.data] = tx
      BY <1>1 DEF TxRecord
    <3> QED
      BY <1>1, <3>1, <3>2
  <2>5. \A u \in Thread : u # t => item'[u] = item[u]
    BY <1>1, <2>1
  <2> QED
    BY <1>3, <2>1, <2>2, <2>3, <2>4, <2>5, BufferPushed
<1>5. CASE PushAgain(t)
  <2>1. Goto(t, "take_sched", DqPush) /\ dq' = dq /\ item' = item
    BY <1>5 DEF PushAgain, WaitAgain, Wait, dataqueue
  <2>2. \A u \in Thread : KeepsPlace(u)
    BY <1>1, <1>2, <2>1, PlaceKept
  <2> QED
    BY <1>1, <2>1, <2>2, TxKept
<1> QED
  BY <1>4, <1>5 DEF TxPushResumed

LEMMA TxActivateKeeps ==
    ASSUME OneWriter, SendersHold, TxGood, "tx" \in sys.has, sys' = sys,
           NEW t \in sys.producer, t \in Thread, TxActivate(t)
    PROVE  TxGood'
<1> DEFINE h == DqHeld(dq)
<1>1. /\ tx \in TxRecord /\ h \in Seq(Item) /\ WriterAccounted(h) /\ WireAccounted(h)
      /\ DOMAIN pc = Thread /\ dq' = dq /\ item' = item
      /\ pc[t].at = "run" /\ tx.data[t] # Null
  BY DEF TxGood, SendersHold, TxActivate, Is, dataqueue
<1>2. \A u \in Thread : u # t => tx.data[u] = Null /\ ~OnItsWay(u) /\ pc[u].at # "tx_start"
  BY SoleWriter
<1>3. OnItsWay(t) /\ ~Taking(t, DqPush) /\ h # << >> /\ h' = h
  BY <1>1 DEF OnItsWay, Taking, WriterAccounted
<1>4. CASE tx.active
  <2>1. tx' = [tx EXCEPT !.data = [tx.data EXCEPT ![t] = Null]] /\ pc' = pc
    BY <1>1, <1>4 DEF TxActivate, TxRecord
  <2>2. [tx.data EXCEPT ![t] = Null] \in [Thread -> Item \cup {Null}]
    BY <1>1 DEF TxRecord
  <2>3. tx' \in TxRecord
    BY <1>1, <2>1, <2>2 DEF TxRecord
  <2>4. /\ tx'.wire = tx.wire /\ tx'.active = tx.active /\ tx'.data[t] = Null
        /\ \A u \in Thread : u # t => tx'.data[u] = tx.data[u]
    BY <1>1, <2>1, <2>2 DEF TxRecord
  <2>5. \A u \in Thread : /\ ~OnItsWay(u)' /\ tx'.data[u] = Null
                          /\ Taking(u, DqPush)' <=> Taking(u, DqPush)
    BY <1>2, <2>1, <2>4 DEF OnItsWay, Taking
  <2>6. tx.wire # Null /\ tx.wire = Head(h)
    <3>1. \A u \in Thread : pc[u].at # "tx_start"
      BY <1>1, <1>2
    <3> QED
      BY <1>1, <1>4, <3>1 DEF WireAccounted
  <2>7. WriterAccounted(DqHeld(dq))'
    <3>1. SUFFICES ASSUME NEW u \in Thread
                   PROVE  /\ Taking(u, DqPush)' => item'[u] = tx'.data[u]
                          /\ pc'[u].at # "tx_start"
      BY <2>5 DEF WriterAccounted
    <3>2. CASE u = t
      BY <1>1, <1>3, <2>1, <2>5, <3>2
    <3>3. CASE u # t
      BY <1>1, <1>2, <2>1, <2>4, <2>5, <3>3 DEF WriterAccounted
    <3> QED
      BY <3>2, <3>3
  <2>8. WireAccounted(DqHeld(dq))'
    BY <1>3, <1>4, <2>4, <2>6 DEF WireAccounted
  <2> QED
    BY <1>1, <1>3, <2>3, <2>7, <2>8 DEF TxGood
<1>5. CASE ~tx.active
  <2>1. tx' = [tx EXCEPT !.active = TRUE] /\ Goto(t, "tx_start", t)
    BY <1>5 DEF TxActivate
  <2>2. tx' \in TxRecord
    BY <1>1, <2>1 DEF TxRecord
  <2>3. tx'.wire = tx.wire /\ tx'.active = TRUE /\ tx'.data = tx.data
    BY <1>1, <2>1 DEF TxRecord
  <2>4. pc'[t].at = "tx_start" /\ \A u \in Thread : u # t => pc'[u] = pc[u]
    BY <1>1, <2>1 DEF Goto
  <2>5. OnItsWay(t)' /\ ~Taking(t, DqPush)'
    BY <1>1, <2>3, <2>4 DEF OnItsWay, Taking
  <2>6. \A u \in Thread : u # t => ~OnItsWay(u)' /\ (Taking(u, DqPush)' <=> Taking(u, DqPush))
    BY <1>2, <2>3, <2>4 DEF OnItsWay, Taking
  <2>7. tx.wire = Null /\ Len(h) = 1 /\ Head(h) = tx.data[t]
    BY <1>1, <1>2, <1>3, <1>5 DEF WireAccounted
  <2>8. WriterAccounted(DqHeld(dq))'
    <3>1. SUFFICES ASSUME NEW u \in Thread
                   PROVE  /\ tx'.data[u] # Null =>
                                u \in sys'.producer /\ (OnItsWay(u)' \/ Taking(u, DqPush)')
                          /\ Taking(u, DqPush)' => item'[u] = tx'.data[u]
                          /\ OnItsWay(u)' => h' # << >>
                          /\ pc'[u].at = "tx_start" =>
                                tx'.active /\ tx'.wire = Null /\ tx'.data[u] # Null
      BY DEF WriterAccounted
    <3>2. CASE u = t
      BY <1>1, <1>3, <2>3, <2>5, <2>7, <3>2
    <3>3. CASE u # t
      BY <1>1, <1>2, <2>3, <2>4, <2>6, <3>3 DEF WriterAccounted
    <3> QED
      BY <3>2, <3>3
  <2>9. WireAccounted(DqHeld(dq))'
    BY <1>3, <2>3, <2>4, <2>5, <2>7 DEF WireAccounted
  <2> QED
    BY <1>1, <1>3, <2>2, <2>8, <2>9 DEF TxGood
<1> QED
  BY <1>4, <1>5

LEMMA TxStartKeeps ==
    ASSUME OneWriter, SendersHold, TxGood, "tx" \in sys.has, sys' = sys,
           NEW t \in sys.producer, t \in Thread, TxStart(t)
    PROVE  TxGood'
<1> DEFINE h == DqHeld(dq)
<1>1. /\ tx \in TxRecord /\ h \in Seq(Item) /\ WriterAccounted(h) /\ WireAccounted(h)
      /\ DOMAIN pc = Thread /\ dq' = dq /\ item' = item
      /\ pc[t].at = "tx_start" /\ Goto(t, "run", t)
  BY DEF TxGood, SendersHold, TxStart, Is, dataqueue
<1>2. \A u \in Thread : u # t => tx.data[u] = Null /\ ~OnItsWay(u) /\ pc[u].at # "tx_start"
  BY SoleWriter
<1>3. tx.active /\ tx.wire = Null /\ tx.data[t] # Null
  BY <1>1 DEF WriterAccounted
<1>4. OnItsWay(t) /\ h # << >> /\ h' = h
  BY <1>1, <1>3 DEF OnItsWay, WriterAccounted
<1>5. Head(h) = tx.data[t]
  BY <1>1, <1>2, <1>3, <1>4 DEF WireAccounted
<1>6. tx' = [tx EXCEPT !.wire = tx.data[t], !.data = [tx.data EXCEPT ![t] = Null]]
  BY <1>1 DEF TxStart, TxRecord
<1>7. /\ [tx.data EXCEPT ![t] = Null] \in [Thread -> Item \cup {Null}]
      /\ tx.data[t] \in Item \cup {Null}
  BY <1>1 DEF TxRecord
<1>8. tx' \in TxRecord
  BY <1>1, <1>6, <1>7 DEF TxRecord
<1>9. /\ tx'.wire = tx.data[t] /\ tx'.active = tx.active /\ tx'.data[t] = Null
      /\ \A u \in Thread : u # t => tx'.data[u] = tx.data[u]
  BY <1>1, <1>6, <1>7 DEF TxRecord
<1>10. pc'[t].at = "run" /\ \A u \in Thread : u # t => pc'[u] = pc[u]
  BY <1>1 DEF Goto
<1>11. \A u \in Thread : tx'.data[u] = Null /\ ~OnItsWay(u)' /\ pc'[u].at # "tx_start"
  BY <1>2, <1>9, <1>10 DEF OnItsWay
<1>12. WriterAccounted(DqHeld(dq))'
  <2>1. SUFFICES ASSUME NEW u \in Thread, Taking(u, DqPush)'
                 PROVE  item'[u] = tx'.data[u]
    BY <1>11 DEF WriterAccounted
  <2>2. u # t
    BY <1>10, <2>1 DEF Taking
  <2>3. Taking(u, DqPush)
    BY <1>10, <2>1, <2>2 DEF Taking
  <2> QED
    BY <1>1, <1>9, <2>2, <2>3 DEF WriterAccounted
<1>13. WireAccounted(DqHeld(dq))'
  BY <1>3, <1>4, <1>5, <1>9 DEF WireAccounted
<1> QED
  BY <1>1, <1>4, <1>8, <1>12, <1>13 DEF TxGood

\* What the steps of the data queue leave in it are items.
LEMMA HeldItems ==
    ASSUME DqGood(dq), DqMoves, "dq_wrap" \notin Ops, DqHeld(dq) \in Seq(Item)
    PROVE  DqHeld(dq)' \in Seq(Item)
<1>1. CASE dq' = dq
  BY <1>1
<1>2. ASSUME NEW m \in Item, ~DqFull, DqMayPush, DqPut(m)
      PROVE  DqHeld(dq)' \in Seq(Item)
  BY <1>2, DqPutHeld
<1>3. CASE ~DqEmpty /\ DqTake
  BY <1>3, DqTakeHeld
<1> QED
  BY <1>1, <1>2, <1>3 DEF DqMoves

\* What the driver is asked to do: one writer, in time, that makes no other call in
\* between, and a queue whose indexes do not wrap.
TxDisciplined == OneWriter /\ Ops \cap {"tx_late", "dq_wrap", "sleep"} = {}

LEMMA TxNextGood ==
    ASSUME TxDisciplined, SendersHold, DqGood(dq), TxGood, [Next]_vars
    PROVE  TxGood'
<1>1. /\ OneWriter /\ "tx_late" \notin Ops /\ "dq_wrap" \notin Ops /\ "sleep" \notin Ops
      /\ sys' = sys /\ sys \in Systems /\ DOMAIN pc = Thread
      /\ sys.producer \in SUBSET User /\ sys.consumer \in SUBSET User
  BY Parties, NextCases DEF TxDisciplined, SendersHold
<1>2. ASSUME tx' = tx, item' = item, DqHeld(dq)' = DqHeld(dq),
             \A t \in Thread : KeepsPlace(t)
      PROVE  TxGood'
  BY <1>1, <1>2, TxKept
<1>3. ASSUME "tx" \notin sys.has, tx' = tx, DqHeld(dq)' \in Seq(Item)
      PROVE  TxGood'
  BY <1>1, <1>3 DEF TxGood
<1>4. CASE IpcStep(Deletable) /\ Forget /\ UNCHANGED <<mail, mine, text, item, rb, serial>>
  <2>1. dq' = [dq EXCEPT !.last = Null] /\ item' = item /\ tx' = tx
    BY <1>4 DEF Forget, serial
  <2>2. DqHeld(dq)' = DqHeld(dq)
    <3>1. dq'.put = dq.put /\ dq'.get = dq.get /\ dq'.cell = dq.cell
      BY <2>1 DEF DqGood, DqRecord
    <3> QED
      BY <3>1 DEF DqHeld
  <2>3. CASE "tx" \in sys.has
    <3>1. "mailbox" \notin sys.has /\ "queue" \notin sys.has
      BY <1>1, <2>3 DEF OneWriter
    <3>2. Deletable = {}
      BY <3>1 DEF Deletable
    <3>3. \A t \in Thread : KeepsPlace(t)
      BY <1>1, <1>4, <3>2, IpcStepKeepsPlaces
    <3> QED
      BY <1>2, <2>1, <2>2, <3>3
  <2>4. CASE "tx" \notin sys.has
    BY <1>3, <2>1, <2>2, <2>4 DEF TxGood
  <2> QED
    BY <2>3, <2>4
<1>5. CASE /\ "mailbox" \in sys.has \/ "queue" \in sys.has
           /\ UNCHANGED <<dataqueue, serial>>
  <2>1. "tx" \notin sys.has
    BY <1>1, <1>5 DEF OneWriter
  <2>2. dq' = dq /\ tx' = tx
    BY <1>5 DEF dataqueue, serial
  <2> QED
    BY <1>3, <2>1, <2>2 DEF TxGood
<1>6. CASE /\ "dataqueue" \in sys.has /\ DqStep(sys.producer, sys.consumer)
           /\ UNCHANGED <<mailbox, queue, serial, ring>>
  <2>1. "tx" \notin sys.has /\ tx' = tx
    BY <1>1, <1>6 DEF OneWriter, serial
  <2>2. DqHeld(dq)' \in Seq(Item)
    BY <1>1, <1>6, DqStepMoves, HeldItems DEF TxGood
  <2> QED
    BY <1>3, <2>1, <2>2
<1>7. CASE UNCHANGED <<kernel, dataqueue, tx>>
  <2>1. pc' = pc /\ dq' = dq /\ item' = item /\ tx' = tx
    BY <1>7 DEF kernel, dataqueue
  <2> QED
    BY <1>2, <2>1, PcKept
<1>8. CASE "tx" \in sys.has /\ TxStep(sys.producer)
  <2>1. \A t \in sys.producer : t \in Thread
    BY <1>1 DEF User
  <2> QED
    BY <1>1, <1>8, <2>1, TxDmaDoneKeeps, TxPushKeeps, TxPushResumedKeeps, TxActivateKeeps,
       TxStartKeeps DEF TxStep
<1> QED
  BY <1>4, <1>5, <1>6, <1>7, <1>8, NextCases DEF serial

LEMMA TxInitGood ==
    ASSUME Init
    PROVE  TxGood
<1>1. /\ tx = [active |-> FALSE, wire |-> Null, data |-> [t \in Thread |-> Null]]
      /\ pc = [t \in Thread |-> [at |-> "run", arg |-> t]]
  BY DEF Init, SerInit, SystemInit
<1>2. tx \in TxRecord
  BY <1>1 DEF TxRecord
<1>3. DqHeld(dq) = << >>
  BY DqInitGood, DqHead
<1>4. \A t \in Thread : ~OnItsWay(t) /\ ~Taking(t, DqPush) /\ pc[t].at # "tx_start"
  BY <1>1 DEF OnItsWay, Taking
<1>5. WriterAccounted(DqHeld(dq))
  BY <1>1, <1>4 DEF WriterAccounted
<1>6. WireAccounted(DqHeld(dq))
  BY <1>1, <1>3 DEF WireAccounted
<1> QED
  BY <1>1, <1>2, <1>3, <1>5, <1>6 DEF TxGood

LEMMA RxNextGood ==
    ASSUME RxGood(rx, rxin), [Next]_vars, "rx_torn" \notin Ops
    PROVE  RxGood(rx', rxin')
<1>1. CASE RxStep(sys.consumer)
  BY <1>1, RxStepKeeps
<1>2. CASE rx' = rx /\ rxin' = rxin
  BY <1>2
<1> QED
  BY <1>1, <1>2, NextCases DEF serial

\* The serial driver loses, repeats and swaps nothing: a reader gets the newest bytes
\* reported by the handlers, in order, in interrupt and in DMA mode, for every size of
\* the FIFO and whatever bytes overflow it; and the DMA controller transmits the
\* buffers of the writer once and in order and does not stop while one is left.  The
\* readers come before the controller laps them, and the one writer looks at activated
\* before its own buffer has gone out.
THEOREM SerialDelivers ==
    ASSUME TxDisciplined, "rx_torn" \notin Ops
    PROVE  Spec => [](SerialExact /\ SerialServed)
<1> DEFINE Inv == SendersHold /\ DqGood(dq) /\ RxGood(rx, rxin) /\ TxGood
<1>1. "dq_wrap" \notin Ops
  BY DEF TxDisciplined
<1>2. Init => Inv
  BY SendersInit, DqInitGood, RxInitGood, TxInitGood DEF Init
<1>3. Inv /\ [Next]_vars => Inv'
  BY <1>1, SendersNext, DqNextStep, RxNextGood, TxNextGood
<1>4. ASSUME Inv
      PROVE  SerialExact /\ SerialServed
  <2>1. RxExact
    BY <1>4, RxGoodExact
  <2>2. /\ DqEmpty <=> DqHeld(dq) = << >>
        /\ ~DqEmpty => Head(DqHeld(dq)) = dq.cell[dq.get % DqSize]
    BY <1>4, DqHead DEF DqEmpty
  <2>3. CASE "tx" \in sys.has
    <3>1. WireAccounted(DqHeld(dq))
      BY <1>4, <2>3 DEF TxGood
    <3>2. TxInOrder
      BY <2>2, <3>1 DEF TxInOrder, WireAccounted
    <3>3. TxServed
      BY <2>2, <3>1 DEF TxServed, WireAccounted
    <3> QED
      BY <2>1, <3>2, <3>3 DEF SerialExact, SerialServed
  <2>4. CASE "tx" \notin sys.has
    BY <1>4, <2>1, <2>4 DEF TxGood, SerialExact, SerialServed, TxInOrder
  <2> QED
    BY <2>3, <2>4
<1> QED
  BY <1>2, <1>3, <1>4, PTL DEF Spec
=============================================================================
