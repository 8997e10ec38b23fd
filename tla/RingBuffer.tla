----------------------------- MODULE RingBuffer -----------------------------
(***************************************************************************)
(* The ring buffer of components/drivers/src/ringbuffer.c.  An index comes *)
(* with a mirror bit that is flipped each time the index goes round: equal *)
(* indexes mean empty in the same and full in different mirrors.  The ring *)
(* buffer does no locking; pipe.c calls it under a mutex, audio_pipe.c and *)
(* cdc_vcom.c with interrupts disabled, so that an operation is one step.  *)
(***************************************************************************)
EXTENDS Integers, Sequences

CONSTANTS
    RbSize,     \* buffer_size
    RbByte,     \* the bytes
    RbBlock,    \* bound on the length of a block
    RbNone,     \* what is left in a free cell is never read
    RbLap       \* whether put_force may lap a reader in the same mirror

ASSUME RingBufferAssumption ==
    /\ RbSize \in Nat \ {0} /\ RbBlock \in Nat \ {0}
    /\ RbNone \notin RbByte /\ RbLap \in BOOLEAN

VARIABLES
    rb,     \* rm and ri, wm and wi are read_ and write_mirror and _index
    rbout   \* history: the bytes the last get delivered, or a mark

ring == <<rb, rbout>>

\* The marks left by a reset and by the operations that may discard bytes.
Cleared == <<RbNone>>
Forced == <<RbNone, RbNone>>

Cells == 0 .. RbSize - 1
Blocks == UNION {[1 .. n -> RbByte] : n \in 1 .. RbBlock}

RbInit ==
    /\ rb = [rm |-> 0, ri |-> 0, wm |-> 0, wi |-> 0, cell |-> [i \in Cells |-> RbNone]]
    /\ rbout = << >>

-----------------------------------------------------------------------------

\* rt_ringbuffer_data_len with rt_ringbuffer_status
data_len ==
    IF rb.ri = rb.wi THEN IF rb.rm = rb.wm THEN 0 ELSE RbSize
    ELSE IF rb.wi > rb.ri THEN rb.wi - rb.ri ELSE RbSize - (rb.ri - rb.wi)

space_len == RbSize - data_len

Fitting(n, room) == IF n < room THEN n ELSE room

\* Whether n bytes from index i on reach the end of the buffer: the index then
\* goes on in the other mirror.
Rounds(i, n) == RbSize - i <= n
Advance(i, n) == IF Rounds(i, n) THEN n - (RbSize - i) ELSE i + n
Flip(mirror, rounds) == IF rounds THEN 1 - mirror ELSE mirror

\* The cell contents with the first n bytes of d copied in at index i.
CopyIn(d, n, i) ==
    [c \in Cells |-> LET j == ((c - i) % RbSize) + 1 IN IF j <= n THEN d[j] ELSE rb.cell[c]]

\* The n bytes at the read index, and the cells without them.
CopyOut(n) == [j \in 1 .. n |-> rb.cell[(rb.ri + j - 1) % RbSize]]
Without(n) == [c \in Cells |-> IF (c - rb.ri) % RbSize < n THEN RbNone ELSE rb.cell[c]]

\* rt_ringbuffer_put.  Without space it returns 0 and changes nothing.
RbPut(d) ==
    LET n == Fitting(Len(d), space_len) IN
    /\ space_len > 0
    /\ rb' = [rb EXCEPT !.cell = CopyIn(d, n, rb.wi), !.wi = Advance(@, n),
                        !.wm = Flip(@, Rounds(rb.wi, n))]
    /\ rbout' = << >>

\* rt_ringbuffer_put_force.  When the block is longer than the space, the read
\* index follows the write index, and its mirror flips with the other one, also
\* when both were in the same mirror.
RbPutForce(d) ==
    LET n == Fitting(Len(d), RbSize)
        e == SubSeq(d, Len(d) - n + 1, Len(d))
        over == n > space_len
    IN
    /\ RbLap \/ ~over \/ rb.rm # rb.wm
    /\ rb' = [rb EXCEPT !.cell = CopyIn(e, n, rb.wi), !.wi = Advance(@, n),
                        !.wm = Flip(@, Rounds(rb.wi, n)),
                        !.ri = IF over THEN Advance(rb.wi, n) ELSE @,
                        !.rm = Flip(@, over /\ Rounds(rb.wi, n))]
    /\ rbout' = Forced

\* Mutant: the mirror is not flipped.
RbGet_NoFlip(len) ==
    LET n == Fitting(len, data_len) IN
    /\ data_len > 0
    /\ rbout' = CopyOut(n)
    /\ rb' = [rb EXCEPT !.cell = Without(n), !.ri = Advance(@, n)]

\* rt_ringbuffer_get
RbGet(len) ==
    LET n == Fitting(len, data_len) IN
    /\ data_len > 0
    /\ rbout' = CopyOut(n)
    /\ rb' = [rb EXCEPT !.cell = Without(n), !.ri = Advance(@, n),
                        !.rm = Flip(@, Rounds(rb.ri, n))]

\* rt_ringbuffer_putchar, rt_ringbuffer_putchar_force and rt_ringbuffer_getchar
\* step an index by one and flip its mirror at the last cell.
AtEnd(i) == i = RbSize - 1
Step(i) == IF AtEnd(i) THEN 0 ELSE i + 1

RbPutChar(b) ==
    /\ space_len > 0
    /\ rb' = [rb EXCEPT !.cell[rb.wi] = b, !.wi = Step(@), !.wm = Flip(@, AtEnd(rb.wi))]
    /\ rbout' = << >>

RbPutCharForce(b) ==
    LET full == rb.ri = rb.wi /\ rb.rm # rb.wm IN
    /\ rb' = [rb EXCEPT !.cell[rb.wi] = b, !.wi = Step(@), !.wm = Flip(@, AtEnd(rb.wi)),
                        !.ri = IF full THEN Step(rb.wi) ELSE @,
                        !.rm = Flip(@, full /\ AtEnd(rb.wi))]
    /\ rbout' = Forced

RbGetChar ==
    /\ data_len > 0
    /\ rbout' = <<rb.cell[rb.ri]>>
    /\ rb' = [rb EXCEPT !.cell[rb.ri] = RbNone, !.ri = Step(@), !.rm = Flip(@, AtEnd(rb.ri))]

RbReset ==
    /\ rb' = [rm |-> 0, ri |-> 0, wm |-> 0, wi |-> 0, cell |-> [i \in Cells |-> RbNone]]
    /\ rbout' = Cleared

RbStep ==
    \/ \E d \in Blocks : RbPut(d) \/ RbPutForce(d)
    \/ \E n \in 1 .. RbSize : RbGet(n)
    \/ \E b \in RbByte : RbPutChar(b) \/ RbPutCharForce(b)
    \/ RbGetChar \/ RbReset

-----------------------------------------------------------------------------

RbStream == INSTANCE Stream
    WITH Byte <- RbByte, Cap <- RbSize, MaxBlock <- RbBlock, Cleared <- Cleared, Forced <- Forced,
         content <- CopyOut(data_len), out <- rbout

\* However blocks and characters are put in and taken out, and wherever they wrap
\* round, the ring buffer delivers the bytes in order, drops only what does not
\* fit and, when forced, only the oldest.
RingIsStream == RbStream!Spec
=============================================================================
