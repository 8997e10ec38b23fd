------------------------------- MODULE Serial -------------------------------
(***************************************************************************)
(* The serial device of components/drivers/serial/serial.c between threads *)
(* and the interrupt handlers of the UART: the receive FIFO, filled byte   *)
(* by byte in interrupt mode or by the DMA controller, and transmission by *)
(* DMA, for which writers push their buffers into a data queue.  Polling   *)
(* and the interrupt mode of transmission (which waits on a completion),   *)
(* open and close are left out; rx_indicate and tx_complete are callbacks  *)
(* of the application.                                                     *)
(***************************************************************************)
EXTENDS DataQueue

CONSTANTS
    RxByte,     \* the bytes received
    Bufsz       \* serial->config.bufsz

ASSUME SerialAssumption == Bufsz \in Nat /\ Bufsz > 1 /\ Null \notin RxByte

VARIABLES
    rx,     \* put_index, get_index, is_full and buffer of the receive FIFO (in
            \* interrupt mode a byte read or discarded becomes Null), and the
            \* DMA controller: its position and how many bytes it has written
            \* since its last interrupt
    rxin,   \* history: the bytes reported and neither read nor discarded
    tx      \* activated, the buffer the DMA controller transmits, and the
            \* buffer a thread is writing

serial == <<rx, rxin, tx>>

RxCells == 0 .. Bufsz - 1

SerInit ==
    /\ rx \in [mode : {"int", "dma"}, put : {0}, get : {0}, full : {FALSE},
               cell : {[i \in RxCells |-> Null]}, pos : {0}, new : {0}]
    /\ rxin = << >>
    /\ tx = [active |-> FALSE, wire |-> Null, data |-> [t \in Thread |-> Null]]

-----------------------------------------------------------------------------
(* Receiving *)

Newest(s, n) == IF Len(s) > n THEN SubSeq(s, Len(s) - n + 1, Len(s)) ELSE s

\* RT_SERIAL_EVENT_RX_IND, for one byte.  When the FIFO would become full, the
\* oldest byte is discarded: it holds Bufsz - 1.
RxInd(b) ==
    LET put == (rx.put + 1) % Bufsz
        hit == put = rx.get
    IN
    /\ isr = "none" /\ rx.mode = "int"
    /\ rx' = [rx EXCEPT !.put = put, !.full = @ \/ hit,
                        !.get = IF hit THEN (@ + 1) % Bufsz ELSE @,
                        !.cell = IF hit THEN [@ EXCEPT ![rx.put] = b, ![rx.get] = Null]
                                 ELSE [@ EXCEPT ![rx.put] = b]]
    /\ rxin' = Newest(Append(rxin, b), Bufsz - 1)

\* Mutant: a read does not clear is_full.
RxReadByte_KeepFull(t) ==
    /\ Is(t, "run") /\ rx.mode = "int"
    /\ rx.get # rx.put \/ rx.full
    /\ rx' = [rx EXCEPT !.get = (@ + 1) % Bufsz, !.cell[rx.get] = Null]
    /\ rxin' = Tail(rxin)

\* One turn of the loop of _serial_int_rx
RxReadByte(t) ==
    /\ Is(t, "run") /\ rx.mode = "int"
    /\ rx.get # rx.put \/ rx.full
    /\ rx' = [rx EXCEPT !.get = (@ + 1) % Bufsz, !.full = FALSE, !.cell[rx.get] = Null]
    /\ rxin' = Tail(rxin)

\* _serial_fifo_calc_recved_len
RecvedLen ==
    IF rx.put = rx.get THEN IF rx.full THEN Bufsz ELSE 0
    ELSE IF rx.put > rx.get THEN rx.put - rx.get ELSE Bufsz - (rx.get - rx.put)

\* The DMA controller, which nothing stops, writes a byte into the FIFO.
DmaReceives(b) ==
    /\ rx.mode = "dma" /\ rx.new < Bufsz
    /\ rx' = [rx EXCEPT !.cell[rx.pos] = b, !.pos = (@ + 1) % Bufsz, !.new = @ + 1]
    /\ UNCHANGED rxin

\* rt_dma_recv_update_put_index: the bytes not yet read are overwritten when the
\* put index passes the get index, which then follows it.
UpdatePut(n) ==
    LET end == rx.put + n
        over == IF rx.get <= rx.put THEN end >= Bufsz /\ end % Bufsz >= rx.get ELSE end >= rx.get
    IN  [rx EXCEPT !.put = end % Bufsz, !.full = @ \/ over, !.new = 0,
                   !.get = IF rx.full \/ over THEN end % Bufsz ELSE @]

\* RT_SERIAL_EVENT_RX_DMADONE with the number of bytes received
RxDmaDone ==
    /\ isr = "none" /\ rx.mode = "dma" /\ rx.new > 0
    /\ rx' = UpdatePut(rx.new)
    /\ rxin' = Newest(rxin \o [j \in 1 .. rx.new |-> rx.cell[(rx.pos - rx.new + j - 1) % Bufsz]],
                      Bufsz)

\* The controller has overwritten bytes that were reported and not read.
Lapped == Len(rxin) + rx.new > Bufsz

\* A reader that comes when the controller has lapped it, before the interrupt,
\* copies new bytes for old ones: only in instances that ask for it.
MayRead == ~Lapped \/ "rx_torn" \in Ops

\* _serial_dma_rx with rt_dma_recv_update_get_index
RxRead(t, length) ==
    LET n == IF length < RecvedLen THEN length ELSE RecvedLen IN
    /\ Is(t, "run") /\ rx.mode = "dma" /\ n > 0
    /\ MayRead
    /\ rx' = [rx EXCEPT !.get = (@ + n) % Bufsz, !.full = FALSE]
    /\ rxin' = SubSeq(rxin, n + 1, Len(rxin))

-----------------------------------------------------------------------------
(* Transmitting: _serial_dma_tx *)

\* rt_data_queue_push, which waits for ever
TxPush(t, m) ==
    /\ tx.data[t] = Null
    /\ Push(t, m) \/ PushBlocks(t, m, -1)
    /\ tx' = [tx EXCEPT !.data[t] = m]

TxPushResumed(t) == (PushResumed(t) \/ PushAgain(t)) /\ UNCHANGED tx

\* If no transfer is active the writer claims the controller ...
TxActivate(t) ==
    /\ Is(t, "run") /\ tx.data[t] # Null
    /\ IF tx.active THEN tx' = [tx EXCEPT !.data[t] = Null] /\ UNCHANGED pc
       ELSE tx' = [tx EXCEPT !.active = TRUE] /\ Goto(t, "tx_start", t)
    /\ UNCHANGED <<k, isr, dead, fault, waiting, dataqueue>>

\* ... and, with interrupts enabled, starts it on its own buffer.
TxStart(t) ==
    /\ Is(t, "tx_start")
    /\ tx' = [tx EXCEPT !.wire = tx.data[t], !.data[t] = Null]
    /\ Goto(t, "run", t)
    /\ UNCHANGED <<k, isr, dead, fault, waiting, dataqueue>>

\* rt_data_queue_peak after the pop
TxNext == IF dq'.put = dq'.get THEN Null ELSE dq'.cell[dq'.get % DqSize]

\* Thread t has pushed its buffer and has yet to look at activated, or to start the
\* controller.
OnItsWay(t) == tx.data[t] # Null /\ pc[t].at \in {"run", "sched", "tx_start"}

\* A writer looks at activated before its own buffer has gone out, unless the
\* instance asks for the race: too late, it would transmit the buffer once more.
InTime == "tx_late" \in Ops \/ dq.put - dq.get > 1 \/ \A t \in Thread : ~OnItsWay(t)

\* RT_SERIAL_EVENT_TX_DMADONE: the buffer is popped and the next one transmitted.
TxDmaDone ==
    /\ isr = "none" /\ tx.wire # Null /\ InTime
    /\ IF DqEmpty THEN UNCHANGED <<kernel, waiting, dataqueue>> ELSE IsrPop
    /\ tx' = [tx EXCEPT !.wire = TxNext, !.active = TxNext # Null]

RxStep(consumer) ==
    \/ RxDmaDone \/ \E b \in RxByte : RxInd(b) \/ DmaReceives(b)
    \/ \E t \in consumer : RxReadByte(t) \/ \E n \in 1 .. Bufsz : RxRead(t, n)

TxStep(producer) ==
    \/ TxDmaDone
    \/ \E t \in producer :
        TxPushResumed(t) \/ TxActivate(t) \/ TxStart(t) \/ \E m \in Item : TxPush(t, m)

-----------------------------------------------------------------------------

\* What a reader that comes now gets is what was received: the newest bytes
\* reported, in order, none twice, whether the FIFO has wrapped, overflown or been
\* emptied.
RxExact == MayRead =>
    [j \in 1 .. RecvedLen |-> rx.cell[(rx.get + j - 1) % Bufsz]] = rxin

\* With one writer the controller transmits the buffer at the head of the queue,
\* which the interrupt at its end pops: each buffer goes out once and in order.
TxInOrder == tx.wire # Null => ~DqEmpty /\ tx.wire = dq.cell[dq.get % DqSize]

\* Transmission does not stall: with buffers in the queue, the controller is busy
\* or a writer that has pushed has yet to look whether it is.
TxServed ==
    ~DqEmpty => tx.wire # Null \/ \E t \in Thread : OnItsWay(t)
\* The serial driver neither loses, repeats nor swaps what passes through it: the
\* readers get the bytes reported by the handlers and the controller the buffers
\* of the writer.
SerialExact == RxExact /\ TxInOrder
=============================================================================
