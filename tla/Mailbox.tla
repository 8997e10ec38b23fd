------------------------------- MODULE Mailbox -------------------------------
(***************************************************************************)
(* The mailbox of ipc.c: a ring of mails with one suspend list for the     *)
(* receivers (which also stands for the mailbox itself) and one for the    *)
(* senders of rt_mb_send_wait.  rt_mb_send is a send with time 0, which a  *)
(* handler may call too.  A send to a full, or a receive from an empty     *)
(* mailbox with time 0 returns an error and changes nothing.               *)
(***************************************************************************)
EXTENDS Waiting

CONSTANTS
    Mail,       \* the mails
    MbSize,     \* mb->size
    MbRx, MbTx  \* mb->parent.suspend_thread and mb->suspend_sender_thread

ASSUME MailboxAssumption ==
    /\ Null \notin Mail
    /\ MbSize \in Nat \ {0}
    /\ {MbRx, MbTx} \subseteq Obj => Second[MbRx] = MbTx /\ Second[MbTx] = MbTx

VARIABLES
    mb,     \* in_offset, out_offset, entry, msg_pool (what is left in a free
            \* place is never read: Null); and history: last is the mail that
            \* the last step on the mailbox delivered, "reset" after one
    mail    \* the argument value of the rt_mb_send_wait a thread is in

mailbox == <<mb, mail>>

MbInit ==
    /\ mb = [in |-> 0, out |-> 0, entry |-> 0, last |-> Null,
             pool |-> [i \in 0 .. MbSize - 1 |-> Null]]
    /\ mail = [t \in Thread |-> Null]

MbNext(i) == IF i + 1 >= MbSize THEN 0 ELSE i + 1

-----------------------------------------------------------------------------
(* rt_mb_send_wait *)

MbPut(m) ==
    mb' = [mb EXCEPT !.pool[mb.in] = m, !.in = MbNext(@), !.entry = @ + 1, !.last = Null]

\* Mutant: the mailbox is full one mail too late.
MbFull_Late == mb.entry > MbSize

MbFull == mb.entry = MbSize

MbSend(t, m) ==
    /\ CallsOn(t, "mb_send", MbRx) /\ ~MbFull
    /\ MbPut(m)
    /\ ResumeFirst(t, MbRx)
    /\ UNCHANGED <<isr, dead, fault, waiting, mail>>

MbSendBlocks(t, m, time) ==
    /\ CallsOn(t, "mb_send", MbRx) /\ MbFull /\ time # 0
    /\ WaitFirst(t, MbTx, SuspendSelfOn(k, MbTx, Flag[MbRx], time), time)
    /\ mail' = [mail EXCEPT ![t] = m]
    /\ UNCHANGED <<isr, dead, fault, mb>>

MbSendResumed(t) ==
    /\ Resumed(t, MbTx) /\ ~MbFull
    /\ MbPut(mail[t])
    /\ ResumeFirst(t, MbRx)
    /\ EndWait(t) /\ mail' = [mail EXCEPT ![t] = Null]
    /\ UNCHANGED <<isr, dead, fault>>

\* Another sender was faster: wait for the rest of the time, or give up.
MbSendAgain(t) ==
    /\ Resumed(t, MbTx) /\ MbFull /\ Remaining(t) # 0
    /\ WaitAgain(t, MbTx, SuspendSelfOn(k, MbTx, Flag[MbRx], Remaining(t)), Remaining(t))
    /\ UNCHANGED <<isr, dead, fault, mailbox>>

MbSendGivesUp(t) ==
    /\ WaitFails(t, MbTx) \/ (MbFull /\ TimeIsUp(t, MbTx))
    /\ mail' = [mail EXCEPT ![t] = Null]
    /\ UNCHANGED mb

\* rt_mb_send in an interrupt handler
MbIsrSend(m) ==
    /\ IsrCalls("mb_isr_send", MbRx) /\ ~MbFull
    /\ MbPut(m)
    /\ IsrResumeFirst(MbRx)
    /\ UNCHANGED <<isr, dead, fault, waiting, mail>>

-----------------------------------------------------------------------------
(* rt_mb_recv *)

MbEmpty == mb.entry = 0

MbTake ==
    mb' = [mb EXCEPT !.pool[mb.out] = Null, !.out = MbNext(@), !.entry = @ - 1,
                     !.last = mb.pool[mb.out]]

\* Mutant: no sender is resumed.
MbRecv_NoResume(t) ==
    /\ CallsOn(t, "mb_recv", MbRx) /\ ~MbEmpty
    /\ MbTake
    /\ UNCHANGED <<kernel, waiting, mail>>

MbRecv(t) ==
    /\ CallsOn(t, "mb_recv", MbRx) /\ ~MbEmpty
    /\ MbTake
    /\ ResumeFirst(t, MbTx)
    /\ UNCHANGED <<isr, dead, fault, waiting, mail>>

MbRecvBlocks(t, time) ==
    /\ CallsOn(t, "mb_recv", MbRx) /\ MbEmpty /\ time # 0
    /\ WaitFirst(t, MbRx, SuspendSelfOn(k, MbRx, Flag[MbRx], time), time)
    /\ UNCHANGED <<isr, dead, fault, mailbox>>

MbRecvResumed(t) ==
    /\ Resumed(t, MbRx) /\ ~MbEmpty
    /\ MbTake
    /\ ResumeFirst(t, MbTx)
    /\ EndWait(t)
    /\ UNCHANGED <<isr, dead, fault, mail>>

MbRecvAgain(t) ==
    /\ Resumed(t, MbRx) /\ MbEmpty /\ Remaining(t) # 0
    /\ WaitAgain(t, MbRx, SuspendSelfOn(k, MbRx, Flag[MbRx], Remaining(t)), Remaining(t))
    /\ UNCHANGED <<isr, dead, fault, mailbox>>

MbRecvGivesUp(t) ==
    /\ WaitFails(t, MbRx) \/ (MbEmpty /\ TimeIsUp(t, MbRx))
    /\ UNCHANGED mailbox

\* rt_mb_recv with time 0 in an interrupt handler
MbIsrRecv ==
    /\ IsrCalls("mb_isr_recv", MbRx) /\ ~MbEmpty
    /\ MbTake
    /\ IsrResumeFirst(MbTx)
    /\ UNCHANGED <<isr, dead, fault, waiting, mail>>

-----------------------------------------------------------------------------

\* rt_mb_control(RT_IPC_CMD_RESET)
MbReset(t) ==
    /\ CallsOn(t, "mb_reset", MbRx)
    /\ k' = ResumeAll(ResumeAll(k, MbRx), MbTx)
    /\ mb' = [mb EXCEPT !.pool = [i \in DOMAIN @ |-> Null],
                        !.in = 0, !.out = 0, !.entry = 0, !.last = "reset"]
    /\ Goto(t, "sched", t)
    /\ UNCHANGED <<isr, dead, fault, waiting, mail>>

\* The steps of the threads that send, of those that receive and of handlers.
MbStep(producer, consumer) ==
    \/ MbIsrRecv \/ \E m \in Mail : MbIsrSend(m)
    \/ \E t \in producer, m \in Mail :
        MbSend(t, m) \/ \E time \in TimesOf(t) : MbSendBlocks(t, m, time)
    \/ \E t \in producer : MbSendResumed(t) \/ MbSendAgain(t) \/ MbSendGivesUp(t)
    \/ \E t \in consumer :
        \/ MbRecv(t) \/ \E time \in TimesOf(t) : MbRecvBlocks(t, time)
        \/ MbRecvResumed(t) \/ MbRecvAgain(t) \/ MbRecvGivesUp(t)
    \/ \E t \in User : MbReset(t)

MbDeletable == {o \in {MbRx} : NoneWoken(o)}

-----------------------------------------------------------------------------

\* The mails in the ring, in the order in which they will be received.
MbContents == [i \in 1 .. mb.entry |-> mb.pool[(mb.out + i - 1) % MbSize]]

MbChannel == INSTANCE Channel
    WITH Msg <- Mail, Cap <- MbSize, Silence <- Null, Cleared <- "reset", Urgent <- FALSE,
         chan <- MbContents, out <- mb.last

\* The mailbox implements the channel: mails are delivered in the order they
\* were sent, none lost or twice, whatever waits, timeouts and resets there are.
MailboxIsChannel == MbChannel!Spec

\* No lost wake-up although a resumed thread has to look again: while receivers
\* wait, each mail in the ring has a resumed receiver on its way to it, and
\* while senders wait, each free place has a resumed sender.
MailboxServed ==
    /\ k.q[MbRx] # << >> => Cardinality(Woken(MbRx)) >= mb.entry
    /\ k.q[MbTx] # << >> => Cardinality(Woken(MbTx)) >= MbSize - mb.entry
=============================================================================
