------------------------------- MODULE Channel -------------------------------
(***************************************************************************)
(* What a mailbox, a message queue and a data queue promise their users: a *)
(* bounded first-in first-out channel.  Messages are not lost, duplicated  *)
(* or reordered, except that an urgent one overtakes all others and that a *)
(* reset empties the channel.                                              *)
(***************************************************************************)
EXTENDS Naturals, Sequences

CONSTANTS
    Msg,        \* the messages
    Cap,        \* how many the channel holds
    Silence,    \* no message
    Cleared,    \* tells a reset from a step that loses messages
    Urgent      \* whether messages may overtake

VARIABLES
    chan,   \* the messages that were sent and not yet received
    out     \* the message just delivered, or Cleared after a reset

Init == chan = << >> /\ out = Silence

Send(m) == Len(chan) < Cap /\ chan' = Append(chan, m) /\ out' = Silence
SendUrgent(m) == Urgent /\ Len(chan) < Cap /\ chan' = <<m>> \o chan /\ out' = Silence
Receive == chan # << >> /\ chan' = Tail(chan) /\ out' = Head(chan)
Clear == chan' = << >> /\ out' = Cleared

Forget == out' = Silence /\ UNCHANGED chan

Next == (\E m \in Msg : Send(m) \/ SendUrgent(m)) \/ Receive \/ Clear \/ Forget

Spec == Init /\ [][Next]_<<chan, out>>
=============================================================================
