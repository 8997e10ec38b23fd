------------------------------- MODULE Stream -------------------------------
(***************************************************************************)
(* What a ring buffer promises its users: a bounded stream of bytes.  A    *)
(* block is put in as far as there is room, or in full at the expense of   *)
(* the oldest bytes; bytes come out in the order in which they went in.    *)
(***************************************************************************)
EXTENDS Integers, Sequences

CONSTANTS
    Byte,       \* the bytes
    Cap,        \* how many the stream holds
    MaxBlock,   \* bound on the length of a block
    Cleared,    \* what is out after a reset, to tell it from a loss of bytes
    Forced      \* what is out after a put that may discard bytes

VARIABLES
    content,    \* the bytes put in and not yet taken out
    out         \* the bytes just taken out, or one of the two marks

Block == UNION {[1 .. n -> Byte] : n \in 1 .. MaxBlock}

Least(m, n) == IF m < n THEN m ELSE n
Newest(s, n) == SubSeq(s, Len(s) - Least(n, Len(s)) + 1, Len(s))

Init == content = << >> /\ out = << >>

Put(d) == content' = content \o SubSeq(d, 1, Least(Len(d), Cap - Len(content))) /\ out' = << >>
PutForce(d) == content' = Newest(content \o d, Cap) /\ out' = Forced
Get(n) ==
    /\ out' = SubSeq(content, 1, Least(n, Len(content)))
    /\ content' = SubSeq(content, Least(n, Len(content)) + 1, Len(content))
Clear == content' = << >> /\ out' = Cleared
Forget == out' = << >> /\ UNCHANGED content

\* A step that changes nothing need not be looked up among the operations.
Changes == content' # content \/ out' # out

Next ==
    /\ Changes
    /\ \/ \E d \in Block : Put(d) \/ PutForce(d)
       \/ \E n \in 1 .. Cap : Get(n)
       \/ Clear \/ Forget

Spec == Init /\ [][Next]_<<content, out>>
=============================================================================
