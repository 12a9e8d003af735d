---------------------------- MODULE MessageQueue ----------------------------
(***************************************************************************)
(* What one direction of a pipe promises to the two scripts that share it: *)
(* messages are accepted one at a time, handed out in batches of all that  *)
(* is pending, in order and once each, until the queue is closed.          *)
(* VmThreads implements it twice, for reports and for notes.               *)
(***************************************************************************)
EXTENDS Integers, Sequences

VARIABLES
    pending,    \* the numbers of the messages not yet handed out
    accepted,   \* how many were accepted
    handed,     \* how many were handed out
    open        \* FALSE once the pipe has been deleted

Init == pending = <<>> /\ accepted = 0 /\ handed = 0 /\ open = TRUE

\* report() or notify() returns 1.
Accept ==
    /\ open
    /\ accepted' = accepted + 1
    /\ pending' = Append(pending, accepted + 1)
    /\ UNCHANGED <<handed, open>>

\* wait(), listen() or waitfor() returns an array; the call may also be the one
\* that deletes the pipe of a child that has ended.
HandOut ==
    /\ open /\ pending # <<>>
    /\ handed' = accepted
    /\ pending' = <<>>
    /\ open' \in BOOLEAN
    /\ UNCHANGED accepted

\* The pipe is deleted with what is pending in it.
Close == open /\ open' = FALSE /\ UNCHANGED <<pending, accepted, handed>>

Next == Accept \/ HandOut \/ Close

Spec == Init /\ [][Next]_<<pending, accepted, handed, open>>
=============================================================================
