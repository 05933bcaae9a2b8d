------------------------------- MODULE Mailbox -------------------------------
(***************************************************************************)
(* What a mailbox promises to whoever reads it with a cursor: messages are *)
(* kept in the order in which they were accepted and are never lost, and   *)
(* the reader gets them in that order, each of them once, a few at a time. *)
(***************************************************************************)
EXTENDS Integers, Sequences

CONSTANTS
    Messages,   \* what may be sent
    Capacity,   \* messages a mailbox holds
    Batch       \* messages a reader gets at once

VARIABLES
    sent,       \* the messages accepted
    taken       \* the messages the reader has got

Init == sent = <<>> /\ taken = <<>>

Accept ==
    /\ Len(sent) < Capacity
    /\ \E m \in Messages : sent' = Append(sent, m)
    /\ UNCHANGED taken

Take ==
    /\ \E n \in 1 .. Batch :
          /\ Len(taken) + n =< Len(sent)
          /\ taken' = SubSeq(sent, 1, Len(taken) + n)
    /\ UNCHANGED sent

Next == Accept \/ Take

Spec == Init /\ [][Next]_<<sent, taken>>
=============================================================================
