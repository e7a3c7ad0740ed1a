----------------------------- MODULE RingQueue -----------------------------
(***************************************************************************)
(* What the two lock-free rings promise: a bounded queue, first in first    *)
(* out, whose producer is told when it is full and whose consumer is told   *)
(* when it is empty. Nothing in it is lost, doubled or seen half written.   *)
(***************************************************************************)
EXTENDS Naturals, Sequences

CONSTANTS Items, NoItem, Bound

VARIABLES queued,   \* the items on the way
          last      \* what the consumer got last

QueueInit == queued = <<>> /\ last = NoItem

Put == /\ Len(queued) < Bound
       /\ \E item \in Items : queued' = Append(queued, item)
       /\ UNCHANGED last

Take == /\ queued # <<>>
        /\ last' = Head(queued)
        /\ queued' = Tail(queued)

\* reset of the WNFS channel, between two uses.
Drop == queued' = <<>> /\ UNCHANGED last

QueueSpec == QueueInit /\ [][Put \/ Take \/ Drop]_<<queued, last>>
=============================================================================
