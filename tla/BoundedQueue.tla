---------------------------- MODULE BoundedQueue ----------------------------
(***************************************************************************)
(* What producer-consumer.h promises of the queue between the main thread  *)
(* and the session threads: a FIFO of at most Capacity requests, in which  *)
(* an enqueue takes place only when there is room and a dequeue only when  *)
(* there is a request.  Both ends are kept as logs: stored is every        *)
(* request put in the queue, taken every request got out of it, and the    *)
(* queue's content is the part of stored that taken has not reached.       *)
(***************************************************************************)
EXTENDS Naturals, Sequences

CONSTANTS Requests,  \* the requests that can be queued
          Capacity   \* the capacity given to pcq_create

VARIABLES stored, taken

vars == <<stored, taken>>

Occupancy == Len(stored) - Len(taken)

Init == stored = <<>> /\ taken = <<>>

Enqueue(r) ==
    /\ Occupancy < Capacity
    /\ stored' = Append(stored, r)
    /\ UNCHANGED taken

Dequeue ==
    /\ Len(taken) < Len(stored)
    /\ taken' = Append(taken, stored[Len(taken) + 1])
    /\ UNCHANGED stored

Next == Dequeue \/ \E r \in Requests : Enqueue(r)

Spec == Init /\ [][Next]_vars
=============================================================================
