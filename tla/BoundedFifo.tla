----------------------------- MODULE BoundedFifo -----------------------------
(***************************************************************************)
(* What the audit ring buffer promises to the ledger: a bounded FIFO       *)
(* queue.  The queue is kept as the log of everything ever accepted        *)
(* together with the log of everything handed to the consumer, so that     *)
(* loss, duplication and reordering are all visible in the state.          *)
(***************************************************************************)
EXTENDS Integers, Sequences

CONSTANTS Entry,     \* the values that can be queued
          Capacity   \* how many accepted entries may await the consumer

VARIABLES accepted,  \* every entry ever accepted, oldest first
          handed     \* every entry the consumer has taken, oldest first

fifoVars == <<accepted, handed>>

FifoInit ==
    /\ accepted = <<>>
    /\ handed = <<>>

\* An entry is accepted only while there is room for it.
Enqueue(e) ==
    /\ Len(accepted) - Len(handed) < Capacity
    /\ accepted' = Append(accepted, e)
    /\ UNCHANGED handed

\* The consumer takes the oldest entry it has not taken yet.
Dequeue ==
    /\ Len(handed) < Len(accepted)
    /\ handed' = Append(handed, accepted[Len(handed) + 1])
    /\ UNCHANGED accepted

FifoNext == Dequeue \/ \E e \in Entry : Enqueue(e)

FifoSpec == FifoInit /\ [][FifoNext]_fifoVars
==============================================================================
