------------------------------ MODULE AuditRing ------------------------------
(***************************************************************************)
(* The lock-free multi-producer, single-consumer ring buffer that hands    *)
(* audit records from the request handlers to the ledger's writer          *)
(* goroutine (internal/audit/ledger.go, RingBuffer).                       *)
(*                                                                         *)
(* Every atomic operation of TryPush and Pop is a step of its own, so the  *)
(* model has all interleavings of the producers' load, check, CAS, store   *)
(* and notify with the consumer's load, clear and advance.  A record is    *)
(* the pair of its producer and the number of that producer's call.        *)
(***************************************************************************)
EXTENDS Integers, Sequences, FiniteSets

CONSTANTS Producers,  \* goroutines that call Record
          Size,       \* RingBufferSize
          Modulus,    \* 2^64: the cursors are uint64
          MaxCalls,   \* bound: calls to TryPush that one producer makes
          NULL        \* the nil pointer in an empty slot

Record == Producers \X (1 .. MaxCalls)

ASSUME SizeAssumption == Size \in Nat \ {0}
ASSUME ModulusAssumption == Modulus \in Nat /\ Modulus > Size
ASSUME MaxCallsAssumption == MaxCalls \in Nat
ASSUME NullAssumption == NULL \notin Record

VARIABLES head,       \* next position to reserve
          tail,       \* next position to pop
          slots,      \* the ring itself
          notify,     \* whether the one-element notify channel is full
          pc,         \* where each producer is in TryPush
          seenHead,   \* the value of head that each producer loaded last
          calls,      \* how many calls each producer has begun
          cpc,        \* where the consumer is in Pop
          popped,     \* the record the consumer read from its slot
          claimed,    \* history: records in the order their CAS succeeded
          delivered   \* history: records in the order Pop returned them

producerVars == <<pc, seenHead, calls>>
consumerVars == <<cpc, popped>>
ringVars == <<head, tail, slots, notify, pc, seenHead, calls, cpc, popped,
              claimed, delivered>>

SlotIndex(pos) == pos % Size

\* The record that producer p is pushing, or pushed last.
RecordOf(p) == <<p, calls[p]>>

\* uint64 subtraction: below zero it wraps around.
UintSub(a, b) == IF a >= b THEN a - b ELSE a - b + Modulus

-----------------------------------------------------------------------------
RingInit ==
    /\ head = 0
    /\ tail = 0
    /\ slots = [k \in 0 .. Size - 1 |-> NULL]
    /\ notify = FALSE
    /\ pc = [p \in Producers |-> "idle"]
    /\ seenHead = [p \in Producers |-> 0]
    /\ calls = [p \in Producers |-> 0]
    /\ cpc = "idle"
    /\ popped = NULL
    /\ claimed = <<>>
    /\ delivered = <<>>

(***************************************************************************)
(* TryPush                                                                 *)
(***************************************************************************)
BeginPush(p) ==
    /\ pc[p] = "idle"
    /\ calls[p] < MaxCalls
    /\ calls' = [calls EXCEPT ![p] = @ + 1]
    /\ pc' = [pc EXCEPT ![p] = "loadHead"]
    /\ UNCHANGED <<head, tail, slots, notify, seenHead, consumerVars,
                   claimed, delivered>>

LoadHead(p) ==
    /\ pc[p] = "loadHead"
    /\ seenHead' = [seenHead EXCEPT ![p] = head]
    /\ pc' = [pc EXCEPT ![p] = "loadTail"]
    /\ UNCHANGED <<head, tail, slots, notify, calls, consumerVars,
                   claimed, delivered>>

\* Mutant of Saturated: one entry too many is let in.
SaturatedLate(h, t) == UintSub(h, t) > Size

Saturated(h, t) == UintSub(h, t) >= Size

\* TryPush returns false: the record is dropped.
Reject(p) ==
    /\ pc[p] = "loadTail"
    /\ Saturated(seenHead[p], tail)
    /\ pc' = [pc EXCEPT ![p] = "idle"]
    /\ UNCHANGED <<head, tail, slots, notify, seenHead, calls, consumerVars,
                   claimed, delivered>>

LoadTail(p) ==
    /\ pc[p] = "loadTail"
    /\ ~ Saturated(seenHead[p], tail)
    /\ pc' = [pc EXCEPT ![p] = "cas"]
    /\ UNCHANGED <<head, tail, slots, notify, seenHead, calls, consumerVars,
                   claimed, delivered>>

\* Mutant of CasSucceeds: the cursor is stored without being compared.
CasUnconditional(p) == TRUE

CasSucceeds(p) == head = seenHead[p]

\* The CAS reserves position seenHead[p] for p.
Claim(p) ==
    /\ pc[p] = "cas"
    /\ CasSucceeds(p)
    /\ head' = seenHead[p] + 1
    /\ claimed' = Append(claimed, RecordOf(p))
    /\ pc' = [pc EXCEPT ![p] = "store"]
    /\ UNCHANGED <<tail, slots, notify, seenHead, calls, consumerVars,
                   delivered>>

Retry(p) ==
    /\ pc[p] = "cas"
    /\ ~ CasSucceeds(p)
    /\ pc' = [pc EXCEPT ![p] = "loadHead"]
    /\ UNCHANGED <<head, tail, slots, notify, seenHead, calls, consumerVars,
                   claimed, delivered>>

\* Mutant of Store: the reserved slot is never filled.
StoreForgotten(p) ==
    /\ pc[p] = "store"
    /\ pc' = [pc EXCEPT ![p] = "notify"]
    /\ UNCHANGED <<head, tail, slots, notify, seenHead, calls, consumerVars,
                   claimed, delivered>>

Store(p) ==
    /\ pc[p] = "store"
    /\ slots' = [slots EXCEPT ![SlotIndex(seenHead[p])] = RecordOf(p)]
    /\ pc' = [pc EXCEPT ![p] = "notify"]
    /\ UNCHANGED <<head, tail, notify, seenHead, calls, consumerVars,
                   claimed, delivered>>

\* A send that does not block: a full channel is left as it is.
Notify(p) ==
    /\ pc[p] = "notify"
    /\ notify' = TRUE
    /\ pc' = [pc EXCEPT ![p] = "idle"]
    /\ UNCHANGED <<head, tail, slots, seenHead, calls, consumerVars,
                   claimed, delivered>>

(***************************************************************************)
(* Pop.  Only the consumer writes tail, so its own load of tail is exact.  *)
(***************************************************************************)
\* Pop returns nil at once: nothing is reserved.
PopEmpty == cpc = "idle" /\ tail >= head

PopBegin ==
    /\ cpc = "idle"
    /\ tail < head
    /\ cpc' = "scan"
    /\ UNCHANGED <<head, tail, slots, notify, producerVars, popped,
                   claimed, delivered>>

\* The slot stayed nil for as long as the consumer was ready to spin: Pop
\* returns nil although the position is reserved.
PopGiveUp ==
    /\ cpc = "scan"
    /\ slots[SlotIndex(tail)] = NULL
    /\ cpc' = "idle"
    /\ UNCHANGED <<head, tail, slots, notify, producerVars, popped,
                   claimed, delivered>>

\* Mutant of SlotReady: the consumer does not test the pointer it loaded.
SlotUnchecked == TRUE

SlotReady == slots[SlotIndex(tail)] # NULL

PopRead ==
    /\ cpc = "scan"
    /\ SlotReady
    /\ popped' = slots[SlotIndex(tail)]
    /\ cpc' = "clear"
    /\ UNCHANGED <<head, tail, slots, notify, producerVars,
                   claimed, delivered>>

PopClear ==
    /\ cpc = "clear"
    /\ slots' = [slots EXCEPT ![SlotIndex(tail)] = NULL]
    /\ cpc' = "advance"
    /\ UNCHANGED <<head, tail, notify, producerVars, popped,
                   claimed, delivered>>

PopAdvance ==
    /\ cpc = "advance"
    /\ tail' = tail + 1
    /\ delivered' = Append(delivered, popped)
    /\ cpc' = "idle"
    /\ UNCHANGED <<head, slots, notify, producerVars, popped, claimed>>

\* The writer goroutine receives from the notify channel between two pops.
RecvNotify ==
    /\ cpc = "idle"
    /\ notify
    /\ notify' = FALSE
    /\ UNCHANGED <<head, tail, slots, producerVars, consumerVars,
                   claimed, delivered>>

-----------------------------------------------------------------------------
PushStep(p) ==
    \/ LoadHead(p) \/ Reject(p) \/ LoadTail(p)
    \/ Claim(p) \/ Retry(p) \/ Store(p) \/ Notify(p)

PopStep == PopBegin \/ PopGiveUp \/ PopRead \/ PopClear \/ PopAdvance

RingNext ==
    \/ \E p \in Producers : BeginPush(p) \/ PushStep(p)
    \/ PopStep
    \/ RecvNotify

RingSpec == RingInit /\ [][RingNext]_ringVars

\* The Go scheduler runs every runnable goroutine: a producer inside TryPush
\* and the consumer keep taking steps.  Nobody is obliged to begin a call.
RingFairness ==
    /\ \A p \in Producers : WF_ringVars(PushStep(p))
    /\ WF_ringVars(PopStep)

RingFairSpec == RingSpec /\ RingFairness

-----------------------------------------------------------------------------
(***************************************************************************)
(* Type invariant: every variable of the ring, of TryPush's callers and of *)
(* Pop keeps its type; in particular Pop never returns nil as a record.    *)
(***************************************************************************)
RingTypeOK ==
    /\ head \in Nat
    /\ tail \in Nat
    /\ slots \in [0 .. Size - 1 -> Record \cup {NULL}]
    /\ notify \in BOOLEAN
    /\ pc \in [Producers -> {"idle", "loadHead", "loadTail", "cas", "store",
                             "notify"}]
    /\ seenHead \in [Producers -> Nat]
    /\ calls \in [Producers -> 0 .. MaxCalls]
    /\ cpc \in {"idle", "scan", "clear", "advance"}
    /\ popped \in Record \cup {NULL}
    /\ claimed \in Seq(Record)
    /\ delivered \in Seq(Record)

\* The cursors bound the two histories and each other.
CursorsAgree ==
    /\ Len(claimed) = head
    /\ Len(delivered) = tail
    /\ tail <= head
    /\ head - tail <= Size
    /\ cpc # "idle" => tail < head

\* Producer p has reserved position i and not yet stored its record there.
Reserves(p, i) == pc[p] = "store" /\ seenHead[p] = i

\* The consumer has cleared the slot of position i and not yet moved tail.
Clearing(i) == cpc = "advance" /\ i = tail

\* What the slot of a live position (reserved and not yet popped) holds.
LivePosition(i) ==
    IF Clearing(i)
    THEN /\ slots[SlotIndex(i)] = NULL
         /\ \A p \in Producers : ~ Reserves(p, i)
    ELSE \/ slots[SlotIndex(i)] = claimed[i + 1]
         \/ slots[SlotIndex(i)] = NULL /\ \E p \in Producers : Reserves(p, i)

\* What a producer between its load of head and its store may rely on.
ProducerView(p) ==
    /\ pc[p] \in {"loadTail", "cas"} => seenHead[p] <= head
    /\ pc[p] = "cas" /\ seenHead[p] = head => head - tail < Size
    /\ pc[p] = "store" =>
          /\ seenHead[p] \in tail .. head - 1
          /\ claimed[seenHead[p] + 1] = RecordOf(p)
          /\ slots[SlotIndex(seenHead[p])] = NULL
    /\ pc[p] # "idle" => calls[p] > 0

(***************************************************************************)
(* Slot ownership: no producer ever overwrites a record that has not been  *)
(* popped and the consumer never reads a record that is not the next one.  *)
(* Each live position's slot holds exactly the record that reserved it, or *)
(* is empty and reserved by one producer that is about to store there;     *)
(* every other slot is empty; what the consumer has read is the next       *)
(* record of the claim order.  This is the inductive invariant of TryPush  *)
(* and Pop.                                                                *)
(***************************************************************************)
SlotOwnership ==
    /\ CursorsAgree
    /\ \A p \in Producers : ProducerView(p)
    /\ \A i \in tail .. head - 1 : LivePosition(i)
    /\ \A i \in head .. tail + Size - 1 : slots[SlotIndex(i)] = NULL
    /\ cpc \in {"clear", "advance"} => popped = claimed[tail + 1]
    /\ cpc = "clear" => slots[SlotIndex(tail)] # NULL

(***************************************************************************)
(* The ring implements a bounded FIFO queue: records are popped once each, *)
(* in the order of the CAS that reserved their position, none is lost, and *)
(* at most Size are queued.                                                *)
(***************************************************************************)
Fifo == INSTANCE BoundedFifo WITH Entry <- Record, Capacity <- Size,
                                  accepted <- claimed, handed <- delivered

RingIsFifo == Fifo!FifoSpec

(***************************************************************************)
(* Every record whose position was reserved is eventually popped, however  *)
(* the producers' stores and the consumer's retries interleave.            *)
(***************************************************************************)
EveryClaimIsDelivered ==
    \A n \in 1 .. Cardinality(Producers) * MaxCalls :
        (Len(claimed) >= n) ~> (Len(delivered) >= n)

(***************************************************************************)
(* TryPush "Returns false immediately if the buffer is saturated": it      *)
(* refuses a record only at a moment when Size records are queued.         *)
(***************************************************************************)
RejectsOnlyWhenSaturated ==
    [][\A p \in Producers :
           pc[p] = "loadTail" /\ pc'[p] = "idle" => head - tail >= Size]_ringVars
==============================================================================
