-------------------------- MODULE AuditRing_proofs ---------------------------
(***************************************************************************)
(* Proofs about the audit ring buffer, for every set of producers, every   *)
(* ring size and every number of calls: type correctness, slot ownership   *)
(* (the inductive invariant) and the refinement of the bounded FIFO queue. *)
(***************************************************************************)
EXTENDS AuditRing, TLAPS

\* Integer division with remainder, as the slot index uses it.
LEMMA DivMod ==
    ASSUME NEW N \in Nat \ {0}, NEW i \in Nat
    PROVE  /\ i = N * (i \div N) + (i % N)
           /\ i \div N \in Nat
           /\ i % N \in 0 .. N - 1
  BY SMTT(20)

\* Two positions closer than a full turn of the ring use different slots.
LEMMA ModDistinct ==
    ASSUME NEW N \in Nat \ {0}, NEW i \in Nat, NEW j \in Nat,
           i < j, j - i < N
    PROVE  i % N # j % N
<1>1. /\ i = N * (i \div N) + (i % N) /\ i \div N \in Nat
      /\ j = N * (j \div N) + (j % N) /\ j \div N \in Nat
  BY DivMod
<1>2. SUFFICES ASSUME i % N = j % N PROVE FALSE
  OBVIOUS
<1>3. PICK q \in Int : q = (j \div N) - (i \div N)
  BY <1>1
<1>4. N * q = j - i
  BY <1>1, <1>2, <1>3
<1>5. CASE q <= 0
  BY <1>5, <1>4
<1>6. CASE q >= 1
  BY <1>6, <1>4
<1> QED
  BY <1>5, <1>6

\* A full turn of the ring leads back to the same slot.
LEMMA ModShift ==
    ASSUME NEW N \in Nat \ {0}, NEW i \in Nat
    PROVE  (i + N) % N = i % N
<1> DEFINE a == i % N
           b == (i + N) % N
<1>1. PICK c \in Nat : i = N * c + a
  BY DivMod
<1>2. PICK d \in Nat : i + N = N * d + b
  <2>1. i + N \in Nat
    OBVIOUS
  <2> QED
    BY <2>1, DivMod
<1>3. a \in 0 .. N - 1 /\ b \in 0 .. N - 1
  BY DivMod
<1>4. PICK q \in Int : q = c + 1 - d
  OBVIOUS
<1>5. N * q = b - a
  BY <1>1, <1>2, <1>3, <1>4
<1>6. CASE q = 0
  BY <1>6, <1>5, <1>3
<1>7. CASE q >= 1
  <2>1. N * q >= N
    BY <1>7
  <2> QED
    BY <2>1, <1>5, <1>3
<1>8. CASE q <= -1
  <2>1. N * q <= -N
    BY <1>8
  <2> QED
    BY <2>1, <1>5, <1>3
<1> QED
  BY <1>4, <1>6, <1>7, <1>8

\* A position's slot is a slot of the ring.
LEMMA SlotIndexType ==
    ASSUME NEW i \in Nat PROVE SlotIndex(i) \in 0 .. Size - 1
  BY SizeAssumption, DivMod DEF SlotIndex

\* Positions within one turn of the ring from tail never share a slot.
LEMMA SlotIndexDistinct ==
    ASSUME NEW i \in Nat, NEW j \in Nat, NEW t \in Nat,
           i \in t .. t + Size - 1, j \in t .. t + Size - 1, i # j
    PROVE  SlotIndex(i) # SlotIndex(j)
<1>1. i - j < Size /\ j - i < Size
  BY SizeAssumption
<1>2. CASE i < j
  <2>1. i % Size # j % Size
    BY <1>1, <1>2, SizeAssumption, ModDistinct
  <2> QED
    BY <2>1 DEF SlotIndex
<1>3. CASE j < i
  <2>1. j % Size # i % Size
    BY <1>1, <1>3, SizeAssumption, ModDistinct
  <2> QED
    BY <2>1 DEF SlotIndex
<1> QED
  BY <1>2, <1>3

RingInv == RingTypeOK /\ SlotOwnership

\* The empty ring satisfies the invariant.
LEMMA InitEstablishesInv == RingInit => RingInv
<1> SUFFICES ASSUME RingInit PROVE RingInv
  OBVIOUS
<1>1. RingTypeOK
  BY SizeAssumption, MaxCallsAssumption DEF RingInit, RingTypeOK
<1>2. SlotOwnership
  <2>1. \A i \in head .. tail + Size - 1 : slots[SlotIndex(i)] = NULL
    BY SizeAssumption, SlotIndexType DEF RingInit
  <2> QED
    BY <2>1, SizeAssumption
       DEF RingInit, SlotOwnership, CursorsAgree, ProducerView
<1> QED
  BY <1>1, <1>2 DEF RingInv

-----------------------------------------------------------------------------
(***************************************************************************)
(* Steps of a producer that only move its program counter or reload head.  *)
(***************************************************************************)
LEMMA LocalPushSteps ==
    ASSUME RingInv, NEW p \in Producers,
           \/ BeginPush(p) \/ LoadHead(p) \/ Reject(p) \/ LoadTail(p)
           \/ Retry(p) \/ Notify(p)
    PROVE  RingInv'
<1> USE DEF RingInv
<1>1. /\ UNCHANGED <<head, tail, slots, cpc, popped, claimed, delivered>>
      /\ \A q \in Producers : q # p =>
            pc'[q] = pc[q] /\ seenHead'[q] = seenHead[q] /\ calls'[q] = calls[q]
      /\ pc[p] # "store" /\ pc'[p] # "store"
  BY DEF BeginPush, LoadHead, Reject, LoadTail, Retry, Notify, consumerVars,
         RingTypeOK
<1>2. RingTypeOK'
  <2>1. CASE BeginPush(p)
    <3>1. calls[p] + 1 \in 0 .. MaxCalls
      BY <2>1, MaxCallsAssumption DEF BeginPush, RingTypeOK
    <3> QED
      BY <2>1, <3>1 DEF BeginPush, consumerVars, RingTypeOK
  <2>2. CASE LoadHead(p)
    BY <2>2 DEF LoadHead, consumerVars, RingTypeOK
  <2>3. CASE Reject(p) \/ LoadTail(p) \/ Retry(p)
    BY <2>3 DEF Reject, LoadTail, Retry, consumerVars, RingTypeOK
  <2>4. CASE Notify(p)
    BY <2>4 DEF Notify, consumerVars, RingTypeOK
  <2> QED
    BY <2>1, <2>2, <2>3, <2>4
<1>3. ProducerView(p)'
  <2>1. CASE BeginPush(p) \/ Reject(p) \/ Retry(p) \/ Notify(p)
    BY <2>1 DEF BeginPush, Reject, Retry, Notify, consumerVars,
                RingTypeOK, SlotOwnership, ProducerView
  <2>2. CASE LoadHead(p)
    BY <2>2 DEF LoadHead, consumerVars, RingTypeOK, SlotOwnership,
                ProducerView
  <2>3. CASE LoadTail(p)
    BY <2>3, SizeAssumption, ModulusAssumption
       DEF LoadTail, Saturated, UintSub, consumerVars, RingTypeOK,
           SlotOwnership, CursorsAgree, ProducerView
  <2> QED
    BY <2>1, <2>2, <2>3
<1>4. \A q \in Producers : ProducerView(q)'
  BY <1>1, <1>3 DEF SlotOwnership, ProducerView, RecordOf
<1>5. ASSUME NEW i \in tail .. head - 1 PROVE LivePosition(i)'
  <2>1. \A q \in Producers : Reserves(q, i)' <=> Reserves(q, i)
    BY <1>1 DEF Reserves
  <2> QED
    BY <2>1, <1>1 DEF SlotOwnership, LivePosition, Clearing
<1> QED
  BY <1>1, <1>2, <1>4, <1>5 DEF SlotOwnership, CursorsAgree

\* A producer inside TryPush holds a record.
LEMMA RecordOfType ==
    ASSUME RingInv, NEW p \in Producers, pc[p] # "idle"
    PROVE  RecordOf(p) \in Record
<1>1. calls[p] \in 0 .. MaxCalls /\ calls[p] > 0
  BY DEF RingInv, RingTypeOK, SlotOwnership, ProducerView
<1> QED
  BY <1>1, MaxCallsAssumption DEF RecordOf, Record

\* The CAS: the reserved slot is empty and nobody else's.
LEMMA ClaimStep ==
    ASSUME RingInv, NEW p \in Producers, Claim(p)
    PROVE  RingInv'
<1> USE DEF RingInv
<1>1. /\ seenHead[p] = head /\ head' = head + 1 /\ pc[p] = "cas"
      /\ pc' = [pc EXCEPT ![p] = "store"]
      /\ claimed' = Append(claimed, RecordOf(p))
      /\ UNCHANGED <<tail, slots, notify, seenHead, calls, cpc, popped,
                     delivered>>
  BY DEF Claim, CasSucceeds, consumerVars
<1>2. head - tail < Size /\ head \in Nat /\ tail \in Nat /\ tail <= head
  BY <1>1 DEF RingTypeOK, SlotOwnership, CursorsAgree, ProducerView
<1>3. RecordOf(p) \in Record
  BY <1>1, RecordOfType
<1>4. RingTypeOK'
  BY <1>1, <1>2, <1>3 DEF RingTypeOK
<1>5. /\ Len(claimed') = head + 1
      /\ claimed'[head + 1] = RecordOf(p)
      /\ \A i \in 1 .. head : claimed'[i] = claimed[i]
  BY <1>1, <1>3 DEF RingTypeOK, SlotOwnership, CursorsAgree
<1>6. CursorsAgree'
  BY <1>1, <1>2, <1>5, SizeAssumption DEF SlotOwnership, CursorsAgree
<1>7. slots[SlotIndex(head)] = NULL
  <2>1. head \in head .. tail + Size - 1
    BY <1>2, SizeAssumption
  <2> QED
    BY <2>1 DEF SlotOwnership
<1>8. ASSUME NEW q \in Producers PROVE ProducerView(q)'
  <2>1. CASE q = p
    BY <2>1, <1>1, <1>2, <1>5, <1>7
       DEF RingTypeOK, SlotOwnership, ProducerView, RecordOf
  <2>2. CASE q # p
    BY <2>2, <1>1, <1>2, <1>5
       DEF RingTypeOK, SlotOwnership, ProducerView, RecordOf
  <2> QED
    BY <2>1, <2>2
<1>9. ASSUME NEW i \in tail .. head PROVE LivePosition(i)'
  <2>1. CASE i = head
    <3>1. Reserves(p, i)'
      BY <2>1, <1>1 DEF RingTypeOK, Reserves
    <3>2. ~ Clearing(i)'
      BY <2>1, <1>1, <1>2 DEF SlotOwnership, CursorsAgree, Clearing
    <3> QED
      BY <3>1, <3>2, <2>1, <1>1, <1>7 DEF LivePosition
  <2>2. CASE i \in tail .. head - 1
    <3>1. \A q \in Producers : Reserves(q, i)' <=> Reserves(q, i)
      BY <2>2, <1>1 DEF RingTypeOK, Reserves
    <3>2. claimed'[i + 1] = claimed[i + 1]
      BY <2>2, <1>2, <1>5
    <3> QED
      BY <3>1, <3>2, <2>2, <1>1 DEF SlotOwnership, LivePosition, Clearing
  <2> QED
    BY <2>1, <2>2, <1>2
<1>10. \A i \in head' .. tail' + Size - 1 : slots'[SlotIndex(i)] = NULL
  BY <1>1, <1>2 DEF SlotOwnership
<1>11. cpc \in {"clear", "advance"} => popped = claimed'[tail + 1]
  BY <1>2, <1>5 DEF SlotOwnership, CursorsAgree
<1>12. \A i \in tail' .. head' - 1 : LivePosition(i)'
  BY <1>1, <1>2, <1>9
<1>13. cpc = "clear" => slots[SlotIndex(tail)] # NULL
  BY DEF SlotOwnership
<1> QED
  BY <1>1, <1>4, <1>6, <1>8, <1>10, <1>11, <1>12, <1>13 DEF SlotOwnership

\* The store fills the producer's own slot and no other.
LEMMA StoreStep ==
    ASSUME RingInv, NEW p \in Producers, Store(p)
    PROVE  RingInv'
<1> USE DEF RingInv
<1> DEFINE h == seenHead[p]
<1>1. /\ pc[p] = "store" /\ pc' = [pc EXCEPT ![p] = "notify"]
      /\ slots' = [slots EXCEPT ![SlotIndex(h)] = RecordOf(p)]
      /\ UNCHANGED <<head, tail, notify, seenHead, calls, cpc, popped,
                     claimed, delivered>>
  BY DEF Store, consumerVars
<1>2. /\ h \in tail .. head - 1 /\ claimed[h + 1] = RecordOf(p)
      /\ slots[SlotIndex(h)] = NULL
      /\ head \in Nat /\ tail \in Nat /\ head - tail <= Size
  BY <1>1 DEF RingTypeOK, SlotOwnership, CursorsAgree, ProducerView
<1>3. RecordOf(p) \in Record /\ RecordOf(p) # NULL
  <2>1. RecordOf(p) \in Record
    BY <1>1, RecordOfType
  <2> QED
    BY <2>1, NullAssumption
<1>4. SlotIndex(h) \in 0 .. Size - 1
  BY <1>2, SlotIndexType
<1>5. RingTypeOK'
  BY <1>1, <1>3, <1>4 DEF RingTypeOK
<1>6. ASSUME NEW i \in tail .. tail + Size - 1, i # h
      PROVE  slots'[SlotIndex(i)] = slots[SlotIndex(i)]
  <2>1. SlotIndex(i) # SlotIndex(h)
    BY <1>2, <1>6, SizeAssumption, SlotIndexDistinct
  <2> QED
    BY <2>1, <1>1, <1>2, SlotIndexType DEF RingTypeOK
<1>7. slots'[SlotIndex(h)] = claimed[h + 1]
  BY <1>1, <1>2, <1>4 DEF RingTypeOK
<1>8. ~ Clearing(h)
  BY <1>1, <1>2 DEF SlotOwnership, LivePosition, Clearing, Reserves
<1>9. ASSUME NEW q \in Producers PROVE ProducerView(q)'
  <2>1. CASE q = p
    BY <2>1, <1>1 DEF RingTypeOK, SlotOwnership, ProducerView
  <2>2. CASE q # p
    <3>1. pc[q] = "store" => seenHead[q] # h
      BY <2>2, <1>2 DEF SlotOwnership, ProducerView, RecordOf
    <3>2. ASSUME pc[q] = "store" PROVE slots'[SlotIndex(seenHead[q])] = NULL
      <4>1. /\ seenHead[q] \in tail .. head - 1
            /\ slots[SlotIndex(seenHead[q])] = NULL
        BY <3>2 DEF SlotOwnership, ProducerView
      <4>2. seenHead[q] \in tail .. tail + Size - 1
        BY <4>1, <1>2, SizeAssumption
      <4> QED
        BY <4>1, <4>2, <3>1, <3>2, <1>6
    <3> QED
      BY <3>2, <2>2, <1>1 DEF RingTypeOK, SlotOwnership, ProducerView, RecordOf
  <2> QED
    BY <2>1, <2>2
<1>10. ASSUME NEW i \in tail .. head - 1 PROVE LivePosition(i)'
  <2>1. CASE i = h
    BY <2>1, <1>1, <1>7, <1>8 DEF LivePosition, Clearing
  <2>2. CASE i # h
    <3>1. \A q \in Producers : Reserves(q, i)' <=> Reserves(q, i)
      BY <2>2, <1>1 DEF RingTypeOK, Reserves
    <3>2. i \in tail .. tail + Size - 1
      BY <1>2, SizeAssumption
    <3>3. slots'[SlotIndex(i)] = slots[SlotIndex(i)]
      BY <3>2, <2>2, <1>6
    <3> QED
      BY <3>1, <3>3, <1>1 DEF SlotOwnership, LivePosition, Clearing
  <2> QED
    BY <2>1, <2>2
<1>11. \A i \in head .. tail + Size - 1 : slots'[SlotIndex(i)] = NULL
  BY <1>2, <1>6 DEF SlotOwnership
<1>12. cpc = "clear" => slots'[SlotIndex(tail)] # NULL
  BY <1>2, <1>3, <1>6, <1>7, SizeAssumption DEF SlotOwnership
<1> QED
  BY <1>1, <1>5, <1>9, <1>10, <1>11, <1>12 DEF SlotOwnership, CursorsAgree

-----------------------------------------------------------------------------
(***************************************************************************)
(* Steps of the consumer that change neither the ring nor its cursors.     *)
(***************************************************************************)
LEMMA LocalPopSteps ==
    ASSUME RingInv, PopBegin \/ PopGiveUp \/ PopRead \/ RecvNotify
    PROVE  RingInv'
<1> USE DEF RingInv
<1>1. /\ UNCHANGED <<head, tail, slots, pc, seenHead, calls, claimed, delivered>>
      /\ cpc # "advance" /\ cpc' # "advance"
      /\ cpc' # "idle" => tail < head
  BY DEF PopBegin, PopGiveUp, PopRead, RecvNotify, producerVars,
         consumerVars, SlotOwnership, CursorsAgree
<1>2. RingTypeOK'
  <2>1. SlotIndex(tail) \in 0 .. Size - 1
    BY SlotIndexType DEF RingTypeOK
  <2> QED
    BY <2>1, <1>1 DEF PopBegin, PopGiveUp, PopRead, RecvNotify, producerVars,
                      consumerVars, RingTypeOK
<1>3. \A q \in Producers : ProducerView(q)'
  BY <1>1 DEF SlotOwnership, ProducerView, RecordOf
<1>4. ASSUME NEW i \in tail .. head - 1 PROVE LivePosition(i)'
  <2>1. \A q \in Producers : Reserves(q, i)' <=> Reserves(q, i)
    BY <1>1 DEF Reserves
  <2> QED
    BY <2>1, <1>1 DEF SlotOwnership, LivePosition, Clearing
<1>5. /\ cpc' \in {"clear", "advance"} => popped' = claimed[tail + 1]
      /\ cpc' = "clear" => slots[SlotIndex(tail)] # NULL
  <2>1. CASE PopRead
    <3>1. tail \in tail .. head - 1
      BY <2>1 DEF PopRead, RingTypeOK, SlotOwnership, CursorsAgree
    <3>2. LivePosition(tail)
      BY <3>1 DEF SlotOwnership
    <3> QED
      BY <2>1, <3>2 DEF PopRead, SlotReady, LivePosition, Clearing
  <2>2. CASE PopBegin \/ PopGiveUp \/ RecvNotify
    BY <2>2 DEF PopBegin, PopGiveUp, RecvNotify, consumerVars
  <2> QED
    BY <2>1, <2>2
<1> QED
  BY <1>1, <1>2, <1>3, <1>4, <1>5 DEF SlotOwnership, CursorsAgree

\* Clearing empties the slot of the record that the consumer has read.
LEMMA PopClearStep ==
    ASSUME RingInv, PopClear
    PROVE  RingInv'
<1> USE DEF RingInv
<1>1. /\ cpc = "clear" /\ cpc' = "advance"
      /\ slots' = [slots EXCEPT ![SlotIndex(tail)] = NULL]
      /\ UNCHANGED <<head, tail, notify, pc, seenHead, calls, popped,
                     claimed, delivered>>
  BY DEF PopClear, producerVars
<1>2. /\ head \in Nat /\ tail \in Nat /\ tail < head /\ head - tail <= Size
      /\ SlotIndex(tail) \in 0 .. Size - 1
  BY <1>1, SlotIndexType DEF RingTypeOK, SlotOwnership, CursorsAgree
<1>3. RingTypeOK'
  BY <1>1, <1>2 DEF RingTypeOK
<1>4. ASSUME NEW i \in tail .. tail + Size - 1, i # tail
      PROVE  slots'[SlotIndex(i)] = slots[SlotIndex(i)]
  <2>1. SlotIndex(i) # SlotIndex(tail)
    BY <1>2, <1>4, SizeAssumption, SlotIndexDistinct
  <2> QED
    BY <2>1, <1>1, <1>2, SlotIndexType DEF RingTypeOK
<1>5. slots'[SlotIndex(tail)] = NULL
  BY <1>1, <1>2 DEF RingTypeOK
<1>6. ASSUME NEW q \in Producers PROVE ~ Reserves(q, tail)
  BY <1>1 DEF SlotOwnership, ProducerView, Reserves
<1>7. ASSUME NEW q \in Producers PROVE ProducerView(q)'
  <2>1. ASSUME pc[q] = "store" PROVE slots'[SlotIndex(seenHead[q])] = NULL
    <3>1. /\ seenHead[q] \in tail .. head - 1
          /\ slots[SlotIndex(seenHead[q])] = NULL
      BY <2>1 DEF SlotOwnership, ProducerView
    <3>2. seenHead[q] \in tail .. tail + Size - 1
      BY <3>1, <1>2, SizeAssumption
    <3> QED
      BY <3>1, <3>2, <1>4, <1>5
  <2> QED
    BY <2>1, <1>1 DEF SlotOwnership, ProducerView, RecordOf
<1>8. ASSUME NEW i \in tail .. head - 1 PROVE LivePosition(i)'
  <2>1. CASE i = tail
    <3>1. \A q \in Producers : ~ Reserves(q, i)'
      BY <2>1, <1>1, <1>6 DEF Reserves
    <3> QED
      BY <3>1, <2>1, <1>1, <1>5 DEF LivePosition, Clearing
  <2>2. CASE i # tail
    <3>1. \A q \in Producers : Reserves(q, i)' <=> Reserves(q, i)
      BY <1>1 DEF Reserves
    <3>2. i \in tail .. tail + Size - 1
      BY <1>2, SizeAssumption
    <3>3. slots'[SlotIndex(i)] = slots[SlotIndex(i)]
      BY <3>2, <2>2, <1>4
    <3> QED
      BY <3>1, <3>3, <2>2, <1>1 DEF SlotOwnership, LivePosition, Clearing
  <2> QED
    BY <2>1, <2>2
<1>9. ASSUME NEW i \in head .. tail + Size - 1
      PROVE  slots'[SlotIndex(i)] = NULL
  <2>1. i \in tail .. tail + Size - 1 /\ i # tail
    BY <1>2, SizeAssumption
  <2> QED
    BY <2>1, <1>4 DEF SlotOwnership
<1> QED
  BY <1>1, <1>2, <1>3, <1>7, <1>8, <1>9 DEF SlotOwnership, CursorsAgree

\* Advancing tail gives the slot back: its next position is tail + Size.
LEMMA PopAdvanceStep ==
    ASSUME RingInv, PopAdvance
    PROVE  RingInv'
<1> USE DEF RingInv
<1>1. /\ cpc = "advance" /\ cpc' = "idle" /\ tail' = tail + 1
      /\ delivered' = Append(delivered, popped)
      /\ UNCHANGED <<head, slots, notify, pc, seenHead, calls, popped, claimed>>
  BY DEF PopAdvance, producerVars
<1>2. /\ head \in Nat /\ tail \in Nat /\ tail < head /\ head - tail <= Size
      /\ popped = claimed[tail + 1] /\ Len(claimed) = head
  BY <1>1 DEF RingTypeOK, SlotOwnership, CursorsAgree
<1>3. popped \in Record
  <2>1. tail + 1 \in 1 .. Len(claimed)
    BY <1>2
  <2> QED
    BY <2>1, <1>2 DEF RingTypeOK
<1>4. RingTypeOK'
  BY <1>1, <1>2, <1>3 DEF RingTypeOK
<1>5. Len(delivered') = tail + 1
  BY <1>1, <1>3 DEF RingTypeOK, SlotOwnership, CursorsAgree
<1>6. CursorsAgree'
  BY <1>1, <1>2, <1>5, SizeAssumption DEF SlotOwnership, CursorsAgree
<1>7. /\ slots[SlotIndex(tail)] = NULL
      /\ \A q \in Producers : ~ Reserves(q, tail)
  <2>1. LivePosition(tail)
    BY <1>2 DEF SlotOwnership
  <2> QED
    BY <2>1, <1>1 DEF LivePosition, Clearing
<1>8. ASSUME NEW q \in Producers PROVE ProducerView(q)'
  <2>1. pc[q] = "store" => seenHead[q] \in tail + 1 .. head - 1
    BY <1>2, <1>7 DEF RingTypeOK, SlotOwnership, ProducerView, Reserves
  <2>2. pc[q] = "cas" /\ seenHead[q] = head => head - (tail + 1) < Size
    BY <1>2, SizeAssumption
  <2>3. ProducerView(q)
    BY DEF SlotOwnership
  <2> QED
    BY <2>1, <2>2, <2>3, <1>1 DEF ProducerView, RecordOf
<1>9. ASSUME NEW i \in tail + 1 .. head - 1 PROVE LivePosition(i)'
  <2>1. \A q \in Producers : Reserves(q, i)' <=> Reserves(q, i)
    BY <1>1 DEF Reserves
  <2>2. LivePosition(i) /\ ~ Clearing(i) /\ ~ Clearing(i)'
    BY <1>1, <1>2 DEF SlotOwnership, Clearing
  <2> QED
    BY <2>1, <2>2, <1>1 DEF LivePosition
<1>10. ASSUME NEW i \in head .. tail + Size
       PROVE  slots[SlotIndex(i)] = NULL
  <2>1. CASE i <= tail + Size - 1
    BY <2>1, <1>2, SizeAssumption DEF SlotOwnership
  <2>2. CASE i = tail + Size
    <3>1. SlotIndex(i) = SlotIndex(tail)
      BY <2>2, <1>2, SizeAssumption, ModShift DEF SlotIndex
    <3> QED
      BY <3>1, <1>7
  <2> QED
    BY <2>1, <2>2, <1>2, SizeAssumption
<1>11. \A i \in head' .. tail' + Size - 1 : slots'[SlotIndex(i)] = NULL
  BY <1>1, <1>2, <1>10, SizeAssumption
<1> QED
  BY <1>1, <1>2, <1>4, <1>6, <1>8, <1>9, <1>11 DEF SlotOwnership

-----------------------------------------------------------------------------
\* Every step of the ring preserves the invariant.
LEMMA NextPreservesInv == RingInv /\ [RingNext]_ringVars => RingInv'
<1> SUFFICES ASSUME RingInv, [RingNext]_ringVars PROVE RingInv'
  OBVIOUS
<1>1. ASSUME NEW p \in Producers, BeginPush(p) \/ PushStep(p) PROVE RingInv'
  BY <1>1, LocalPushSteps, ClaimStep, StoreStep DEF PushStep
<1>2. CASE PopStep \/ RecvNotify
  BY <1>2, LocalPopSteps, PopClearStep, PopAdvanceStep DEF PopStep
<1>3. CASE UNCHANGED ringVars
  BY <1>3 DEF ringVars, RingInv, RingTypeOK, SlotOwnership, CursorsAgree,
              ProducerView, LivePosition, Reserves, Clearing, RecordOf
<1> QED
  BY <1>1, <1>2, <1>3 DEF RingNext

LEMMA RingInvariant == RingSpec => []RingInv
  BY InitEstablishesInv, NextPreservesInv, PTL DEF RingSpec

(***************************************************************************)
(* Type correctness of the ring for any number of producers and any size.  *)
(* In particular Pop never hands a nil record to the writer.               *)
(***************************************************************************)
THEOREM RingTypeCorrect == RingSpec => []RingTypeOK
  BY RingInvariant, PTL DEF RingInv

(***************************************************************************)
(* Slot ownership for any number of producers and any size: no record is   *)
(* overwritten before it is popped and Pop reads only the next one.        *)
(***************************************************************************)
THEOREM RingSlotOwnership == RingSpec => []SlotOwnership
  BY RingInvariant, PTL DEF RingInv

(***************************************************************************)
(* TryPush and Pop implement a bounded FIFO queue: a record counts as      *)
(* queued from its CAS on and as dequeued when tail moves past it.         *)
(***************************************************************************)
THEOREM RingImplementsFifo == RingSpec => RingIsFifo
<1>1. RingInit => Fifo!FifoInit
  BY DEF RingInit, Fifo!FifoInit
<1>2. RingInv /\ [RingNext]_ringVars => [Fifo!FifoNext]_(Fifo!fifoVars)
  <2> SUFFICES ASSUME RingInv, [RingNext]_ringVars
               PROVE  [Fifo!FifoNext]_(Fifo!fifoVars)
    OBVIOUS
  <2>1. ASSUME NEW p \in Producers, Claim(p) PROVE Fifo!FifoNext
    <3>1. RecordOf(p) \in Record
      BY <2>1, RecordOfType DEF Claim
    <3>2. Len(claimed) - Len(delivered) < Size
      BY <2>1 DEF RingInv, RingTypeOK, SlotOwnership, CursorsAgree,
                  ProducerView, Claim, CasSucceeds
    <3>3. Fifo!Enqueue(RecordOf(p))
      BY <2>1, <3>2 DEF Claim, Fifo!Enqueue
    <3> QED
      BY <3>1, <3>3 DEF Fifo!FifoNext
  <2>2. CASE PopAdvance
    BY <2>2 DEF RingInv, RingTypeOK, SlotOwnership, CursorsAgree, PopAdvance,
                Fifo!FifoNext, Fifo!Dequeue
  <2>3. ASSUME NEW p \in Producers,
               \/ BeginPush(p) \/ LoadHead(p) \/ Reject(p) \/ LoadTail(p)
               \/ Retry(p) \/ Store(p) \/ Notify(p)
        PROVE  UNCHANGED Fifo!fifoVars
    BY <2>3 DEF BeginPush, LoadHead, Reject, LoadTail, Retry, Store, Notify,
                Fifo!fifoVars
  <2>4. CASE PopBegin \/ PopGiveUp \/ PopRead \/ PopClear \/ RecvNotify
    BY <2>4 DEF PopBegin, PopGiveUp, PopRead, PopClear, RecvNotify,
                Fifo!fifoVars
  <2>5. CASE UNCHANGED ringVars
    BY <2>5 DEF ringVars, Fifo!fifoVars
  <2> QED
    BY <2>1, <2>2, <2>3, <2>4, <2>5 DEF RingNext, PushStep, PopStep
<1> QED
  BY <1>1, <1>2, RingInvariant, PTL DEF RingSpec, RingIsFifo, Fifo!FifoSpec
==============================================================================
