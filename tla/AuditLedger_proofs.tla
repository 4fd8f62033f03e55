------------------------- MODULE AuditLedger_proofs --------------------------
(***************************************************************************)
(* Proofs about the audit ledger, for every set of producers, every ring   *)
(* and batch size and any number of crashes, restarts and failed writes:   *)
(* the chain verifies as long as nothing was damaged, the journal follows  *)
(* the ring, and a quiet Close loses nothing.                              *)
(***************************************************************************)
EXTENDS AuditLedger, AuditRing_proofs, SequenceTheorems

\* f is a sequence, of whatever.
IsSeq(f) == f \in Seq(Range(f))

\* A line that can be read has all the fields of a record.
WellFormed(l) ==
    /\ IsLine(l)
    /\ Readable(l) => l = [kind |-> l.kind, seq |-> l.seq, prev |-> l.prev,
                           hash |-> l.hash, rec |-> l.rec, boot |-> l.boot]

Files == {"main", "temp"}

\* Type correctness, with the shapes that LedgerTypeOK leaves open.
FlagTypes == closed \in BOOLEAN /\ stop \in BOOLEAN /\ damaged \in BOOLEAN

LedgerShape ==
    /\ disk = [main |-> disk.main, temp |-> disk.temp]
    /\ \A j \in Files : /\ IsSeq(disk[j])
                        /\ \A i \in 1 .. Len(disk[j]) : WellFormed(disk[j][i])
    /\ open \in Files
    /\ synced \in 0 .. Len(Journal)
    /\ lastSeq \in Nat
    /\ wpc \in {"down", "drain", "flush", "select", "stopDrain", "done"}
    /\ batch \in Seq(Record)
    /\ pending \in 0 .. Len(batch)
    /\ resume \in {"drain", "select", "done"}
    /\ opc \in {"idle", "stop", "wait", "closed"}
    /\ bootLine \in Nat

\* What the writer's place says of its batch, and what a process that has
\* not started holds.
WriterView ==
    /\ wpc # "flush" => pending = 0
    /\ wpc = "done" => batch = << >>
    /\ wpc = "down" => /\ delivered = << >> /\ batch = << >>
                       /\ ~ closed /\ ~ stop /\ opc = "idle"
    /\ Up => bootLine \in 1 .. Len(Journal)

\* Without damage every line is complete and verifies, and the writer is at
\* the end of the chain.
ChainView ==
    ~ damaged =>
        /\ \A j \in Files : \A i \in 1 .. Len(disk[j]) :
               disk[j][i].kind = "entry" /\ LineVerifies(disk[j], i)
        /\ Up => /\ lastSeq = Journal[Len(Journal)].seq
                 /\ lastHash = Journal[Len(Journal)].hash

\* How many records flushBatch has dealt with since the process started, and
\* the sequence number that the process started from.
Flushed == Len(delivered) - Len(batch) + pending
FirstSeq == lastSeq - Flushed

\* Line bootLine + k of a chain that verifies was written for the k-th record
\* that Pop returned: its sequence number leaves no other possibility.
FollowsFrom(k) ==
    /\ Journal[bootLine + k].seq = FirstSeq + k
    /\ k > 0 => Journal[bootLine + k].rec = delivered[k]

OrderView ==
    Up =>
        /\ Len(batch) <= Len(delivered)
        /\ \A i \in 1 .. Len(batch) :
               batch[i] = delivered[Len(delivered) - Len(batch) + i]
        /\ Len(Journal) - bootLine <= Flushed
        /\ ~ damaged => Len(Journal) - bootLine = Flushed
        /\ VerifyChain(Journal) =>
               \A k \in 0 .. Len(Journal) - bootLine : FollowsFrom(k)

\* The writer has drained the ring for the last time.
Finishing == wpc = "done" \/ (wpc = "flush" /\ resume = "done")

\* Once Close has begun while no Record was under way, nothing enters the
\* ring any more, so the last drain empties it.
CloseView ==
    /\ \A i \in 1 .. Len(delivered) : delivered[i] = claimed[i]
    /\ stop => closed
    /\ wpc = "stopDrain" \/ Finishing => stop
    /\ opc # "idle" => closed
    /\ opc = "closed" => wpc = "done"
    /\ closed /\ atClose.quiet =>
           /\ \A p \in Producers : pc[p] = "idle"
           /\ \A r \in atClose.acked : \E i \in 1 .. Len(claimed) : claimed[i] = r
           /\ Finishing => tail = head

LedgerInv ==
    /\ RingInv /\ FlagTypes /\ LedgerShape /\ WriterView /\ ChainView /\ OrderView /\ CloseView

-----------------------------------------------------------------------------
(***************************************************************************)
(* Sequences whose elements have no common type.                           *)
(***************************************************************************)
\* A sequence over any set.
LEMMA SeqIsSeq == ASSUME NEW S, NEW f \in Seq(S) PROVE IsSeq(f)
  BY SeqOfRange DEF IsSeq

\* The length and the domain of a sequence.
LEMMA SeqLen ==
    ASSUME NEW f, IsSeq(f)
    PROVE  Len(f) \in Nat /\ DOMAIN f = 1 .. Len(f) /\ (f = << >> <=> Len(f) = 0)
<1>1. f \in Seq(Range(f))
  BY DEF IsSeq
<1>2. Len(f) \in Nat /\ DOMAIN f = 1 .. Len(f)
  BY <1>1, LenProperties
<1>3. f # << >> => Len(f) # 0
  BY <1>1, EmptySeq
<1>4. Len(<< >>) = 0
  BY EmptySeq
<1> QED
  BY <1>2, <1>3, <1>4

\* g is f with l after it.
Extended(g, f, l) ==
    /\ IsSeq(g)
    /\ Len(g) = Len(f) + 1
    /\ \A i \in 1 .. Len(f) : g[i] = f[i]
    /\ g[Len(f) + 1] = l

LEMMA AppendExtends == ASSUME NEW f, IsSeq(f), NEW l PROVE Extended(Append(f, l), f, l)
<1> DEFINE S == Range(f) \cup {l}
<1>1. f \in Seq(S)
  <2>1. f \in Seq(Range(f)) /\ Range(f) \subseteq S
    BY DEF IsSeq
  <2> QED
    BY <2>1, SeqMonotonic
<1>2. l \in S
  OBVIOUS
<1> HIDE DEF S
<1>3. /\ Append(f, l) \in Seq(S)
      /\ Len(Append(f, l)) = Len(f) + 1
      /\ \A i \in 1 .. Len(f) : Append(f, l)[i] = f[i]
      /\ Append(f, l)[Len(f) + 1] = l
  BY <1>1, <1>2, AppendProperties
<1> QED
  BY <1>3, SeqIsSeq DEF Extended

\* The first n elements of a sequence.
LEMMA PrefixProperties ==
    ASSUME NEW f, IsSeq(f), NEW n \in 0 .. Len(f)
    PROVE  /\ IsSeq(SubSeq(f, 1, n))
           /\ Len(SubSeq(f, 1, n)) = n
           /\ \A i \in 1 .. n : SubSeq(f, 1, n)[i] = f[i]
<1>1. f \in Seq(Range(f)) /\ Len(f) \in Nat
  BY SeqLen DEF IsSeq
<1>2. \A i \in 1 .. n : f[i] \in Range(f)
  BY <1>1, ElementOfSeq
<1>3. /\ SubSeq(f, 1, n) \in Seq(Range(f))
      /\ Len(SubSeq(f, 1, n)) = IF 1 <= n THEN n - 1 + 1 ELSE 0
      /\ \A i \in 1 .. n - 1 + 1 : SubSeq(f, 1, n)[i] = f[1 + i - 1]
  <2>1. n \in Int /\ 1 \in Int
    BY <1>1
  <2> QED
    BY <1>2, <2>1, SubSeqProperties
<1>4. IsSeq(SubSeq(f, 1, n))
  BY <1>3, SeqIsSeq
<1>5. Len(SubSeq(f, 1, n)) = n
  BY <1>1, <1>3
<1>6. ASSUME NEW i \in 1 .. n PROVE SubSeq(f, 1, n)[i] = f[i]
  <2>1. i \in 1 .. n - 1 + 1 /\ 1 + i - 1 = i
    BY <1>1
  <2> QED
    BY <2>1, <1>3
<1> QED
  BY <1>4, <1>5, <1>6

\* The last line of f has been merged with what was written after it, and
\* cannot be read any more.
Spoiled(g, f) ==
    /\ IsSeq(g)
    /\ Len(g) = Len(f)
    /\ Len(f) > 0
    /\ Unterminated(f[Len(f)])
    /\ \A i \in 1 .. Len(f) - 1 : g[i] = f[i]
    /\ g[Len(f)] \in {[kind |-> "part"], [kind |-> "bad"]}

LEMMA AppendToCases ==
    ASSUME NEW f, IsSeq(f), NEW l
    PROVE  Extended(AppendTo(f, l), f, l) \/ Spoiled(AppendTo(f, l), f)
<1>1. Len(f) \in Nat /\ (f = << >> <=> Len(f) = 0)
  BY SeqLen
<1>2. CASE f # << >> /\ Unterminated(Last(f))
  <2> DEFINE h == SubSeq(f, 1, Len(f) - 1)
             b == [kind |-> IF Unterminated(l) THEN "part" ELSE "bad"]
  <2>1. AppendTo(f, l) = h \o << b >>
    BY <1>2 DEF AppendTo, Front
  <2>2. /\ IsSeq(h) /\ Len(h) = Len(f) - 1
        /\ \A i \in 1 .. Len(f) - 1 : h[i] = f[i]
    <3>1. Len(f) - 1 \in 0 .. Len(f)
      BY <1>1, <1>2
    <3> QED
      BY <3>1, PrefixProperties
  <2>3. b \in {[kind |-> "part"], [kind |-> "bad"]}
    OBVIOUS
  <2> HIDE DEF h, b
  <2>4. h \o << b >> = Append(h, b)
    <3> DEFINE S == Range(h) \cup {b}
    <3>1. h \in Seq(S)
      <4>1. h \in Seq(Range(h)) /\ Range(h) \subseteq S
        BY <2>2 DEF IsSeq
      <4> QED
        BY <4>1, SeqMonotonic
    <3>2. b \in S
      OBVIOUS
    <3> HIDE DEF S
    <3> QED
      BY <3>1, <3>2, AppendIsConcat
  <2>5. Extended(AppendTo(f, l), h, b)
    BY <2>1, <2>2, <2>4, AppendExtends
  <2>6. Spoiled(AppendTo(f, l), f)
    BY <2>2, <2>3, <2>5, <1>1, <1>2 DEF Extended, Spoiled, Last
  <2> QED
    BY <2>6
<1>3. CASE ~ (f # << >> /\ Unterminated(Last(f)))
  <2>1. AppendTo(f, l) = Append(f, l)
    BY <1>3 DEF AppendTo
  <2> QED
    BY <2>1, AppendExtends
<1> QED
  BY <1>2, <1>3

-----------------------------------------------------------------------------
(***************************************************************************)
(* VerifyChain looks at a line and at the one before it.                   *)
(***************************************************************************)
LEMMA VerifiesLocally ==
    ASSUME NEW f, NEW g, NEW i \in Nat \ {0},
           g[i] = f[i], i > 1 => g[i - 1] = f[i - 1]
    PROVE  LineVerifies(g, i) <=> LineVerifies(f, i)
  BY DEF LineVerifies

\* What verifies after a write verified before it, and was written whole.
LEMMA VerifiedWasVerified ==
    ASSUME NEW f, IsSeq(f), NEW g, NEW l,
           Extended(g, f, l) \/ Spoiled(g, f), VerifyChain(g)
    PROVE  Extended(g, f, l) /\ VerifyChain(f)
<1>1. Len(f) \in Nat
  BY SeqLen
<1>2. ~ Spoiled(g, f)
  <2> SUFFICES ASSUME Spoiled(g, f) PROVE FALSE
    OBVIOUS
  <2>1. Len(f) \in 1 .. Len(g) /\ ~ Readable(g[Len(f)])
    BY <1>1 DEF Spoiled, Readable
  <2> QED
    BY <2>1 DEF VerifyChain, LineVerifies
<1>3. Extended(g, f, l)
  BY <1>2
<1>4. ASSUME NEW i \in 1 .. Len(f) PROVE LineVerifies(f, i)
  <2>1. i \in Nat \ {0} /\ g[i] = f[i] /\ (i > 1 => g[i - 1] = f[i - 1])
    BY <1>1, <1>3 DEF Extended
  <2>2. LineVerifies(g, i)
    BY <1>1, <1>3 DEF Extended, VerifyChain
  <2> QED
    BY <2>1, <2>2, VerifiesLocally
<1> QED
  BY <1>3, <1>4 DEF VerifyChain

-----------------------------------------------------------------------------
\* Writing to the open journal leaves the other one alone.
LEMMA DiskUpdate ==
    ASSUME disk = [main |-> disk.main, temp |-> disk.temp], open \in Files,
           NEW f, disk' = [disk EXCEPT ![open] = f]
    PROVE  /\ disk' = [main |-> disk'.main, temp |-> disk'.temp]
           /\ disk'[open] = f
           /\ \A j \in Files : j # open => disk'[j] = disk[j]
  BY DEF Files

-----------------------------------------------------------------------------
(***************************************************************************)
(* The ring under the steps of the ledger.                                 *)
(***************************************************************************)
\* A refused Record only counts the call.
LEMMA RefusedKeepsRing ==
    ASSUME RingInv, NEW p \in Producers, RecordRefused(p)
    PROVE  RingInv'
<1> USE DEF RingInv
<1>1. /\ pc[p] = "idle" /\ calls' = [calls EXCEPT ![p] = @ + 1]
      /\ calls[p] < MaxCalls
      /\ UNCHANGED <<head, tail, slots, notify, pc, seenHead, cpc, popped,
                     claimed, delivered>>
  BY DEF RecordRefused, consumerVars
<1>2. RingTypeOK'
  <2>1. calls[p] + 1 \in 0 .. MaxCalls
    BY <1>1, MaxCallsAssumption DEF RingTypeOK
  <2> QED
    BY <1>1, <2>1 DEF RingTypeOK
<1>3. ASSUME NEW q \in Producers PROVE ProducerView(q)'
  BY <1>1 DEF RingTypeOK, SlotOwnership, ProducerView, RecordOf
<1>4. ASSUME NEW i \in tail .. head - 1 PROVE LivePosition(i)'
  <2>1. \A q \in Producers : Reserves(q, i)' <=> Reserves(q, i)
    BY <1>1 DEF Reserves
  <2> QED
    BY <2>1, <1>1 DEF SlotOwnership, LivePosition, Clearing
<1> QED
  BY <1>1, <1>2, <1>3, <1>4 DEF SlotOwnership, CursorsAgree

\* A new process has an empty ring.
LEMMA CrashKeepsRing == ASSUME RingInv, Crash PROVE RingInv'
<1>1. /\ head' = 0 /\ tail' = 0 /\ notify' = FALSE
      /\ slots' = [k \in 0 .. Size - 1 |-> NULL]
      /\ pc' = [p \in Producers |-> "idle"]
      /\ seenHead' = [p \in Producers |-> 0]
      /\ cpc' = "idle" /\ popped' = NULL
      /\ claimed' = <<>> /\ delivered' = <<>> /\ calls' = calls
  BY DEF Crash
<1>2. RingTypeOK'
  <2>1. calls' \in [Producers -> 0 .. MaxCalls]
    BY <1>1 DEF RingTypeOK, RingInv
  <2>2. /\ << >> \in Seq(Record) /\ NULL \in Record \cup {NULL}
        /\ slots' \in [0 .. Size - 1 -> Record \cup {NULL}]
    BY <1>1
  <2> QED
    BY <1>1, <2>1, <2>2 DEF RingTypeOK
<1>3. SlotOwnership'
  <2>1. \A i \in head' .. tail' + Size - 1 : slots'[SlotIndex(i)] = NULL
    BY <1>1, SizeAssumption, SlotIndexType
  <2> QED
    BY <2>1, <1>1, SizeAssumption
       DEF SlotOwnership, CursorsAgree, ProducerView
<1> QED
  BY <1>2, <1>3 DEF RingInv

\* Every step of the ledger is a step of the ring, leaves it alone, refuses a
\* record or starts from an empty ring.
LEMMA LedgerKeepsRing == ASSUME RingInv, [LedgerNext]_ledgerVars PROVE RingInv'
<1>1. CASE \/ StartEmpty \/ StartFallback \/ StartOpenFails \/ StartRecovered
           \/ WriteLine \/ WriteFails \/ FlushEnds \/ SelectTicker \/ SelectStop
           \/ CloseBegins \/ CloseStep \/ UNCHANGED ledgerVars
  <2>1. UNCHANGED ringVars
    BY <1>1 DEF StartEmpty, StartFallback, StartOpenFails, StartRecovered, Booted,
                FromGenesis, WriteLine, WriteFails, FlushEnds, SelectTicker,
                SelectStop, CloseBegins, CloseStep, CloseStops, CloseReturns, ledgerVars
  <2> QED
    BY <2>1, NextPreservesInv
<1>2. ASSUME NEW p \in Producers, RecordBegins(p) \/ RecordStep(p) PROVE RingInv'
  BY <1>2, NextPreservesInv DEF RecordBegins, RecordStep, RingNext
<1>3. ASSUME NEW p \in Producers, RecordRefused(p) PROVE RingInv'
  BY <1>3, RefusedKeepsRing
<1>4. CASE WriterPopStep \/ WriterPops \/ SelectNotify
  BY <1>4, NextPreservesInv
     DEF WriterPopStep, WriterPops, SelectNotify, RingNext, PopStep
<1>5. CASE WriterDrained
  BY <1>5, NextPreservesInv DEF WriterDrained, RingNext, PopStep
<1>6. CASE Crash
  BY <1>6, CrashKeepsRing
<1> QED
  BY <1>1, <1>2, <1>3, <1>4, <1>5, <1>6 DEF LedgerNext, WriterStep

-----------------------------------------------------------------------------
\* The first boot finds nothing.
LEMMA LedgerInitInv == LedgerInit => LedgerInv
<1> SUFFICES ASSUME LedgerInit PROVE LedgerInv
  OBVIOUS
<1>1. RingInv
  BY InitEstablishesInv DEF LedgerInit
<1>2. /\ disk = [main |-> << >>, temp |-> << >>]
      /\ delivered = << >> /\ claimed = << >> /\ batch = << >>
      /\ Len(<< >>) = 0
  BY DEF LedgerInit, RingInit
<1>3. IsSeq(<< >>)
  BY SeqIsSeq, EmptySeq
<1>4. LedgerShape
  <2>1. << >> \in Seq(Record)
    OBVIOUS
  <2>2. \A j \in Files : disk[j] = << >>
    BY <1>2 DEF Files
  <2>3. open \in Files /\ Journal = << >>
    BY <2>2 DEF LedgerInit, Journal, Files
  <2>4. disk = [main |-> disk.main, temp |-> disk.temp]
    BY <1>2
  <2> QED
    BY <1>2, <1>3, <2>1, <2>2, <2>3, <2>4 DEF LedgerInit, LedgerShape
<1>5. WriterView /\ ChainView /\ OrderView
  BY <1>2 DEF LedgerInit, WriterView, ChainView, OrderView, Up, Files
<1>6. CloseView
  BY <1>2 DEF LedgerInit, CloseView, Finishing
<1>7. FlagTypes
  BY DEF LedgerInit, FlagTypes
<1> QED
  BY <1>1, <1>4, <1>5, <1>6, <1>7 DEF LedgerInv

-----------------------------------------------------------------------------
(***************************************************************************)
(* Each part of the invariant depends on a few variables only.             *)
(***************************************************************************)
LEMMA FlagsKept == ASSUME FlagTypes, [LedgerNext]_ledgerVars PROVE FlagTypes'
<1>1. CASE \/ StartEmpty \/ StartFallback \/ StartRecovered \/ WriterStep
           \/ \E p \in Producers : RecordBegins(p) \/ RecordRefused(p) \/ RecordStep(p)
           \/ UNCHANGED ledgerVars
  <2>1. UNCHANGED <<closed, stop>> /\ (damaged' = damaged \/ damaged' = TRUE)
    BY <1>1 DEF StartEmpty, StartFallback, StartRecovered, Booted, FromGenesis,
                WriterStep, WriterPopStep, WriterPops, WriterDrained, WriteLine,
                WriteFails, FlushEnds, SelectNotify, SelectTicker, SelectStop,
                RecordBegins, RecordRefused, RecordStep, closeVars, bootVars, ledgerVars
  <2> QED
    BY <2>1 DEF FlagTypes
<1>2. CASE StartOpenFails
  <2>1. UNCHANGED <<closed, stop>>
    BY <1>2 DEF StartOpenFails, Booted, FromGenesis, closeVars
  <2>2. PICK f : damaged' = (damaged \/ f # disk.main)
    BY <1>2 DEF StartOpenFails
  <2>3. damaged' \in BOOLEAN
    BY <2>2
  <2> QED
    BY <2>1, <2>3 DEF FlagTypes
<1>3. CASE Crash
  <2>1. closed' = FALSE /\ stop' = FALSE
    BY <1>3 DEF Crash
  <2>2. PICK f : damaged' = (damaged \/ (f # <<>> /\ Unterminated(Last(f))))
    BY <1>3 DEF Crash
  <2>3. damaged' \in BOOLEAN
    BY <2>2
  <2> QED
    BY <2>1, <2>3 DEF FlagTypes
<1>4. CASE CloseBegins
  BY <1>4 DEF CloseBegins, bootVars, FlagTypes
<1>5. CASE CloseStep
  BY <1>5 DEF CloseStep, CloseStops, CloseReturns, bootVars, FlagTypes
<1> QED
  BY <1>1, <1>2, <1>3, <1>4, <1>5 DEF LedgerNext

LEMMA ShapeFrame ==
    ASSUME LedgerShape,
           UNCHANGED <<disk, open, lastSeq, batch, pending, resume, bootLine>>,
           synced' \in {synced, Len(Journal)},
           wpc' \in {"down", "drain", "flush", "select", "stopDrain", "done"},
           opc' \in {"idle", "stop", "wait", "closed"}
    PROVE  LedgerShape'
<1>1. Len(Journal) \in Nat
  BY SeqLen DEF LedgerShape, Journal
<1> QED
  BY <1>1 DEF LedgerShape, Journal

LEMMA ChainFrame ==
    ASSUME ChainView, UNCHANGED <<disk, open, lastSeq, lastHash, damaged>>, Up' => Up
    PROVE  ChainView'
  BY DEF ChainView, Journal

LEMMA OrderFrame ==
    ASSUME OrderView, Up' => Up,
           UNCHANGED <<disk, open, lastSeq, bootLine, damaged, batch, pending, delivered>>
    PROVE  OrderView'
  BY DEF OrderView, Journal, Flushed, FirstSeq, FollowsFrom

-----------------------------------------------------------------------------
LedgerViews == LedgerShape /\ WriterView /\ ChainView /\ OrderView /\ CloseView

\* The CAS appends to the claims and no other step of a producer touches them.
LEMMA ClaimsGrow ==
    ASSUME RingInv, NEW p \in Producers, BeginPush(p) \/ PushStep(p)
    PROVE  /\ UNCHANGED <<tail, delivered>>
           /\ \A i \in 1 .. Len(claimed) : claimed'[i] = claimed[i]
<1>1. CASE Claim(p)
  <2>1. RecordOf(p) \in Record /\ claimed \in Seq(Record)
    BY <1>1, RecordOfType DEF Claim, RingInv, RingTypeOK
  <2> QED
    BY <1>1, <2>1 DEF Claim
<1>2. CASE ~ Claim(p)
  BY <1>2 DEF BeginPush, PushStep, LoadHead, Reject, LoadTail, Retry, Store, Notify
<1> QED
  BY <1>1, <1>2

\* Handlers change the ring only.
LEMMA RecordSteps ==
    ASSUME LedgerInv, NEW p \in Producers,
           RecordBegins(p) \/ RecordRefused(p) \/ RecordStep(p)
    PROVE  LedgerViews'
<1> USE DEF LedgerInv
<1>1. /\ UNCHANGED <<disk, open, synced, lastSeq, lastHash, wpc, batch, pending, resume,
                     closed, stop, opc, atClose, damaged, bootLine>>
  BY DEF RecordBegins, RecordRefused, RecordStep, journalVars, writerVars, closeVars,
         bootVars
<1>2. /\ UNCHANGED <<tail, delivered>>
      /\ \A i \in 1 .. Len(claimed) : claimed'[i] = claimed[i]
  BY ClaimsGrow DEF RecordBegins, RecordRefused, RecordStep, BeginPush
<1>3. LedgerShape'
  BY <1>1, ShapeFrame DEF LedgerShape
<1>4. WriterView' /\ ChainView' /\ OrderView'
  BY <1>1, <1>2, ChainFrame, OrderFrame DEF WriterView, Up, Journal
<1>5. \A i \in 1 .. Len(delivered) : delivered'[i] = claimed'[i]
  BY <1>2 DEF CloseView, RingInv, SlotOwnership, CursorsAgree, RingTypeOK
<1>6. ASSUME closed, atClose.quiet PROVE UNCHANGED <<pc, claimed, head>>
  <2>1. pc[p] = "idle"
    BY <1>6 DEF CloseView
  <2>2. RecordRefused(p)
    BY <2>1, <1>6 DEF RecordBegins, RecordStep, PushStep, LoadHead, Reject, LoadTail,
                      Claim, Retry, Store, Notify
  <2> QED
    BY <2>2 DEF RecordRefused
<1>7. CloseView'
  BY <1>1, <1>2, <1>5, <1>6 DEF CloseView, Finishing
<1> QED
  BY <1>3, <1>4, <1>7 DEF LedgerViews

\* Pop's own steps before it returns.
LEMMA PopSteps ==
    ASSUME LedgerInv, WriterPopStep \/ SelectNotify \/ SelectTicker \/ SelectStop
    PROVE  LedgerViews'
<1> USE DEF LedgerInv
<1>1. /\ UNCHANGED <<disk, open, synced, lastSeq, lastHash, batch, pending, resume,
                     closed, stop, opc, atClose, damaged, bootLine>>
      /\ wpc # "down" /\ wpc # "flush" /\ ~ Finishing
      /\ wpc' \in {"drain", "select", "stopDrain"}
      /\ wpc' = "stopDrain" => stop
      /\ UNCHANGED <<head, tail, pc, claimed, delivered>>
  BY DEF WriterPopStep, Popping, SelectNotify, SelectTicker, SelectStop, journalVars,
         writerVars, closeVars, bootVars, PopBegin, PopRead, PopClear, RecvNotify,
         producerVars, ringVars, Finishing, CloseView
<1>2. LedgerShape'
  BY <1>1, ShapeFrame DEF LedgerShape
<1>3. WriterView' /\ ChainView' /\ OrderView'
  BY <1>1, ChainFrame, OrderFrame DEF WriterView, Up, Journal
<1>4. CloseView'
  BY <1>1 DEF CloseView, Finishing
<1> QED
  BY <1>2, <1>3, <1>4 DEF LedgerViews

\* Close before and after it waits for the writer.
LEMMA CloseSteps ==
    ASSUME LedgerInv, CloseBegins \/ CloseStep
    PROVE  LedgerViews'
<1> USE DEF LedgerInv
<1>1. /\ UNCHANGED <<disk, open, lastSeq, lastHash, wpc, batch, pending, resume,
                     damaged, bootLine>>
      /\ UNCHANGED <<head, tail, pc, claimed, delivered>>
      /\ synced' \in {synced, Len(Journal)}
      /\ opc' \in {"stop", "wait", "closed"}
      /\ wpc # "down" /\ closed'
  BY DEF CloseBegins, CloseStep, CloseStops, CloseReturns, journalVars, writerVars,
         bootVars, ringVars, Up, WriterView, CloseView
<1>2. LedgerShape'
  BY <1>1, ShapeFrame DEF LedgerShape
<1>3. WriterView' /\ ChainView' /\ OrderView'
  BY <1>1, ChainFrame, OrderFrame DEF WriterView, Up, Journal
<1>4. CloseView'
  <2>1. CASE CloseBegins
    <3>1. ~ closed /\ ~ stop /\ ~ Finishing /\ stop' = stop /\ opc' = "stop"
      BY <2>1 DEF CloseBegins, CloseView
    <3>2. /\ atClose'.quiet => \A p \in Producers : pc[p] = "idle"
          /\ \A r \in atClose'.acked : \E i \in 1 .. Len(claimed) : claimed[i] = r
      BY <2>1 DEF CloseBegins, Acked
    <3> QED
      BY <1>1, <3>1, <3>2 DEF CloseView, Finishing
  <2>2. CASE CloseStep
    BY <1>1, <2>2 DEF CloseView, Finishing, CloseStep, CloseStops, CloseReturns
  <2> QED
    BY <2>1, <2>2
<1> QED
  BY <1>2, <1>3, <1>4 DEF LedgerViews

\* Pop returns a record: it moves from the ring to the batch.
LEMMA PopReturns == ASSUME LedgerInv, WriterPops PROVE LedgerViews'
<1> USE DEF LedgerInv
<1>1. /\ wpc \in {"drain", "stopDrain"} /\ cpc = "advance" /\ pending = 0
      /\ delivered' = Append(delivered, popped)
      /\ batch' = Append(batch, popped)
      /\ UNCHANGED <<head, pc, claimed, disk, open, synced, lastSeq, lastHash, closed,
                     stop, opc, atClose, damaged, bootLine>>
      /\ pending' = 0
      /\ \/ wpc' = wpc /\ resume' = resume
         \/ wpc' = "flush" /\ resume' = "drain"
  BY DEF WriterPops, Popping, PopAdvance, producerVars, journalVars, closeVars, bootVars,
         WriterView
<1>2. /\ popped = claimed[tail + 1] /\ Len(delivered) = tail /\ tail < Len(claimed)
      /\ tail \in Nat /\ claimed \in Seq(Record) /\ delivered \in Seq(Record)
      /\ batch \in Seq(Record)
  BY <1>1 DEF RingInv, RingTypeOK, SlotOwnership, CursorsAgree, LedgerShape
<1>3. popped \in Record
  BY <1>2, ElementOfSeq
<1>4. /\ batch' \in Seq(Record) /\ Len(batch') = Len(batch) + 1
      /\ \A i \in 1 .. Len(batch) : batch'[i] = batch[i]
      /\ batch'[Len(batch) + 1] = popped
      /\ Len(delivered') = Len(delivered) + 1
      /\ \A i \in 1 .. Len(delivered) : delivered'[i] = delivered[i]
      /\ delivered'[Len(delivered) + 1] = popped
      /\ Len(batch) \in Nat
  BY <1>1, <1>2, <1>3
<1>5. LedgerShape'
  BY <1>1, <1>4 DEF LedgerShape, Journal
<1>6. WriterView' /\ ChainView'
  BY <1>1, ChainFrame DEF WriterView, Up, Journal
<1>7. OrderView'
  <2>1. /\ Len(batch) <= Len(delivered)
        /\ \A i \in 1 .. Len(batch) :
               batch[i] = delivered[Len(delivered) - Len(batch) + i]
        /\ Len(Journal) - bootLine <= Flushed
        /\ ~ damaged => Len(Journal) - bootLine = Flushed
        /\ VerifyChain(Journal) =>
               \A k \in 0 .. Len(Journal) - bootLine : FollowsFrom(k)
    BY <1>1 DEF OrderView, Up
  <2> DEFINE b == Len(batch)
             d == Len(delivered)
  <2>a. /\ b \in Nat /\ d \in Nat /\ b <= d
        /\ Len(batch') = b + 1 /\ Len(delivered') = d + 1
    BY <1>2, <1>4, <2>1
  <2>b. Flushed = d - b /\ Flushed' = d + 1 - (b + 1)
    <3> HIDE DEF b, d
    <3> QED
      BY <2>a, <1>1 DEF Flushed, b, d
  <2>2. /\ Flushed' = Flushed /\ FirstSeq' = FirstSeq /\ Journal' = Journal
        /\ Flushed \in 0 .. Len(delivered)
    BY <2>a, <2>b, <1>1 DEF FirstSeq, Journal
  <2>3. ASSUME NEW i \in 1 .. Len(batch) + 1
        PROVE  batch'[i] = delivered'[Len(delivered') - Len(batch') + i]
    <3>1. Len(delivered') - Len(batch') + i = d - b + i
      BY <2>a
    <3>2. CASE i = b + 1
      <4>1. d - b + i = d + 1
        BY <3>2, <2>a
      <4> QED
        BY <3>1, <3>2, <4>1, <1>4
    <3>3. CASE i \in 1 .. b
      <4>1. d - b + i \in 1 .. d
        BY <3>3, <2>a
      <4> QED
        BY <3>1, <3>3, <4>1, <1>4, <2>1
    <3> QED
      BY <3>2, <3>3, <2>a
  <2>4. ASSUME NEW k \in 0 .. Len(Journal) - bootLine, FollowsFrom(k)
        PROVE  FollowsFrom(k)'
    <3>1. Len(Journal) \in Nat /\ bootLine \in Nat
      BY SeqLen DEF LedgerShape, Journal
    <3>2. k > 0 => delivered'[k] = delivered[k]
      BY <3>1, <1>2, <1>4, <2>1, <2>2
    <3> QED
      BY <3>2, <1>1, <2>2, <2>4 DEF FollowsFrom
  <2>5. bootLine' = bootLine /\ damaged' = damaged
    BY <1>1
  <2>6. Len(batch') <= Len(delivered')
    BY <2>a
  <2>7. \A i \in 1 .. Len(batch') : batch'[i] = delivered'[Len(delivered') - Len(batch') + i]
    BY <2>a, <2>3
  <2>8. VerifyChain(Journal') => \A k \in 0 .. Len(Journal') - bootLine' : FollowsFrom(k)'
    BY <2>1, <2>2, <2>4, <2>5
  <2> QED
    BY <2>1, <2>2, <2>5, <2>6, <2>7, <2>8 DEF OrderView
<1>8. CloseView'
  <2>1. ~ Finishing' /\ (wpc' = "stopDrain" => wpc = "stopDrain")
    BY <1>1 DEF Finishing
  <2>2. \A i \in 1 .. Len(delivered') : delivered'[i] = claimed[i]
    BY <1>2, <1>4 DEF CloseView
  <2> QED
    BY <2>1, <2>2, <1>1 DEF CloseView
<1> QED
  BY <1>5, <1>6, <1>7, <1>8 DEF LedgerViews

\* While no producer is inside TryPush, Pop finds every record it looks for.
LEMMA QuietPopIsEmpty ==
    ASSUME RingInv, \A p \in Producers : pc[p] = "idle", PopGiveUp \/ PopEmpty
    PROVE  tail = head
<1>1. CASE PopEmpty
  BY <1>1 DEF PopEmpty, RingInv, RingTypeOK, SlotOwnership, CursorsAgree
<1>2. CASE PopGiveUp
  <2>1. cpc = "scan" /\ slots[SlotIndex(tail)] = NULL
    BY <1>2 DEF PopGiveUp
  <2>2. /\ tail \in Nat /\ head \in Nat /\ tail < head /\ Len(claimed) = head
        /\ claimed \in Seq(Record)
    BY <2>1 DEF RingInv, RingTypeOK, SlotOwnership, CursorsAgree
  <2>3. LivePosition(tail)
    BY <2>2 DEF RingInv, SlotOwnership
  <2>4. claimed[tail + 1] \in Record
    BY <2>2, ElementOfSeq
  <2> QED
    BY <2>1, <2>3, <2>4, NullAssumption DEF LivePosition, Clearing, Reserves
<1> QED
  BY <1>1, <1>2

\* Pop returns nil.
LEMMA DrainEnds == ASSUME LedgerInv, WriterDrained PROVE LedgerViews'
<1> USE DEF LedgerInv
<1>1. /\ UNCHANGED <<head, tail, pc, claimed, delivered>>
      /\ UNCHANGED <<disk, open, synced, lastSeq, lastHash, batch, closed,
                     stop, opc, atClose, damaged, bootLine>>
  BY DEF WriterDrained, PopGiveUp, producerVars, ringVars, journalVars, closeVars,
         bootVars, FlushThen
<1>2. wpc \in {"drain", "stopDrain"} /\ pending = 0
  BY DEF WriterDrained, WriterView
<1>3. /\ pending' = 0
      /\ \/ wpc' = "flush" /\ resume' = IF wpc = "drain" THEN "select" ELSE "done"
         \/ /\ wpc' = IF wpc = "drain" THEN "select" ELSE "done"
            /\ resume' = resume
            /\ Len(batch) = 0
  BY <1>2 DEF WriterDrained, FlushThen, MustFlush, LedgerShape
<1>4. LedgerShape'
  BY <1>1, <1>2, <1>3 DEF LedgerShape, Journal
<1>5. WriterView' /\ ChainView' /\ OrderView'
  <2>1. wpc' = "done" => batch = << >>
    BY <1>2, <1>3 DEF LedgerShape
  <2> QED
    BY <2>1, <1>1, <1>2, <1>3, ChainFrame, OrderFrame DEF WriterView, Up, Journal
<1>6. CloseView'
  <2>1. ASSUME closed, atClose.quiet PROVE tail = head
    <3>1. PopGiveUp \/ PopEmpty
      BY DEF WriterDrained
    <3> QED
      BY <2>1, <3>1, QuietPopIsEmpty DEF CloseView
  <2>2. wpc' = "stopDrain" \/ Finishing' => wpc = "stopDrain"
    BY <1>2, <1>3 DEF Finishing
  <2>3. opc # "closed"
    BY <1>2 DEF CloseView
  <2> QED
    BY <2>1, <2>2, <2>3, <1>1 DEF CloseView
<1> QED
  BY <1>4, <1>5, <1>6 DEF LedgerViews

\* The end of flushBatch.
LEMMA FlushReturns == ASSUME LedgerInv, FlushEnds PROVE LedgerViews'
<1> USE DEF LedgerInv
<1>1. /\ wpc = "flush" /\ pending = Len(batch) /\ wpc' = resume
      /\ synced' \in {synced, Len(Journal)} /\ batch' = << >> /\ pending' = 0
      /\ UNCHANGED <<head, tail, pc, claimed, delivered, disk, open, lastSeq, lastHash,
                     resume, closed, stop, opc, atClose, damaged, bootLine>>
  BY DEF FlushEnds, ringVars, closeVars, bootVars
<1>2. /\ Len(Journal) \in Nat /\ Len(batch) \in Nat /\ Len(delivered) \in Nat
      /\ << >> \in Seq(Record) /\ Len(batch') = 0
  BY <1>1, SeqLen DEF LedgerShape, Journal, RingInv, RingTypeOK
<1>3. LedgerShape'
  BY <1>1, <1>2 DEF LedgerShape, Journal
<1>4. WriterView' /\ ChainView'
  BY <1>1, ChainFrame DEF WriterView, Up, Journal, LedgerShape
<1>5. OrderView'
  <2>1. Flushed' = Flushed /\ FirstSeq' = FirstSeq /\ Journal' = Journal
    BY <1>1, <1>2 DEF Flushed, FirstSeq, Journal
  <2>2. \A k : FollowsFrom(k)' <=> FollowsFrom(k)
    BY <2>1, <1>1 DEF FollowsFrom
  <2> QED
    BY <2>1, <2>2, <1>1, <1>2 DEF OrderView, Up
<1>6. CloseView'
  BY <1>1 DEF CloseView, Finishing, LedgerShape
<1> QED
  BY <1>3, <1>4, <1>5, <1>6 DEF LedgerViews

-----------------------------------------------------------------------------
\* A line that flushBatch writes, wholly or in part.
Attempt(l) ==
    \/ l = [kind |-> "part"]
    \/ /\ l = [kind |-> l.kind, seq |-> l.seq, prev |-> l.prev,
               hash |-> l.hash, rec |-> l.rec, boot |-> l.boot]
       /\ l.kind \in {"entry", "bare"}
       /\ l.seq = lastSeq + 1
       /\ l.rec = batch[pending + 1]

LEMMA AttemptTorn ==
    ASSUME NEW l \in Torn(NextLine) \cup {NextLine} PROVE Attempt(l)
<1>1. NextLine = [kind |-> "entry", seq |-> lastSeq + 1, prev |-> lastHash,
                  hash |-> EntryHash(lastHash, lastSeq + 1, batch[pending + 1]),
                  rec |-> batch[pending + 1], boot |-> 0]
  BY DEF NextLine, Entry
<1>2. CASE l = NextLine
  BY <1>1, <1>2 DEF Attempt
<1>3. CASE l = [kind |-> "part"]
  BY <1>3 DEF Attempt
<1>4. CASE l = [NextLine EXCEPT !.kind = "bare"]
  <2>1. l = [kind |-> "bare", seq |-> lastSeq + 1, prev |-> lastHash,
             hash |-> EntryHash(lastHash, lastSeq + 1, batch[pending + 1]),
             rec |-> batch[pending + 1], boot |-> 0]
    BY <1>1, <1>4
  <2> QED
    BY <2>1 DEF Attempt
<1> QED
  BY <1>2, <1>3, <1>4 DEF Torn

LEMMA AttemptWellFormed ==
    ASSUME NEW l, Attempt(l), lastSeq \in Nat, batch[pending + 1] \in Record
    PROVE  WellFormed(l)
  BY DEF Attempt, WellFormed, IsLine, Readable

\* What one turn of flushBatch leaves in the open journal.
Outcome(l) ==
    \/ disk'[open] = Journal /\ damaged'
    \/ Extended(disk'[open], Journal, l)
    \/ Spoiled(disk'[open], Journal)

LEMMA FlushOutcome ==
    ASSUME LedgerShape, WriteLine \/ WriteFails
    PROVE  /\ disk' = [main |-> disk'.main, temp |-> disk'.temp]
           /\ \A j \in Files : j # open => disk'[j] = disk[j]
           /\ \E l : /\ Attempt(l)
                     /\ Outcome(l)
                     /\ ~ damaged' => l = NextLine
<1>0. /\ disk = [main |-> disk.main, temp |-> disk.temp] /\ open \in Files
      /\ IsSeq(Journal)
  BY DEF LedgerShape, Journal
<1>1. CASE WriteLine
  <2>1. disk' = [disk EXCEPT ![open] = AppendTo(Journal, NextLine)]
    BY <1>1 DEF WriteLine, Journal
  <2>2. Extended(AppendTo(Journal, NextLine), Journal, NextLine)
        \/ Spoiled(AppendTo(Journal, NextLine), Journal)
    BY <1>0, AppendToCases
  <2>3. /\ disk' = [main |-> disk'.main, temp |-> disk'.temp]
        /\ disk'[open] = AppendTo(Journal, NextLine)
        /\ \A j \in Files : j # open => disk'[j] = disk[j]
    BY <1>0, <2>1, DiskUpdate
  <2>4. Attempt(NextLine) /\ Outcome(NextLine)
    BY <2>2, <2>3, AttemptTorn DEF Outcome
  <2> QED
    BY <2>3, <2>4
<1>2. CASE WriteFails
  <2>1. PICK f \in {Journal} \cup {AppendTo(Journal, t) : t \in Torn(NextLine)} :
             disk' = [disk EXCEPT ![open] = f]
    BY <1>2 DEF WriteFails
  <2>2. /\ disk' = [main |-> disk'.main, temp |-> disk'.temp]
        /\ disk'[open] = f
        /\ \A j \in Files : j # open => disk'[j] = disk[j]
    BY <1>0, <2>1, DiskUpdate
  <2>3. damaged' = TRUE
    BY <1>2 DEF WriteFails
  <2>4. CASE f = Journal
    <3>1. Attempt(NextLine) /\ Outcome(NextLine)
      BY <2>2, <2>3, <2>4, AttemptTorn DEF Outcome
    <3> QED
      BY <2>2, <3>1
  <2>5. ASSUME NEW t \in Torn(NextLine), f = AppendTo(Journal, t)
        PROVE  Attempt(t) /\ Outcome(t)
    <3>1. Extended(f, Journal, t) \/ Spoiled(f, Journal)
      BY <1>0, <2>5, AppendToCases
    <3> QED
      BY <2>2, <3>1, AttemptTorn DEF Outcome
  <2> QED
    BY <2>1, <2>2, <2>3, <2>4, <2>5
<1> QED
  BY <1>1, <1>2

\* One turn of flushBatch.
LEMMA FlushTurn == ASSUME LedgerInv, WriteLine \/ WriteFails PROVE LedgerViews'
<1> USE DEF LedgerInv
<1>1. /\ wpc = "flush" /\ pending < Len(batch) /\ pending' = pending + 1
      /\ lastSeq' = lastSeq + 1
      /\ lastHash' = EntryHash(lastHash, lastSeq + 1, batch[pending + 1])
      /\ UNCHANGED <<head, tail, pc, claimed, delivered, open, synced, wpc, batch, resume,
                     closed, stop, opc, atClose, bootLine>>
      /\ ~ damaged' => ~ damaged
  BY DEF WriteLine, WriteFails, FlushOne, ringVars, closeVars, bootVars
<1>2. /\ disk' = [main |-> disk'.main, temp |-> disk'.temp]
      /\ \A j \in Files : j # open => disk'[j] = disk[j]
      /\ \E l : Attempt(l) /\ Outcome(l) /\ (~ damaged' => l = NextLine)
  BY FlushOutcome
<1>3. PICK l : Attempt(l) /\ Outcome(l) /\ (~ damaged' => l = NextLine)
  BY <1>2
<1> DEFINE f == Journal
           g == disk'[open]
<1>4. /\ IsSeq(f) /\ Len(f) \in Nat /\ open \in Files /\ lastSeq \in Nat
      /\ Len(batch) \in Nat /\ pending \in Nat /\ Len(delivered) \in Nat
      /\ bootLine \in 1 .. Len(f) /\ Journal' = g
      /\ synced \in 0 .. Len(f)
      /\ \A i \in 1 .. Len(f) : WellFormed(f[i])
      /\ batch \in Seq(Record)
  BY <1>1, SeqLen DEF LedgerShape, Journal, RingInv, RingTypeOK, WriterView, Up
<1>5. batch[pending + 1] \in Record
  BY <1>1, <1>4, ElementOfSeq
<1>6. WellFormed(l)
  BY <1>3, <1>4, <1>5, AttemptWellFormed
<1> HIDE DEF f, g
<1>7. (g = f /\ damaged') \/ Extended(g, f, l) \/ Spoiled(g, f)
  BY <1>3 DEF Outcome, f, g
<1>8. /\ IsSeq(g) /\ Len(g) \in {Len(f), Len(f) + 1}
      /\ \A i \in 1 .. Len(g) : WellFormed(g[i])
  <2>1. CASE g = f
    BY <2>1, <1>4
  <2>2. CASE Extended(g, f, l)
    BY <2>2, <1>4, <1>6 DEF Extended
  <2>3. CASE Spoiled(g, f)
    <3>1. WellFormed(g[Len(f)])
      BY <2>3 DEF Spoiled, WellFormed, IsLine, Readable
    <3>2. ASSUME NEW i \in 1 .. Len(g) PROVE WellFormed(g[i])
      BY <3>1, <2>3, <1>4 DEF Spoiled
    <3> QED
      BY <3>2, <2>3 DEF Spoiled
  <2> QED
    BY <1>7, <2>1, <2>2, <2>3
<1>9. LedgerShape'
  <2>1. ASSUME NEW j \in Files
        PROVE  IsSeq(disk'[j]) /\ \A i \in 1 .. Len(disk'[j]) : WellFormed(disk'[j][i])
    <3>1. CASE j = open
      BY <3>1, <1>8 DEF g
    <3>2. CASE j # open
      BY <3>2, <1>2 DEF LedgerShape
    <3> QED
      BY <3>1, <3>2
  <2>2. synced' \in 0 .. Len(Journal') /\ pending' \in 0 .. Len(batch')
    BY <1>1, <1>4, <1>8
  <2> QED
    BY <1>1, <1>2, <2>1, <2>2 DEF LedgerShape
<1>10. WriterView'
  <2>1. bootLine' \in 1 .. Len(Journal')
    BY <1>1, <1>4, <1>8
  <2> QED
    BY <1>1, <2>1 DEF WriterView, Up
<1>11. CloseView'
  BY <1>1 DEF CloseView, Finishing
<1>12. ASSUME ~ damaged'
       PROVE  /\ Extended(g, f, l) /\ l = NextLine /\ ~ damaged
              /\ \A i \in 1 .. Len(f) : f[i].kind = "entry" /\ LineVerifies(f, i)
              /\ lastSeq = f[Len(f)].seq /\ lastHash = f[Len(f)].hash
  <2>1. l = NextLine /\ ~ damaged
    BY <1>1, <1>3, <1>12
  <2>2. /\ \A i \in 1 .. Len(f) : f[i].kind = "entry" /\ LineVerifies(f, i)
        /\ lastSeq = f[Len(f)].seq /\ lastHash = f[Len(f)].hash
    BY <2>1, <1>1, <1>4 DEF ChainView, Journal, f, Up
  <2>3. ~ Spoiled(g, f)
    BY <2>2, <1>4 DEF Spoiled, Unterminated
  <2> QED
    BY <2>1, <2>2, <2>3, <1>7, <1>12
<1>13. ChainView'
  <2> SUFFICES ASSUME ~ damaged' PROVE ChainView'
    BY DEF ChainView
  <2>1. /\ Extended(g, f, l) /\ l = NextLine /\ ~ damaged
        /\ \A i \in 1 .. Len(f) : f[i].kind = "entry" /\ LineVerifies(f, i)
        /\ lastSeq = f[Len(f)].seq /\ lastHash = f[Len(f)].hash
    BY <1>12
  <2>2. /\ l.kind = "entry" /\ l.seq = lastSeq + 1 /\ l.prev = lastHash
        /\ l.rec = batch[pending + 1]
        /\ l.hash = EntryHash(l.prev, l.seq, l.rec)
        /\ l.hash = lastHash'
    BY <2>1, <1>1 DEF NextLine, Entry
  <2>3. ASSUME NEW i \in 1 .. Len(g) PROVE g[i].kind = "entry" /\ LineVerifies(g, i)
    <3>1. CASE i \in 1 .. Len(f)
      <4>1. i \in Nat \ {0} /\ g[i] = f[i] /\ (i > 1 => g[i - 1] = f[i - 1])
        BY <3>1, <2>1, <1>4 DEF Extended
      <4> QED
        BY <4>1, <3>1, <2>1, VerifiesLocally
    <3>2. CASE i = Len(f) + 1
      <4>1. g[i] = l /\ i - 1 = Len(f) /\ g[i - 1] = f[Len(f)] /\ l.seq # 0
        BY <3>2, <2>1, <2>2, <1>4, SMTT(30) DEF Extended
      <4> QED
        BY <4>1, <2>1, <2>2 DEF LineVerifies, Readable
    <3> QED
      BY <3>1, <3>2, <2>1, <1>4 DEF Extended
  <2>4. ASSUME NEW j \in Files, NEW i \in 1 .. Len(disk'[j])
        PROVE  disk'[j][i].kind = "entry" /\ LineVerifies(disk'[j], i)
    <3>1. CASE j = open
      BY <3>1, <2>3 DEF g
    <3>2. CASE j # open
      BY <3>2, <2>1, <1>2 DEF ChainView
    <3> QED
      BY <3>1, <3>2
  <2>5. lastSeq' = g[Len(g)].seq /\ lastHash' = g[Len(g)].hash
    BY <2>1, <2>2, <1>1 DEF Extended
  <2> QED
    BY <2>4, <2>5, <1>4 DEF ChainView
<1>14. OrderView'
  <2> DEFINE n == Len(f) - bootLine
  <2>1. /\ Len(batch) <= Len(delivered)
        /\ \A i \in 1 .. Len(batch) :
               batch[i] = delivered[Len(delivered) - Len(batch) + i]
        /\ n <= Flushed
        /\ ~ damaged => n = Flushed
        /\ VerifyChain(f) => \A k \in 0 .. n : FollowsFrom(k)
    BY <1>1 DEF OrderView, Up, f
  <2>2. /\ Flushed' = Flushed + 1 /\ FirstSeq' = FirstSeq
        /\ Flushed \in Nat /\ n \in Nat /\ FirstSeq \in Int
        /\ FirstSeq = lastSeq - Flushed
        /\ Flushed = Len(delivered) - Len(batch) + pending
    BY <1>1, <1>4, <2>1 DEF Flushed, FirstSeq
  <2>a. /\ Len(f) \in Nat /\ bootLine \in Nat /\ n = Len(f) - bootLine
        /\ lastSeq \in Nat /\ Len(batch) \in Nat /\ pending \in Nat
        /\ Len(delivered) \in Nat
    BY <1>4
  <2> HIDE DEF n
  <2>3. /\ Len(g) - bootLine <= Flushed'
        /\ ~ damaged' => Len(g) - bootLine = Flushed'
    <3>1. ~ damaged' => Len(g) = Len(f) + 1 /\ ~ damaged
      BY <1>12 DEF Extended
    <3>2. n <= Flushed /\ (~ damaged => n = Flushed)
      BY <2>1
    <3>3. Len(g) \in {Len(f), Len(f) + 1}
      BY <1>8
    <3>4. Len(g) - bootLine <= Flushed + 1
      BY <3>2, <3>3, <2>2, <2>a, SMTT(30)
    <3>5. ASSUME ~ damaged' PROVE Len(g) - bootLine = Flushed + 1
      BY <3>1, <3>2, <3>5, <2>2, <2>a, SMTT(30)
    <3> QED
      BY <3>4, <3>5, <2>2
  <2>4. ASSUME VerifyChain(g), NEW k \in 0 .. Len(g) - bootLine
        PROVE  FollowsFrom(k)'
    <3>1. FollowsFrom(k)' <=> /\ g[bootLine + k].seq = FirstSeq + k
                              /\ k > 0 => g[bootLine + k].rec = delivered[k]
      BY <1>1, <1>4, <2>2 DEF FollowsFrom
    <3>2. \A i \in 0 .. n : FollowsFrom(i) =>
              /\ f[bootLine + i].seq = FirstSeq + i
              /\ i > 0 => f[bootLine + i].rec = delivered[i]
      BY DEF FollowsFrom, f
    <3>3. CASE g = f
      BY <3>1, <3>2, <3>3, <2>1, <2>4, <2>a
    <3>4. CASE g # f
      <4>1. Extended(g, f, l) /\ VerifyChain(f)
        BY <3>4, <1>4, <1>7, <2>4, VerifiedWasVerified
      <4>2. \A i \in 0 .. n : FollowsFrom(i)
        BY <4>1, <2>1
      <4>3. CASE k \in 0 .. n
        <5>1. g[bootLine + k] = f[bootLine + k]
          <6>1. bootLine + k \in 1 .. Len(f)
            BY <4>3, <1>4, <2>a
          <6> QED
            BY <6>1, <4>1 DEF Extended
        <5> QED
          BY <5>1, <4>2, <4>3, <3>1, <3>2
      <4>4. CASE k = n + 1
        <5>1. /\ bootLine + k = Len(f) + 1 /\ bootLine + k > 1
              /\ bootLine + k - 1 = Len(f) /\ bootLine + n = Len(f)
              /\ bootLine + k \in 1 .. Len(g)
          BY <4>1, <4>4, <1>4, <2>a DEF Extended
        <5>2. g[bootLine + k] = l /\ g[bootLine + k - 1] = f[bootLine + n]
          BY <5>1, <4>1, <1>4 DEF Extended
        <5>3. LineVerifies(g, bootLine + k)
          BY <5>1, <2>4 DEF VerifyChain
        <5>4. l.seq = lastSeq + 1 /\ l.rec = batch[pending + 1] /\ l.seq # 0
          BY <5>2, <5>3, <1>3, <1>4 DEF Attempt, LineVerifies, Readable
        <5>5. l.seq = FirstSeq + n + 1
          <6>1. f[bootLine + n].seq = FirstSeq + n
            <7>1. n \in 0 .. n
              BY <2>2
            <7> QED
              BY <7>1, <4>2, <3>2
          <6> QED
            BY <6>1, <5>1, <5>2, <5>3, <5>4 DEF LineVerifies
        <5>6. n = Flushed
          <6>1. lastSeq + 1 = FirstSeq + n + 1
            BY <5>4, <5>5
          <6> QED
            BY <6>1, <2>2, <2>a, SMTT(30)
        <5>7. batch[pending + 1] = delivered[k]
          <6>1. pending + 1 \in 1 .. Len(batch)
            BY <1>1, <1>4
          <6>2. Len(delivered) - Len(batch) + (pending + 1) = k
            BY <5>6, <4>4, <2>2, <2>a
          <6> QED
            BY <6>1, <6>2, <2>1
        <5>8. l.seq = FirstSeq + k
          BY <5>5, <4>4, <2>2
        <5> QED
          BY <5>2, <5>4, <5>7, <5>8, <3>1
      <4> QED
        BY <4>1, <4>3, <4>4, <2>2, <2>4, <2>a, SMTT(30) DEF Extended
    <3> QED
      BY <3>3, <3>4
  <2>5. batch' = batch /\ delivered' = delivered /\ bootLine' = bootLine
    BY <1>1
  <2>6. VerifyChain(Journal') => \A k \in 0 .. Len(Journal') - bootLine' : FollowsFrom(k)'
    BY <2>4, <2>5, <1>4
  <2>7. /\ Len(Journal') - bootLine' <= Flushed'
        /\ ~ damaged' => Len(Journal') - bootLine' = Flushed'
    BY <2>3, <2>5, <1>4
  <2> QED
    BY <2>1, <2>5, <2>6, <2>7 DEF OrderView
<1> QED
  BY <1>9, <1>10, <1>11, <1>13, <1>14 DEF LedgerViews

-----------------------------------------------------------------------------
\* What is left of a line that was cut short can be read as that line, or
\* cannot be read at all; it lacks its newline either way.
LEMMA TornLine ==
    ASSUME NEW l, WellFormed(l), l.kind = "entry", NEW t \in Torn(l)
    PROVE  WellFormed(t) /\ Unterminated(t)
<1>1. CASE t = [kind |-> "part"]
  BY <1>1 DEF WellFormed, IsLine, Readable, Unterminated
<1>2. CASE t = [l EXCEPT !.kind = "bare"]
  <2>1. l = [kind |-> l.kind, seq |-> l.seq, prev |-> l.prev,
             hash |-> l.hash, rec |-> l.rec, boot |-> l.boot]
    BY DEF WellFormed, Readable
  <2>2. t = [kind |-> "bare", seq |-> l.seq, prev |-> l.prev,
             hash |-> l.hash, rec |-> l.rec, boot |-> l.boot]
    BY <1>2, <2>1
  <2>3. l.seq \in Nat /\ l.rec \in Record \cup {NULL}
    BY DEF WellFormed, IsLine, Readable
  <2> QED
    BY <2>2, <2>3 DEF WellFormed, IsLine, Readable, Unterminated
<1> QED
  BY <1>1, <1>2 DEF Torn

\* A crash leaves a prefix of the journal, possibly with a torn line.
LEMMA SurvivorsAre ==
    ASSUME NEW f, IsSeq(f), \A i \in 1 .. Len(f) : WellFormed(f[i]),
           NEW n \in 0 .. Len(f), NEW g \in Survivors(f, n)
    PROVE  /\ IsSeq(g) /\ \A i \in 1 .. Len(g) : WellFormed(g[i])
           /\ \/ g # << >> /\ Unterminated(Last(g))
              \/ Len(g) <= Len(f) /\ \A i \in 1 .. Len(g) : g[i] = f[i]
<1>1. Len(f) \in Nat
  BY SeqLen
<1>2. ASSUME NEW k \in n .. Len(f), g = SubSeq(f, 1, k)
      PROVE  /\ IsSeq(g) /\ Len(g) <= Len(f) /\ \A i \in 1 .. Len(g) : g[i] = f[i]
             /\ \A i \in 1 .. Len(g) : WellFormed(g[i])
  <2>1. k \in 0 .. Len(f)
    BY <1>1
  <2>2. IsSeq(g) /\ Len(g) = k /\ \A i \in 1 .. k : g[i] = f[i]
    BY <2>1, <1>2, PrefixProperties
  <2> QED
    BY <2>1, <2>2, <1>1
<1>3. ASSUME NEW k \in n .. Len(f) - 1, f[k + 1].kind = "entry",
             NEW t \in Torn(f[k + 1]), g = Append(SubSeq(f, 1, k), t)
      PROVE  /\ IsSeq(g) /\ g # << >> /\ Unterminated(Last(g))
             /\ \A i \in 1 .. Len(g) : WellFormed(g[i])
  <2> DEFINE h == SubSeq(f, 1, k)
  <2>1. k \in 0 .. Len(f) /\ k + 1 \in 1 .. Len(f)
    BY <1>1
  <2>2. IsSeq(h) /\ Len(h) = k /\ \A i \in 1 .. k : h[i] = f[i]
    BY <2>1, PrefixProperties
  <2>3. WellFormed(t) /\ Unterminated(t)
    BY <2>1, <1>3, TornLine
  <2> HIDE DEF h
  <2>4. Extended(g, h, t)
    BY <2>2, <1>3, AppendExtends DEF h
  <2>5. IsSeq(g) /\ Len(g) = k + 1 /\ g[k + 1] = t
        /\ \A i \in 1 .. k : g[i] = f[i]
    BY <2>2, <2>4 DEF Extended
  <2>6. g # << >> /\ Last(g) = t
    BY <2>1, <2>5, SeqLen DEF Last
  <2>7. ASSUME NEW i \in 1 .. Len(g) PROVE WellFormed(g[i])
    BY <2>1, <2>3, <2>5, <1>1
  <2> QED
    BY <2>3, <2>5, <2>6, <2>7
<1>4. \/ \E k \in n .. Len(f) : g = SubSeq(f, 1, k)
      \/ \E k \in n .. Len(f) - 1 : /\ f[k + 1].kind = "entry"
                                    /\ \E t \in Torn(f[k + 1]) :
                                          g = Append(SubSeq(f, 1, k), t)
  BY DEF Survivors
<1>5. CASE \E k \in n .. Len(f) : g = SubSeq(f, 1, k)
  BY <1>2, <1>5
<1>6. CASE \E k \in n .. Len(f) - 1 : /\ f[k + 1].kind = "entry"
                                      /\ \E t \in Torn(f[k + 1]) :
                                            g = Append(SubSeq(f, 1, k), t)
  BY <1>3, <1>6
<1> QED
  BY <1>4, <1>5, <1>6

LEMMA CrashStep == ASSUME LedgerInv, Crash PROVE LedgerViews'
<1> USE DEF LedgerInv
<1>1. PICK g \in Survivors(Journal, synced) :
          /\ disk' = [disk EXCEPT ![open] = g]
          /\ damaged' = (damaged \/ (g # <<>> /\ Unterminated(Last(g))))
          /\ synced' = Len(g)
  BY DEF Crash
<1>2. /\ wpc' = "down" /\ batch' = << >> /\ pending' = 0 /\ resume' = "select"
      /\ closed' = FALSE /\ stop' = FALSE /\ opc' = "idle"
      /\ delivered' = << >> /\ claimed' = << >>
      /\ UNCHANGED <<open, lastSeq, lastHash, bootLine>>
  BY DEF Crash
<1>3. /\ disk = [main |-> disk.main, temp |-> disk.temp] /\ open \in Files
      /\ IsSeq(Journal) /\ Len(Journal) \in Nat
      /\ \A i \in 1 .. Len(Journal) : WellFormed(Journal[i])
      /\ synced \in 0 .. Len(Journal)
  BY SeqLen DEF LedgerShape, Journal
<1>4. /\ disk' = [main |-> disk'.main, temp |-> disk'.temp]
      /\ disk'[open] = g
      /\ \A j \in Files : j # open => disk'[j] = disk[j]
  BY <1>1, <1>3, DiskUpdate
<1>5. /\ IsSeq(g) /\ \A i \in 1 .. Len(g) : WellFormed(g[i])
      /\ \/ g # << >> /\ Unterminated(Last(g))
         \/ Len(g) <= Len(Journal) /\ \A i \in 1 .. Len(g) : g[i] = Journal[i]
  BY <1>3, SurvivorsAre
<1>6. Len(g) \in Nat /\ Len(<< >>) = 0
  BY <1>5, SeqLen
<1>7. LedgerShape'
  <2>1. ASSUME NEW j \in Files
        PROVE  IsSeq(disk'[j]) /\ \A i \in 1 .. Len(disk'[j]) : WellFormed(disk'[j][i])
    <3>1. CASE j = open
      BY <3>1, <1>4, <1>5
    <3>2. CASE j # open
      BY <3>2, <1>4 DEF LedgerShape
    <3> QED
      BY <3>1, <3>2
  <2>2. synced' \in 0 .. Len(Journal')
    BY <1>1, <1>2, <1>4, <1>6 DEF Journal
  <2>3. batch' \in Seq(Record) /\ pending' \in 0 .. Len(batch')
    BY <1>2, <1>6
  <2> QED
    BY <1>2, <1>4, <2>1, <2>2, <2>3 DEF LedgerShape
<1>8. WriterView' /\ OrderView'
  BY <1>2 DEF WriterView, OrderView, Up
<1>9. ChainView'
  <2> SUFFICES ASSUME ~ damaged' PROVE ChainView'
    BY DEF ChainView
  <2>1. /\ ~ damaged /\ Len(g) <= Len(Journal)
        /\ \A i \in 1 .. Len(g) : g[i] = Journal[i]
    BY <1>1, <1>5
  <2>2. ASSUME NEW i \in 1 .. Len(g) PROVE g[i].kind = "entry" /\ LineVerifies(g, i)
    <3>1. i \in Nat \ {0} /\ g[i] = Journal[i] /\ (i > 1 => g[i - 1] = Journal[i - 1])
      BY <2>1, <1>6
    <3>2. Journal[i].kind = "entry" /\ LineVerifies(Journal, i)
      BY <2>1, <1>3, <1>6 DEF ChainView, Journal
    <3> QED
      BY <3>1, <3>2, VerifiesLocally
  <2>3. ASSUME NEW j \in Files, NEW i \in 1 .. Len(disk'[j])
        PROVE  disk'[j][i].kind = "entry" /\ LineVerifies(disk'[j], i)
    <3>1. CASE j = open
      BY <3>1, <2>2, <1>4
    <3>2. CASE j # open
      BY <3>2, <2>1, <1>4 DEF ChainView
    <3> QED
      BY <3>1, <3>2
  <2> QED
    BY <2>3, <1>2 DEF ChainView, Up
<1>10. CloseView'
  BY <1>2, <1>6 DEF CloseView, Finishing
<1> QED
  BY <1>7, <1>8, <1>9, <1>10 DEF LedgerViews

-----------------------------------------------------------------------------
LEMMA OneLine ==
    ASSUME NEW l PROVE IsSeq(<< l >>) /\ Len(<< l >>) = 1 /\ << l >>[1] = l
<1>1. << l >> \in Seq({l})
  OBVIOUS
<1> QED
  BY <1>1, SeqIsSeq

\* A journal that consists of the genesis record verifies.
LEMMA GenesisVerifies ==
    ASSUME NEW b
    PROVE  /\ WellFormed(Genesis(b)) /\ Genesis(b).kind = "entry"
           /\ Genesis(b).seq = 0 /\ Genesis(b).hash = GenesisHash(b)
           /\ LineVerifies(<< Genesis(b) >>, 1)
<1>1. Genesis(b) = [kind |-> "entry", seq |-> 0, prev |-> NULL,
                    hash |-> GenesisHash(b), rec |-> NULL, boot |-> b]
  BY DEF Genesis
<1>2. << Genesis(b) >>[1] = Genesis(b)
  BY OneLine
<1> QED
  BY <1>1, <1>2 DEF WellFormed, IsLine, Readable, LineVerifies

\* A process that starts at the end of its journal.
LEMMA StartsAtEnd ==
    ASSUME LedgerInv, Booted,
           disk' = [main |-> disk'.main, temp |-> disk'.temp], open' \in Files,
           \A j \in Files :
               /\ IsSeq(disk'[j])
               /\ \A i \in 1 .. Len(disk'[j]) : WellFormed(disk'[j][i]),
           ~ damaged' =>
               \A j \in Files : \A i \in 1 .. Len(disk'[j]) :
                   disk'[j][i].kind = "entry" /\ LineVerifies(disk'[j], i),
           Len(Journal') > 0,
           synced' = Len(Journal'), bootLine' = Len(Journal'),
           lastSeq' \in Nat,
           lastSeq' = Journal'[Len(Journal')].seq,
           lastHash' = Journal'[Len(Journal')].hash
    PROVE  LedgerViews'
<1> USE DEF LedgerInv
<1>1. /\ wpc = "down" /\ wpc' = "drain" /\ pending = 0
      /\ UNCHANGED <<head, tail, pc, claimed, delivered, batch, pending, resume, closed,
                     stop, opc, atClose>>
      /\ delivered = << >> /\ batch = << >> /\ Len(<< >>) = 0
  BY DEF Booted, ringVars, closeVars, WriterView
<1>2. Len(Journal') \in Nat
  BY SeqLen DEF Journal
<1>3. LedgerShape'
  <2>1. synced' \in 0 .. Len(Journal') /\ bootLine' \in Nat
    BY <1>2
  <2> QED
    BY <1>1, <2>1 DEF LedgerShape
<1>4. WriterView'
  BY <1>1, <1>2 DEF WriterView, Up
<1>5. ChainView'
  BY DEF ChainView
<1>6. OrderView'
  <2>1. /\ Flushed' = 0 /\ FirstSeq' = lastSeq' /\ Len(batch') = 0 /\ Len(delivered') = 0
        /\ Len(Journal') - bootLine' = 0
    BY <1>1, <1>2 DEF Flushed, FirstSeq
  <2>2. FollowsFrom(0)'
    BY <2>1, <1>2 DEF FollowsFrom
  <2> QED
    BY <2>1, <2>2 DEF OrderView
<1>7. CloseView'
  BY <1>1 DEF CloseView, Finishing, WriterView
<1> QED
  BY <1>3, <1>4, <1>5, <1>6, <1>7 DEF LedgerViews

\* NewServer.
LEMMA BootSteps ==
    ASSUME LedgerInv, StartEmpty \/ StartFallback \/ StartOpenFails \/ StartRecovered
    PROVE  LedgerViews'
<1> USE DEF LedgerInv
<1> DEFINE b == boots + 1
           G == << Genesis(b) >>
           Good(f) == IsSeq(f) /\ \A i \in 1 .. Len(f) : WellFormed(f[i])
           Whole(f) == \A i \in 1 .. Len(f) : f[i].kind = "entry" /\ LineVerifies(f, i)
<1>1. /\ IsSeq(G) /\ Len(G) = 1 /\ G[1] = Genesis(b)
      /\ WellFormed(Genesis(b)) /\ Genesis(b).kind = "entry"
      /\ Genesis(b).seq = 0 /\ Genesis(b).hash = GenesisHash(b)
      /\ LineVerifies(G, 1)
  BY OneLine, GenesisVerifies
<1>2. Good(G) /\ Whole(G)
  BY <1>1
<1>3. /\ disk = [main |-> disk.main, temp |-> disk.temp]
      /\ Good(disk.main) /\ Good(disk.temp)
      /\ ~ damaged => Whole(disk.main) /\ Whole(disk.temp)
  BY DEF LedgerShape, ChainView, Files
<1> HIDE DEF G, Good, Whole
<1>4. ASSUME NEW j \in Files, FromGenesis(j), disk'[j] = G,
             disk' = [main |-> disk'.main, temp |-> disk'.temp],
             Good(disk'.main) /\ Good(disk'.temp),
             ~ damaged' => Whole(disk'.main) /\ Whole(disk'.temp)
      PROVE  LedgerViews'
  <2>1. /\ Booted /\ open' = j /\ synced' = 1 /\ lastSeq' = 0
        /\ lastHash' = GenesisHash(b) /\ bootLine' = 1
    BY <1>4 DEF FromGenesis
  <2>2. Journal' = G
    BY <1>4, <2>1 DEF Journal
  <2>3. \A i \in Files : Good(disk'[i]) /\ (~ damaged' => Whole(disk'[i]))
    BY <1>4 DEF Files
  <2>4. 0 \in Nat /\ 1 > 0
    OBVIOUS
  <2> QED
    BY <1>1, <1>4, <2>1, <2>2, <2>3, <2>4, StartsAtEnd DEF Good, Whole
<1>5. CASE StartEmpty
  <2>1. /\ FromGenesis("main") /\ disk' = [disk EXCEPT !.main = G] /\ damaged' = damaged
    BY <1>5 DEF StartEmpty, G
  <2>2. disk' = [main |-> G, temp |-> disk.temp]
    BY <2>1, <1>3
  <2>3. /\ "main" \in Files /\ disk'["main"] = G /\ disk'.main = G /\ disk'.temp = disk.temp
        /\ disk' = [main |-> disk'.main, temp |-> disk'.temp]
    BY <2>2 DEF Files
  <2> QED
    BY <2>1, <2>3, <1>2, <1>3, <1>4
<1>6. CASE StartFallback
  <2>1. /\ FromGenesis("temp") /\ disk' = [disk EXCEPT !.temp = G] /\ damaged' = damaged
    BY <1>6 DEF StartFallback, G
  <2>2. disk' = [main |-> disk.main, temp |-> G]
    BY <2>1, <1>3
  <2>3. /\ "temp" \in Files /\ disk'["temp"] = G /\ disk'.temp = G /\ disk'.main = disk.main
        /\ disk' = [main |-> disk'.main, temp |-> disk'.temp]
    BY <2>2 DEF Files
  <2> QED
    BY <2>1, <2>3, <1>2, <1>3, <1>4
<1>7. CASE StartOpenFails
  <2>1. PICK f \in {disk.main} \cup
                   {<<t>> : t \in {l \in Torn(Genesis(boots + 1)) : disk.main = <<>>}} :
            /\ disk' = [main |-> f, temp |-> G]
            /\ damaged' = (damaged \/ f # disk.main)
    BY <1>7 DEF StartOpenFails, G
  <2>2. /\ "temp" \in Files /\ disk'["temp"] = G /\ disk'.temp = G /\ disk'.main = f
        /\ disk' = [main |-> disk'.main, temp |-> disk'.temp]
    BY <2>1 DEF Files
  <2>3. Good(f)
    <3>1. ASSUME NEW t \in Torn(Genesis(b)), f = << t >> PROVE Good(f)
      <4>1. WellFormed(t)
        BY <3>1, <1>1, TornLine
      <4> QED
        BY <4>1, <3>1, OneLine DEF Good
    <3>2. CASE f = disk.main
      BY <3>2, <1>3
    <3> QED
      BY <3>1, <3>2, <2>1
  <2>4. ~ damaged' => Whole(f)
    BY <2>1, <1>3
  <2>5. FromGenesis("temp")
    BY <1>7 DEF StartOpenFails
  <2> QED
    BY <2>2, <2>3, <2>4, <2>5, <1>2, <1>4
<1>8. CASE StartRecovered
  <2>1. /\ Recoverable(disk.main) /\ Booted /\ open' = "main"
        /\ synced' = Len(disk.main) /\ bootLine' = Len(disk.main)
        /\ lastSeq' = disk.main[Len(disk.main)].seq
        /\ lastHash' = disk.main[Len(disk.main)].hash
        /\ disk' = disk /\ damaged' = damaged
    BY <1>8 DEF StartRecovered, Recovered
  <2>2. Journal' = disk.main /\ "main" \in Files
    BY <2>1 DEF Journal, Files
  <2>3. Len(disk.main) \in Nat /\ Len(disk.main) > 0
    BY <2>1, <1>3, SeqLen DEF Recoverable, Good
  <2>4. lastSeq' \in Nat
    <3>1. WellFormed(disk.main[Len(disk.main)]) /\ Readable(disk.main[Len(disk.main)])
      BY <2>1, <2>3, <1>3 DEF Recoverable, Last, Good
    <3> QED
      BY <3>1, <2>1 DEF WellFormed, IsLine
  <2>5. \A i \in Files : Good(disk'[i]) /\ (~ damaged' => Whole(disk'[i]))
    BY <2>1, <1>3 DEF Files
  <2> QED
    BY <2>1, <2>2, <2>3, <2>4, <2>5, <1>3, StartsAtEnd DEF Good, Whole
<1> QED
  BY <1>5, <1>6, <1>7, <1>8

-----------------------------------------------------------------------------
\* Every step of the ledger preserves the invariant.
LEMMA LedgerNextInv == LedgerInv /\ [LedgerNext]_ledgerVars => LedgerInv'
<1> SUFFICES ASSUME LedgerInv, [LedgerNext]_ledgerVars PROVE LedgerInv'
  OBVIOUS
<1>1. RingInv' /\ FlagTypes'
  BY LedgerKeepsRing, FlagsKept DEF LedgerInv
<1>2. LedgerViews'
  <2>1. CASE StartEmpty \/ StartFallback \/ StartOpenFails \/ StartRecovered
    BY <2>1, BootSteps
  <2>2. CASE Crash
    BY <2>2, CrashStep
  <2>3. CASE \E p \in Producers : RecordBegins(p) \/ RecordRefused(p) \/ RecordStep(p)
    BY <2>3, RecordSteps
  <2>4. CASE WriterStep
    BY <2>4, PopSteps, PopReturns, DrainEnds, FlushTurn, FlushReturns DEF WriterStep
  <2>5. CASE CloseBegins \/ CloseStep
    BY <2>5, CloseSteps
  <2>6. CASE UNCHANGED ledgerVars
    <3>1. UNCHANGED <<head, tail, pc, claimed, delivered, disk, open, synced, lastSeq,
                      lastHash, wpc, batch, pending, resume, closed, stop, opc, atClose,
                      damaged, bootLine>>
      BY <2>6 DEF ledgerVars, ringVars, journalVars, writerVars, closeVars, bootVars
    <3>2. LedgerShape' /\ WriterView'
      BY <3>1, ShapeFrame DEF LedgerInv, LedgerShape, WriterView, Up, Journal
    <3>3. ChainView' /\ OrderView'
      BY <3>1, ChainFrame, OrderFrame DEF LedgerInv, Up
    <3>4. CloseView'
      BY <3>1 DEF LedgerInv, CloseView, Finishing
    <3> QED
      BY <3>2, <3>3, <3>4 DEF LedgerViews
  <2> QED
    BY <2>1, <2>2, <2>3, <2>4, <2>5, <2>6 DEF LedgerNext
<1> QED
  BY <1>1, <1>2 DEF LedgerInv, LedgerViews

LEMMA LedgerInvariant == LedgerSpec => []LedgerInv
  BY LedgerInitInv, LedgerNextInv, PTL DEF LedgerSpec

(***************************************************************************)
(* Type correctness of the ledger: only records, never nil, enter a batch  *)
(* or the journal, and every line that can be read has a sequence number.  *)
(***************************************************************************)
THEOREM LedgerTypeCorrect == LedgerSpec => []LedgerTypeOK
<1>1. LedgerInv => LedgerTypeOK
  <2> SUFFICES ASSUME LedgerInv PROVE LedgerTypeOK
    OBVIOUS
  <2>1. {closed, stop, damaged} \subseteq BOOLEAN
    BY DEF LedgerInv, FlagTypes
  <2>2. \A j \in {"main", "temp"} : \A i \in 1 .. Len(disk[j]) : IsLine(disk[j][i])
    BY DEF LedgerInv, LedgerShape, WellFormed, Files
  <2>3. \A i \in 1 .. Len(batch) : batch[i] \in Record
    BY ElementOfSeq DEF LedgerInv, LedgerShape
  <2> QED
    BY <2>1, <2>2, <2>3 DEF LedgerInv, LedgerShape, LedgerTypeOK, Files
<1> QED
  BY <1>1, LedgerInvariant, PTL

(***************************************************************************)
(* The chain that flushBatch continues and recoverLastRecord picks up      *)
(* after a restart verifies, for any number of crashes and restarts, as    *)
(* long as no write failed and no line was torn.                           *)
(***************************************************************************)
THEOREM LedgerChainIntact == LedgerSpec => []ChainIntact
<1>1. LedgerInv => ChainIntact
  BY DEF LedgerInv, ChainView, ChainIntact, VerifyChain, Files, Last
<1> QED
  BY <1>1, LedgerInvariant, PTL

(***************************************************************************)
(* flushBatch writes what Pop returned, in that order and once each; and a *)
(* journal that verifies has no gap, whatever writes failed.               *)
(***************************************************************************)
THEOREM LedgerFollowsRing == LedgerSpec => []JournalFollowsRing
<1>1. LedgerInv => JournalFollowsRing
  <2> SUFFICES ASSUME LedgerInv, Up PROVE JournalFollowsRing
    BY DEF JournalFollowsRing
  <2> DEFINE n == Len(Journal) - bootLine
             W == WrittenSinceBoot
             B == SubSeq(batch, pending + 1, Len(batch))
  <2>1. /\ Len(Journal) \in Nat /\ bootLine \in 1 .. Len(Journal)
        /\ batch \in Seq(Record) /\ pending \in 0 .. Len(batch) /\ Len(batch) \in Nat
        /\ delivered \in Seq(Record) /\ Len(delivered) \in Nat
    BY SeqLen DEF LedgerInv, LedgerShape, WriterView, RingInv, RingTypeOK, Journal
  <2>2. /\ Len(batch) <= Len(delivered)
        /\ \A i \in 1 .. Len(batch) :
               batch[i] = delivered[Len(delivered) - Len(batch) + i]
        /\ n <= Flushed
        /\ ~ damaged => n = Flushed
        /\ VerifyChain(Journal) => \A k \in 0 .. n : FollowsFrom(k)
    BY DEF LedgerInv, OrderView
  <2>3. n \in Nat /\ Flushed \in 0 .. Len(delivered)
        /\ Flushed = Len(delivered) - Len(batch) + pending
    BY <2>1, <2>2 DEF Flushed
  <2> HIDE DEF n
  <2>4. ASSUME VerifyChain(Journal)
        PROVE  W = SubSeq(delivered, 1, n) /\ W \in Seq(Record) /\ Len(W) = n
               /\ \A i \in 1 .. n : W[i] = delivered[i]
    <3>1. ASSUME NEW i \in 1 .. n PROVE Journal[bootLine + i].rec = delivered[i]
      BY <2>2, <2>3, <2>4 DEF FollowsFrom
    <3>2. W = [i \in 1 .. n |-> delivered[i]]
      BY <3>1 DEF WrittenSinceBoot, n
    <3>3. n \in 0 .. Len(delivered)
      BY <2>1, <2>2, <2>3
    <3>4. SubSeq(delivered, 1, n) = [i \in 1 .. n |-> delivered[i]]
      BY <3>3, <2>1, <2>3
    <3>5. /\ SubSeq(delivered, 1, n) \in Seq(Record)
          /\ Len(SubSeq(delivered, 1, n)) = n
      BY <3>3, <2>1, <2>3
    <3> QED
      BY <3>2, <3>4, <3>5
  <2>5. ASSUME ~ damaged PROVE W \o B = delivered
    <3>1. VerifyChain(Journal)
      BY <2>5 DEF LedgerInv, LedgerShape, ChainView, VerifyChain, Journal
    <3>2. n = Flushed /\ Len(delivered) = n + (Len(batch) - pending)
      BY <2>1, <2>2, <2>3, <2>5
    <3>3. /\ B \in Seq(Record) /\ Len(B) = Len(batch) - pending
          /\ \A i \in 1 .. Len(batch) - pending : B[i] = batch[pending + i]
      BY <2>1
    <3>a. W \in Seq(Record) /\ Len(W) = n /\ \A i \in 1 .. n : W[i] = delivered[i]
      BY <2>4, <3>1
    <3> HIDE DEF W, B
    <3>b. /\ W \o B \in Seq(Record) /\ Len(W \o B) = Len(W) + Len(B)
          /\ \A i \in 1 .. Len(W) + Len(B) :
                 (W \o B)[i] = IF i <= Len(W) THEN W[i] ELSE B[i - Len(W)]
      BY <3>3, <3>a, ConcatProperties
    <3>4. /\ W \o B \in Seq(Record) /\ Len(W \o B) = Len(delivered)
          /\ \A i \in 1 .. Len(delivered) :
                 (W \o B)[i] = IF i <= n THEN W[i] ELSE B[i - n]
      BY <3>2, <3>3, <3>a, <3>b
    <3>5. ASSUME NEW i \in 1 .. Len(delivered) PROVE (W \o B)[i] = delivered[i]
      <4>1. CASE i <= n
        BY <4>1, <3>4, <3>a, <2>3
      <4>2. CASE i > n
        <5>1. i - n \in 1 .. Len(batch) - pending
          BY <4>2, <3>2, <2>1, <2>3
        <5>2. pending + (i - n) \in 1 .. Len(batch)
              /\ Len(delivered) - Len(batch) + (pending + (i - n)) = i
          BY <4>2, <3>2, <2>1, <2>3
        <5>3. (W \o B)[i] = B[i - n]
          <6>1. ~ (i <= n)
            BY <4>2, <2>1, <2>3
          <6> QED
            BY <6>1, <3>4
        <5>4. B[i - n] = batch[pending + (i - n)]
          BY <5>1, <3>3
        <5>5. batch[pending + (i - n)] = delivered[i]
          BY <5>2, <2>2
        <5> QED
          BY <5>3, <5>4, <5>5
      <4>3. i <= n \/ i > n
        BY <2>1, <2>3
      <4> QED
        BY <4>1, <4>2, <4>3
    <3> QED
      BY <3>4, <3>5, <2>1, SeqEqual
  <2> QED
    BY <2>4, <2>5 DEF JournalFollowsRing, n
<1> QED
  BY <1>1, LedgerInvariant, PTL

(***************************************************************************)
(* A Close that begins while no Record is under way returns with every     *)
(* acknowledged record in the journal, unless a write failed.              *)
(***************************************************************************)
THEOREM LedgerQuietClose == LedgerSpec => []QuietCloseFlushes
<1>1. LedgerInv => QuietCloseFlushes
  <2> SUFFICES ASSUME LedgerInv, opc = "closed", atClose.quiet, ~ damaged,
                      NEW r \in atClose.acked
               PROVE  OnDisk(r)
    BY DEF QuietCloseFlushes
  <2>1. wpc = "done" /\ closed /\ tail = head /\ Up
    BY DEF LedgerInv, CloseView, Finishing, Up
  <2>2. PICK i \in 1 .. Len(claimed) : claimed[i] = r
    BY <2>1 DEF LedgerInv, CloseView
  <2>3. i \in 1 .. Len(delivered) /\ delivered[i] = r /\ Len(delivered) \in Nat
    BY <2>1, <2>2 DEF LedgerInv, RingInv, RingTypeOK, SlotOwnership, CursorsAgree,
                      CloseView
  <2>4. /\ Len(Journal) \in Nat /\ bootLine \in 1 .. Len(Journal)
        /\ \A k \in 1 .. Len(Journal) : Journal[k].kind = "entry"
        /\ VerifyChain(Journal)
    BY <2>1, SeqLen DEF LedgerInv, LedgerShape, WriterView, Journal, ChainView, VerifyChain
  <2>5. Len(Journal) - bootLine = Len(delivered)
    <3>1. Flushed = Len(delivered)
      BY <2>1, <2>3 DEF LedgerInv, WriterView, Flushed
    <3> QED
      BY <3>1, <2>1 DEF LedgerInv, OrderView
  <2>6. FollowsFrom(i)
    BY <2>1, <2>3, <2>4, <2>5 DEF LedgerInv, OrderView
  <2>7. bootLine + i \in 1 .. Len(Journal) /\ i > 0
    BY <2>3, <2>4, <2>5
  <2> QED
    BY <2>3, <2>4, <2>6, <2>7 DEF FollowsFrom, OnDisk, Readable
<1> QED
  BY <1>1, LedgerInvariant, PTL
==============================================================================
