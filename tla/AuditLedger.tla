----------------------------- MODULE AuditLedger -----------------------------
(***************************************************************************)
(* The hash-chained audit journal (internal/audit/ledger.go and verify.go, *)
(* opened by internal/server/server.go), composed with the ring buffer of  *)
(* AuditRing: request handlers call Record, the writer goroutine drains    *)
(* the ring into a batch and appends the batch to the journal, and         *)
(* shutdown calls Close.  The process may crash at any point and start     *)
(* again, a write may fail or be torn, and a crash may lose or tear what   *)
(* was not yet synced.                                                     *)
(*                                                                         *)
(* A journal is a sequence of lines.  The HMAC of a line is the tuple of   *)
(* what goes into it, so two hashes are equal exactly if their inputs are. *)
(***************************************************************************)
EXTENDS AuditRing, SequencesExt

CONSTANTS BatchLimit,  \* records after which the writer flushes early (256)
          MaxBoots,    \* bound: starts of the process
          MaxFaults    \* bound: writes that fail

ASSUME BatchLimitAssumption == BatchLimit \in Nat \ {0}

VARIABLES disk,        \* the configured journal and the fallback in /tmp
          open,        \* which of the two this process writes to
          synced,      \* lines of the open journal that survive a crash
          lastSeq, lastHash,
          wpc,         \* where the writer goroutine is; "down": no process
          batch,       \* records popped and not yet written
          pending,     \* records of the batch that flushBatch has written
          resume,      \* where the writer goes on after flushBatch
          closed,      \* the closed flag
          stop,        \* whether stopChan is closed
          opc,         \* where Close is
          boots, faults,
          damaged,     \* history: a write failed or a crash tore a line
          bootLine,    \* history: lines the journal had when it was opened
          atClose      \* history: what was acknowledged when Close began

journalVars == <<disk, open, synced, lastSeq, lastHash>>
writerVars == <<wpc, batch, pending, resume>>
closeVars == <<closed, stop, opc, atClose>>
bootVars == <<boots, faults, damaged, bootLine>>
ledgerVars == <<ringVars, journalVars, writerVars, closeVars, bootVars>>

-----------------------------------------------------------------------------
(***************************************************************************)
(* Lines.  "entry" is complete, "bare" lacks only its newline, "part" was  *)
(* cut short, "bad" is terminated but cannot be parsed.                    *)
(***************************************************************************)
GenesisHash(boot) == <<"GENESIS", boot>>
EntryHash(prev, seq, rec) == <<prev, seq, rec>>

Genesis(boot) == [kind |-> "entry", seq |-> 0, prev |-> NULL,
                  hash |-> GenesisHash(boot), rec |-> NULL, boot |-> boot]

Entry(prev, seq, rec) == [kind |-> "entry", seq |-> seq, prev |-> prev,
                          hash |-> EntryHash(prev, seq, rec), rec |-> rec,
                          boot |-> 0]

Readable(line) == line.kind \in {"entry", "bare"}
Unterminated(line) == line.kind \in {"bare", "part"}

\* What a write that is cut short leaves of a line.
Torn(line) == {[kind |-> "part"], [line EXCEPT !.kind = "bare"]}

\* O_APPEND: a line written after an unterminated one continues that one.
AppendTo(f, line) ==
    IF f # <<>> /\ Unterminated(Last(f))
    THEN Front(f) \o << [kind |-> IF Unterminated(line) THEN "part" ELSE "bad"] >>
    ELSE Append(f, line)

Journal == disk[open]

(***************************************************************************)
(* VerifyChain.  The loop carries prevHash and lastSeq from the line       *)
(* before, so line i is checked against line i - 1.                        *)
(***************************************************************************)
LineVerifies(f, i) ==
    /\ Readable(f[i])
    /\ IF f[i].seq = 0
       THEN f[i].hash = GenesisHash(f[i].boot)
       ELSE /\ i > 1 => f[i].seq = f[i - 1].seq + 1 /\ f[i].prev = f[i - 1].hash
            /\ f[i].hash = EntryHash(f[i].prev, f[i].seq, f[i].rec)

VerifyChain(f) == \A i \in 1 .. Len(f) : LineVerifies(f, i)

-----------------------------------------------------------------------------
LedgerInit ==
    /\ RingInit
    /\ disk = [main |-> <<>>, temp |-> <<>>]
    /\ open = "main"
    /\ synced = 0
    /\ lastSeq = 0
    /\ lastHash = NULL
    /\ wpc = "down"
    /\ batch = <<>>
    /\ pending = 0
    /\ resume = "select"
    /\ closed = FALSE
    /\ stop = FALSE
    /\ opc = "idle"
    /\ boots = 0
    /\ faults = 0
    /\ damaged = FALSE
    /\ bootLine = 0
    /\ atClose = [acked |-> {}, quiet |-> TRUE]

Up == wpc # "down"

(***************************************************************************)
(* NewServer opens the configured journal; when that fails it opens a new  *)
(* file in the temporary directory instead.                                *)
(***************************************************************************)
\* Mutant of Recovered: the chain is continued from the first line.
RecoveredFirst(f) == f[1]

\* recoverLastRecord: the last line, if it can be parsed.
Recovered(f) == f[Len(f)]

Recoverable(f) == f # <<>> /\ Readable(Last(f))

Booted ==
    /\ wpc = "down"
    /\ boots < MaxBoots
    /\ boots' = boots + 1
    /\ wpc' = "drain"
    /\ UNCHANGED <<ringVars, batch, pending, resume, closeVars>>

\* The chain of a new file begins with the genesis record.
FromGenesis(j) ==
    /\ Booted
    /\ open' = j
    /\ synced' = 1
    /\ lastSeq' = 0
    /\ lastHash' = GenesisHash(boots + 1)
    /\ bootLine' = 1

StartEmpty ==
    /\ disk.main = <<>>
    /\ FromGenesis("main")
    /\ disk' = [disk EXCEPT !.main = <<Genesis(boots + 1)>>]
    /\ UNCHANGED <<faults, damaged>>

StartFallback ==
    /\ disk.main # <<>>
    /\ ~ Recoverable(disk.main)
    /\ FromGenesis("temp")
    /\ disk' = [disk EXCEPT !.temp = <<Genesis(boots + 1)>>]
    /\ UNCHANGED <<faults, damaged>>

\* The configured file cannot be opened, or its genesis record not be written.
StartOpenFails ==
    /\ faults < MaxFaults
    /\ FromGenesis("temp")
    /\ \E f \in {disk.main} \cup
              {<<t>> : t \in {l \in Torn(Genesis(boots + 1)) : disk.main = <<>>}} :
          /\ disk' = [main |-> f, temp |-> <<Genesis(boots + 1)>>]
          /\ damaged' = (damaged \/ f # disk.main)
    /\ faults' = faults + 1

StartRecovered ==
    /\ Recoverable(disk.main)
    /\ Booted
    /\ open' = "main"
    /\ synced' = Len(disk.main)
    /\ lastSeq' = Recovered(disk.main).seq
    /\ lastHash' = Recovered(disk.main).hash
    /\ bootLine' = Len(disk.main)
    /\ UNCHANGED <<disk, faults, damaged>>

(***************************************************************************)
(* The process dies.  Everything in memory is gone; of the journal, the    *)
(* synced lines stay, and after them a prefix that may end in a torn line. *)
(***************************************************************************)
\* What may be left of f when its first n lines are safe.
Survivors(f, n) ==
    {SubSeq(f, 1, k) : k \in n .. Len(f)}
        \cup UNION {{Append(SubSeq(f, 1, k), t) : t \in Torn(f[k + 1])}
                    : k \in {j \in n .. Len(f) - 1 : f[j + 1].kind = "entry"}}

Crash ==
    /\ Up
    /\ \E f \in Survivors(Journal, synced) :
          /\ disk' = [disk EXCEPT ![open] = f]
          /\ damaged' = (damaged \/ (f # <<>> /\ Unterminated(Last(f))))
          /\ synced' = Len(f)
    /\ head' = 0 /\ tail' = 0 /\ notify' = FALSE
    /\ slots' = [k \in 0 .. Size - 1 |-> NULL]
    /\ pc' = [p \in Producers |-> "idle"]
    /\ seenHead' = [p \in Producers |-> 0]
    /\ cpc' = "idle" /\ popped' = NULL
    /\ claimed' = <<>> /\ delivered' = <<>>
    /\ wpc' = "down" /\ batch' = <<>> /\ pending' = 0 /\ resume' = "select"
    /\ closed' = FALSE /\ stop' = FALSE /\ opc' = "idle"
    /\ atClose' = [acked |-> {}, quiet |-> TRUE]
    /\ UNCHANGED <<calls, open, lastSeq, lastHash, boots, faults, bootLine>>

(***************************************************************************)
(* Record: refused once the ledger is closed, else TryPush.                *)
(***************************************************************************)
RecordBegins(p) ==
    /\ Up
    /\ ~ closed
    /\ BeginPush(p)
    /\ UNCHANGED <<journalVars, writerVars, closeVars, bootVars>>

\* Record returns ErrClosed.
RecordRefused(p) ==
    /\ Up
    /\ closed
    /\ pc[p] = "idle"
    /\ calls[p] < MaxCalls
    /\ calls' = [calls EXCEPT ![p] = @ + 1]
    /\ UNCHANGED <<head, tail, slots, notify, pc, seenHead, consumerVars,
                   claimed, delivered>>
    /\ UNCHANGED <<journalVars, writerVars, closeVars, bootVars>>

RecordStep(p) ==
    /\ Up
    /\ PushStep(p)
    /\ UNCHANGED <<journalVars, writerVars, closeVars, bootVars>>

\* Record has returned nil for r.
Acked(r) == /\ \E i \in 1 .. Len(claimed) : claimed[i] = r
            /\ calls[r[1]] > r[2] \/ pc[r[1]] = "idle"

(***************************************************************************)
(* writerLoop                                                              *)
(***************************************************************************)
FlushThen(next) ==
    /\ wpc' = "flush"
    /\ pending' = 0
    /\ resume' = next
    /\ UNCHANGED batch

Popping == wpc \in {"drain", "stopDrain"}

WriterPopStep ==
    /\ Popping
    /\ PopBegin \/ PopRead \/ PopClear
    /\ UNCHANGED <<journalVars, writerVars, closeVars, bootVars>>

\* Pop returns a record.  Only the main loop flushes a full batch early.
WriterPops ==
    /\ Popping
    /\ PopAdvance
    /\ batch' = Append(batch, popped)
    /\ IF wpc = "drain" /\ Len(batch) + 1 >= BatchLimit
       THEN wpc' = "flush" /\ pending' = 0 /\ resume' = "drain"
       ELSE UNCHANGED <<wpc, pending, resume>>
    /\ UNCHANGED <<journalVars, closeVars, bootVars>>

\* Mutant of MustFlush: a batch waits until it is full.
MustFlushFull == Len(batch) >= BatchLimit

\* flushBatch does nothing for an empty batch.
MustFlush == Len(batch) > 0

\* Pop returns nil, because nothing is reserved or because the next record
\* has not been stored yet.
WriterDrained ==
    /\ PopGiveUp \/ (PopEmpty /\ UNCHANGED ringVars)
    /\ \/ /\ wpc = "drain"
          /\ IF MustFlush THEN FlushThen("select")
             ELSE wpc' = "select" /\ UNCHANGED <<batch, pending, resume>>
       \/ /\ wpc = "stopDrain"
          /\ IF Len(batch) > 0 THEN FlushThen("done")
             ELSE wpc' = "done" /\ UNCHANGED <<batch, pending, resume>>
    /\ UNCHANGED <<journalVars, closeVars, bootVars>>

\* One turn of flushBatch's loop: the chain moves on whatever Write returns.
FlushOne ==
    /\ wpc = "flush"
    /\ pending < Len(batch)
    /\ pending' = pending + 1
    /\ lastSeq' = lastSeq + 1
    /\ lastHash' = EntryHash(lastHash, lastSeq + 1, batch[pending + 1])

NextLine == Entry(lastHash, lastSeq + 1, batch[pending + 1])

WriteLine ==
    /\ FlushOne
    /\ disk' = [disk EXCEPT ![open] = AppendTo(@, NextLine)]
    /\ UNCHANGED <<ringVars, open, synced, wpc, batch, resume, closeVars,
                   bootVars>>

\* Mutant of WriteFails: a record that could not be written is skipped, and
\* the next one takes its place in the chain.
WriteSkips ==
    /\ faults < MaxFaults
    /\ wpc = "flush"
    /\ pending < Len(batch)
    /\ pending' = pending + 1
    /\ faults' = faults + 1
    /\ damaged' = TRUE
    /\ UNCHANGED <<ringVars, disk, open, lastSeq, lastHash, synced, wpc, batch, resume,
                   closeVars, boots, bootLine>>

\* Write fails having written nothing or a part; the error is ignored.
WriteFails ==
    /\ faults < MaxFaults
    /\ FlushOne
    /\ \E f \in {Journal} \cup {AppendTo(Journal, t) : t \in Torn(NextLine)} :
          disk' = [disk EXCEPT ![open] = f]
    /\ faults' = faults + 1
    /\ damaged' = TRUE
    /\ UNCHANGED <<ringVars, open, synced, wpc, batch, resume, closeVars, boots,
                   bootLine>>

\* Sync, whose error is ignored as well, and the end of flushBatch.
FlushEnds ==
    /\ wpc = "flush"
    /\ pending = Len(batch)
    /\ synced' \in {synced, Len(Journal)}
    /\ batch' = << >>
    /\ pending' = 0
    /\ wpc' = resume
    /\ UNCHANGED <<ringVars, disk, open, lastSeq, lastHash, resume, closeVars,
                   bootVars>>

SelectNotify ==
    /\ wpc = "select"
    /\ RecvNotify
    /\ wpc' = "drain"
    /\ UNCHANGED <<journalVars, batch, pending, resume, closeVars, bootVars>>

SelectTicker ==
    /\ wpc = "select"
    /\ wpc' = "drain"
    /\ UNCHANGED <<ringVars, journalVars, batch, pending, resume, closeVars,
                   bootVars>>

\* Mutant of SelectStop: the writer leaves without a last drain.
SelectStopAtOnce ==
    /\ wpc = "select"
    /\ stop
    /\ wpc' = "done"
    /\ UNCHANGED <<ringVars, journalVars, batch, pending, resume, closeVars,
                   bootVars>>

SelectStop ==
    /\ wpc = "select"
    /\ stop
    /\ wpc' = "stopDrain"
    /\ UNCHANGED <<ringVars, journalVars, batch, pending, resume, closeVars,
                   bootVars>>

(***************************************************************************)
(* Close                                                                   *)
(***************************************************************************)
CloseBegins ==
    /\ Up
    /\ ~ closed
    /\ closed' = TRUE
    /\ opc' = "stop"
    /\ atClose' = [acked |-> {r \in Record : Acked(r)},
                   quiet |-> \A p \in Producers : pc[p] = "idle"]
    /\ UNCHANGED <<ringVars, journalVars, writerVars, stop, bootVars>>

\* Mutant of CloseStops: stopChan is not closed.
CloseForgetsStop ==
    /\ opc = "stop"
    /\ opc' = "wait"
    /\ UNCHANGED <<ringVars, journalVars, writerVars, closed, stop, atClose,
                   bootVars>>

CloseStops ==
    /\ opc = "stop"
    /\ stop' = TRUE
    /\ opc' = "wait"
    /\ UNCHANGED <<ringVars, journalVars, writerVars, closed, atClose, bootVars>>

\* The writer is done: a last sync, then the file is closed.
CloseReturns ==
    /\ opc = "wait"
    /\ wpc = "done"
    /\ opc' = "closed"
    /\ synced' \in {synced, Len(Journal)}
    /\ UNCHANGED <<ringVars, disk, open, lastSeq, lastHash, writerVars, closed,
                   stop, atClose, bootVars>>

-----------------------------------------------------------------------------
WriterStep ==
    \/ WriterPopStep \/ WriterPops \/ WriterDrained
    \/ WriteLine \/ WriteFails \/ FlushEnds
    \/ SelectNotify \/ SelectTicker \/ SelectStop

CloseStep == CloseStops \/ CloseReturns

LedgerNext ==
    \/ StartEmpty \/ StartFallback \/ StartOpenFails \/ StartRecovered
    \/ Crash
    \/ \E p \in Producers : RecordBegins(p) \/ RecordRefused(p) \/ RecordStep(p)
    \/ WriterStep
    \/ CloseBegins \/ CloseStep

LedgerSpec == LedgerInit /\ [][LedgerNext]_ledgerVars

\* The scheduler runs every goroutine that can run; select takes the stop
\* case in the end if stopChan stays closed, because it chooses at random.
LedgerFairness ==
    /\ \A p \in Producers : WF_ledgerVars(RecordStep(p))
    /\ WF_ledgerVars(WriterStep)
    /\ SF_ledgerVars(SelectStop)
    /\ WF_ledgerVars(CloseStep)

LedgerFairSpec == LedgerSpec /\ LedgerFairness

-----------------------------------------------------------------------------
IsLine(l) ==
    /\ l.kind \in {"entry", "bare", "part", "bad"}
    /\ Readable(l) => l.seq \in Nat /\ l.rec \in Record \cup {NULL}

(***************************************************************************)
(* Type invariant: only records, never nil, enter a batch or the journal.  *)
(***************************************************************************)
LedgerTypeOK ==
    /\ \A j \in {"main", "temp"} : \A i \in 1 .. Len(disk[j]) : IsLine(disk[j][i])
    /\ open \in {"main", "temp"}
    /\ synced \in 0 .. Len(Journal)
    /\ lastSeq \in Nat
    /\ wpc \in {"down", "drain", "flush", "select", "stopDrain", "done"}
    /\ \A i \in 1 .. Len(batch) : batch[i] \in Record
    /\ pending \in 0 .. Len(batch)
    /\ resume \in {"drain", "select", "done"}
    /\ {closed, stop, damaged} \subseteq BOOLEAN
    /\ opc \in {"idle", "stop", "wait", "closed"}

(***************************************************************************)
(* As long as no write has failed and no crash has torn a line, VerifyChain*)
(* accepts both journals, also after crashes that lost whole lines and     *)
(* restarts that continued the chain; and while the process runs, lastSeq  *)
(* and lastHash are those of the journal's last line.                      *)
(***************************************************************************)
ChainIntact ==
    ~ damaged =>
        /\ VerifyChain(disk.main) /\ VerifyChain(disk.temp)
        /\ Up => /\ lastSeq = Last(Journal).seq
                 /\ lastHash = Last(Journal).hash

\* The records written since the journal was opened.
WrittenSinceBoot ==
    [i \in 1 .. Len(Journal) - bootLine |-> Journal[bootLine + i].rec]

(***************************************************************************)
(* Nothing is written twice, skipped or reordered between the ring and the *)
(* file: without write faults the journal holds exactly what Pop returned, *)
(* in that order.  And no write that failed leaves a silent gap: a journal *)
(* that VerifyChain accepts begins with what Pop returned first.           *)
(***************************************************************************)
JournalFollowsRing ==
    Up =>
        /\ ~ damaged =>
               WrittenSinceBoot \o SubSeq(batch, pending + 1, Len(batch)) = delivered
        /\ VerifyChain(Journal) =>
               WrittenSinceBoot = SubSeq(delivered, 1, Len(Journal) - bootLine)

OnDisk(r) == \E i \in 1 .. Len(Journal) :
                 Readable(Journal[i]) /\ Journal[i].rec = r

(***************************************************************************)
(* A quiet shutdown loses nothing: if no call to Record was under way when *)
(* Close began, then when Close returns every acknowledged record is in    *)
(* the journal (unless a write failed).                                    *)
(***************************************************************************)
QuietCloseFlushes ==
    opc = "closed" /\ atClose.quiet /\ ~ damaged =>
        \A r \in atClose.acked : OnDisk(r)

(***************************************************************************)
(* An acknowledged record reaches the journal, unless the process crashes  *)
(* or is shut down first, or a write fails.                                *)
(***************************************************************************)
AckedReachesDisk ==
    \A r \in Record : Acked(r) ~> (OnDisk(r) \/ ~ Up \/ closed \/ damaged)

(***************************************************************************)
(* Close returns: the writer notices stopChan, whatever else keeps it busy.*)
(***************************************************************************)
CloseTerminates == closed ~> (opc = "closed" \/ ~ Up)
==============================================================================
