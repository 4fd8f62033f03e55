---------------------------- MODULE StreamWindow -----------------------------
(***************************************************************************)
(* The sliding lookahead window through which a streamed (SSE) response    *)
(* passes on its way to the client (internal/outbound/lookahead.go,        *)
(* SlidingWindowTransformer, as engine.go's ProcessStream uses it).        *)
(*                                                                         *)
(* A stream is abstracted to its length, the places where something        *)
(* sensitive occurs in it and the places that only look sensitive when an  *)
(* edge of the window happens to cut the text there (the \b of the         *)
(* detectors' patterns).  A place is a pair <<a, b>>: bytes a .. b - 1.    *)
(* The window buffer is then the interval of the bytes read but not yet    *)
(* flushed, flushed .. read - 1.                                           *)
(***************************************************************************)
EXTENDS Integers

CONSTANTS Streams,    \* the streams that the upstream may send
          Windows,    \* pairs <<windowSize, overlapSize>> in use
          ReadSize    \* the size of readBuf

Places(n) == {p \in (0 .. n) \X (0 .. n) : p[1] < p[2]}

IsStream(s) ==
    /\ s.length \in Nat
    /\ s.secrets \subseteq Places(s.length)
    /\ s.edges \subseteq Places(s.length)

ASSUME StreamsAssumption == \A s \in Streams : IsStream(s)
\* The constructor replaces sizes that are not positive by the defaults.
ASSUME WindowsAssumption == Windows \subseteq (Nat \ {0}) \X (Nat \ {0})
ASSUME ReadSizeAssumption == ReadSize \in Nat \ {0}

VARIABLES stream,     \* what the upstream sends
          windowSize,
          overlapSize,
          read,       \* bytes of the stream read so far
          flushed,    \* bytes of the stream written to the client so far
          pc,         \* where TransformStream is
          readErr,    \* the error that the last Read returned
          cancelled,  \* the client's context is done
          result      \* what TransformStream returned

inputVars == <<stream, windowSize, overlapSize>>
windowVars == <<stream, windowSize, overlapSize, read, flushed, pc, readErr,
                cancelled, result>>

Results == {"running", "ok", "tripwire", "cancelled", "readError",
            "writeError"}

WindowInit ==
    /\ stream \in Streams
    /\ \E w \in Windows : windowSize = w[1] /\ overlapSize = w[2]
    /\ read = 0
    /\ flushed = 0
    /\ pc = "select"
    /\ readErr = "none"
    /\ cancelled = FALSE
    /\ result = "running"

-----------------------------------------------------------------------------
\* len(windowBuf)
Held == read - flushed

\* Mutant of Flushable: no margin is kept.
FlushableAll == Held

Flushable == Held - overlapSize

(***************************************************************************)
(* Inspect finds what lies wholly inside the window, and what an edge of   *)
(* the window makes look like a match.                                     *)
(***************************************************************************)
InWindow(p) == flushed <= p[1] /\ p[2] <= read
AtEdge(p) == p[1] = flushed \/ p[2] = read

InspectFinds ==
    \/ \E p \in stream.secrets : InWindow(p)
    \/ \E p \in stream.edges : InWindow(p) /\ AtEdge(p)

\* TransformStream returns.  Every exit cancels the upstream request (defer);
\* the tripwire exit has by then recorded the violation on the pipeline
\* context, sent the SSE error frame and closed the client's socket.
Return(res) ==
    /\ pc' = "done"
    /\ result' = res

\* Write hands `upto - flushed` bytes to the client, or fails after some.
WriteFails(upto) ==
    /\ flushed' \in flushed .. upto
    /\ Return("writeError")
    /\ UNCHANGED <<inputVars, read, readErr, cancelled>>

-----------------------------------------------------------------------------
\* The client goes away, at any time.
ClientLeaves ==
    /\ pc # "done"
    /\ ~ cancelled
    /\ cancelled' = TRUE
    /\ UNCHANGED <<inputVars, read, flushed, pc, readErr, result>>

Select ==
    /\ pc = "select"
    /\ ~ cancelled
    /\ pc' = "read"
    /\ UNCHANGED <<inputVars, read, flushed, readErr, cancelled, result>>

SelectDone ==
    /\ pc = "select"
    /\ cancelled
    /\ Return("cancelled")
    /\ UNCHANGED <<inputVars, read, flushed, readErr, cancelled>>

\* Mutant of Read: the whole buffer is appended, not the n bytes read.
ReadWholeBuffer(n, err) ==
    /\ pc = "read"
    /\ read + n <= stream.length
    /\ err = "eof" => read + n = stream.length
    /\ read' = IF n > 0 THEN read + ReadSize ELSE read
    /\ readErr' = err
    /\ pc' = IF n > 0 THEN "drain" ELSE "settle"
    /\ UNCHANGED <<inputVars, flushed, cancelled, result>>

\* Read returns n bytes, with or without an error: the end of the stream may
\* come with the last bytes or after them, and a failure at any time.
Read(n, err) ==
    /\ pc = "read"
    /\ read + n <= stream.length
    /\ err = "eof" => read + n = stream.length
    /\ read' = read + n
    /\ readErr' = err
    /\ pc' = IF n > 0 THEN "drain" ELSE "settle"
    /\ UNCHANGED <<inputVars, flushed, cancelled, result>>

(***************************************************************************)
(* The loop that releases the head of a full window.                       *)
(***************************************************************************)
\* Mutant of WindowFull: the loop condition is off by a whole window.
WindowNeverFull == FALSE

WindowFull == Held >= windowSize

DrainTrips ==
    /\ pc = "drain"
    /\ WindowFull
    /\ InspectFinds
    /\ Return("tripwire")
    /\ UNCHANGED <<inputVars, read, flushed, readErr, cancelled>>

DrainFlushes ==
    /\ pc = "drain"
    /\ WindowFull
    /\ ~ InspectFinds
    /\ Flushable > 0
    /\ flushed' = flushed + Flushable
    /\ UNCHANGED <<inputVars, read, pc, readErr, cancelled, result>>

DrainWriteFails ==
    /\ pc = "drain"
    /\ WindowFull
    /\ ~ InspectFinds
    /\ Flushable > 0
    /\ WriteFails(flushed + Flushable)

\* Mutant of LoopEnds: no break when nothing can be released.
LoopEndsOnlyShort == ~ WindowFull

LoopEnds == ~ WindowFull \/ (~ InspectFinds /\ Flushable <= 0)

DrainEnds ==
    /\ pc = "drain"
    /\ LoopEnds
    /\ pc' = "settle"
    /\ UNCHANGED <<inputVars, read, flushed, readErr, cancelled, result>>

(***************************************************************************)
(* What follows depends on the error that came with the read.              *)
(***************************************************************************)
ReadAgain ==
    /\ pc = "settle"
    /\ readErr = "none"
    /\ pc' = "select"
    /\ UNCHANGED <<inputVars, read, flushed, readErr, cancelled, result>>

ReadFailed ==
    /\ pc = "settle"
    /\ readErr = "fail"
    /\ Return("readError")
    /\ UNCHANGED <<inputVars, read, flushed, readErr, cancelled>>

EndTrips ==
    /\ pc = "settle"
    /\ readErr = "eof"
    /\ Held > 0
    /\ InspectFinds
    /\ Return("tripwire")
    /\ UNCHANGED <<inputVars, read, flushed, readErr, cancelled>>

\* Mutant of EndFlushes: the held-back margin is dropped at the end.
EndDropsMargin ==
    /\ pc = "settle"
    /\ readErr = "eof"
    /\ Held = 0 \/ ~ InspectFinds
    /\ Return("ok")
    /\ UNCHANGED <<inputVars, read, flushed, readErr, cancelled>>

EndFlushes ==
    /\ pc = "settle"
    /\ readErr = "eof"
    /\ Held = 0 \/ ~ InspectFinds
    /\ flushed' = read
    /\ Return("ok")
    /\ UNCHANGED <<inputVars, read, readErr, cancelled>>

EndWriteFails ==
    /\ pc = "settle"
    /\ readErr = "eof"
    /\ Held > 0
    /\ ~ InspectFinds
    /\ WriteFails(read)

-----------------------------------------------------------------------------
TransformStep ==
    \/ Select
    \/ SelectDone
    \/ \E n \in 0 .. ReadSize, err \in {"none", "eof", "fail"} : Read(n, err)
    \/ DrainTrips \/ DrainFlushes \/ DrainWriteFails \/ DrainEnds
    \/ ReadAgain \/ ReadFailed
    \/ EndTrips \/ EndFlushes \/ EndWriteFails

WindowNext == ClientLeaves \/ TransformStep

WindowSpec == WindowInit /\ [][WindowNext]_windowVars

\* The goroutine runs, and a Read of a body whose request context is done
\* returns.
WindowFairSpec == WindowSpec /\ WF_windowVars(TransformStep)

-----------------------------------------------------------------------------
(***************************************************************************)
(* Type invariant: never more is flushed than was read, nor read than sent.*)
(***************************************************************************)
WindowTypeOK ==
    /\ IsStream(stream)
    /\ windowSize \in Nat \ {0}
    /\ overlapSize \in Nat \ {0}
    /\ read \in 0 .. stream.length
    /\ flushed \in 0 .. read
    /\ pc \in {"select", "read", "drain", "settle", "done"}
    /\ readErr \in {"none", "eof", "fail"}
    /\ readErr = "eof" => read = stream.length
    /\ cancelled \in BOOLEAN
    /\ result \in Results
    /\ pc = "done" <=> result # "running"

(***************************************************************************)
(* The secrets that the overlap margin is long enough for.  The code       *)
(* promises this for lengths up to overlapSize; one byte more is safe too. *)
(***************************************************************************)
Covered(p) == p[2] - p[1] <= overlapSize + 1

(***************************************************************************)
(* Zero-byte leakage: not one byte of a covered secret reaches the client, *)
(* however the upstream cuts the stream into reads, whichever write fails  *)
(* half way and whenever the client leaves.                                *)
(***************************************************************************)
NoLeak == \A p \in stream.secrets : Covered(p) => flushed <= p[1]

(***************************************************************************)
(* A stream that TransformStream reports as complete was delivered to the  *)
(* last byte and holds no covered secret anywhere; one that it aborts did  *)
(* contain a match.                                                        *)
(***************************************************************************)
VerdictIsRight ==
    /\ result = "ok" => /\ flushed = stream.length
                        /\ \A p \in stream.secrets : ~ Covered(p)
    /\ result = "tripwire" => stream.secrets \cup stream.edges # {}

\* The most that the window holds while TransformStream waits for a read.
HoldLimit == IF windowSize > overlapSize THEN windowSize - 1 ELSE overlapSize

(***************************************************************************)
(* Bounded delay and memory: whenever the release loop is done, and so     *)
(* whenever TransformStream waits for more data, it withholds less than a  *)
(* window (or the overlap, if that is larger).                             *)
(***************************************************************************)
BoundedHold == pc \in {"settle", "select", "read"} => Held <= HoldLimit

(***************************************************************************)
(* A client that leaves ends the stream: TransformStream returns, and with *)
(* it the upstream request is cancelled.                                   *)
(***************************************************************************)
LeavingEndsStream == cancelled ~> (pc = "done")
==============================================================================
