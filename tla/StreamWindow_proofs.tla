------------------------- MODULE StreamWindow_proofs -------------------------
(***************************************************************************)
(* Proofs about the lookahead window for streams of every length, secrets  *)
(* at every place, every window and overlap size and every way of cutting  *)
(* the stream into reads.                                                  *)
(***************************************************************************)
EXTENDS StreamWindow, TLAPS

WindowInv == WindowTypeOK /\ NoLeak /\ VerdictIsRight /\ BoundedHold

\* What the type invariant says of a sensitive place.
LEMMA PlaceBounds ==
    ASSUME IsStream(stream), NEW p \in stream.secrets \cup stream.edges
    PROVE  /\ p[1] \in Nat /\ p[2] \in Nat
           /\ p[1] < p[2] /\ p[2] <= stream.length
  BY DEF IsStream, Places

LEMMA InitEstablishesInv == WindowInit => WindowInv
<1> SUFFICES ASSUME WindowInit PROVE WindowInv
  OBVIOUS
<1>1. WindowTypeOK
  <2>1. IsStream(stream)
    BY StreamsAssumption DEF WindowInit
  <2>2. windowSize \in Nat \ {0} /\ overlapSize \in Nat \ {0}
    BY WindowsAssumption DEF WindowInit
  <2>3. read \in 0 .. stream.length /\ flushed \in 0 .. read
    BY <2>1 DEF WindowInit, IsStream
  <2> QED
    BY <2>1, <2>2, <2>3 DEF WindowInit, WindowTypeOK, Results
<1>2. NoLeak
  BY <1>1, PlaceBounds DEF WindowInit, WindowTypeOK, NoLeak
<1>3. VerdictIsRight /\ BoundedHold
  BY <1>1 DEF WindowInit, WindowTypeOK, VerdictIsRight, BoundedHold, Held,
              HoldLimit
<1> QED
  BY <1>1, <1>2, <1>3 DEF WindowInv

(***************************************************************************)
(* The heart of the matter: after a clean inspection, the bytes in front   *)
(* of the overlap margin belong to no covered secret.                      *)
(***************************************************************************)
LEMMA CleanHeadIsSafe ==
    ASSUME WindowTypeOK, NoLeak, ~ InspectFinds,
           NEW p \in stream.secrets, Covered(p)
    PROVE  flushed + Flushable <= p[1]
<1>1. /\ p[1] \in Nat /\ p[2] \in Nat /\ p[1] < p[2]
      /\ read \in Nat /\ flushed \in Nat /\ overlapSize \in Nat
  BY PlaceBounds DEF WindowTypeOK, IsStream
<1>2. p[2] > read
  BY <1>1 DEF NoLeak, InspectFinds, InWindow
<1> QED
  BY <1>1, <1>2 DEF Covered, Flushable, Held

\* At the end of the stream a clean inspection rules covered secrets out.
LEMMA CleanEndIsClean ==
    ASSUME WindowTypeOK, NoLeak, readErr = "eof", Held = 0 \/ ~ InspectFinds,
           NEW p \in stream.secrets
    PROVE  ~ Covered(p)
<1> SUFFICES ASSUME Covered(p) PROVE FALSE
  OBVIOUS
<1>1. /\ p[1] \in Nat /\ p[2] \in Nat /\ p[1] < p[2] /\ p[2] <= stream.length
      /\ read = stream.length /\ read \in Nat /\ flushed \in Nat
      /\ flushed <= p[1]
  BY PlaceBounds DEF WindowTypeOK, IsStream, NoLeak
<1>2. InspectFinds
  BY <1>1 DEF InspectFinds, InWindow
<1>3. Held > 0
  BY <1>1 DEF Held
<1> QED
  BY <1>2, <1>3

-----------------------------------------------------------------------------
\* Steps that flush nothing and do not return.
LEMMA QuietStep ==
    ASSUME WindowInv,
           \/ ClientLeaves \/ Select \/ DrainEnds \/ ReadAgain
           \/ \E n \in 0 .. ReadSize, err \in {"none", "eof", "fail"} : Read(n, err)
    PROVE  WindowInv'
<1> USE DEF WindowInv
<1>1. CASE ClientLeaves \/ Select \/ DrainEnds \/ ReadAgain
  <2>1. WindowTypeOK'
    BY <1>1 DEF ClientLeaves, Select, DrainEnds, ReadAgain, inputVars,
                WindowTypeOK, IsStream, Places, Results
  <2>2. NoLeak' /\ VerdictIsRight'
    BY <1>1 DEF ClientLeaves, Select, DrainEnds, ReadAgain, inputVars,
                NoLeak, VerdictIsRight, Covered
  <2>3. BoundedHold'
    <3>1. CASE DrainEnds
      BY <3>1 DEF DrainEnds, LoopEnds, WindowFull, Flushable, Held, HoldLimit,
                  inputVars, BoundedHold, WindowTypeOK
    <3>2. CASE ClientLeaves \/ Select \/ ReadAgain
      BY <3>2 DEF ClientLeaves, Select, ReadAgain, Held, HoldLimit,
                  inputVars, BoundedHold
    <3> QED
      BY <1>1, <3>1, <3>2
  <2> QED
    BY <2>1, <2>2, <2>3
<1>2. ASSUME NEW n \in 0 .. ReadSize, NEW err \in {"none", "eof", "fail"},
             Read(n, err)
      PROVE  WindowInv'
  <2>1. WindowTypeOK'
    BY <1>2, ReadSizeAssumption
       DEF Read, inputVars, WindowTypeOK, IsStream, Places, Results
  <2>2. NoLeak' /\ VerdictIsRight'
    BY <1>2 DEF Read, inputVars, WindowTypeOK, NoLeak, VerdictIsRight, Covered
  <2>3. BoundedHold'
    BY <1>2, ReadSizeAssumption
       DEF Read, inputVars, WindowTypeOK, IsStream, BoundedHold, Held, HoldLimit
  <2> QED
    BY <2>1, <2>2, <2>3
<1> QED
  BY <1>1, <1>2

\* Exits that flush nothing.
LEMMA QuietExit ==
    ASSUME WindowInv, SelectDone \/ DrainTrips \/ ReadFailed \/ EndTrips
    PROVE  WindowInv'
<1> USE DEF WindowInv
<1>1. WindowTypeOK'
  BY DEF SelectDone, DrainTrips, ReadFailed, EndTrips, Return, inputVars,
         WindowTypeOK, IsStream, Places, Results
<1>2. NoLeak'
  BY DEF SelectDone, DrainTrips, ReadFailed, EndTrips, inputVars, NoLeak,
         Covered
<1>3. VerdictIsRight'
  BY DEF SelectDone, DrainTrips, ReadFailed, EndTrips, Return, inputVars,
         VerdictIsRight, InspectFinds
<1>4. BoundedHold'
  BY DEF SelectDone, DrainTrips, ReadFailed, EndTrips, Return, BoundedHold
<1> QED
  BY <1>1, <1>2, <1>3, <1>4

\* The release of the head of a clean window, complete or cut short.
LEMMA DrainWrites ==
    ASSUME WindowInv, DrainFlushes \/ DrainWriteFails
    PROVE  WindowInv'
<1> USE DEF WindowInv
<1>1. /\ ~ InspectFinds /\ Flushable > 0
      /\ UNCHANGED <<stream, windowSize, overlapSize, read, readErr, cancelled>>
      /\ flushed' \in flushed .. flushed + Flushable
  BY DEF DrainFlushes, DrainWriteFails, WriteFails, inputVars, WindowTypeOK,
         IsStream, Flushable, Held
<1>2. /\ flushed \in Nat /\ read \in Nat /\ overlapSize \in Nat \ {0}
      /\ flushed + Flushable = read - overlapSize
  BY DEF WindowTypeOK, IsStream, Flushable, Held
<1>3. WindowTypeOK'
  <2>1. flushed' \in 0 .. read
    BY <1>1, <1>2
  <2> QED
    BY <1>1, <2>1 DEF DrainFlushes, DrainWriteFails, WriteFails, Return,
                      WindowTypeOK, IsStream, Places, Results
<1>4. NoLeak'
  <2> SUFFICES ASSUME NEW p \in stream.secrets, Covered(p)
               PROVE  flushed' <= p[1]
    BY <1>1 DEF NoLeak, Covered
  <2>1. flushed + Flushable <= p[1]
    BY <1>1, CleanHeadIsSafe
  <2>2. p[1] \in Nat
    BY PlaceBounds DEF WindowTypeOK
  <2> QED
    BY <1>1, <1>2, <2>1, <2>2
<1>5. VerdictIsRight' /\ BoundedHold'
  BY <1>1 DEF DrainFlushes, DrainWriteFails, WriteFails, Return,
              WindowTypeOK, VerdictIsRight, BoundedHold
<1> QED
  BY <1>3, <1>4, <1>5

\* The end of the stream: the rest is written, completely or in part.
LEMMA EndWrites ==
    ASSUME WindowInv, EndFlushes \/ EndWriteFails
    PROVE  WindowInv'
<1> USE DEF WindowInv
<1>1. /\ readErr = "eof"
      /\ Held = 0 \/ ~ InspectFinds
      /\ UNCHANGED <<stream, windowSize, overlapSize, read, readErr, cancelled>>
      /\ flushed' \in flushed .. read
      /\ pc' = "done"
      /\ \/ result' = "ok" /\ flushed' = read
         \/ result' = "writeError"
  BY DEF EndFlushes, EndWriteFails, WriteFails, Return, inputVars,
         WindowTypeOK, IsStream
<1>2. WindowTypeOK'
  BY <1>1 DEF WindowTypeOK, IsStream, Places, Results
<1>3. \A p \in stream.secrets : ~ Covered(p)
  BY <1>1, CleanEndIsClean DEF EndFlushes, EndWriteFails
<1>4. NoLeak' /\ VerdictIsRight' /\ BoundedHold'
  BY <1>1, <1>3 DEF EndFlushes, EndWriteFails, NoLeak, VerdictIsRight,
                    BoundedHold, Covered, WindowTypeOK
<1> QED
  BY <1>2, <1>4

LEMMA WindowInvariant == WindowSpec => []WindowInv
<1>1. WindowInv /\ [WindowNext]_windowVars => WindowInv'
  <2> SUFFICES ASSUME WindowInv, [WindowNext]_windowVars PROVE WindowInv'
    OBVIOUS
  <2>1. CASE WindowNext
    BY <2>1, QuietStep, QuietExit, DrainWrites, EndWrites
       DEF WindowNext, TransformStep
  <2>2. CASE UNCHANGED windowVars
    BY <2>2 DEF windowVars, WindowInv, WindowTypeOK, IsStream, Places, Results,
                NoLeak, VerdictIsRight, BoundedHold, Covered, Held, HoldLimit
  <2> QED
    BY <2>1, <2>2
<1> QED
  BY <1>1, InitEstablishesInv, PTL DEF WindowSpec

(***************************************************************************)
(* Type correctness of the window: it is always an interval of the stream. *)
(***************************************************************************)
THEOREM WindowTypeCorrect == WindowSpec => []WindowTypeOK
  BY WindowInvariant, PTL DEF WindowInv

(***************************************************************************)
(* Zero-byte leakage, for all streams, window sizes and read patterns:     *)
(* the promise on SlidingWindowTransformer, for secrets of up to           *)
(* overlapSize + 1 bytes.                                                  *)
(***************************************************************************)
THEOREM WindowNeverLeaks == WindowSpec => []NoLeak
  BY WindowInvariant, PTL DEF WindowInv

(***************************************************************************)
(* A stream reported complete is delivered whole and is free of covered    *)
(* secrets; an aborted one had a match.                                    *)
(***************************************************************************)
THEOREM WindowVerdictCorrect == WindowSpec => []VerdictIsRight
  BY WindowInvariant, PTL DEF WindowInv

(***************************************************************************)
(* The window never withholds more than its limit while it waits.          *)
(***************************************************************************)
THEOREM WindowHoldBounded == WindowSpec => []BoundedHold
  BY WindowInvariant, PTL DEF WindowInv
==============================================================================
