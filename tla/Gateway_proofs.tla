---------------------------- MODULE Gateway_proofs ----------------------------
(***************************************************************************)
(* Proofs about the circuit breaker, for every threshold, probe count and  *)
(* cooldown, and about the request handlers that use it, for every finite  *)
(* set of requests: the breaker loses no probe slot, probes with restraint *)
(* and shows what it does, the handlers settle every ticket, and what they *)
(* report is what happened.                                                *)
(***************************************************************************)
EXTENDS Gateway, FiniteSetTheorems, TLAPS

-----------------------------------------------------------------------------
(***************************************************************************)
(* The circuit breaker.                                                    *)
(***************************************************************************)
\* No transition forgets the callback.
GaugeIsState == gauge = state

\* A half-open episode has a probe out or a success to show, and the probes
\* out are accounted for by slots taken and by slots freed for another's sake.
EpisodeAccounts ==
    state = "HALF-OPEN" =>
        /\ LiveProbes # {} \/ consecutiveSuccesses > 0
        /\ Cardinality(LiveProbes) <= probesInFlight + (consecutiveSuccesses - probeWins)

BreakerInv == BreakerTypeOK /\ NoProbeSlotLeak /\ GaugeIsState /\ EpisodeAccounts

\* The live probes are finitely many.
LEMMA LiveProbesFinite ==
    /\ IsFiniteSet(LiveProbes)
    /\ Cardinality(LiveProbes) \in Nat
<1>1. LiveProbes \subseteq Requests
  BY DEF LiveProbes
<1>2. IsFiniteSet(LiveProbes)
  BY <1>1, RequestsAssumption, FS_Subset
<1> QED
  BY <1>2, FS_CardinalityType

\* Admitting a request as a probe adds one live probe.
LEMMA ProbeAdmitted ==
    ASSUME ticket \in [Requests -> {"none", "plain", "probe"}],
           NEW r \in Requests, ticket[r] = "none",
           ticket' = [ticket EXCEPT ![r] = "probe"]
    PROVE  Cardinality(LiveProbes') = Cardinality(LiveProbes) + 1
<1>1. LiveProbes' = LiveProbes \cup {r} /\ r \notin LiveProbes
  BY DEF LiveProbes
<1> QED
  BY <1>1, LiveProbesFinite, FS_AddElement

\* An answer removes at most the answered request from the live probes.
LEMMA ProbeAnswered ==
    ASSUME ticket \in [Requests -> {"none", "plain", "probe"}],
           NEW r \in Requests, Answered(r)
    PROVE  /\ LiveProbes' = LiveProbes \ {r}
           /\ Cardinality(LiveProbes') >= Cardinality(LiveProbes) - 1
<1>1. LiveProbes' = LiveProbes \ {r}
  BY DEF LiveProbes, Answered
<1>2. CASE r \in LiveProbes
  <2>1. Cardinality(LiveProbes \ {r}) = Cardinality(LiveProbes) - 1
    BY <1>2, LiveProbesFinite, FS_RemoveElement
  <2> QED
    BY <1>1, <2>1, LiveProbesFinite
<1>3. CASE r \notin LiveProbes
  <2>1. LiveProbes' = LiveProbes
    BY <1>1, <1>3
  <2> QED
    BY <1>1, <2>1, LiveProbesFinite
<1> QED
  BY <1>1, <1>2, <1>3

\* The end of an episode leaves no live probe behind.
LEMMA NoProbeOutlives ==
    ASSUME ticket \in [Requests -> {"none", "plain", "probe"}],
           NEW done, EpisodeEnds(done)
    PROVE  /\ ticket' \in [Requests -> {"none", "plain", "probe"}]
           /\ LiveProbes' = {}
           /\ Cardinality(LiveProbes') = 0
<1>1. ticket' \in [Requests -> {"none", "plain", "probe"}] /\ LiveProbes' = {}
  BY DEF EpisodeEnds, LiveProbes
<1> QED
  BY <1>1, FS_EmptySet

LEMMA InitEstablishesInv == BreakerInit => BreakerInv
<1> SUFFICES ASSUME BreakerInit PROVE BreakerInv
  OBVIOUS
<1>1. LiveProbes = {}
  BY DEF BreakerInit, LiveProbes
<1>2. Cardinality(LiveProbes) = 0
  BY <1>1, FS_EmptySet
<1> QED
  BY <1>1, <1>2, ThresholdAssumption, ProbesAssumption, CooldownAssumption
     DEF BreakerInit, BreakerInv, BreakerTypeOK, NoProbeSlotLeak,
         FailuresMatchState, GaugeIsState, EpisodeAccounts, OnStateChange

-----------------------------------------------------------------------------
LEMMA AllowStep ==
    ASSUME BreakerInv, NEW r \in Requests, Allow(r)
    PROVE  BreakerInv'
<1> USE DEF BreakerInv
<1>1. CASE AllowClosed(r)
  <2>1. LiveProbes' = LiveProbes
    BY <1>1 DEF AllowClosed, LiveProbes, BreakerTypeOK
  <2> QED
    BY <1>1, <2>1 DEF AllowClosed, BreakerTypeOK, NoProbeSlotLeak,
                      FailuresMatchState, GaugeIsState, EpisodeAccounts, OnStateChange
<1>2. CASE AllowFirstProbe(r)
  <2>1. Cardinality(LiveProbes') = Cardinality(LiveProbes) + 1
    BY <1>2, ProbeAdmitted DEF AllowFirstProbe, BreakerTypeOK
  <2>2. /\ Cardinality(LiveProbes') = 1
        /\ probeWins = 0
    BY <1>2, <2>1, FS_EmptySet
       DEF AllowFirstProbe, NoProbeSlotLeak, BreakerTypeOK
  <2>3. LiveProbes' # {}
    BY <1>2 DEF AllowFirstProbe, LiveProbes, BreakerTypeOK
  <2> QED
    BY <1>2, <2>2, <2>3, ProbesAssumption
       DEF AllowFirstProbe, BreakerTypeOK, NoProbeSlotLeak,
           FailuresMatchState, GaugeIsState, EpisodeAccounts, OnStateChange
<1>3. CASE AllowProbe(r)
  <2>1. Cardinality(LiveProbes') = Cardinality(LiveProbes) + 1
    BY <1>3, ProbeAdmitted DEF AllowProbe, BreakerTypeOK
  <2>2. /\ probesInFlight + 1 <= Cardinality(LiveProbes')
        /\ Cardinality(LiveProbes') <= probesInFlight + 1 + (consecutiveSuccesses - probeWins)
    BY <1>3, <2>1, LiveProbesFinite
       DEF AllowProbe, NoProbeSlotLeak, EpisodeAccounts, BreakerTypeOK
  <2>3. LiveProbes' # {}
    BY <1>3 DEF AllowProbe, LiveProbes, BreakerTypeOK
  <2> QED
    BY <1>3, <2>2, <2>3, ProbesAssumption
       DEF AllowProbe, ProbeSlotFree, BreakerTypeOK, NoProbeSlotLeak,
           FailuresMatchState, GaugeIsState, EpisodeAccounts, OnStateChange
<1> QED
  BY <1>1, <1>2, <1>3 DEF Allow

LEMMA SuccessStep ==
    ASSUME BreakerInv, NEW r \in Requests, RecordSuccess(r)
    PROVE  BreakerInv'
<1> USE DEF BreakerInv
<1>1. CASE SuccessClosed(r) \/ SuccessOpen(r)
  <2>1. LiveProbes' = LiveProbes /\ Cardinality(LiveProbes) = 0
    BY <1>1, ProbeAnswered, FS_EmptySet
       DEF SuccessClosed, SuccessOpen, BreakerTypeOK, NoProbeSlotLeak
  <2> QED
    BY <1>1, <2>1, ThresholdAssumption
       DEF SuccessClosed, SuccessOpen, Answered, BreakerTypeOK,
           NoProbeSlotLeak, FailuresMatchState, GaugeIsState, EpisodeAccounts, OnStateChange
<1>2. CASE SuccessHalfOpen(r)
  <2>1. Cardinality(LiveProbes') >= Cardinality(LiveProbes) - 1
    BY <1>2, ProbeAnswered DEF SuccessHalfOpen, BreakerTypeOK
  <2>2. Cardinality(LiveProbes) \in Nat /\ Cardinality(LiveProbes') \in Nat
    BY LiveProbesFinite, ProbeAnswered, FS_Subset, FS_CardinalityType, <1>2
       DEF SuccessHalfOpen, BreakerTypeOK
  <2>3. /\ probesInFlight' \in Nat
        /\ probesInFlight' <= HalfOpenProbes
        /\ probesInFlight' <= Cardinality(LiveProbes')
    BY <1>2, <2>1, <2>2, ProbesAssumption
       DEF SuccessHalfOpen, ReleaseSlot, BreakerTypeOK, NoProbeSlotLeak
  <2>4. /\ consecutiveSuccesses' \in 0 .. HalfOpenProbes - 1
        /\ probeWins' \in 0 .. HalfOpenProbes - 1
        /\ probeWins' <= consecutiveSuccesses'
    BY <1>2, ProbesAssumption
       DEF SuccessHalfOpen, BreakerTypeOK, NoProbeSlotLeak
  <2>5. Cardinality(LiveProbes')
            <= probesInFlight' + (consecutiveSuccesses' - probeWins')
    <3>1. Cardinality(LiveProbes) <= probesInFlight + (consecutiveSuccesses - probeWins)
      BY <1>2 DEF SuccessHalfOpen, EpisodeAccounts
    <3>2. CASE ticket[r] = "probe"
      <4>1. Cardinality(LiveProbes') = Cardinality(LiveProbes) - 1
        <5>1. r \in LiveProbes
          BY <3>2 DEF LiveProbes
        <5>2. LiveProbes' = LiveProbes \ {r}
          BY <1>2, ProbeAnswered DEF SuccessHalfOpen, BreakerTypeOK
        <5> QED
          BY <5>1, <5>2, LiveProbesFinite, FS_RemoveElement
      <4> QED
        BY <1>2, <2>2, <3>1, <3>2, <4>1
           DEF SuccessHalfOpen, ReleaseSlot, BreakerTypeOK
    <3>3. CASE ticket[r] # "probe"
      <4>1. LiveProbes' = LiveProbes
        BY <1>2, <3>3, ProbeAnswered DEF SuccessHalfOpen, BreakerTypeOK, LiveProbes
      <4>2. Cardinality(LiveProbes') = Cardinality(LiveProbes)
        BY <4>1
      <4> QED
        BY <1>2, <2>2, <3>1, <3>3, <4>2
           DEF SuccessHalfOpen, ReleaseSlot, BreakerTypeOK
    <3> QED
      BY <3>2, <3>3
  <2> QED
    BY <1>2, <2>3, <2>4, <2>5
       DEF SuccessHalfOpen, Answered, BreakerTypeOK, NoProbeSlotLeak,
           FailuresMatchState, GaugeIsState, EpisodeAccounts, OnStateChange
<1>3. CASE SuccessCloses(r)
  <2>1. /\ ticket' \in [Requests -> {"none", "plain", "probe"}]
        /\ LiveProbes' = {} /\ Cardinality(LiveProbes') = 0
    BY <1>3, NoProbeOutlives DEF SuccessCloses, BreakerTypeOK
  <2> QED
    BY <1>3, <2>1, ThresholdAssumption, ProbesAssumption
       DEF SuccessCloses, EpisodeEnds, BreakerTypeOK, NoProbeSlotLeak,
           FailuresMatchState, GaugeIsState, EpisodeAccounts, OnStateChange
<1> QED
  BY <1>1, <1>2, <1>3 DEF RecordSuccess

LEMMA FailureStep ==
    ASSUME BreakerInv, NEW r \in Requests, RecordFailure(r)
    PROVE  BreakerInv'
<1> USE DEF BreakerInv
<1>1. CASE FailureClosed(r) \/ FailureOpen(r)
  <2>1. LiveProbes' = LiveProbes /\ Cardinality(LiveProbes) = 0
    BY <1>1, ProbeAnswered, FS_EmptySet
       DEF FailureClosed, FailureOpen, BreakerTypeOK, NoProbeSlotLeak
  <2> QED
    BY <1>1, <2>1, ThresholdAssumption, CooldownAssumption
       DEF FailureClosed, FailureOpen, ReachesThreshold, Answered,
           BreakerTypeOK, NoProbeSlotLeak, FailuresMatchState, GaugeIsState, EpisodeAccounts, OnStateChange
<1>2. CASE FailureTrips(r) \/ FailureReopens(r)
  <2>1. /\ ticket' \in [Requests -> {"none", "plain", "probe"}]
        /\ LiveProbes' = {} /\ Cardinality(LiveProbes') = 0
    BY <1>2, NoProbeOutlives DEF FailureTrips, FailureReopens, BreakerTypeOK
  <2>2. consecutiveFailures' = FailureThreshold
    BY <1>2, ThresholdAssumption
       DEF FailureTrips, FailureReopens, ReachesThreshold, BreakerTypeOK,
           NoProbeSlotLeak, FailuresMatchState
  <2> QED
    BY <1>2, <2>1, <2>2, ThresholdAssumption, ProbesAssumption,
       CooldownAssumption
       DEF FailureTrips, FailureReopens, EpisodeEnds, BreakerTypeOK,
           NoProbeSlotLeak, FailuresMatchState, GaugeIsState, EpisodeAccounts, OnStateChange
<1> QED
  BY <1>1, <1>2 DEF RecordFailure

LEMMA OperatorStep ==
    ASSUME BreakerInv, Trip \/ Reset
    PROVE  BreakerInv'
<1> USE DEF BreakerInv
<1>1. /\ ticket' \in [Requests -> {"none", "plain", "probe"}]
      /\ LiveProbes' = {} /\ Cardinality(LiveProbes') = 0
  BY NoProbeOutlives DEF Trip, Reset, BreakerTypeOK
<1> QED
  BY <1>1, ThresholdAssumption, ProbesAssumption, CooldownAssumption
     DEF Trip, Reset, EpisodeEnds, BreakerTypeOK, NoProbeSlotLeak,
         FailuresMatchState, GaugeIsState, EpisodeAccounts, OnStateChange

LEMMA TickStep ==
    ASSUME BreakerInv, Tick \/ UNCHANGED breakerVars
    PROVE  BreakerInv'
<1>1. LiveProbes' = LiveProbes
  BY DEF Tick, breakerVars, LiveProbes
<1> QED
  BY <1>1, CooldownAssumption
     DEF Tick, breakerVars, BreakerInv, BreakerTypeOK, NoProbeSlotLeak,
         FailuresMatchState, GaugeIsState, EpisodeAccounts, OnStateChange

LEMMA BreakerInvariant == BreakerSpec => []BreakerInv
<1>1. BreakerInv /\ [BreakerNext]_breakerVars => BreakerInv'
  BY AllowStep, SuccessStep, FailureStep, OperatorStep, TickStep
     DEF BreakerNext, Outcome
<1> QED
  BY <1>1, InitEstablishesInv, PTL DEF BreakerSpec

(***************************************************************************)
(* Type correctness: no outcome, however late, drives a counter below zero *)
(* or past its limit.                                                      *)
(***************************************************************************)
THEOREM BreakerTypeCorrect == BreakerSpec => []BreakerTypeOK
  BY BreakerInvariant, PTL DEF BreakerInv

(***************************************************************************)
(* No probe slot leaks, for every configuration of the breaker and every   *)
(* interleaving of the requests in flight.                                 *)
(***************************************************************************)
THEOREM BreakerNeverLeaksSlots == BreakerSpec => []NoProbeSlotLeak
  BY BreakerInvariant, PTL DEF BreakerInv

(***************************************************************************)
(* The metrics gauge reads what the breaker does to requests: every one of *)
(* the six transitions runs the callback, so the reading agrees with the   *)
(* failures in a row and with the probes of the episode.                   *)
(***************************************************************************)
LEMMA InvGaugeTrue == BreakerInv => GaugeTellsTruth
  BY ThresholdAssumption
     DEF BreakerInv, BreakerTypeOK, NoProbeSlotLeak, FailuresMatchState,
         GaugeIsState, EpisodeAccounts, GaugeTellsTruth

THEOREM BreakerGaugeCorrect == BreakerSpec => []GaugeTellsTruth
  BY BreakerInvariant, InvGaugeTrue, PTL

(***************************************************************************)
(* A half-open circuit probes with restraint: the probes in flight exceed  *)
(* HalfOpenProbes by no more than the successes of the episode that no     *)
(* probe of it earned, for every interleaving of late outcomes.            *)
(***************************************************************************)
LEMMA InvProbation == BreakerInv => ProbationBounded
<1>1. BreakerInv /\ state = "HALF-OPEN" => ProbationBounded
  BY LiveProbesFinite, ProbesAssumption
     DEF BreakerInv, BreakerTypeOK, NoProbeSlotLeak, EpisodeAccounts,
         ProbationBounded
<1>2. BreakerInv /\ state # "HALF-OPEN" => ProbationBounded
  BY FS_EmptySet, ProbesAssumption
     DEF BreakerInv, BreakerTypeOK, NoProbeSlotLeak, ProbationBounded
<1> QED
  BY <1>1, <1>2

THEOREM BreakerProbesWithRestraint == BreakerSpec => []ProbationBounded
  BY BreakerInvariant, InvProbation, PTL

(***************************************************************************)
(* So there are never twice HalfOpenProbes probes in flight.               *)
(***************************************************************************)
THEOREM ProbesStayBelowTwice ==
    BreakerSpec => [](Cardinality(LiveProbes) < 2 * HalfOpenProbes)
<1>1. BreakerInv => Cardinality(LiveProbes) < 2 * HalfOpenProbes
  BY InvProbation, LiveProbesFinite, ProbesAssumption
     DEF BreakerInv, BreakerTypeOK, ProbationBounded
<1> QED
  BY <1>1, BreakerInvariant, PTL

(***************************************************************************)
(* A half-open circuit with no probe in flight lets the next request in:   *)
(* Allow does not refuse, so the circuit cannot wedge half-open.           *)
(***************************************************************************)
THEOREM HalfOpenNeverWedges ==
    BreakerSpec => [](state = "HALF-OPEN" /\ LiveProbes = {} => ~ AllowRefused)
<1>1. BreakerInv => (state = "HALF-OPEN" /\ LiveProbes = {} => ~ AllowRefused)
  BY FS_EmptySet, ProbesAssumption
     DEF BreakerInv, BreakerTypeOK, NoProbeSlotLeak, AllowRefused, ProbeSlotFree
<1> QED
  BY <1>1, BreakerInvariant, PTL

-----------------------------------------------------------------------------
(***************************************************************************)
(* The handlers.                                                           *)
(***************************************************************************)
Before == {"auth", "body", "pipeline", "allow"}

\* What the position of a handler says about its request.
HandlerView(r) ==
    /\ gpc[r] # "done" => outcome[r] = "none" /\ counted[r] = 0 /\ record[r] = "none"
    /\ gpc[r] \in Before => contact[r] = "none"
    /\ gpc[r] = "await" => contact[r] \in {"none", "sent"}
    /\ gpc[r] = "failed" => \/ contact[r] = "failed"
                           \/ (gone[r] /\ contact[r] \in {"none", "sent"})
    /\ gpc[r] \in {"stream", "sync"} => contact[r] = "answered"

TicketType == ticket \in [Requests -> {"none", "plain", "probe"}]

GatewayInv ==
    /\ GatewayTypeOK
    /\ TicketType
    /\ TicketsSettled
    /\ AuditTellsTruth
    /\ \A r \in Requests : HandlerView(r)

-----------------------------------------------------------------------------
(***************************************************************************)
(* The handlers refine the breaker.                                        *)
(***************************************************************************)
LEMMA NextIsBreakerNext == [GatewayNext]_gatewayVars => [BreakerNext]_breakerVars
<1> SUFFICES ASSUME [GatewayNext]_gatewayVars PROVE [BreakerNext]_breakerVars
  OBVIOUS
<1>1. ASSUME NEW r \in Requests, HandlerStep(r)
      PROVE  [BreakerNext]_breakerVars
  <2>1. CASE Admitted(r)
    BY <2>1 DEF Admitted, BreakerNext
  <2>2. CASE DispatchCancelled(r)
    BY <2>2 DEF DispatchCancelled, BreakerNext, Outcome
  <2>3. CASE ~ Admitted(r) /\ ~ DispatchCancelled(r)
    <3>1. NoBreaker
      BY <1>1, <2>3
         DEF HandlerStep, AuthFails, AuthPasses, BodyTooLarge, BodyUnreadable,
             BodyRead, RateLimited, Blocked, PipelinePasses, Refused, FailedGone,
             FailedReply, StreamTrips, StreamEnds, SyncUnreadable, SyncBlocked,
             SyncRelayed
    <3> QED
      BY <3>1 DEF NoBreaker
  <2> QED
    BY <2>1, <2>2, <2>3
<1>2. ASSUME NEW r \in Requests, UpstreamStep(r)
      PROVE  [BreakerNext]_breakerVars
  BY <1>2 DEF UpstreamStep, PayloadSent, UpstreamFails, UpstreamAnswers,
              UpstreamAnswers5xx, NoBreaker, BreakerNext, Outcome
<1>3. ASSUME NEW r \in Requests, ClientLeaves(r) \/ NextRequest(r)
      PROVE  [BreakerNext]_breakerVars
  BY <1>3 DEF ClientLeaves, NextRequest, NoBreaker
<1>4. CASE TimePasses
  BY <1>4 DEF TimePasses, BreakerNext
<1>5. CASE UNCHANGED gatewayVars
  BY <1>5 DEF gatewayVars
<1> QED
  BY <1>1, <1>2, <1>3, <1>4, <1>5 DEF GatewayNext

LEMMA GatewayRefinesBreaker == GatewaySpec => BreakerSpec
<1>1. GatewayInit => BreakerInit
  BY DEF GatewayInit
<1> QED
  BY <1>1, NextIsBreakerNext, PTL DEF GatewaySpec, BreakerSpec

(***************************************************************************)
(* The proxy as a whole leaks no probe slot, probes with restraint, and    *)
(* its gauge is right, whatever its clients and the upstream do.           *)
(***************************************************************************)
THEOREM GatewayBreakerSafe ==
    GatewaySpec => [](NoProbeSlotLeak /\ GaugeTellsTruth /\ ProbationBounded)
  BY GatewayRefinesBreaker, BreakerNeverLeaksSlots, BreakerGaugeCorrect,
     BreakerProbesWithRestraint, PTL

-----------------------------------------------------------------------------
(***************************************************************************)
(* The invariant of the handlers                                           *)
(***************************************************************************)
LEMMA InitEstablishesGatewayInv == GatewayInit => GatewayInv
<1> SUFFICES ASSUME GatewayInit PROVE GatewayInv
  OBVIOUS
<1> USE DEF GatewayInit
<1>1. GatewayTypeOK
  <2>1. counted \in [Requests -> 0 .. 1]
    BY 0 \in 0 .. 1
  <2>2. /\ gpc \in [Requests -> Stages]
        /\ reply \in [Requests -> Replies]
    BY DEF Stages, Replies
  <2>3. outcome \in [Requests -> {"none"} \cup {a[1] : a \in Audited}]
    <3>1. "none" \in {"none"} \cup {a[1] : a \in Audited}
      OBVIOUS
    <3> QED
      BY <3>1
  <2>4. /\ gone \in [Requests -> BOOLEAN]
        /\ record \in [Requests -> {"none", "queued", "refused"}]
        /\ contact \in [Requests -> {"none", "sent", "answered", "failed"}]
        /\ ledgerAttached \in BOOLEAN
        /\ faulted \in BOOLEAN
    BY FALSE \in BOOLEAN
  <2> QED
    BY <2>1, <2>2, <2>3, <2>4 DEF GatewayTypeOK
<1>2. TicketType /\ TicketsSettled
  BY DEF BreakerInit, TicketType, TicketsSettled
<1>3. AuditTellsTruth
  BY DEF AuditTellsTruth, Refusals
<1>4. \A r \in Requests : HandlerView(r)
  BY DEF HandlerView, Before
<1> QED
  BY <1>1, <1>2, <1>3, <1>4 DEF GatewayInv

\* Allow gives r a ticket and leaves the others' tickets alone.
LEMMA AllowTickets ==
    ASSUME TicketType, NEW r \in Requests, Allow(r)
    PROVE  /\ TicketType'
           /\ ticket'[r] # "none"
           /\ \A q \in Requests \ {r} : ticket'[q] = ticket[q]
  BY DEF TicketType, Allow, AllowClosed, AllowFirstProbe, AllowProbe

\* An outcome takes the ticket of r, and of r only.
LEMMA OutcomeTickets ==
    ASSUME TicketType, NEW r \in Requests, Outcome(r)
    PROVE  /\ TicketType'
           /\ ticket'[r] = "none"
           /\ \A q \in Requests \ {r} : ticket'[q] = "none" <=> ticket[q] = "none"
<1>1. CASE Answered(r)
  BY <1>1 DEF TicketType, Answered
<1>2. CASE EpisodeEnds({r})
  BY <1>2 DEF TicketType, EpisodeEnds
<1> QED
  BY <1>1, <1>2
     DEF Outcome, RecordSuccess, RecordFailure, SuccessClosed, SuccessHalfOpen,
         SuccessCloses, SuccessOpen, FailureClosed, FailureTrips, FailureReopens,
         FailureOpen

\* A handler that ends with an audit entry, its breaker untouched.
LEMMA AuditedExit ==
    ASSUME GatewayInv, NEW r \in Requests, NEW pair \in Audited,
           gpc[r] \notin {"await", "done"},
           pair[1] \in Refusals => contact[r] = "none",
           pair[1] = "UPSTREAM_UNAVAILABLE" => contact[r] = "failed",
           pair[1] \in {"TRIPWIRE_ABORT", "ALLOW", "BLOCK_OUTBOUND"}
               => contact[r] = "answered",
           FinishAudited(r, pair[1], pair[2]), NoBreaker
    PROVE  GatewayInv'
<1> USE DEF GatewayInv
<1>1. /\ pair[1] \in {a[1] : a \in Audited} /\ pair[2] \in Replies
      /\ pair[1] # "none"
      /\ <<pair[1], pair[2]>> \in Audited
  BY DEF Audited, Replies
<1>2. /\ record' \in [Requests -> {"none", "queued", "refused"}]
      /\ \A q \in Requests \ {r} : record'[q] = record[q]
      /\ record'[r] # "none" <=> ledgerAttached
  BY DEF FinishAudited, RecordEntry, GatewayTypeOK, HandlerView
<1>3. GatewayTypeOK'
  <2>1. counted' \in [Requests -> 0 .. 1]
    BY DEF FinishAudited, HandlerView, GatewayTypeOK
  <2>2. /\ outcome' \in [Requests -> {"none"} \cup {a[1] : a \in Audited}]
        /\ reply' \in [Requests -> Replies]
        /\ gpc' \in [Requests -> Stages]
    BY <1>1 DEF FinishAudited, GoTo, GatewayTypeOK, Stages
  <2> QED
    BY <1>2, <2>1, <2>2 DEF GatewayTypeOK, FinishAudited, NoBreaker
<1>4. TicketType' /\ TicketsSettled'
  BY DEF TicketType, TicketsSettled, FinishAudited, GoTo, NoBreaker, breakerVars,
         GatewayTypeOK
<1>5. AuditTellsTruth'
  BY <1>1, <1>2 DEF AuditTellsTruth, FinishAudited, GoTo, HandlerView, GatewayTypeOK
<1>6. \A q \in Requests : HandlerView(q)'
  BY <1>2 DEF FinishAudited, GoTo, HandlerView, GatewayTypeOK, Before
<1> QED
  BY <1>3, <1>4, <1>5, <1>6

\* A handler that ends without one.
LEMMA SilentExit ==
    ASSUME GatewayInv, NEW r \in Requests, NEW status \in Replies,
           gpc[r] \notin {"await", "done"}, <<status, contact[r]>> \in Unreported,
           FinishSilently(r, status), NoBreaker
    PROVE  GatewayInv'
<1> USE DEF GatewayInv
<1>1. GatewayTypeOK'
  BY DEF GatewayTypeOK, FinishSilently, GoTo, NoBreaker, Stages
<1>2. TicketType' /\ TicketsSettled'
  BY DEF TicketType, TicketsSettled, FinishSilently, GoTo, NoBreaker, breakerVars,
         GatewayTypeOK
<1>3. AuditTellsTruth'
  BY DEF AuditTellsTruth, FinishSilently, GoTo, HandlerView, GatewayTypeOK
<1>4. \A q \in Requests : HandlerView(q)'
  BY DEF FinishSilently, GoTo, HandlerView, GatewayTypeOK, Before
<1> QED
  BY <1>1, <1>2, <1>3, <1>4

\* A handler that goes on without the breaker.
LEMMA ProceedStep ==
    ASSUME GatewayInv, NEW r \in Requests,
           \/ gpc[r] \in Before /\ \E s \in Before : Proceed(r, s)
           \/ gpc[r] = "await" /\ ProceedKnowing(r, "await", "sent"),
           NoBreaker
    PROVE  GatewayInv'
<1> USE DEF GatewayInv, Before, Proceed, ProceedKnowing, GoTo
<1>1. GatewayTypeOK'
  BY DEF GatewayTypeOK, NoBreaker, Stages
<1>2. TicketType' /\ TicketsSettled'
  BY DEF TicketType, TicketsSettled, NoBreaker, breakerVars, GatewayTypeOK
<1>3. AuditTellsTruth'
  BY DEF AuditTellsTruth, HandlerView, GatewayTypeOK, Refusals
<1>4. \A q \in Requests : HandlerView(q)'
  BY DEF HandlerView, GatewayTypeOK
<1> QED
  BY <1>1, <1>2, <1>3, <1>4

\* The outcome of the upstream request.
LEMMA OutcomeStep ==
    ASSUME GatewayInv, NEW r \in Requests, gpc[r] = "await", Outcome(r),
           \/ ProceedKnowing(r, "failed", "failed")
           \/ gone[r] /\ Proceed(r, "failed")
           \/ \E s \in {"stream", "sync"} : ProceedKnowing(r, s, "answered"),
           faulted' \in BOOLEAN
    PROVE  GatewayInv'
<1> USE DEF GatewayInv, Proceed, ProceedKnowing, GoTo
<1>1. GatewayTypeOK'
  BY DEF GatewayTypeOK, Stages
<1>2. TicketType' /\ TicketsSettled'
  BY OutcomeTickets DEF TicketsSettled, GatewayTypeOK
<1>3. AuditTellsTruth'
  BY DEF AuditTellsTruth, HandlerView, GatewayTypeOK, Refusals
<1>4. \A q \in Requests : HandlerView(q)'
  BY DEF HandlerView, GatewayTypeOK, Before
<1> QED
  BY <1>1, <1>2, <1>3, <1>4

\* Allow admits the request and the handler waits for the upstream.
LEMMA AdmittedStep ==
    ASSUME GatewayInv, NEW r \in Requests, Admitted(r)
    PROVE  GatewayInv'
<1> USE DEF GatewayInv, Admitted, At, Proceed
<1>1. GatewayTypeOK'
  BY DEF GatewayTypeOK, GoTo, Stages
<1>2. TicketType' /\ TicketsSettled'
  BY AllowTickets DEF TicketsSettled, GoTo, GatewayTypeOK
<1>3. AuditTellsTruth'
  BY DEF AuditTellsTruth, GoTo, HandlerView, GatewayTypeOK
<1>4. \A q \in Requests : HandlerView(q)'
  BY DEF GoTo, HandlerView, GatewayTypeOK, Before
<1> QED
  BY <1>1, <1>2, <1>3, <1>4

\* A client that leaves, or comes back with its next request.
LEMMA ClientStep ==
    ASSUME GatewayInv, NEW r \in Requests, ClientLeaves(r) \/ NextRequest(r)
    PROVE  GatewayInv'
<1> USE DEF GatewayInv, NoBreaker, breakerVars
<1>1. CASE ClientLeaves(r)
  BY <1>1 DEF ClientLeaves, GatewayTypeOK, TicketType, TicketsSettled,
              AuditTellsTruth, HandlerView
<1>2. CASE NextRequest(r)
  <2> USE <1>2 DEF NextRequest, GoTo, At
  <2>1. GatewayTypeOK'
    BY DEF GatewayTypeOK, Stages, Replies
  <2>2. TicketType' /\ TicketsSettled'
    BY DEF TicketType, TicketsSettled, GatewayTypeOK
  <2>3. AuditTellsTruth'
    BY DEF AuditTellsTruth, GatewayTypeOK
  <2>4. \A q \in Requests : HandlerView(q)'
    BY DEF HandlerView, GatewayTypeOK, Before
  <2> QED
    BY <2>1, <2>2, <2>3, <2>4
<1> QED
  BY <1>1, <1>2

-----------------------------------------------------------------------------
\* Every step of a handler preserves the invariant: one step per action.
LEMMA HandlerPreserves ==
    ASSUME GatewayInv, NEW r \in Requests, HandlerStep(r) \/ UpstreamStep(r)
    PROVE  GatewayInv'
<1> USE DEF At
<1>0. /\ HandlerView(r)
      /\ faulted \in BOOLEAN
  BY DEF GatewayInv, GatewayTypeOK
<1>1. CASE AuthFails(r)
  <2>1. PICK status \in {"401", "403"} : FinishAudited(r, "AUTH_FAILURE", status)
    BY <1>1 DEF AuthFails
  <2>2. <<"AUTH_FAILURE", status>> \in Audited
    BY DEF Audited
  <2> QED
    BY <1>0, <1>1, <2>1, <2>2, AuditedExit
       DEF AuthFails, Before, HandlerView, Refusals
<1>2. CASE BodyTooLarge(r)
  <2>1. <<"PAYLOAD_TOO_LARGE", "413">> \in Audited
    BY DEF Audited
  <2> QED
    BY <1>0, <1>2, <2>1, AuditedExit
       DEF BodyTooLarge, Before, HandlerView, Refusals
<1>3. CASE RateLimited(r)
  <2>1. <<"RATE_LIMIT", "429">> \in Audited
    BY DEF Audited
  <2> QED
    BY <1>0, <1>3, <2>1, AuditedExit
       DEF RateLimited, Before, HandlerView, Refusals
<1>4. CASE Blocked(r)
  <2>1. <<"BLOCK_INBOUND", "400">> \in Audited
    BY DEF Audited
  <2> QED
    BY <1>0, <1>4, <2>1, AuditedExit
       DEF Blocked, Before, HandlerView, Refusals
<1>5. CASE Refused(r)
  <2>1. <<"CIRCUIT_OPEN", "503">> \in Audited
    BY DEF Audited
  <2> QED
    BY <1>0, <1>5, <2>1, AuditedExit
       DEF Refused, Before, HandlerView, Refusals
<1>6. CASE FailedReply(r)
  <2>1. <<"UPSTREAM_UNAVAILABLE", "502">> \in Audited
    BY DEF Audited
  <2> QED
    BY <1>0, <1>6, <2>1, AuditedExit DEF FailedReply, HandlerView, Refusals
<1>7. CASE StreamTrips(r)
  <2>1. <<"TRIPWIRE_ABORT", "cut">> \in Audited
    BY DEF Audited
  <2> QED
    BY <1>0, <1>7, <2>1, AuditedExit DEF StreamTrips, HandlerView, Refusals
<1>8. CASE StreamEnds(r)
  <2>1. <<"ALLOW", "sse">> \in Audited
    BY DEF Audited
  <2> QED
    BY <1>0, <1>8, <2>1, AuditedExit DEF StreamEnds, HandlerView, Refusals
<1>9. CASE SyncBlocked(r)
  <2>1. <<"BLOCK_OUTBOUND", "502">> \in Audited
    BY DEF Audited
  <2> QED
    BY <1>0, <1>9, <2>1, AuditedExit DEF SyncBlocked, HandlerView, Refusals
<1>10. CASE SyncRelayed(r)
  <2>1. <<"ALLOW", "relayed">> \in Audited
    BY DEF Audited
  <2> QED
    BY <1>0, <1>10, <2>1, AuditedExit DEF SyncRelayed, HandlerView, Refusals
<1>11. CASE BodyUnreadable(r) \/ FailedGone(r) \/ SyncUnreadable(r)
  <2>1. /\ <<"400", "none">> \in Unreported
        /\ \A c \in {"none", "sent", "failed"} : <<"none", c>> \in Unreported
        /\ <<"empty", "answered">> \in Unreported
        /\ {"400", "none", "empty"} \subseteq Replies
    BY DEF Unreported, Replies
  <2>2. CASE BodyUnreadable(r)
    BY <1>0, <2>1, <2>2, SilentExit DEF BodyUnreadable, Before, HandlerView
  <2>3. CASE FailedGone(r)
    BY <1>0, <2>1, <2>3, SilentExit DEF FailedGone, HandlerView
  <2>4. CASE SyncUnreadable(r)
    BY <1>0, <2>1, <2>4, SilentExit DEF SyncUnreadable, HandlerView
  <2> QED
    BY <1>11, <2>2, <2>3, <2>4
<1>12. CASE AuthPasses(r) \/ BodyRead(r) \/ PipelinePasses(r)
  BY <1>12, ProceedStep DEF AuthPasses, BodyRead, PipelinePasses, Before
<1>13. CASE DispatchCancelled(r)
  BY <1>0, <1>13, OutcomeStep DEF DispatchCancelled, Outcome
<1>14. CASE UpstreamStep(r)
  <2>1. CASE PayloadSent(r)
    BY <2>1, ProceedStep DEF PayloadSent
  <2>2. CASE UpstreamFails(r) \/ UpstreamAnswers(r) \/ UpstreamAnswers5xx(r)
    BY <1>0, <2>2, OutcomeStep
       DEF UpstreamFails, UpstreamAnswers, UpstreamAnswers5xx, Outcome
  <2> QED
    BY <1>14, <2>1, <2>2 DEF UpstreamStep
<1>15. CASE Admitted(r)
  BY <1>15, AdmittedStep
<1> QED
  BY <1>1, <1>2, <1>3, <1>4, <1>5, <1>6, <1>7, <1>8, <1>9, <1>10, <1>11, <1>12,
     <1>13, <1>14, <1>15
     DEF HandlerStep

\* The inductive invariant of the proxy.
LEMMA GatewayInvariant == GatewaySpec => []GatewayInv
<1>1. GatewayInv /\ [GatewayNext]_gatewayVars => GatewayInv'
  <2> SUFFICES ASSUME GatewayInv, [GatewayNext]_gatewayVars PROVE GatewayInv'
    OBVIOUS
  <2>1. CASE TimePasses
    BY <2>1 DEF TimePasses, Tick, handlerVars, GatewayInv, GatewayTypeOK, TicketType,
                TicketsSettled, AuditTellsTruth, HandlerView
  <2>2. CASE UNCHANGED gatewayVars
    BY <2>2 DEF gatewayVars, breakerVars, handlerVars, GatewayInv, GatewayTypeOK,
                TicketType, TicketsSettled, AuditTellsTruth, HandlerView
  <2> QED
    BY <2>1, <2>2, HandlerPreserves, ClientStep DEF GatewayNext
<1> QED
  BY <1>1, InitEstablishesGatewayInv, PTL DEF GatewaySpec

(***************************************************************************)
(* Type correctness of the handlers' state.                                *)
(***************************************************************************)
THEOREM GatewayTypeCorrect == GatewaySpec => []GatewayTypeOK
  BY GatewayInvariant, PTL DEF GatewayInv

(***************************************************************************)
(* Every request that Allow admitted is settled with the breaker exactly   *)
(* once, on every path through Forward.                                    *)
(***************************************************************************)
THEOREM GatewaySettlesTickets == GatewaySpec => []TicketsSettled
  BY GatewayInvariant, PTL DEF GatewayInv

(***************************************************************************)
(* What handleProxy and Forward report of a request is what happened to    *)
(* it, with and without a ledger, and also when the ledger refuses.        *)
(***************************************************************************)
THEOREM GatewayAuditTrue == GatewaySpec => []AuditTellsTruth
  BY GatewayInvariant, PTL DEF GatewayInv
===============================================================================
