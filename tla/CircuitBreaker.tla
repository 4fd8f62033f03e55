--------------------------- MODULE CircuitBreaker ----------------------------
(***************************************************************************)
(* The upstream circuit breaker (internal/resilience/circuit_breaker.go)   *)
(* and the calls that the dispatcher makes to it: Allow before a request   *)
(* is sent upstream, RecordSuccess or RecordFailure when its outcome is    *)
(* known.  Each method runs under cb.mu, so each is one step; what         *)
(* interleaves is the requests that are in flight between the two calls.   *)
(*                                                                         *)
(* Time is the number of ticks since lastTripTime, up to the cooldown.     *)
(***************************************************************************)
EXTENDS Integers, FiniteSets

CONSTANTS Requests,          \* the requests that may be in flight at once
          FailureThreshold,
          HalfOpenProbes,
          Cooldown           \* CooldownDuration, in ticks

\* NewCircuitBreaker replaces zero values by the defaults.
ASSUME RequestsAssumption == IsFiniteSet(Requests)
ASSUME ThresholdAssumption == FailureThreshold \in Nat \ {0}
ASSUME ProbesAssumption == HalfOpenProbes \in Nat \ {0}
ASSUME CooldownAssumption == Cooldown \in Nat \ {0}

VARIABLES state,
          consecutiveFailures,
          consecutiveSuccesses,
          probesInFlight,
          elapsed,    \* ticks since lastTripTime, saturated at Cooldown
          gauge,      \* the circuit state that /metrics reports
          ticket,     \* history: how each request in flight was admitted
          probeWins   \* history: probes of this half-open episode that succeeded

breakerVars == <<state, consecutiveFailures, consecutiveSuccesses,
                 probesInFlight, elapsed, gauge, ticket, probeWins>>

\* Requests admitted by the half-open episode that is still going on.
LiveProbes == {r \in Requests : ticket[r] = "probe"}

BreakerInit ==
    /\ state = "CLOSED"
    /\ consecutiveFailures = 0
    /\ consecutiveSuccesses = 0
    /\ probesInFlight = 0
    /\ elapsed = Cooldown
    /\ gauge = "CLOSED"
    /\ ticket = [r \in Requests |-> "none"]
    /\ probeWins = 0

-----------------------------------------------------------------------------
(***************************************************************************)
(* The callback that the dispatcher installs, which sets the metrics gauge.*)
(* Each of the six places that change the state calls it for itself.       *)
(***************************************************************************)
OnStateChange(to) == gauge' = to

\* A half-open episode, if there is one, ends: its probes are then ordinary
\* requests in flight, all but those of `done`, whose outcome ends it.
EpisodeEnds(done) ==
    /\ probeWins' = 0
    /\ ticket' = [r \in Requests |->
                     IF r \in done \/ ticket[r] = "none" THEN "none" ELSE "plain"]

Answered(r) == ticket' = [ticket EXCEPT ![r] = "none"]

(***************************************************************************)
(* Allow                                                                   *)
(***************************************************************************)
CooledDown == elapsed >= Cooldown

\* Mutant of ProbeSlotFree: one probe too many.
ProbeSlotFreeLate == probesInFlight <= HalfOpenProbes

ProbeSlotFree == probesInFlight < HalfOpenProbes

AllowClosed(r) ==
    /\ state = "CLOSED"
    /\ ticket[r] = "none"
    /\ ticket' = [ticket EXCEPT ![r] = "plain"]
    /\ UNCHANGED <<state, consecutiveFailures, consecutiveSuccesses,
                   probesInFlight, elapsed, gauge, probeWins>>

\* The cooldown has expired: the request is the first probe.
AllowFirstProbe(r) ==
    /\ state = "OPEN"
    /\ CooledDown
    /\ ticket[r] = "none"
    /\ state' = "HALF-OPEN"
    /\ OnStateChange("HALF-OPEN")
    /\ consecutiveSuccesses' = 0
    /\ probesInFlight' = 1
    /\ ticket' = [ticket EXCEPT ![r] = "probe"]
    /\ UNCHANGED <<consecutiveFailures, elapsed, probeWins>>

AllowProbe(r) ==
    /\ state = "HALF-OPEN"
    /\ ProbeSlotFree
    /\ ticket[r] = "none"
    /\ probesInFlight' = probesInFlight + 1
    /\ ticket' = [ticket EXCEPT ![r] = "probe"]
    /\ UNCHANGED <<state, consecutiveFailures, consecutiveSuccesses, elapsed,
                   gauge, probeWins>>

\* Allow returns ErrCircuitOpen and changes nothing.
AllowRefused ==
    \/ state = "OPEN" /\ ~ CooledDown
    \/ state = "HALF-OPEN" /\ ~ ProbeSlotFree

Allow(r) == AllowClosed(r) \/ AllowFirstProbe(r) \/ AllowProbe(r)

(***************************************************************************)
(* RecordSuccess                                                           *)
(***************************************************************************)
SuccessClosed(r) ==
    /\ state = "CLOSED"
    /\ consecutiveFailures' = 0
    /\ Answered(r)
    /\ UNCHANGED <<state, consecutiveSuccesses, probesInFlight, elapsed, gauge,
                   probeWins>>

\* Mutant of ReleaseSlot: the probe's slot is not given back.
ReleaseNothing == probesInFlight

\* Mutant of ReleaseSlot: the counter is decremented without a check.
ReleaseUnchecked == probesInFlight - 1

ReleaseSlot == IF probesInFlight > 0 THEN probesInFlight - 1 ELSE 0

\* Mutant of SuccessHalfOpen: the success is not counted.
SuccessUncounted(r) ==
    /\ state = "HALF-OPEN"
    /\ consecutiveSuccesses + 1 < HalfOpenProbes
    /\ probesInFlight' = ReleaseSlot
    /\ Answered(r)
    /\ UNCHANGED <<state, consecutiveFailures, consecutiveSuccesses, elapsed,
                   gauge, probeWins>>

SuccessHalfOpen(r) ==
    /\ state = "HALF-OPEN"
    /\ consecutiveSuccesses + 1 < HalfOpenProbes
    /\ probesInFlight' = ReleaseSlot
    /\ consecutiveSuccesses' = consecutiveSuccesses + 1
    /\ probeWins' = probeWins + (IF ticket[r] = "probe" THEN 1 ELSE 0)
    /\ Answered(r)
    /\ UNCHANGED <<state, consecutiveFailures, elapsed, gauge>>

SuccessCloses(r) ==
    /\ state = "HALF-OPEN"
    /\ consecutiveSuccesses + 1 >= HalfOpenProbes
    /\ state' = "CLOSED"
    /\ OnStateChange("CLOSED")
    /\ EpisodeEnds({r})
    /\ consecutiveFailures' = 0
    /\ consecutiveSuccesses' = 0
    /\ probesInFlight' = 0
    /\ UNCHANGED elapsed

SuccessOpen(r) ==
    /\ state = "OPEN"
    /\ probesInFlight' = 0
    /\ Answered(r)
    /\ UNCHANGED <<state, consecutiveFailures, consecutiveSuccesses, elapsed,
                   gauge, probeWins>>

RecordSuccess(r) ==
    /\ ticket[r] # "none"
    /\ \/ SuccessClosed(r) \/ SuccessHalfOpen(r)
       \/ SuccessCloses(r) \/ SuccessOpen(r)

(***************************************************************************)
(* RecordFailure                                                           *)
(***************************************************************************)
ReachesThreshold == consecutiveFailures + 1 >= FailureThreshold

FailureClosed(r) ==
    /\ state = "CLOSED"
    /\ ~ ReachesThreshold
    /\ consecutiveFailures' = consecutiveFailures + 1
    /\ Answered(r)
    /\ UNCHANGED <<state, consecutiveSuccesses, probesInFlight, elapsed, gauge,
                   probeWins>>

FailureTrips(r) ==
    /\ state = "CLOSED"
    /\ ReachesThreshold
    /\ state' = "OPEN"
    /\ OnStateChange("OPEN")
    /\ EpisodeEnds({r})
    /\ consecutiveFailures' = consecutiveFailures + 1
    /\ elapsed' = 0
    /\ probesInFlight' = 0
    /\ consecutiveSuccesses' = 0

\* Mutant of FailureReopens: the callback is forgotten on this path.
FailureReopensSilently(r) ==
    /\ state = "HALF-OPEN"
    /\ state' = "OPEN"
    /\ UNCHANGED gauge
    /\ EpisodeEnds({r})
    /\ elapsed' = 0
    /\ probesInFlight' = 0
    /\ consecutiveSuccesses' = 0
    /\ consecutiveFailures' = FailureThreshold

FailureReopens(r) ==
    /\ state = "HALF-OPEN"
    /\ state' = "OPEN"
    /\ OnStateChange("OPEN")
    /\ EpisodeEnds({r})
    /\ elapsed' = 0
    /\ probesInFlight' = 0
    /\ consecutiveSuccesses' = 0
    /\ consecutiveFailures' = FailureThreshold

\* A request admitted before the trip fails after it: the cooldown restarts.
FailureOpen(r) ==
    /\ state = "OPEN"
    /\ elapsed' = 0
    /\ Answered(r)
    /\ UNCHANGED <<state, consecutiveFailures, consecutiveSuccesses,
                   probesInFlight, gauge, probeWins>>

RecordFailure(r) ==
    /\ ticket[r] # "none"
    /\ \/ FailureClosed(r) \/ FailureTrips(r)
       \/ FailureReopens(r) \/ FailureOpen(r)

(***************************************************************************)
(* The operator's Trip and Reset, and the passage of time.                 *)
(***************************************************************************)
Trip ==
    /\ state # "OPEN"
    /\ state' = "OPEN"
    /\ OnStateChange("OPEN")
    /\ EpisodeEnds({})
    /\ elapsed' = 0
    /\ consecutiveFailures' = FailureThreshold
    /\ probesInFlight' = 0
    /\ consecutiveSuccesses' = 0

Reset ==
    /\ state # "CLOSED"
    /\ state' = "CLOSED"
    /\ OnStateChange("CLOSED")
    /\ EpisodeEnds({})
    /\ consecutiveFailures' = 0
    /\ consecutiveSuccesses' = 0
    /\ probesInFlight' = 0
    /\ UNCHANGED elapsed

Tick ==
    /\ elapsed < Cooldown
    /\ elapsed' = elapsed + 1
    /\ UNCHANGED <<state, consecutiveFailures, consecutiveSuccesses,
                   probesInFlight, gauge, ticket, probeWins>>

-----------------------------------------------------------------------------
Outcome(r) == RecordSuccess(r) \/ RecordFailure(r)

BreakerNext ==
    \/ \E r \in Requests : Allow(r) \/ Outcome(r)
    \/ Trip
    \/ Reset
    \/ Tick

BreakerSpec == BreakerInit /\ [][BreakerNext]_breakerVars

\* Clients keep sending requests, every request that was let through has an
\* outcome in the end, and time passes.
BreakerFairness ==
    /\ \A r \in Requests : WF_breakerVars(Allow(r)) /\ WF_breakerVars(Outcome(r))
    /\ WF_breakerVars(Tick)

BreakerFairSpec == BreakerSpec /\ BreakerFairness

-----------------------------------------------------------------------------
(***************************************************************************)
(* Type invariant: the uint32 counters never go below zero, whatever late  *)
(* outcome arrives in whatever state.                                      *)
(***************************************************************************)
BreakerTypeOK ==
    /\ state \in {"CLOSED", "HALF-OPEN", "OPEN"}
    /\ consecutiveFailures \in 0 .. FailureThreshold
    /\ consecutiveSuccesses \in 0 .. HalfOpenProbes - 1
    /\ probesInFlight \in Nat
    /\ elapsed \in 0 .. Cooldown
    /\ gauge \in {"CLOSED", "HALF-OPEN", "OPEN"}
    /\ ticket \in [Requests -> {"none", "plain", "probe"}]
    /\ probeWins \in 0 .. HalfOpenProbes - 1

\* The failure counter tells the state: it is at the threshold exactly while
\* the circuit is not closed.
FailuresMatchState ==
    IF state = "CLOSED" THEN consecutiveFailures < FailureThreshold
                        ELSE consecutiveFailures = FailureThreshold

(***************************************************************************)
(* No probe slot leaks.  Every slot that Allow counts as taken belongs to  *)
(* a probe of this half-open episode that is really in flight, however     *)
(* late outcomes of earlier requests interleave with it, and no slot is    *)
(* taken outside an episode.  So a half-open circuit whose probes have all *)
(* been answered always lets the next request through: it cannot wedge.    *)
(***************************************************************************)
NoProbeSlotLeak ==
    /\ FailuresMatchState
    /\ probesInFlight <= HalfOpenProbes
    /\ probesInFlight <= Cardinality(LiveProbes)
    /\ state # "HALF-OPEN" => LiveProbes = {} /\ consecutiveSuccesses = 0
    /\ probeWins <= consecutiveSuccesses

(***************************************************************************)
(* The gauge that /metrics exposes says what the circuit does to requests: *)
(* it reads CLOSED exactly while the failures in a row are below the       *)
(* threshold, and HALF-OPEN exactly while probes of an episode are out, or *)
(* have answered without ending it.  Each of the six transitions has to    *)
(* run the callback for this; one that forgets leaves a wrong reading.     *)
(***************************************************************************)
GaugeTellsTruth ==
    /\ gauge = "CLOSED" <=> consecutiveFailures < FailureThreshold
    /\ gauge = "HALF-OPEN" <=> LiveProbes # {} \/ consecutiveSuccesses > 0

(***************************************************************************)
(* A recovering upstream is probed, not flooded.  Outcomes of requests     *)
(* admitted before the trip may arrive in a half-open episode and free a   *)
(* slot they never held, but each success lets one extra probe in at most: *)
(* the probes in flight exceed HalfOpenProbes by no more than the          *)
(* successes of this episode that were not a probe's.  (The comment of     *)
(* Allow says that it permits up to HalfOpenProbes requests.)              *)
(***************************************************************************)
ProbationBounded ==
    Cardinality(LiveProbes) <= HalfOpenProbes + (consecutiveSuccesses - probeWins)

(***************************************************************************)
(* A healthy upstream is served again: once failures and operator trips    *)
(* stop, the circuit ends up CLOSED and stays closed, whatever requests    *)
(* were in flight when it tripped.                                         *)
(***************************************************************************)
HealsWithUpstream ==
    <>[][~ Trip /\ \A r \in Requests : ~ RecordFailure(r)]_breakerVars
        => <>[](state = "CLOSED")
==============================================================================
