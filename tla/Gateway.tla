------------------------------- MODULE Gateway -------------------------------
(***************************************************************************)
(* The life of a request: handleProxy (internal/server/server.go) and      *)
(* Forward (internal/dispatcher/dispatcher.go), composed with the circuit  *)
(* breaker of CircuitBreaker.  Any number of handlers run concurrently;    *)
(* each may lose its client at any time, and the upstream may answer, fail *)
(* or hang.                                                                *)
(*                                                                         *)
(* Headers, URLs and bodies are left out; what the authenticator, the      *)
(* inbound pipeline and the outbound inspection decide is an input here.   *)
(* The proxy may run without an audit ledger.  With one, Record never      *)
(* blocks: it queues the entry or refuses it, when the ring is full or the *)
(* ledger closed, and the handlers ignore which.                           *)
(***************************************************************************)
EXTENDS CircuitBreaker

VARIABLES gpc,       \* where each request's handler is
          gone,      \* whether the client has left (r.Context() is done)
          reply,     \* what the client was sent
          outcome,   \* the action that the handler reports: the label of its
                     \* audit entry and of the request counter
          record,    \* what the audit ledger did with the entry
          counted,   \* calls to IncAuditRecords for this request
          contact,   \* how far the payload and the upstream got
          ledgerAttached,  \* whether auditLedger is not nil
          faulted    \* history: the upstream has failed a request

handlerVars == <<gpc, gone, reply, outcome, record, counted, contact, ledgerAttached>>
gatewayVars == <<breakerVars, handlerVars, faulted>>

Stages == {"auth", "body", "pipeline", "allow", "await", "failed", "stream",
           "sync", "done"}

Replies == {"none", "401", "403", "413", "400", "429", "503", "502", "sse",
            "cut", "empty", "relayed"}

\* What the handlers write into the audit trail, with the reply they send.
Audited == {<<"AUTH_FAILURE", "401">>, <<"AUTH_FAILURE", "403">>,
            <<"PAYLOAD_TOO_LARGE", "413">>,
            <<"RATE_LIMIT", "429">>, <<"BLOCK_INBOUND", "400">>,
            <<"CIRCUIT_OPEN", "503">>, <<"UPSTREAM_UNAVAILABLE", "502">>,
            <<"TRIPWIRE_ABORT", "cut">>, <<"ALLOW", "sse">>,
            <<"BLOCK_OUTBOUND", "502">>, <<"ALLOW", "relayed">>}

\* Outcomes of requests that were refused before the upstream was involved.
Refusals == {"AUTH_FAILURE", "PAYLOAD_TOO_LARGE", "RATE_LIMIT", "BLOCK_INBOUND",
             "CIRCUIT_OPEN"}

\* Where they report no outcome, the reply and how far the payload got: a body
\* that cannot be read, a client that left during the dispatch, and a response
\* that cannot be read.
Unreported == {<<"400", "none">>,
               <<"none", "none">>, <<"none", "sent">>, <<"none", "failed">>,
               <<"empty", "answered">>}

GatewayInit ==
    /\ BreakerInit
    /\ gpc = [r \in Requests |-> "auth"]
    /\ gone = [r \in Requests |-> FALSE]
    /\ reply = [r \in Requests |-> "none"]
    /\ outcome = [r \in Requests |-> "none"]
    /\ record = [r \in Requests |-> "none"]
    /\ counted = [r \in Requests |-> 0]
    /\ contact = [r \in Requests |-> "none"]
    /\ ledgerAttached \in BOOLEAN
    /\ faulted = FALSE

-----------------------------------------------------------------------------
At(r, stage) == gpc[r] = stage

GoTo(r, stage) == gpc' = [gpc EXCEPT ![r] = stage]

\* Record, at the sites where the handlers look whether there is a ledger.
RecordEntry(r) ==
    \/ /\ ledgerAttached
       /\ \E result \in {"queued", "refused"} : record' = [record EXCEPT ![r] = result]
    \/ ~ ledgerAttached /\ UNCHANGED record

\* Mutant of FinishAudited: the entry is counted by recordAudit and its caller.
FinishCountedTwice(r, act, status) ==
    /\ GoTo(r, "done")
    /\ reply' = [reply EXCEPT ![r] = status]
    /\ outcome' = [outcome EXCEPT ![r] = act]
    /\ RecordEntry(r)
    /\ counted' = [counted EXCEPT ![r] = @ + 2]
    /\ UNCHANGED <<gone, contact, ledgerAttached>>

\* The handler replies, records an audit entry if there is a ledger, counts
\* the request and, in every case, the entry, and returns.
FinishAudited(r, act, status) ==
    /\ GoTo(r, "done")
    /\ reply' = [reply EXCEPT ![r] = status]
    /\ RecordEntry(r)
    /\ outcome' = [outcome EXCEPT ![r] = act]
    /\ counted' = [counted EXCEPT ![r] = @ + 1]
    /\ UNCHANGED <<gone, contact, ledgerAttached>>

\* The handler returns without an audit entry and without a metric.
FinishSilently(r, status) ==
    /\ GoTo(r, "done")
    /\ reply' = [reply EXCEPT ![r] = status]
    /\ UNCHANGED <<gone, outcome, record, counted, contact, ledgerAttached>>

Proceed(r, stage) ==
    /\ GoTo(r, stage)
    /\ UNCHANGED <<gone, reply, outcome, record, counted, contact, ledgerAttached>>

\* The handler goes on, and it is known how the upstream request went.
ProceedKnowing(r, stage, result) ==
    /\ GoTo(r, stage)
    /\ contact' = [contact EXCEPT ![r] = result]
    /\ UNCHANGED <<gone, reply, outcome, record, counted, ledgerAttached>>

NoBreaker == UNCHANGED <<breakerVars, faulted>>

(***************************************************************************)
(* handleProxy, up to the call of Forward                                  *)
(***************************************************************************)
\* 403 is for a key whose tenant is disabled.
AuthFails(r) ==
    At(r, "auth") /\ NoBreaker
    /\ \E status \in {"401", "403"} : FinishAudited(r, "AUTH_FAILURE", status)

AuthPasses(r) == At(r, "auth") /\ Proceed(r, "body") /\ NoBreaker

BodyTooLarge(r) ==
    At(r, "body") /\ FinishAudited(r, "PAYLOAD_TOO_LARGE", "413") /\ NoBreaker

\* The body cannot be read: 400, but neither an audit entry nor a metric.
BodyUnreadable(r) == At(r, "body") /\ FinishSilently(r, "400") /\ NoBreaker

BodyRead(r) == At(r, "body") /\ Proceed(r, "pipeline") /\ NoBreaker

RateLimited(r) ==
    At(r, "pipeline") /\ FinishAudited(r, "RATE_LIMIT", "429") /\ NoBreaker

Blocked(r) ==
    At(r, "pipeline") /\ FinishAudited(r, "BLOCK_INBOUND", "400") /\ NoBreaker

PipelinePasses(r) == At(r, "pipeline") /\ Proceed(r, "allow") /\ NoBreaker

(***************************************************************************)
(* Forward: the breaker, then the upstream request                         *)
(***************************************************************************)
Refused(r) ==
    At(r, "allow") /\ AllowRefused
    /\ FinishAudited(r, "CIRCUIT_OPEN", "503") /\ NoBreaker

Admitted(r) ==
    /\ At(r, "allow")
    /\ Allow(r)
    /\ Proceed(r, "await")
    /\ UNCHANGED faulted

\* Inside client.Do the upstream has been dialled and gets the payload.
PayloadSent(r) ==
    /\ At(r, "await")
    /\ contact[r] = "none"
    /\ ProceedKnowing(r, "await", "sent")
    /\ NoBreaker

\* client.Do fails: the upstream cannot be dialled, breaks the connection or
\* is too slow to answer.
UpstreamFails(r) ==
    /\ At(r, "await")
    /\ RecordFailure(r)
    /\ faulted' = TRUE
    /\ ProceedKnowing(r, "failed", "failed")

\* Mutant of DispatchCancelled: the context is looked at before the breaker
\* is told.
CancelledUnrecorded(r) ==
    At(r, "await") /\ gone[r] /\ FinishSilently(r, "none") /\ NoBreaker

\* Mutant of DispatchCancelled: the upstream request is built without the
\* client's context, so that only the upstream can end the wait.
DispatchDetached(r) == At(r, "await") /\ gone[r] /\ FALSE /\ UNCHANGED gatewayVars

\* client.Do fails because the client has left.
DispatchCancelled(r) ==
    /\ At(r, "await")
    /\ gone[r]
    /\ RecordFailure(r)
    /\ Proceed(r, "failed")
    /\ UNCHANGED faulted

\* Only now does Forward look at the client's context.
FailedGone(r) ==
    At(r, "failed") /\ gone[r] /\ FinishSilently(r, "none") /\ NoBreaker

\* Mutant of FailedReply: the client's context is not looked at, so that its
\* departure is reported as an unavailable upstream.
FailedReplyAlways(r) ==
    At(r, "failed") /\ FinishAudited(r, "UPSTREAM_UNAVAILABLE", "502") /\ NoBreaker

FailedReply(r) ==
    At(r, "failed") /\ ~ gone[r]
    /\ FinishAudited(r, "UPSTREAM_UNAVAILABLE", "502") /\ NoBreaker

\* The status line arrives; the content type says what the body is.
UpstreamAnswers(r) ==
    /\ At(r, "await")
    /\ contact[r] = "sent"
    /\ RecordSuccess(r)
    /\ \E kind \in {"stream", "sync"} : ProceedKnowing(r, kind, "answered")
    /\ UNCHANGED faulted

UpstreamAnswers5xx(r) ==
    /\ At(r, "await")
    /\ contact[r] = "sent"
    /\ RecordFailure(r)
    /\ \E kind \in {"stream", "sync"} : ProceedKnowing(r, kind, "answered")
    /\ faulted' = TRUE

(***************************************************************************)
(* Forward: the response                                                   *)
(***************************************************************************)
StreamTrips(r) ==
    At(r, "stream") /\ FinishAudited(r, "TRIPWIRE_ABORT", "cut") /\ NoBreaker

\* ProcessStream returned without a tripwire, at the end of the stream or on
\* an error of either side.
StreamEnds(r) ==
    At(r, "stream") /\ FinishAudited(r, "ALLOW", "sse") /\ NoBreaker

\* The body cannot be read: the client gets an empty 200.
SyncUnreadable(r) == At(r, "sync") /\ FinishSilently(r, "empty") /\ NoBreaker

SyncBlocked(r) ==
    At(r, "sync") /\ FinishAudited(r, "BLOCK_OUTBOUND", "502") /\ NoBreaker

SyncRelayed(r) ==
    At(r, "sync") /\ FinishAudited(r, "ALLOW", "relayed") /\ NoBreaker

-----------------------------------------------------------------------------
ClientLeaves(r) ==
    /\ gpc[r] # "done"
    /\ ~ gone[r]
    /\ gone' = [gone EXCEPT ![r] = TRUE]
    /\ UNCHANGED <<gpc, reply, outcome, record, counted, contact, ledgerAttached>>
    /\ NoBreaker

\* A client sends its next request.
NextRequest(r) ==
    /\ At(r, "done")
    /\ GoTo(r, "auth")
    /\ gone' = [gone EXCEPT ![r] = FALSE]
    /\ reply' = [reply EXCEPT ![r] = "none"]
    /\ outcome' = [outcome EXCEPT ![r] = "none"]
    /\ record' = [record EXCEPT ![r] = "none"]
    /\ counted' = [counted EXCEPT ![r] = 0]
    /\ contact' = [contact EXCEPT ![r] = "none"]
    /\ UNCHANGED ledgerAttached
    /\ NoBreaker

TimePasses == Tick /\ UNCHANGED <<handlerVars, faulted>>

\* Steps that wait for the upstream, which may never come.
UpstreamStep(r) ==
    PayloadSent(r) \/ UpstreamFails(r) \/ UpstreamAnswers(r) \/ UpstreamAnswers5xx(r)

\* Steps of the handler itself.  Reads of the two bodies are among them: both
\* fail once the client has left.
HandlerStep(r) ==
    \/ AuthFails(r) \/ AuthPasses(r)
    \/ BodyTooLarge(r) \/ BodyUnreadable(r) \/ BodyRead(r)
    \/ RateLimited(r) \/ Blocked(r) \/ PipelinePasses(r)
    \/ Refused(r) \/ Admitted(r)
    \/ DispatchCancelled(r) \/ FailedGone(r) \/ FailedReply(r)
    \/ StreamTrips(r) \/ StreamEnds(r)
    \/ SyncUnreadable(r) \/ SyncBlocked(r) \/ SyncRelayed(r)

GatewayNext ==
    \/ \E r \in Requests :
           HandlerStep(r) \/ UpstreamStep(r) \/ ClientLeaves(r) \/ NextRequest(r)
    \/ TimePasses

GatewaySpec == GatewayInit /\ [][GatewayNext]_gatewayVars

\* Nothing bounds how long a client or the upstream may take.  A handler whose
\* client has left waits for neither, because the upstream request carries the
\* client's context; the upstream itself is never assumed to answer.
GatewayFairness == \A r \in Requests : WF_gatewayVars(gone[r] /\ HandlerStep(r))

GatewayFairSpec == GatewaySpec /\ GatewayFairness

-----------------------------------------------------------------------------
(***************************************************************************)
(* Type invariant of the handlers' state.                                  *)
(***************************************************************************)
GatewayTypeOK ==
    /\ gpc \in [Requests -> Stages]
    /\ gone \in [Requests -> BOOLEAN]
    /\ reply \in [Requests -> Replies]
    /\ outcome \in [Requests -> {"none"} \cup {a[1] : a \in Audited}]
    /\ record \in [Requests -> {"none", "queued", "refused"}]
    /\ counted \in [Requests -> 0 .. 1]
    /\ contact \in [Requests -> {"none", "sent", "answered", "failed"}]
    /\ ledgerAttached \in BOOLEAN
    /\ faulted \in BOOLEAN

(***************************************************************************)
(* Every request that the breaker let through is settled with it exactly   *)
(* once: the breaker waits for an outcome of r just while r's handler      *)
(* waits for the upstream.  No way out of Forward keeps a probe slot.      *)
(***************************************************************************)
TicketsSettled ==
    \A r \in Requests : ticket[r] # "none" <=> gpc[r] = "await"

(***************************************************************************)
(* What a handler reports is what happened to the request.  The outcome    *)
(* goes with the reply of its exit; a refusal is reported only for a       *)
(* payload that never left the proxy, an unavailable upstream only when    *)
(* the upstream failed (never because the client left), and a verdict on a *)
(* response only when the upstream answered.  With a ledger every reported *)
(* outcome is offered to it, without one none is.  A handler that ends     *)
(* without reporting took one of three exits: the body was unreadable, the *)
(* client left during the dispatch, or the response was unreadable.        *)
(*                                                                         *)
(* This is less than the documents say: the README promises a log for      *)
(* every request, and the counter's help text says that what it counts was *)
(* queued, but an entry that the ledger refuses is counted too.            *)
(***************************************************************************)
AuditTellsTruth ==
    \A r \in Requests :
        /\ counted[r] = 1 <=> outcome[r] # "none"
        /\ record[r] # "none" <=> outcome[r] # "none" /\ ledgerAttached
        /\ outcome[r] # "none" => /\ gpc[r] = "done"
                                  /\ <<outcome[r], reply[r]>> \in Audited
        /\ outcome[r] \in Refusals => contact[r] = "none"
        /\ outcome[r] = "UPSTREAM_UNAVAILABLE" => contact[r] = "failed"
        /\ outcome[r] \in {"TRIPWIRE_ABORT", "ALLOW", "BLOCK_OUTBOUND"}
               => contact[r] = "answered"
        /\ gpc[r] = "done" /\ outcome[r] = "none"
               => <<reply[r], contact[r]>> \in Unreported

(***************************************************************************)
(* A client that leaves frees its handler, even when the upstream hangs:   *)
(* with it go the pipeline context and the breaker's probe slot.           *)
(***************************************************************************)
LeavingFreesHandler == \A r \in Requests : gone[r] ~> gpc[r] = "done"

(***************************************************************************)
(* RecordFailure "records an upstream failure (network error, timeout, or  *)
(* 5xx response)": while the upstream has failed no request, the circuit   *)
(* stays closed.                                                           *)
(***************************************************************************)
HealthyUpstreamServed == ~ faulted => state = "CLOSED"
==============================================================================
