----------------------------- MODULE RequestPath -----------------------------
(***************************************************************************)
(* What concurrent requests share on their way through the proxy: the      *)
(* tenant list, the pool of contexts and the session vault, used by        *)
(* handleProxy (internal/server/server.go), PipelineRunner.Execute         *)
(* (internal/pipeline/pipeline.go), the stages that change the context     *)
(* (internal/inbound) and Forward (internal/dispatcher/dispatcher.go).     *)
(* Replies, audit entries and the breaker are in Gateway.                  *)
(*                                                                         *)
(* http.Transport sends the body from the array that CleanPayload had when *)
(* Forward was called, and may go on after Do has returned: it returns     *)
(* with an answer that the upstream gives before it has read the request.  *)
(***************************************************************************)
EXTENDS Authenticator, SessionVault, ContextPool

CONSTANTS Pipeline,       \* the stages: effect, failClosed, possible results
          Keys,           \* API keys that clients present
          SessionOf,      \* X-Session-ID of each request
          SecretsIn,      \* the secrets in a request's payload, in the scanner's order
          BodyLengths,
          Streaming,      \* the requests that ask for a stream
          TenantUpdates,  \* lists that SetTenants may be called with
          AddedTenants,   \* entries that AddTenant may be called with
          MaxUpdates,     \* bound: calls of the two
          MaxDestroyed    \* bound: sessions destroyed

StageResults == {"Continue", "DryRun", "Bypass", "Tripwire", "Panic", "Unknown"}

\* NewServer never runs an empty pipeline.  Tenant IDs have no colon, so that the
\* session keys of two tenants differ.  The scanner stores a secret once: it keeps
\* what it has seen in a pass, and replaces the secret before the next pass.
ASSUME PathAssumption ==
    /\ Storers = Requests \X Secrets
    /\ NoMapping \notin Storers
    /\ \A t \in Tenants : t.id \in Seq(STRING) /\ \A i \in DOMAIN t.id : t.id[i] # ":"
    /\ TenantUpdates \subseteq Seq(Tenants)
    /\ AddedTenants \subseteq Tenants
    /\ Pipeline # << >>
    /\ Pipeline \in Seq([effect : {"inspect", "sanitize", "redact", "canary"},
                         failClosed : BOOLEAN, results : SUBSET StageResults])
    /\ BodyLengths \subseteq Nat
    /\ SessionOf \in [Requests -> Seq(STRING)]
    /\ \A t \in Tenants, r \in Requests :
           SessionKeyOf(t.id, SessionOf[r]) \in SessionKeys
    /\ SecretsIn \in [Requests -> Seq(Secrets)]
    /\ \A r \in Requests : \A i, j \in DOMAIN SecretsIn[r] :
           SecretsIn[r][i] = SecretsIn[r][j] => i = j

NoCall == [secret |-> Nobody, mapping |-> NoMapping]

VARIABLES rpc,        \* where each request's handler is
          tc,         \* the pointer that Authenticate returned
          ctx,        \* the context
          tenant,     \* its TenantID
          stage,      \* the next stage to run
          pending,    \* secrets the scanner still has to store
          call,       \* the call of Store between its two halves
          wire,       \* the owners of the bytes that the upstream was sent
          updates,    \* calls of SetTenants and AddTenant
          verified,   \* history: the entry that the key was checked against
          approved,   \* history: fail-closed stages that let the request pass
          pseudonyms  \* history: what Store returned, with the mapping

tenantSideVars == <<tenantVars, updates>>
handlerVars == <<rpc, tc, ctx, tenant, stage, pending, call, wire>>
historyVars == <<verified, approved, pseudonyms>>
pathVars == <<tenantSideVars, vaultVars, poolVars, handlerVars, historyVars>>

PathInit ==
    /\ TenantsInit /\ VaultInit /\ PoolInit
    /\ rpc = [r \in Requests |-> "auth"]
    /\ tc = [r \in Requests |-> NoTenant]
    /\ ctx = [r \in Requests |-> NoContext]
    /\ tenant = [r \in Requests |-> << >>]
    /\ stage = [r \in Requests |-> 1]
    /\ pending = [r \in Requests |-> << >>]
    /\ call = [r \in Requests |-> NoCall]
    /\ wire = [r \in Requests |-> {}]
    /\ updates = 0
    /\ verified = [r \in Requests |-> NoTenant]
    /\ approved = [r \in Requests |-> {}]
    /\ pseudonyms = [r \in Requests |-> {}]

-----------------------------------------------------------------------------
At(r, place) == rpc[r] = place

GoTo(r, place) == rpc' = [rpc EXCEPT ![r] = place]

\* handleProxy returns: its variables are gone.
Return(r) ==
    /\ GoTo(r, "done")
    /\ tc' = [tc EXCEPT ![r] = NoTenant]
    /\ ctx' = [ctx EXCEPT ![r] = NoContext]
    /\ pending' = [pending EXCEPT ![r] = << >>]
    /\ stage' = [stage EXCEPT ![r] = 1]
    /\ UNCHANGED <<tenantSideVars, vaultVars, historyVars, tenant, call, wire>>

AuthFails(r) ==
    /\ At(r, "auth")
    /\ \E key \in Keys : ~ KeyAccepted(key)
    /\ Return(r)
    /\ UNCHANGED poolVars

AuthPasses(r) ==
    /\ At(r, "auth")
    /\ \E key \in Keys :
           /\ KeyAccepted(key)
           /\ tc' = [tc EXCEPT ![r] = Matched(key)]
           /\ verified' = [verified EXCEPT ![r] = Deref(Matched(key))]
    /\ GoTo(r, "body")
    /\ UNCHANGED <<tenantSideVars, vaultVars, poolVars, ctx, tenant, stage, pending,
                   call, wire, approved, pseudonyms>>

\* The body is too large or cannot be read.
BodyFails(r) ==
    /\ At(r, "body")
    /\ Return(r)
    /\ UNCHANGED poolVars

\* tc is read again, without the authenticator's mutex.
Begin(r) ==
    /\ At(r, "body")
    /\ \E c \in Contexts, n \in BodyLengths :
           /\ AcquireContext(r, c, n, r \in Streaming)
           /\ ctx' = [ctx EXCEPT ![r] = c]
           /\ pending' = [pending EXCEPT ![r] = IF n = 0 THEN << >> ELSE SecretsIn[r]]
    /\ tenant' = [tenant EXCEPT ![r] = Deref(tc[r]).id]
    /\ GoTo(r, "pipeline")
    /\ UNCHANGED <<tenantSideVars, vaultVars, historyVars, tc, stage, call, wire>>

-----------------------------------------------------------------------------
(***************************************************************************)
(* PipelineRunner.Execute                                                  *)
(***************************************************************************)
Running(r, effect) ==
    At(r, "pipeline") /\ stage[r] <= Len(Pipeline) /\ Pipeline[stage[r]].effect = effect

\* Mutant of Blocks: a panic is always bypassed.
BlocksOpen(s, result) == result = "Tripwire"

\* Whether a result ends the pipeline.
Blocks(s, result) ==
    \/ result = "Tripwire"
    \/ result \in {"Panic", "Unknown"} /\ s.failClosed

\* Fields that the runner and the stage set, besides the payload.
Marked(s, result) ==
    {"durations"}
        \cup (IF result \in {"Tripwire", "DryRun"} THEN {"findings"} ELSE {})
        \cup (IF s.effect = "canary" THEN {"canary"} ELSE {})

Passes == {"Continue", "DryRun", "Bypass"}

\* The stage has returned or panicked, and the runner goes on or stops.
Settle(r, result) ==
    LET s == Pipeline[stage[r]] IN
    /\ marks' = [marks EXCEPT ![ctx[r]] = SetBy(r, Marked(s, result), @)]
    /\ AddViolations(ctx[r], r, IF result = "DryRun" THEN 1 ELSE 0)
    /\ IF Blocks(s, result)
       THEN GoTo(r, "release") /\ UNCHANGED <<stage, approved>>
       ELSE /\ stage' = [stage EXCEPT ![r] = @ + 1]
            /\ approved' = IF s.failClosed /\ result \in Passes
                           THEN [approved EXCEPT ![r] = @ \cup {stage[r]}]
                           ELSE approved
            /\ GoTo(r, IF stage[r] = Len(Pipeline) THEN "forward" ELSE "pipeline")
    /\ UNCHANGED <<tenantSideVars, vaultVars, raw, pool, tc, ctx, tenant, pending, call,
                   wire, verified, pseudonyms>>

Results(r) == Pipeline[stage[r]].results

\* Rate limiter, injection matcher, entropy analyzer, a stage of one's own.
Inspect(r) ==
    /\ Running(r, "inspect")
    /\ \E result \in Results(r) : Settle(r, result)
    /\ UNCHANGED <<clean, alias>>

\* Mutant of Sanitized: the runes are removed in place.
SanitizedInPlace(c, n) == SetClean(c, [clean[c] EXCEPT !.len = n], TRUE)

\* The sanitizer writes what it keeps into a buffer of its own.
Sanitized(c, n) == SetClean(c, Copied(clean[c], n), FALSE)

Sanitize(r) ==
    /\ Running(r, "sanitize")
    /\ \/ /\ \E result \in Results(r) \ {"Panic"} : Settle(r, result)
          /\ IF clean[ctx[r]].len = 0 THEN UNCHANGED <<clean, alias>>
             ELSE \E n \in 0 .. clean[ctx[r]].len : Sanitized(ctx[r], n)
       \/ /\ "Panic" \in Results(r)
          /\ Settle(r, "Panic")
          /\ UNCHANGED <<clean, alias>>

\* The synthesizer binds its token into a copy, or appends it.
Canary(r) ==
    /\ Running(r, "canary")
    /\ \E result \in Results(r) : Settle(r, result)
    /\ LET c == ctx[r] IN
       IF clean[c].len = 0 THEN UNCHANGED <<clean, alias>>
       ELSE \/ SetClean(c, Appended(clean[c], r, 1), Fits(clean[c], 1))
            \/ SetClean(c, Appended(Copied(clean[c], clean[c].len), r, 1), FALSE)

\* The scanner stores one secret after another, and reports each.
SessionKey(r) == SessionKeyOf(tenant[r], SessionOf[r])

StoreBegins(r) ==
    /\ Running(r, "redact")
    /\ clean[ctx[r]].len > 0
    /\ call[r] = NoCall
    /\ pending[r] # << >>
    /\ LET s == Head(pending[r]) IN
           /\ GetOrCreateSession(<<r, s>>, SessionKey(r))
           /\ call' = [call EXCEPT ![r] =
                          [secret |-> s, mapping |-> Found(<<r, s>>, SessionKey(r))]]
    /\ pending' = [pending EXCEPT ![r] = Tail(@)]
    /\ UNCHANGED <<tenantSideVars, poolVars, historyVars,
                   rpc, tc, ctx, tenant, stage, wire>>

StoreEnds(r) ==
    /\ call[r] # NoCall
    /\ StoreSecret(call[r].mapping, call[r].secret)
    /\ pseudonyms' = [pseudonyms EXCEPT ![r] =
           @ \cup {<<call[r].secret, call[r].mapping,
                     PseudonymOf(call[r].mapping, call[r].secret)>>}]
    /\ AddViolations(ctx[r], r, 1)
    /\ call' = [call EXCEPT ![r] = NoCall]
    /\ UNCHANGED <<tenantSideVars, raw, clean, marks, pool, alias, rpc, tc, ctx, tenant,
                   stage, pending, wire, verified, approved>>

\* bytes.ReplaceAll returns a copy.
Redact(r) ==
    /\ Running(r, "redact")
    /\ call[r] = NoCall
    /\ clean[ctx[r]].len > 0 => pending[r] = << >>
    /\ \E result \in Results(r) : Settle(r, result)
    /\ IF pseudonyms[r] = {} THEN UNCHANGED <<clean, alias>>
       ELSE SetClean(ctx[r], Copied(clean[ctx[r]], clean[ctx[r]].len), FALSE)

-----------------------------------------------------------------------------
(***************************************************************************)
(* Forward                                                                 *)
(***************************************************************************)
\* The breaker refuses the request.
Refused(r) ==
    /\ At(r, "forward")
    /\ GoTo(r, "release")
    /\ UNCHANGED <<tenantSideVars, vaultVars, poolVars, historyVars,
                   tc, ctx, tenant, stage, pending, call, wire>>

\* client.Do with a reader of CleanPayload.
Send(r) ==
    /\ At(r, "forward")
    /\ GoTo(r, "await")
    /\ alias' = [alias EXCEPT ![r] = [at |-> ctx[r], kept |-> << >>,
                                         len |-> clean[ctx[r]].len]]
    /\ UNCHANGED <<tenantSideVars, vaultVars, historyVars, raw, clean, violations, marks,
                   pool, tc, ctx, tenant, stage, pending, call, wire>>

\* Do has returned, Forward inspects the response and returns.
Answered(r) ==
    /\ At(r, "await")
    /\ \/ UNCHANGED <<marks, violations>>
       \/ /\ marks' = [marks EXCEPT ![ctx[r]]["findings"] = r]
          /\ AddViolations(ctx[r], r, 1)
    /\ GoTo(r, "release")
    /\ UNCHANGED <<tenantSideVars, vaultVars, historyVars, raw, clean, pool, alias,
                   tc, ctx, tenant, stage, pending, call, wire>>

\* The deferred call in handleProxy.
Release(r) ==
    /\ At(r, "release")
    /\ ReleaseContext(ctx[r])
    /\ Return(r)

\* The transport sends a byte.
Transmit(r) ==
    /\ \E i \in 1 .. alias[r].len : wire' = [wire EXCEPT ![r] = @ \cup {View(r)[i]}]
    /\ UNCHANGED <<tenantSideVars, vaultVars, poolVars, historyVars,
                   rpc, tc, ctx, tenant, stage, pending, call>>

-----------------------------------------------------------------------------
(***************************************************************************)
(* The environment                                                         *)
(***************************************************************************)
\* The tenant list may be replaced at any time.  AddTenant writes into the
\* list in use and is called only while nothing is served.
UpdateTenants ==
    /\ updates < MaxUpdates
    /\ updates' = updates + 1
    /\ \/ \E list \in TenantUpdates : SetTenants(list)
       \/ /\ \A r \in Requests : rpc[r] = "auth"
          /\ \E t \in AddedTenants : AddTenant(t)
    /\ UNCHANGED <<vaultVars, poolVars, handlerVars, historyVars>>

Calls == {r \in Requests : call[r] # NoCall}

DestroyBegins ==
    /\ Cardinality(removed) < MaxDestroyed
    /\ \E key \in SessionKeys :
           DestroyRemoves(key, Calls, [r \in Requests |-> call[r].mapping])
    /\ UNCHANGED <<tenantSideVars, poolVars, handlerVars, historyVars>>

DestroyEnds ==
    /\ DestroyWipes
    /\ UNCHANGED <<tenantSideVars, poolVars, handlerVars, historyVars>>

CollectPooled ==
    /\ \E c \in Contexts : Collect(c)
    /\ UNCHANGED <<tenantSideVars, vaultVars, handlerVars, historyVars>>

HandlerStep(r) ==
    \/ AuthFails(r) \/ AuthPasses(r) \/ BodyFails(r) \/ Begin(r)
    \/ Inspect(r) \/ Sanitize(r) \/ StoreBegins(r) \/ StoreEnds(r)
    \/ Redact(r) \/ Canary(r)
    \/ Refused(r) \/ Send(r) \/ Answered(r) \/ Release(r)

PathNext ==
    \/ \E r \in Requests : HandlerStep(r) \/ Transmit(r)
    \/ UpdateTenants \/ DestroyBegins \/ DestroyEnds \/ CollectPooled

PathSpec == PathInit /\ [][PathNext]_pathVars

-----------------------------------------------------------------------------
Places == {"auth", "body", "pipeline", "forward", "await", "release", "done"}

Buffers == {raw[c] : c \in Contexts} \cup {clean[c] : c \in Contexts}
               \cup {violations[c] : c \in Contexts}

(***************************************************************************)
(* Type invariant.                                                         *)
(***************************************************************************)
PathTypeOK ==
    /\ \A b \in Buffers : b.len \in 0 .. Len(b.cells)
                         /\ \A i \in DOMAIN b.cells : b.cells[i] \in Requests \cup {Zero}
    /\ marks \in [Contexts -> [Fields -> Requests \cup {Nobody}]]
    /\ pool \subseteq Contexts
    /\ rpc \in [Requests -> Places]
    /\ ctx \in [Requests -> Contexts \cup {NoContext}]
    /\ stage \in [Requests -> 1 .. Len(Pipeline) + 1]
    /\ sessions \in [SessionKeys -> Storers \cup {NoMapping}]
    /\ current \in DOMAIN arrays

\* Between AcquireContext and ReleaseContext.
Serving(r) == rpc[r] \in {"pipeline", "forward", "await", "release"}

Blank(buf) == buf.len = 0 /\ \A i \in DOMAIN buf.cells : buf.cells[i] = Zero

(***************************************************************************)
(* ReleaseContext wipes what a request carried: both payload arrays of a   *)
(* pooled context are zero to their full capacity, whatever the stages did *)
(* to the buffers, and its canary token, rule, violation type, durations   *)
(* and StdContext are cleared.  Not so TenantID, SessionID, RequestID,     *)
(* StartTime, IsStreaming and the entries behind the end of Violations,    *)
(* which stay although its doc comment says that it "securely resets" a     *)
(* context; OwnDataOnly is about them.                                     *)
(***************************************************************************)
PoolKeepsNoPayload ==
    \A c \in pool :
        /\ Blank(raw[c]) /\ Blank(clean[c])
        /\ violations[c].len = 0
        /\ \A f \in {"std", "canary", "findings", "durations"} : marks[c][f] = Nobody

(***************************************************************************)
(* A request sees its own data only: its context belongs to no other       *)
(* request; its buffers hold nothing of another one, recycled or not; the  *)
(* fields that stay set in the pool are its own, and so are all entries of *)
(* Violations up to its length; and what the upstream got while the        *)
(* handler held the context is the request's own payload.                  *)
(***************************************************************************)
OwnDataOnly ==
    \A r \in Requests : Serving(r) =>
        LET c == ctx[r] IN
        /\ c \notin pool
        /\ \A q \in Requests \ {r} : Serving(q) => ctx[q] # c
        /\ \A b \in {raw[c], clean[c]} : \A i \in DOMAIN b.cells :
               b.cells[i] \in IF i <= b.len THEN {r} ELSE {r, Zero}
        /\ \A i \in 1 .. violations[c].len : violations[c].cells[i] = r
        /\ \A f \in Fields : marks[c][f] \in {r, Nobody}
        /\ \A f \in {"std", "identity", "request"} : marks[c][f] = r
        /\ wire[r] \subseteq {r}

(***************************************************************************)
(* Execute fails closed: a payload reaches the upstream, or the breaker,   *)
(* only if every fail-closed stage returned a result that lets it pass,    *)
(* however the stages before it ended.                                     *)
(***************************************************************************)
OnlyInspectedSent ==
    \A r \in Requests : rpc[r] \in {"forward", "await"} \/ wire[r] # {} =>
        \A i \in DOMAIN Pipeline : Pipeline[i].failClosed => i \in approved[r]

(***************************************************************************)
(* A request is served as the tenant its key was verified for, also when   *)
(* the list is replaced between VerifyKey and the reads through its        *)
(* result.                                                                 *)
(***************************************************************************)
ServedAsVerified ==
    \A r \in Requests :
        /\ rpc[r] = "body" => Deref(tc[r]) = verified[r]
        /\ Serving(r) => tenant[r] = verified[r].id /\ verified[r].enabled

(***************************************************************************)
(* Store returns "a deterministic pseudonym for this session": until its   *)
(* mapping is destroyed, a pseudonym in a payload resolves to its secret   *)
(* in the request's session, every request that stores the secret there    *)
(* gets the same one, and requests of two tenants share no mapping.        *)
(***************************************************************************)
PseudonymsResolve ==
    \A r \in Requests : \A p \in pseudonyms[r] :
        /\ p[2] \notin removed => Resolves(SessionKey(r), p[3], p[1])
        /\ \A q \in Requests : \A o \in pseudonyms[q] : o[2] = p[2] =>
               /\ tenant[q] = tenant[r]
               /\ o[1] = p[1] /\ p[2] \notin removed => o[3] = p[3]

(***************************************************************************)
(* Destroy leaves nothing behind, except what a Store writes that had      *)
(* found the mapping before Destroy took it out of the vault.              *)
(***************************************************************************)
OrphansOnlyByRace ==
    \A m \in removed \ {destroying} :
        \A s \in DOMAIN forwardMap[m] \cup Range(reverseMap[m]) :
            \E r \in caught : \E p \in pseudonyms[r] : p[1] = s /\ p[2] = m

(***************************************************************************)
(* A context is the "mutable state for a single request evaluation": the   *)
(* upstream receives the bytes of the request's own payload and no others. *)
(***************************************************************************)
UpstreamGetsOwnPayload ==
    \A r \in Requests : wire[r] \subseteq {r}
==============================================================================
