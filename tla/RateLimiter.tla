----------------------------- MODULE RateLimiter -----------------------------
(***************************************************************************)
(* The sliding-window rate limiter of internal/inbound/limiter.go.         *)
(* Handlers call Execute concurrently; each tenant has a bucket with its   *)
(* own mutex, and one more mutex guards the map of buckets and the clock.  *)
(* The buckets are configured by SetTenantLimit, which is called while the *)
(* pipeline is built (internal/inbound/pipeline.go) and not while requests *)
(* are served: it takes the two mutexes in the opposite order of Execute.  *)
(*                                                                         *)
(* A payload is its length and its max_tokens field, which is any int that *)
(* the client chose.  Token counts are added as Go adds ints: a sum beyond *)
(* their range wraps around.  Time is counted in ticks; Window ticks are   *)
(* the minute of the code.                                                 *)
(***************************************************************************)
EXTENDS Integers, Sequences, FiniteSets

CONSTANTS Callers,        \* goroutines calling Execute
          Tenants,        \* tenant identifiers
          Entries,        \* configured limits: [tenant, rpm, tpm]
          DefaultLimit,   \* the limit of a tenant without an entry: [rpm, tpm]
          Payloads,       \* request payloads: [len, max_tokens]
          IntLimit,       \* ints are -IntLimit .. IntLimit - 1
          Window,         \* length of the sliding window, in ticks
          MaxTime,        \* bound on the clock
          NoCaller        \* owner of a mutex that nobody holds

Ints == -IntLimit .. IntLimit - 1

Limits == [rpm : Ints, tpm : Ints]

\* An entry is applied only if it limits something (pipeline.go:23).  A payload
\* (MaxPayloadBytes at most) is far shorter than the largest int.
ASSUME LimiterAssumption ==
    /\ NoCaller \notin Callers
    /\ IntLimit \in Nat /\ IntLimit > 1
    /\ Entries \subseteq [tenant : Tenants, rpm : Ints, tpm : Ints]
    /\ \A e \in Entries : e.rpm > 0 \/ e.tpm > 0
    /\ DefaultLimit \in Limits
    /\ Payloads \subseteq [len : Nat, max_tokens : Ints]
    /\ \A p \in Payloads : p.len * 133 < 400 * IntLimit
    /\ Window \in Nat \ {0}
    /\ MaxTime \in Nat

VARIABLES now,            \* the clock
          todo,           \* entries that the pipeline's construction has yet to apply
          setting,        \* the entry SetTenantLimit is applying; it holds r.mu
          exists,         \* tenants that have a bucket
          limit,          \* bucket.rpm and bucket.tpm
          owner,          \* who holds bucket.mu
          requestTimes,   \* bucket.requestTimes
          tokenRecords,   \* bucket.tokenRecords
          lpc,            \* where each caller is in Execute
          call,           \* its arguments: tenant and payload
          read,           \* the time it has read
          accepted        \* history: all that each bucket has ever accepted

mapVars == <<todo, setting, exists>>
bucketVars == <<limit, requestTimes, tokenRecords, accepted>>
limiterVars == <<now, mapVars, bucketVars, owner, lpc, call, read>>

Records == [timestamp : Nat, tokens : Int]

LimiterInit ==
    /\ now = 0
    /\ todo = Entries
    /\ setting = {}
    /\ exists = {}
    /\ limit = [t \in Tenants |-> DefaultLimit]
    /\ owner = [t \in Tenants |-> NoCaller]
    /\ requestTimes = [t \in Tenants |-> <<>>]
    /\ tokenRecords = [t \in Tenants |-> <<>>]
    /\ lpc \in [Callers -> {"idle"}]
    /\ call = [c \in Callers |-> {}]
    /\ read = [c \in Callers |-> 0]
    /\ accepted = [t \in Tenants |-> <<>>]

-----------------------------------------------------------------------------
(***************************************************************************)
(* SetTenantLimit                                                          *)
(***************************************************************************)
MapFree == setting = {}

LimitOf(entry) == [rpm |-> entry.rpm, tpm |-> entry.tpm]

\* r.mu.Lock()
SetBegin(entry) ==
    /\ MapFree
    /\ entry \in todo
    /\ setting' = {entry}
    /\ todo' = todo \ {entry}
    /\ UNCHANGED <<now, exists, bucketVars, owner, lpc, call, read>>

SetNew ==
    \E entry \in setting :
        /\ entry.tenant \notin exists
        /\ exists' = exists \cup {entry.tenant}
        /\ limit' = [limit EXCEPT ![entry.tenant] = LimitOf(entry)]
        /\ setting' = {}
        /\ UNCHANGED <<now, todo, requestTimes, tokenRecords, accepted, owner,
                       lpc, call, read>>

\* bucket.mu.Lock() while r.mu is held.
SetExisting ==
    \E entry \in setting :
        /\ entry.tenant \in exists
        /\ owner[entry.tenant] = NoCaller
        /\ limit' = [limit EXCEPT ![entry.tenant] = LimitOf(entry)]
        /\ setting' = {}
        /\ UNCHANGED <<now, todo, exists, requestTimes, tokenRecords, accepted,
                       owner, lpc, call, read>>

-----------------------------------------------------------------------------
(***************************************************************************)
(* Execute                                                                 *)
(***************************************************************************)
\* A handler calls Execute, once the pipeline is built.
Call(c, t, p) ==
    /\ lpc[c] = "idle"
    /\ todo = {}
    /\ lpc' = [lpc EXCEPT ![c] = "lookup"]
    /\ call' = [call EXCEPT ![c] = {[tenant |-> t, payload |-> p]}]
    /\ UNCHANGED <<now, mapVars, bucketVars, owner, read>>

\* getOrCreateBucket, under r.mu; a new bucket has the default limit.
Lookup(c) ==
    \E a \in call[c] :
        /\ lpc[c] = "lookup"
        /\ MapFree
        /\ exists' = exists \cup {a.tenant}
        /\ lpc' = [lpc EXCEPT ![c] = "lock"]
        /\ UNCHANGED <<now, todo, setting, bucketVars, owner, call, read>>

Unlimited(t) == limit[t].rpm <= 0 /\ limit[t].tpm <= 0

\* What the call returns shows in accepted, which grows just if the request of
\* a limited tenant goes on.
Return(c) ==
    /\ lpc' = [lpc EXCEPT ![c] = "idle"]
    /\ call' = [call EXCEPT ![c] = {}]
    /\ read' = [read EXCEPT ![c] = 0]

\* bucket.mu.Lock(), to find the tenant without limits.
PassUnlimited(c) ==
    \E a \in call[c] :
        /\ lpc[c] = "lock"
        /\ owner[a.tenant] = NoCaller
        /\ Unlimited(a.tenant)
        /\ Return(c)
        /\ UNCHANGED <<now, mapVars, bucketVars, owner>>

\* Mutant of LockBucket: the bucket is not locked.
LockNothing(c) ==
    \E a \in call[c] :
        /\ lpc[c] = "lock"
        /\ owner[a.tenant] = NoCaller
        /\ ~ Unlimited(a.tenant)
        /\ lpc' = [lpc EXCEPT ![c] = "clock"]
        /\ UNCHANGED <<now, mapVars, bucketVars, owner, call, read>>

LockBucket(c) ==
    \E a \in call[c] :
        /\ lpc[c] = "lock"
        /\ owner[a.tenant] = NoCaller
        /\ ~ Unlimited(a.tenant)
        /\ owner' = [owner EXCEPT ![a.tenant] = c]
        /\ lpc' = [lpc EXCEPT ![c] = "clock"]
        /\ UNCHANGED <<now, mapVars, bucketVars, call, read>>

\* r.mu.RLock() while bucket.mu is held.
ReadClock(c) ==
    /\ lpc[c] = "clock"
    /\ MapFree
    /\ read' = [read EXCEPT ![c] = now]
    /\ lpc' = [lpc EXCEPT ![c] = "decide"]
    /\ UNCHANGED <<now, mapVars, bucketVars, owner, call>>

\* Mutant of Expired: a record of exactly a minute ago is dropped.
ExpiredEarly(time, clock) == time <= clock - Window

\* Mutant of Expired: a record is kept for a tick too long.
ExpiredLate(time, clock) == time < clock - Window - 1

\* timestamp.Before(cutoff)
Expired(time, clock) == time < clock - Window

\* The addition of two ints.
Plus(x, y) ==
    CASE x + y >= IntLimit   -> x + y - 2 * IntLimit
      [] x + y < -IntLimit   -> x + y + 2 * IntLimit
      [] OTHER               -> x + y

\* currentTokens, after the loop over the records.
CurrentTokens(records) ==
    LET sum[i \in 0 .. Len(records)] ==
            IF i = 0 THEN 0 ELSE Plus(sum[i - 1], records[i].tokens)
    IN  sum[Len(records)]

\* len(payload)/4 * 1.33, but at least 1, plus max_tokens; 1 if there is none.
EstimateTokens(payload) ==
    LET base == (payload.len * 133) \div 400
    IN  IF payload.len = 0 THEN 1
        ELSE Plus(IF base < 1 THEN 1 ELSE base, payload.max_tokens)

\* The entries of a list at the places in live, each moved to the place that is
\* the number of those up to it.
Compacted(list, live) ==
    [k \in 1 .. Cardinality(live) |->
        list[CHOOSE i \in live : Cardinality({j \in live : j <= i}) = k]]

\* What pruning leaves of the two lists of tenant t at the given time.
LiveTimes(t, clock) ==
    LET times == requestTimes[t] IN
    Compacted(times, {i \in DOMAIN times : ~ Expired(times[i], clock)})

LiveRecords(t, clock) ==
    LET records == tokenRecords[t] IN
    Compacted(records, {i \in DOMAIN records : ~ Expired(records[i].timestamp, clock)})

OverLimit(t, times, records, cost) ==
    \/ limit[t].rpm > 0 /\ Len(times) >= limit[t].rpm
    \/ limit[t].tpm > 0 /\ Plus(CurrentTokens(records), cost) > limit[t].tpm

\* Prune both lists, compare with the limits, record the request if it fits,
\* and unlock the bucket.
Reject(c) ==
    \E a \in call[c] :
        LET t == a.tenant
            times == LiveTimes(t, read[c])
            records == LiveRecords(t, read[c])
        IN  /\ lpc[c] = "decide"
            /\ OverLimit(t, times, records, EstimateTokens(a.payload))
            /\ requestTimes' = [requestTimes EXCEPT ![t] = times]
            /\ tokenRecords' = [tokenRecords EXCEPT ![t] = records]
            /\ owner' = [owner EXCEPT ![t] = NoCaller]
            /\ Return(c)
            /\ UNCHANGED <<now, mapVars, limit, accepted>>

\* Mutant of Accept: an early return keeps the bucket locked.
AcceptLocked(c) ==
    \E a \in call[c] :
        LET t == a.tenant
            cost == EstimateTokens(a.payload)
            new == [timestamp |-> read[c], tokens |-> cost]
            times == LiveTimes(t, read[c])
            records == LiveRecords(t, read[c])
        IN  /\ lpc[c] = "decide"
            /\ ~ OverLimit(t, times, records, cost)
            /\ requestTimes' = [requestTimes EXCEPT ![t] = Append(times, read[c])]
            /\ tokenRecords' = [tokenRecords EXCEPT ![t] = Append(records, new)]
            /\ accepted' = [accepted EXCEPT ![t] = Append(@, new)]
            /\ Return(c)
            /\ UNCHANGED <<now, mapVars, limit, owner>>

Accept(c) ==
    \E a \in call[c] :
        LET t == a.tenant
            cost == EstimateTokens(a.payload)
            new == [timestamp |-> read[c], tokens |-> cost]
            times == LiveTimes(t, read[c])
            records == LiveRecords(t, read[c])
        IN  /\ lpc[c] = "decide"
            /\ ~ OverLimit(t, times, records, cost)
            /\ requestTimes' = [requestTimes EXCEPT ![t] = Append(times, read[c])]
            /\ tokenRecords' = [tokenRecords EXCEPT ![t] = Append(records, new)]
            /\ accepted' = [accepted EXCEPT ![t] = Append(@, new)]
            /\ owner' = [owner EXCEPT ![t] = NoCaller]
            /\ Return(c)
            /\ UNCHANGED <<now, mapVars, limit>>

TimePasses ==
    /\ now < MaxTime
    /\ now' = now + 1
    /\ UNCHANGED <<mapVars, bucketVars, owner, lpc, call, read>>

-----------------------------------------------------------------------------
SetStep == SetNew \/ SetExisting

CallerStep(c) ==
    \/ Lookup(c) \/ PassUnlimited(c) \/ LockBucket(c) \/ ReadClock(c)
    \/ Reject(c) \/ Accept(c)

LimiterNext ==
    \/ \E e \in Entries : SetBegin(e)
    \/ SetStep
    \/ \E c \in Callers : CallerStep(c)
    \/ \E c \in Callers, t \in Tenants, p \in Payloads : Call(c, t, p)
    \/ TimePasses

LimiterSpec == LimiterInit /\ [][LimiterNext]_limiterVars

\* Goroutines are scheduled, and Go's mutexes hand themselves over to whoever
\* has waited for long: a step that is enabled again and again is taken.
LimiterFairness ==
    /\ SF_limiterVars(SetStep)
    /\ \A c \in Callers : SF_limiterVars(CallerStep(c))

LimiterFairSpec == LimiterSpec /\ LimiterFairness

-----------------------------------------------------------------------------
(***************************************************************************)
(* Type invariant.                                                         *)
(***************************************************************************)
LimiterTypeOK ==
    /\ now \in 0 .. MaxTime
    /\ todo \subseteq Entries
    /\ setting \subseteq Entries /\ Cardinality(setting) <= 1
    /\ exists \subseteq Tenants
    /\ \A t \in Tenants :
          /\ limit[t] \in {DefaultLimit} \cup {LimitOf(e) : e \in Entries}
          /\ owner[t] \in Callers \cup {NoCaller}
          /\ \A i \in DOMAIN requestTimes[t] : requestTimes[t][i] \in 0 .. now
          /\ \A i \in DOMAIN tokenRecords[t] : tokenRecords[t][i] \in Records
    /\ \A c \in Callers :
          /\ lpc[c] \in {"idle", "lookup", "lock", "clock", "decide"}
          /\ call[c] \subseteq [tenant : Tenants, payload : Payloads]
          /\ call[c] = {} <=> lpc[c] = "idle"
          /\ read[c] \in 0 .. now
          /\ lpc[c] \in {"clock", "decide"} =>
                \A a \in call[c] : owner[a.tenant] = c

\* What tenant t was allowed in the minute that ends at the given time, both ends
\* included.
InWindow(t, end) ==
    LET records == accepted[t] IN
    Compacted(records,
              {i \in DOMAIN records : end - records[i].timestamp \in 0 .. Window})

\* The tokens of all records together, as a number of arithmetic.
Tokens(records) ==
    LET sum[i \in 0 .. Len(records)] ==
            IF i = 0 THEN 0 ELSE sum[i - 1] + records[i].tokens
    IN  sum[Len(records)]

\* Nothing that was charged is negative, or so large that adding it to what a
\* tenant may use would wrap around.  It depends on the max_tokens of the clients.
Plausible(charged, lim) ==
    \A i \in DOMAIN charged : /\ charged[i].tokens >= 0
                              /\ charged[i].tokens + lim.tpm < IntLimit

(***************************************************************************)
(* No window of a minute, wherever it is placed, holds more requests of a  *)
(* tenant than its rpm, however its requests interleave and whatever they  *)
(* contain.  Nor does it hold more estimated tokens than its tpm, if the   *)
(* estimates of what was accepted are plausible: a negative max_tokens, or *)
(* one that makes the sum wrap around, buys tokens, against the README.    *)
(***************************************************************************)
QuotaNeverExceeded ==
    \A t \in Tenants, end \in 0 .. now :
        LET w == InWindow(t, end) IN
        /\ limit[t].rpm > 0 => Len(w) <= limit[t].rpm
        /\ limit[t].tpm > 0 /\ Plausible(accepted[t], limit[t])
              => Tokens(w) <= limit[t].tpm

(***************************************************************************)
(* A request is refused only when its tenant has used the quota up: what   *)
(* was accepted in the minute before, and nothing older, leaves no room    *)
(* for it.  Refused requests use nothing up.  The token count can be held  *)
(* to this only while what was charged is plausible.                       *)
(***************************************************************************)
RefusedOnlyOverQuota ==
    [][\A c \in Callers :
          lpc[c] = "decide" /\ lpc'[c] = "idle" /\ UNCHANGED accepted =>
             \A a \in call[c] :
                LET t == a.tenant
                    w == InWindow(t, read[c])
                IN  \/ limit[t].rpm > 0 /\ Len(w) >= limit[t].rpm
                    \/ /\ limit[t].tpm > 0
                       /\ Plausible(accepted[t], limit[t])
                             => Tokens(w) + EstimateTokens(a.payload) > limit[t].tpm
      ]_limiterVars

(***************************************************************************)
(* Every call of Execute returns: no order in which the two mutexes are    *)
(* taken keeps a handler waiting for ever.  The doc comment of RateLimiter *)
(* calls it "thread-safe".                                                 *)
(***************************************************************************)
ExecuteReturns == \A c \in Callers : lpc[c] # "idle" ~> lpc[c] = "idle"
==============================================================================
