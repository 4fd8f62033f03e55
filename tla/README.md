# Verification of the AI security guardrail proxy

TLA+ models of the concurrent and stateful parts of the proxy, the TLC runs that
check them on small instances, and TLAPS proofs of the most important properties
for every value of the constants. `PROJECT.json` maps each definition to the lines
it models and lists runs, mutants, findings, hazards and theorems.

Run a check with `tlc -config X.cfg M` and a proof with `tlapm M_proofs.tla`, in
this directory.

## 1. Inventory

The proxy is an HTTP server with one goroutine per request and one writer
goroutine for the audit journal. A request passes through the authenticator, the
body limit, the inbound pipeline (rate limiter, delimiter sanitizer, injection
matcher, DLP scanner, entropy analyzer, canary synthesizer), the circuit breaker,
the upstream, and the outbound inspection (a sliding window for streamed
responses, the whole body otherwise). Each way out replies, writes an audit entry
and updates metrics.

| component | state | operations | what is hard | correct when |
|---|---|---|---|---|
| audit ring buffer (`audit/ledger.go`) | head, tail, slots, notify channel | TryPush, Pop | lock-free, many producers, stale cursors, uint64 arithmetic | a bounded FIFO; no overwrite, no early read, every claim delivered |
| audit ledger (`audit/ledger.go`, `verify.go`) | journal file, lastSeq, lastHash, batch, closed, stopChan | NewChainedLedger, Record, writerLoop, Close, VerifyChain | crash, torn line, failed write, Close racing Record | the chain verifies after restarts; journal = ring order; acknowledged entries reach the file |
| circuit breaker (`resilience/`) | state, three counters, lastTripTime | Allow, RecordSuccess, RecordFailure, Trip, Reset | outcomes that arrive in a later state than their request was admitted in | no probe slot leaks; few extra probes; the gauge is right; it heals |
| stream window (`outbound/lookahead.go`) | window buffer | TransformStream | chunk boundaries, partial writes, cancellation | no byte of a covered secret released; bounded delay; right verdict |
| server and dispatcher (`server/`, `dispatcher/`) | per request: position, reply, audit entry | handleProxy, Forward, Shutdown | client leaves at any point, upstream hangs or fails | each admitted request is settled with the breaker once; reports are true |
| rate limiter (`inbound/limiter.go`) | buckets with two lists each, two kinds of mutex | SetTenantLimit, Execute | concurrent requests of a tenant, window edges, lock order, any int as max_tokens | no window above quota; no refusal below it; calls return |
| pipeline runner, context pool (`pipeline/`) | recycled contexts and their arrays | AcquireContext, ReleaseContext, Execute | a buffer recycled while still being sent; stages that replace the buffer; panics | fail closed; payloads are wiped; a request sees its own data only |
| authenticator (`auth/`) | tenant list | VerifyKey, AddTenant, SetTenants | pointers into the list outlive the lock | a request is served as the tenant of its key |
| session vault (`inbound/dlp.go`) | pseudonym maps, two kinds of mutex | Store, Resolve, Destroy | Store racing Destroy and Store | pseudonyms are stable and resolve; nothing else survives Destroy |
| metrics (`metrics/`) | series of atomic integers, two mutexes | Inc, Observe, Snapshot, WritePrometheus | creation races, CAS loop, a scrape beside running calls | nothing lost; a scrape is off by the running calls only; calls return |
| injection matcher (`inbound/ahocorasick.go`) | trie, then automaton | NewAhoCorasick, Search | patterns inside patterns | finds what a plain search finds |
| Luhn check (`inbound/dlp.go`) | none | VerifyLuhn | bounds | agrees with the definition |
| sanitizer, entropy, canary, SSN check, schema | none (canary: a counter) | pure functions | - | - |
| configuration, command line | none | parsing, wiring | - | - |

Interactions: the dispatcher calls the breaker before and after the upstream; the
breaker calls back into the metrics; handlers push into the ring, which the ledger's
writer drains; the dispatcher hands streams to the window; handlers take
contexts from the pool, tenants from the list and pseudonyms from the vault; shutdown
stops the server, then closes the ledger.

## 2. Modules

`AuditRing` models `RingBuffer` with one action per atomic operation: LoadHead,
LoadTail/Reject, Claim/Retry (the CAS), Store, Notify for TryPush, and PopBegin,
PopGiveUp, PopRead, PopClear, PopAdvance for Pop. A record is a pair of producer and
call number. `claimed` and `delivered` are histories. `UintSub` is the wrapping
subtraction of uint64 cursors. `BoundedFifo` is the abstract queue: a sequence of
accepted entries and how many of them were handed out.

`AuditLedger` extends `AuditRing` with the rest of the ledger. A journal is a
sequence of lines, each complete, lacking its newline, cut short, or unreadable; an
HMAC is the tuple of its inputs. Starting chooses genesis, recovery from the last
line, or the fallback file of `NewServer`. The writer pops into a batch, writes the
batch line by line (a write may fail, leaving nothing or a part, and the chain in
memory moves on), syncs, and selects between notify, ticker and stop. `Crash` can
happen in every state: synced lines survive, of the others any prefix, its last line
perhaps torn.

`CircuitBreaker` has one action per branch of each method; methods run under one
mutex, so a call is one step. Each of the six actions that change the state calls
`OnStateChange`, the callback of the dispatcher, for itself, as the six places in the
code do. `ticket` remembers how each request in flight was admitted, `probeWins` how
many probes of this half-open episode succeeded; `elapsed` counts ticks since
`lastTripTime` up to the cooldown.

`StreamWindow` abstracts a stream to its length, the places of sensitive text, and
the places that only look sensitive when an edge of the window cuts the text (the
`\b` in the patterns). The buffer is then the interval of bytes read and not
flushed. Actions follow `TransformStream`: select, read, the release loop, and what
follows EOF or an error.

`Gateway` extends `CircuitBreaker` with `handleProxy` and `Forward`: where each
request is, whether its client has left, what was replied, which outcome was reported
(`outcome`), what the ledger did with the entry (`record`: queued, refused, or none
without a ledger, `ledgerAttached`), and how far the payload got (`contact`). Dialling
and sending is a step of its own (`PayloadSent`); client.Do may fail before it or after
it. What authentication, pipeline and outbound inspection decide is an input.

`RateLimiter` has the mutex of the map (`setting` is the call that holds it), one
mutex per bucket (`owner`), both lists of each bucket, and callers that look the
bucket up, lock it, read the clock, and decide. `accepted` is a history of all that
was ever let through. A payload is its length and its max_tokens, any int; ints wrap
around (`Plus`). The properties have a window of their own (`InWindow`), in
arithmetic without bounds. The configured entries are applied while the pipeline is
built, in any order (a Go map), as the proxy does.

`RequestPath` extends three modules with what handlers share while they run:
`Authenticator` (the list is a slice, so all backing arrays are kept and VerifyKey's
result is an array and an index), `SessionVault` (Store and Destroy are two steps
each, one per mutex), and `ContextPool` (a payload buffer is an array of cells, each
zero or naming the request whose data it holds, and a length; so is Violations, with
entries for cells; the other fields name the request that set them). ReleaseContext
resets the fields that the code resets and leaves the others. Its actions are those
of `handleProxy`, the pipeline runner, the stages by what they do to the context
(inspect it, copy the payload into a shorter array, redact it, append to it), and
Forward. `alias` is the array that the transport reads a request body from; Transmit
sends a byte of it at any time after Send, also after an early answer. `wire` collects
whose bytes the upstream got. Sessions may be destroyed and the list replaced at any
time.

`Metrics` has one action per atomic operation of Inc, Observe and Snapshot, and per
line that WritePrometheus writes for a histogram. A waiting writer keeps new readers
of a RWMutex out. `Stall` is a client that stops reading while the lock is held.

`InjectionMatcher` builds the automaton byte by byte and node by node and runs it;
`LuhnCheck` is VerifyLuhn. `Lists` has the one operator on lists that both need.
`MCDetectors` runs either.

`MC*` modules give the constants their small values. `*_proofs` modules hold the
inductive invariants, lemmas and theorems of the module they are named after;
`Gateway_proofs` also those of `CircuitBreaker`, which `Gateway` extends, and
`Detectors_proofs` those of `InjectionMatcher` and `LuhnCheck`.

## 3. Runs

| run | states | shows |
|---|---|---|
| `ring` | 8 thousand | every interleaving: slot ownership, refinement of the FIFO, delivery |
| `ledger` | 120 thousand | chain, order, delivery to disk, Close, over crashes and faults |
| `breaker` | 0.7 thousand | slot accounting, truthful gauge, bounded probation, healing |
| `stream` | 281 thousand | all streams up to 6 bytes in all chunkings: no leak, verdict, bounded hold, cancellation |
| `gateway` | 51 thousand | tickets settled, truthful reports, handlers freed |
| `limiter` | 261 thousand | quotas in every window, no wrong refusal, calls return |
| `path` | 1.8 million | wiped and unshared contexts, fail-closed pipeline, the verified tenant, stable pseudonyms, Destroy |
| `metrics` | 233 thousand | no lost call, truthful scrapes, calls return |
| `detectors` | 247 thousand | Aho-Corasick against a plain search, Luhn against its definition |

Three more runs check what a comment says and find it violated by the code.
`findings` quotes the lines.

- `ring_reject`: a producer with a stale head refuses a record while the ring has
  room, because `head-tail` wraps around.
- `gateway_disconnect`: disconnecting clients open the circuit of a healthy upstream.
- `path_late_body`: an upstream that answers before it has read the request then
  receives zeros, or bytes of another request: the transport is still sending a body
  whose context has been released.

Some properties of the passing runs have a condition because the code does not give
more, in places less than its documents say:

- `QuietCloseFlushes` is about a Close that meets no Record in progress: otherwise an
  acknowledged record may be left in the ring.
- `ChainIntact` is about journals without a torn or damaged line.
- `AuditTellsTruth` lists three exits that report nothing, although the repository's
  README promises a log for every request: an unreadable body, a client that leaves
  during the dispatch, and an unreadable response. It is about what handlers offer to
  the ledger, which may refuse it; the counter, whose help text says "queued", counts
  refused entries too, and entries that were not made as there is no ledger.
- `NoProbeSlotLeak` lets successes of requests from before a trip count as probes;
  `ProbationBounded` says how many probes beyond HalfOpenProbes they can let in, where
  the comment of Allow permits none.
- `NoLeak` covers secrets of up to one byte more than the overlap.
- The token half of `QuotaNeverExceeded` and of `RefusedOnlyOverQuota` needs plausible
  estimates: none negative, none so large that a sum wraps around. With a negative
  `max_tokens` from a client, a window may hold more tokens than tpm, against the
  repository's README. The half about requests has no condition.
- `PoolKeepsNoPayload` names the fields that are cleared. Tenant, session and request
  ID, start time, streaming flag and old violations stay, although the comment of
  ReleaseContext says that it securely resets a context; `OwnDataOnly` covers them: the
  next request replaces them before it reads them.
- `ExecuteReturns` needs that limits are set only while the pipeline is built:
  SetTenantLimit takes the mutexes in the opposite order.
- `OwnDataOnly` speaks of what the upstream gets while the handler holds the context.
- `ServedAsVerified` needs that AddTenant, which overwrites entries in place, is not
  called while requests are served. Nothing in the proxy calls it.
- `OrphansOnlyByRace` allows what a Store writes that found its mapping before Destroy.
- `PseudonymsResolve` needs tenant IDs without a colon: the vault's keys are
  TenantID:SessionID (`PathAssumption`).
- `CallsReturn` needs a scraper that goes on reading.

Bounds, and why they are enough:

- ring: two producers with two calls each on two slots wrap the ring and meet it
  empty, full and overtaken. `Modulus` only has to exceed all cursors.
- ledger: two producers with one record each, two slots, batches of two, two starts,
  one fault: a crash or a fault at every point, with a second start to recover.
- breaker: four requests in flight, threshold and probes 3, cooldown 2: enough for
  late outcomes of one episode to meet the next.
- stream: lengths to 6 with windows (4,2), (2,2), (2,3) and reads of up to 4 bytes:
  above, at and below the overlap, secrets shorter and longer than the margin.
- gateway: two handlers, threshold 2, one probe; clients send request after request.
  With a ledger, which may refuse every entry, and without one.
- limiter: two callers, one tenant configured twice and one unlimited, ints from -8 to
  7, payloads estimated at 1 token, at -2, and at so many that a sum wraps around, a
  window of one tick and a clock to 3: windows overlap and expire.
- path: two requests and two contexts, so that a context is shared in turn or two are
  used at once; arrays of capacity 1 against bodies of 0 and 2 bytes and a limit of
  reuse of 2, so that buffers grow, are replaced, reused and discarded; one entry of Violations
  before it grows; a pipeline with each effect, in which fail-closed stages trip and
  return unknown results, and fail-open ones panic and report a dry run; one tenant
  update and one destroyed session, at any point. The secrets overlap, in different
  orders.
- metrics: two handlers, each counting and observing, so that they race for the
  histogram's series and its sum, with two buckets and two labels.
- detectors: all pairs of patterns of up to 3 bytes and triples of up to 2, over two
  letters, with an upper-case and a blank one; all texts of up to 4 bytes. All
  candidates of up to 5 characters with the bounds on their length scaled down to 2,
  3 and 4.

Symmetry is used for the contexts in the two `path` runs, which check no liveness,
and nowhere else. Deadlock is checked except where the modelled system really stops:
the bounded calls of ring, ledger, path and metrics (there also a stalled scraper), the end of a
stream, and the end of a computation.

Fairness: the Go scheduler runs every runnable goroutine (weak fairness of producer,
consumer, writer and closer steps); select picks among ready cases at random, so a
stop that stays ready is taken (strong fairness of `SelectStop`); Go's mutexes go to
a waiter that has waited long enough (strong fairness in `RateLimiter`). No fairness
is assumed of clients or of the upstream in `Gateway` and `StreamWindow`: a client
that has left makes pending reads fail, and only then must handlers proceed. In
`Metrics` the handlers' calls and the scraper are scheduled fairly (weak fairness); a
stalled client ends the scraper's steps for good.
`HealsWithUpstream` assumes that requests keep coming and are answered.

Each property of a passing run has a mutant: a definition changed as a plausible bug
would change it, under which TLC finds the property violated.

## 4. Proofs

All for arbitrary constants under the named assumptions of the modules.

- `AuditRing_proofs`: `SlotOwnership` with `RingTypeOK` is inductive. It says what each
  live position's slot holds, that all other slots are empty, and what a producer
  between load and store may rely on: if its CAS can still succeed, the ring had
  room. That is needed because the saturation test uses an old head and a newer tail.
  The key lemma is that two positions less than Size apart never share a slot.
  From the invariant follows that every step is a step of `BoundedFifo` or a stutter.
- `StreamWindow_proofs`: `NoLeak` is inductive together with the type invariant and
  the verdict: a clean window may be released up to its last `overlapSize` bytes,
  since a covered secret that begins earlier would lie wholly inside it. The proof
  shows that one byte more than the documented K <= L is covered.
- `Gateway_proofs`: of the breaker, `NoProbeSlotLeak` with type correctness is
  inductive together with two facts about half-open episodes. One bounds the live
  probes from above by the slots counted as taken and the successes that no probe of
  this episode earned, which gives `ProbationBounded` and, as a corollary, fewer than
  twice HalfOpenProbes probes. The other is that an episode has a probe out or a
  success to show, by which the gauge's reading is tied to the counters
  (`GaugeTellsTruth`). `NoProbeSlotLeak` bounds `probesInFlight` by the live probes; so a
  half-open circuit without live probes always admits a request. Lemma
  `GatewayRefinesBreaker` carries these facts over to the proxy as a whole.
  `TicketsSettled` and `AuditTellsTruth` are inductive with the type invariant, the
  tickets' type and `HandlerView`: what a handler's position says about its request
  (how far the payload got, reported or not, counted or not). It is needed because the
  truth of a report at an exit depends on what the handler did several steps before.
- `AuditLedger_proofs`: `LedgerInv` carries the ring's invariant over to a consumer
  that is the writer, and adds `WriterView` (how `batch`, `pending` and `resume` fit the
  writer's place), `ChainView` (in an undamaged journal every line verifies and the
  writer stands at its end), `OrderView` and `CloseView`. `OrderView` is why a journal
  that verifies has no silent gap: its k-th line of this process was written for the
  k-th record popped, since the sequence number, which advances with each record even
  when the write fails, leaves no other possibility. `CloseView`: when Close begins with
  no Record in progress, nothing enters the ring any more, so the last drain empties it.
- `RequestPath_proofs`: `PathInv` has a part per module. `PoolView`: a payload array
  is zero beyond its length, so wiping up to the length blanks it; fields that a pooled
  context keeps are replaced when it is acquired; a request in progress holds a
  context of its own; what the transport reads is the array held. `InspectView`: what
  is in hand has passed every stage before the current one. `TenantView`: a tenant in
  use is a place in an array that is kept and not written while requests are served.
  `VaultView`: mapping names are used once, a mapping belongs to one session, forward
  and reverse entries come in pairs. `CallView`: Store is called in the scanner's stage
  only, so its violations go to a context in use. All seven safety properties follow.
- `RateLimiter_proofs`: `LimiterInv` has mutual exclusion (`CallerView`), the buckets
  (`BucketView`) and the quota (`QuotaView`). Both lists of a bucket are the same end of
  what was accepted, in time order, and what was pruned had expired by the clock that
  the holder of the mutex read. The quota is stated of any two accepted requests no
  more than a window apart, hence whenever the limiter is observed. Sums of tokens are
  differences of sums over prefixes; while estimates are plausible, the code's wrapping
  sums equal those of arithmetic, as no sum of accepted tokens exceeds tpm. `RefusedOnlyOverQuota`, an action property, is the
  other half: the list that a refusal counts holds nothing expired.
- `Metrics_proofs`: at every step a series holds what the calls have added to it so
  far, for a histogram separately for buckets, count and sum, since a call adds to them
  one after the other. A series is registered where the call that created it belongs and
  one that is not registered holds zero, so a lost creation race loses nothing.
  A scrape loads `+Inf` before `_count`, and what it has loaded lies between what
  had been counted when it began and what has been now. Sums over sets of calls
  are proved independent of the order of the calls.

- `Detectors_proofs`, the Luhn check: `LuhnInv` says that `digits` is the digits of
  what has been read, and that the sum is that of the digits passed so far from
  the right, doubled where the flag says so. The standard's checksum adds over
  the set of places, so `SumIsSums` and `SumFromRight` bring it to the loop's order.
- `Detectors_proofs`, the matcher: a node stands for a word, the bytes on the way to it.
  While patterns are inserted (`InsertView`) nodes and words correspond one to one and
  every prefix of a key that was read has its node. While the automaton is completed
  (`CompleteView`) nodes leave the queue in the order of the length of their words:
  a node that left it has its transitions complete, leading to the longest suffix of
  its word and a byte that is a word; a node that entered it has its failure link at
  the longest proper suffix and outputs for all keys that end its word. Lemma
  `Waiting` is why that order is enough: a shorter word is never still to come, so the
  failure state of a node that leaves the queue is complete. While the text is
  searched (`SearchView`) the node reached stands for the longest suffix of the text so
  far that is a word, so a pattern ends here exactly when it is among the outputs.

Where a proof needs induction over data (sums, lists, words), it is put in terms
of a set that can be named, or of a least counterexample: lemmas `Least` and
`Upwards` in `Detectors_proofs`, `Least` in `Metrics_proofs`, and the same argument in
`RateLimiter_proofs`.

The assumptions, and why the code justifies them:

- sizes, thresholds, windows and bounds are positive where the constructors replace
  other values by defaults; `Modulus` (2^64) exceeds `Size`.
- constants such as `NULL`, `NoCaller` and `Zero` stand for nil and are no member of the
  set they are beside.
- requests and callers are finitely many where they are counted.
- `LimiterAssumption`: SetTenantLimit is called only for entries with a limit above zero;
  a payload's length is far below the largest int, as MaxPayloadBytes makes it. Its
  `max_tokens` is any int.
- `MetricsAssumption`: bounds ascend, as the default buckets do; durations are not
  negative.
- `MatcherAssumption`: `Bytes` lists each byte once, and keys and lowered texts are over
  it: in the code every byte from 0 to 255. `NoMatch` is no pattern.
- `LuhnAssumption`: separators are no digits, and the most digits allowed (19) fit into
  the array (24).
- `PathAssumption`: tenant IDs have no colon (the only one that an operator could break
  by configuration); the pipeline has at least one stage; secrets are stored under one
  name per request.

Every safety invariant, action property and refinement that a passing run checks is
a theorem. Only model-checked are the liveness properties: `EveryClaimIsDelivered`,
`AckedReachesDisk`, `CloseTerminates`, `HealsWithUpstream`, `LeavingEndsStream`,
`LeavingFreesHandler`, `ExecuteReturns` and `CallsReturn` (fairness and ENABLED are
outside the prover's reach). The three runs that find a violation are TLC's alone.

## 5. Not modelled

Regular expressions, entropy (floating point), which runes and tokens the sanitizer
knows, the SSN check (comparisons with constants), JSON rewriting and formatting, the
outbound synchronous inspection (a predicate on a whole body), configuration parsing,
header parsing, health routes, the rounding of float64 sums. Flush and the accessors
of the ledger only read. A hazard without a property says why it has none.

## 6. Plan

1. Done: AuditRing, AuditLedger, CircuitBreaker, StreamWindow, Gateway, RateLimiter,
   with the runs and proofs above; RequestPath with Authenticator, SessionVault and
   ContextPool; Metrics; InjectionMatcher and LuhnCheck.
2. Done: proofs of every safety invariant, action property and refinement that a
   passing run checks.
3. Next: theorems that compose components (no acknowledged record is lost from handler
   to journal, what the detectors find is what the pipeline stops), and shorter proofs
   where lemmas can be shared, of `Metrics` and `RateLimiter` foremost.
