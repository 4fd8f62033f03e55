------------------------------- MODULE Metrics -------------------------------
(***************************************************************************)
(* The metrics of internal/metrics/metrics.go: handlers count requests     *)
(* (CounterVec.Inc) and observe durations (HistogramVec.Observe) while a   *)
(* scraper writes them out (WritePrometheus).  One vector of each type is  *)
(* modelled; the registry's other counters are of the same types.          *)
(*                                                                         *)
(* Atomic operations are single steps, and so are critical sections that   *)
(* only one lookup is made in.  A waiting writer keeps new readers of a    *)
(* RWMutex out.  A series is named after the call that created it.         *)
(* Durations are integers: the rounding of float64 sums is left out.       *)
(***************************************************************************)
EXTENDS Naturals, Sequences, FiniteSetsExt, Functions

CONSTANTS Callers,
          Work,       \* each caller's sequence of calls: vec, label, value
          Labels,
          Bounds,     \* the histogram's upper bounds, ascending
          NoSeries,
          NoCaller

Vecs == {"counter", "histogram"}

Calls == UNION {{p} \X DOMAIN Work[p] : p \in Callers}

ASSUME MetricsAssumption ==
    /\ IsFiniteSet(Callers)
    /\ Work \in [Callers -> Seq([vec : Vecs, label : Labels, value : Nat])]
    /\ Bounds \in Seq(Nat)
    /\ \A i \in DOMAIN Bounds, j \in DOMAIN Bounds : i < j => Bounds[i] < Bounds[j]
    /\ NoSeries \notin Calls /\ NoCaller \notin Callers

VARIABLES series,    \* per vector: label -> series
          cells,     \* the atomic integers of each series
          locking,   \* per vector: the writer that waits for or holds its mutex
          mpc,       \* where each caller is
          done,      \* calls completed
          at,        \* the series a caller works on
          bucket,    \* the bucket that its loop has reached
          old,       \* the sum it has loaded
          spc,       \* where the scraper is
          report,    \* what it has written: per vector and label, values in order
          before,    \* history: calls completed when the scrape began
          stalled    \* the scraper's client has stopped reading

callerVars == <<mpc, done, at, bucket, old>>
scrapeVars == <<spc, report, before, stalled>>
metricsVars == <<series, cells, locking, callerVars, scrapeVars>>

Zeros == [buckets |-> [i \in DOMAIN Bounds |-> 0], count |-> 0, sum |-> 0]

Nothing == [v \in Vecs |-> [l \in Labels |-> << >>]]

MetricsInit ==
    /\ series = [v \in Vecs |-> [l \in Labels |-> NoSeries]]
    /\ cells = [s \in Calls |-> Zeros]
    /\ locking = [v \in Vecs |-> NoCaller]
    /\ mpc = [p \in Callers |-> "idle"]
    /\ done = [p \in Callers |-> 0]
    /\ at = [p \in Callers |-> NoSeries]
    /\ bucket = [p \in Callers |-> 1]
    /\ old = [p \in Callers |-> 0]
    /\ spc = "idle"
    /\ report = Nothing
    /\ before = [p \in Callers |-> 0]
    /\ stalled = FALSE

-----------------------------------------------------------------------------
Current(p) == Work[p][done[p] + 1]

SeriesOf(p) == series[Current(p).vec][Current(p).label]

\* The scraper holds the histogram's read lock; that of a counter only while
\* it takes a snapshot.
Reading(v) == spc = v

CanRead(v) == locking[v] = NoCaller

\* What a caller does with its series first.
Entry(p) == IF Current(p).vec = "counter" THEN "count" ELSE "bucket"

At(p, place) == mpc[p] = place

GoTo(p, place) == mpc' = [mpc EXCEPT ![p] = place]

Begin(p) ==
    /\ At(p, "idle") /\ done[p] < Len(Work[p])
    /\ GoTo(p, "find")
    /\ UNCHANGED <<series, cells, locking, done, at, bucket, old, scrapeVars>>

\* The first lookup, under the read lock.
Lookup(p) ==
    /\ At(p, "find") /\ CanRead(Current(p).vec)
    /\ GoTo(p, IF SeriesOf(p) = NoSeries THEN "lock" ELSE Entry(p))
    /\ at' = [at EXCEPT ![p] = SeriesOf(p)]
    /\ UNCHANGED <<series, cells, locking, done, bucket, old, scrapeVars>>

Lock(p) ==
    /\ At(p, "lock") /\ CanRead(Current(p).vec)
    /\ GoTo(p, "create")
    /\ locking' = [locking EXCEPT ![Current(p).vec] = p]
    /\ UNCHANGED <<series, cells, done, at, bucket, old, scrapeVars>>

\* Mutant of Registered: no second lookup.
RegisteredAnew(p) == <<p, done[p] + 1>>

\* The second lookup, under the write lock: another call may have been first.
Registered(p) == IF SeriesOf(p) = NoSeries THEN <<p, done[p] + 1>> ELSE SeriesOf(p)

\* Mutant of Unlocks: the branch that creates the series keeps the mutex.
UnlocksFound(p) ==
    locking' = IF SeriesOf(p) = NoSeries THEN locking
               ELSE [locking EXCEPT ![Current(p).vec] = NoCaller]

Unlocks(p) == locking' = [locking EXCEPT ![Current(p).vec] = NoCaller]

Create(p) ==
    /\ At(p, "create") /\ ~ Reading(Current(p).vec)
    /\ GoTo(p, Entry(p))
    /\ series' = [series EXCEPT ![Current(p).vec][Current(p).label] = Registered(p)]
    /\ at' = [at EXCEPT ![p] = Registered(p)]
    /\ Unlocks(p)
    /\ UNCHANGED <<cells, done, bucket, old, scrapeVars>>

-----------------------------------------------------------------------------
(***************************************************************************)
(* Add on a counter and histogramSeries.observe                            *)
(***************************************************************************)
InBucket(val, i) == val <= Bounds[i]

\* One turn of the loop over the buckets.
AddBucket(p) ==
    /\ At(p, "bucket") /\ bucket[p] <= Len(Bounds)
    /\ cells' = IF InBucket(Current(p).value, bucket[p])
                THEN [cells EXCEPT ![at[p]].buckets[bucket[p]] = @ + 1] ELSE cells
    /\ bucket' = [bucket EXCEPT ![p] = @ + 1]
    /\ UNCHANGED <<series, locking, mpc, done, at, old, scrapeVars>>

BucketsDone(p) ==
    /\ At(p, "bucket") /\ bucket[p] > Len(Bounds)
    /\ GoTo(p, "count")
    /\ bucket' = [bucket EXCEPT ![p] = 1]
    /\ UNCHANGED <<series, cells, locking, done, at, old, scrapeVars>>

\* A counter's call ends here.
AddCount(p) ==
    /\ At(p, "count")
    /\ cells' = [cells EXCEPT ![at[p]].count = @ + 1]
    /\ IF Current(p).vec = "counter"
       THEN GoTo(p, "idle") /\ done' = [done EXCEPT ![p] = @ + 1]
       ELSE GoTo(p, "load") /\ UNCHANGED done
    /\ UNCHANGED <<series, locking, at, bucket, old, scrapeVars>>

LoadSum(p) ==
    /\ At(p, "load")
    /\ GoTo(p, "cas")
    /\ old' = [old EXCEPT ![p] = cells[at[p]].sum]
    /\ UNCHANGED <<series, cells, locking, done, at, bucket, scrapeVars>>

\* Mutant of SumUnchanged: the new sum is stored without comparing.
SumIgnored(p) == TRUE

SumUnchanged(p) == cells[at[p]].sum = old[p]

CasSum(p) ==
    /\ At(p, "cas") /\ SumUnchanged(p)
    /\ GoTo(p, "idle")
    /\ cells' = [cells EXCEPT ![at[p]].sum = old[p] + Current(p).value]
    /\ done' = [done EXCEPT ![p] = @ + 1]
    /\ old' = [old EXCEPT ![p] = 0]
    /\ UNCHANGED <<series, locking, at, bucket, scrapeVars>>

CasFails(p) ==
    /\ At(p, "cas") /\ ~ SumUnchanged(p)
    /\ GoTo(p, "load")
    /\ UNCHANGED <<series, cells, locking, done, at, bucket, old, scrapeVars>>

-----------------------------------------------------------------------------
(***************************************************************************)
(* WritePrometheus                                                         *)
(***************************************************************************)
Unwritten(v) == {l \in Labels : series[v][l] # NoSeries /\ report[v][l] = << >>}

Write(v, l, value) == report' = [report EXCEPT ![v][l] = Append(@, value)]

ScrapeBegins ==
    /\ spc = "idle"
    /\ CanRead("counter")
    /\ spc' = "counter"
    /\ before' = done
    /\ UNCHANGED <<series, cells, locking, callerVars, report, stalled>>

\* Snapshot loads the counters one by one.
LoadCounter ==
    /\ spc = "counter"
    /\ \E l \in Unwritten("counter") :
           Write("counter", l, cells[series["counter"][l]].count)
    /\ UNCHANGED <<series, cells, locking, callerVars, spc, before, stalled>>

SnapshotEnds ==
    /\ spc = "counter"
    /\ Unwritten("counter") = {}
    /\ spc' = "between"
    /\ UNCHANGED <<series, cells, locking, callerVars, report, before, stalled>>

HistogramBegins ==
    /\ spc = "between"
    /\ CanRead("histogram")
    /\ spc' = "histogram"
    /\ UNCHANGED <<series, cells, locking, callerVars, report, before, stalled>>

\* The lines of a series: its buckets, +Inf, _sum and _count.
Lines == Len(Bounds) + 3

Written(l) == Len(report["histogram"][l])

\* Mutant of LineValue: the buckets are taken from the next position on.
LineValueShifted(s, i) ==
    IF i < Len(Bounds) THEN cells[s].buckets[i + 1]
    ELSE IF i = Len(Bounds) + 2 THEN cells[s].sum ELSE cells[s].count

LineValue(s, i) ==
    IF i <= Len(Bounds) THEN cells[s].buckets[i]
    ELSE IF i = Len(Bounds) + 2 THEN cells[s].sum ELSE cells[s].count

\* The next line of the series being written, or the first of another.
LoadLine ==
    /\ spc = "histogram" /\ ~ stalled
    /\ \E l \in Labels :
           /\ series["histogram"][l] # NoSeries
           /\ Written(l) < Lines
           /\ \A k \in Labels \ {l} : Written(k) \in {0, Lines}
           /\ Write("histogram", l, LineValue(series["histogram"][l], Written(l) + 1))
    /\ UNCHANGED <<series, cells, locking, callerVars, spc, before, stalled>>

\* What follows are counters of the same types and two single values.
HistogramEnds ==
    /\ spc = "histogram" /\ ~ stalled
    /\ \A l \in Labels : series["histogram"][l] # NoSeries => Written(l) = Lines
    /\ spc' = "idle"
    /\ report' = Nothing
    /\ before' = [p \in Callers |-> 0]
    /\ UNCHANGED <<series, cells, locking, callerVars, stalled>>

\* The lines are written to the connection while the lock is held.
Stall ==
    /\ spc = "histogram" /\ ~ stalled
    /\ stalled' = TRUE
    /\ UNCHANGED <<series, cells, locking, callerVars, spc, report, before>>

-----------------------------------------------------------------------------
CallStep(p) ==
    \/ Lookup(p) \/ Lock(p) \/ Create(p)
    \/ AddBucket(p) \/ BucketsDone(p) \/ AddCount(p)
    \/ LoadSum(p) \/ CasSum(p) \/ CasFails(p)

ScrapeStep ==
    LoadCounter \/ SnapshotEnds \/ HistogramBegins \/ LoadLine \/ HistogramEnds

MetricsNext ==
    \/ \E p \in Callers : Begin(p) \/ CallStep(p)
    \/ ScrapeBegins \/ ScrapeStep \/ Stall

\* The scheduler runs every goroutine; a scrape ends unless its client stalls.
MetricsFairness ==
    /\ \A p \in Callers : WF_metricsVars(CallStep(p))
    /\ WF_metricsVars(ScrapeStep)

MetricsSpec == MetricsInit /\ [][MetricsNext]_metricsVars /\ MetricsFairness

-----------------------------------------------------------------------------
\* What a series must hold after the first n[p] calls of each caller p.
CallsOn(v, l, n) ==
    {c \in Calls : /\ c[2] <= n[c[1]]
                   /\ Work[c[1]][c[2]].vec = v
                   /\ Work[c[1]][c[2]].label = l}

ValueOf(c) == Work[c[1]][c[2]].value

Tally(v, l, n) ==
    LET calls == CallsOn(v, l, n) IN
    [buckets |-> [i \in DOMAIN Bounds |->
                     Cardinality({c \in calls : ValueOf(c) <= Bounds[i]})],
     count |-> Cardinality(calls),
     sum |-> MapThenSumSet(ValueOf, calls)]

Begun == [p \in Callers |-> IF mpc[p] = "idle" THEN done[p] ELSE done[p] + 1]

AtMost(v, a, b) ==
    /\ a.count <= b.count
    /\ v = "histogram" =>
           a.sum <= b.sum /\ \A i \in DOMAIN Bounds : a.buckets[i] <= b.buckets[i]

(***************************************************************************)
(* No call is lost or counted twice, however Inc and Observe race for the  *)
(* creation of a series and for its sum: a series holds all completed      *)
(* calls and at most those begun, which is exact whenever no call runs.    *)
(***************************************************************************)
NothingLost ==
    \A v \in Vecs, l \in Labels :
        LET held == IF series[v][l] = NoSeries THEN Zeros ELSE cells[series[v][l]] IN
        AtMost(v, Tally(v, l, done), held) /\ AtMost(v, held, Tally(v, l, Begun))

Line(t, i) ==
    IF i <= Len(Bounds) THEN t.buckets[i]
    ELSE IF i = Len(Bounds) + 2 THEN t.sum ELSE t.count

(***************************************************************************)
(* A scrape tells the truth up to the calls that run beside it: each line  *)
(* counts all calls completed before the scrape and none that had not      *)
(* begun, and +Inf is at most _count.  By no more than those calls may the *)
(* lines of one series disagree.                                           *)
(***************************************************************************)
ScrapeTruthful ==
    /\ \A l \in Labels : \A n \in Range(report["counter"][l]) :
           Tally("counter", l, before).count <= n /\ n <= Tally("counter", l, Begun).count
    /\ \A l \in Labels : \A i \in DOMAIN report["histogram"][l] :
           LET n == report["histogram"][l][i] IN
           /\ Line(Tally("histogram", l, before), i) <= n
           /\ n <= Line(Tally("histogram", l, Begun), i)
           /\ i = Lines => report["histogram"][l][Len(Bounds) + 1] <= n

(***************************************************************************)
(* Inc and Observe return: the lock of a vector is passed on and the loop  *)
(* around the compare-and-swap ends.  Only a scraper that stops reading    *)
(* in the middle of the histogram, whose lock it holds, can prevent that.  *)
(***************************************************************************)
CallsReturn == \A p \in Callers : mpc[p] # "idle" ~> (mpc[p] = "idle" \/ stalled)
==============================================================================
