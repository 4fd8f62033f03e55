------------------------- MODULE RateLimiter_proofs --------------------------
(***************************************************************************)
(* Proofs about the rate limiter, for any number of callers and tenants,   *)
(* any limits and payloads and any length of the window.                   *)
(***************************************************************************)
EXTENDS RateLimiter, TLAPS, FiniteSetTheorems, SequenceTheorems, WellFoundedInduction

Places == {"idle", "lookup", "lock", "clock", "decide"}

LimiterTypes ==
    /\ now \in Nat /\ now <= MaxTime
    /\ todo \subseteq Entries
    /\ setting = {} \/ \E e \in Entries : setting = {e}
    /\ exists \subseteq Tenants
    /\ limit \in [Tenants -> {DefaultLimit} \cup {LimitOf(e) : e \in Entries}]
    /\ owner \in [Tenants -> Callers \cup {NoCaller}]
    /\ requestTimes \in [Tenants -> Seq(Nat)]
    /\ tokenRecords \in [Tenants -> Seq(Records)]
    /\ accepted \in [Tenants -> Seq(Records)]
    /\ lpc \in [Callers -> Places]
    /\ call \in [Callers -> SUBSET [tenant : Tenants, payload : Payloads]]
    /\ read \in [Callers -> Nat]

\* A caller has one call, and holds the bucket's mutex from the lock on.
CallerPart(c) ==
    /\ \A a, b \in call[c] : a = b
    /\ call[c] = {} <=> lpc[c] = "idle"
    /\ read[c] <= now
    /\ lpc[c] \in {"clock", "decide"} => \A a \in call[c] : owner[a.tenant] = c
    /\ lpc[c] # "idle" => todo = {}
    /\ lpc[c] \notin {"idle", "lookup"} => setting = {}

CallerView == \A c \in Callers : CallerPart(c)

-----------------------------------------------------------------------------
\* The entries of s after the d-th, up to the e-th.
Slice(s, d, e) == [k \in 1 .. e - d |-> s[d + k]]

Sorted(s) == \A i, j \in 1 .. Len(s) : i <= j => s[i].timestamp <= s[j].timestamp

\* The timestamps of s after the d-th.
TimesAfter(s, d) == [k \in 1 .. Len(s) - d |-> s[d + k].timestamp]

\* The two lists are the same end of what the bucket has accepted: d entries have been
\* pruned, all of them expired at the given time, and no entry is later than it.
ListsAt(s, times, records, d, time) ==
    /\ times = TimesAfter(s, d)
    /\ records = Slice(s, d, Len(s))
    /\ \A i \in 1 .. d : Expired(s[i].timestamp, time)
    /\ \A i \in 1 .. Len(s) : s[i].timestamp <= time

BucketAt(t, time) ==
    \E d \in 0 .. Len(accepted[t]) :
        ListsAt(accepted[t], requestTimes[t], tokenRecords[t], d, time)

\* A bucket's lists are right for the clock, and for the older time that the caller
\* which holds the bucket has read.
BucketPart(t) ==
    /\ Sorted(accepted[t])
    /\ BucketAt(t, now)
    /\ accepted[t] # << >> => todo = {} /\ setting = {}

DecidePart(c) == lpc[c] = "decide" => \A a \in call[c] : BucketAt(a.tenant, read[c])

BucketView == (\A t \in Tenants : BucketPart(t)) /\ (\A c \in Callers : DecidePart(c))

-----------------------------------------------------------------------------
\* Accepted requests that are no further apart than the window keep to the limits.
WithinLimits(s, lim) ==
    \A d, e \in 0 .. Len(s) :
        d < e /\ s[e].timestamp <= s[d + 1].timestamp + Window =>
            /\ lim.rpm > 0 => e - d <= lim.rpm
            /\ lim.tpm > 0 /\ Plausible(s, lim) => Tokens(Slice(s, d, e)) <= lim.tpm

QuotaView == \A t \in Tenants : WithinLimits(accepted[t], limit[t])

-----------------------------------------------------------------------------
(***************************************************************************)
(* Numbers, lists and sums                                                 *)
(***************************************************************************)
LEMMA Least ==
    ASSUME NEW S \in SUBSET Nat, S # {}
    PROVE  \E x \in S : \A y \in S : x <= y
<1> DEFINE R == OpToRel(<, Nat)
<1>1. IsWellFoundedOn(R, Nat)
  BY NatLessThanWellFounded
<1>2. \A x, y \in Nat : y < x => <<y, x>> \in R
  BY DEF OpToRel
<1> HIDE DEF R
<1>3. PICK x \in S : \A y \in S : ~ (<<y, x>> \in R)
  BY <1>1, WFMin
<1>4. \A y \in S : ~ (y < x)
  BY <1>2, <1>3
<1>5. \A y \in S : x <= y
  BY <1>4
<1> QED
  BY <1>5

\* A set of places that holds with a place all later ones.
LEMMA Cut ==
    ASSUME NEW n \in Nat, NEW S \in SUBSET (1 .. n),
           \A i, j \in 1 .. n : i \in S /\ i <= j => j \in S
    PROVE  \E f \in 0 .. n : \A i \in 1 .. n : i \in S <=> f < i
<1>1. CASE S = {}
  BY <1>1
<1>2. CASE S # {}
  <2>1. PICK x \in S : \A y \in S : x <= y
    BY <1>2, Least
  <2>2. x - 1 \in 0 .. n /\ \A i \in 1 .. n : i \in S <=> x - 1 < i
    BY <2>1
  <2> QED
    BY <2>2
<1> QED
  BY <1>1, <1>2

LEMMA SliceFacts ==
    ASSUME NEW A, NEW s \in Seq(A), NEW d \in 0 .. Len(s), NEW e \in 0 .. Len(s), d <= e
    PROVE  /\ Slice(s, d, e) \in Seq(A) /\ Len(Slice(s, d, e)) = e - d
           /\ \A k \in 1 .. e - d : Slice(s, d, e)[k] = s[d + k]
<1>1. \A k \in 1 .. e - d : s[d + k] \in A
  <2>1. \A i \in 1 .. Len(s) : s[i] \in A
    BY ElementOfSeq
  <2>2. \A k \in 1 .. e - d : d + k \in 1 .. Len(s)
    BY LenProperties
  <2> QED
    BY <2>1, <2>2
<1>2. e - d \in Nat
  BY LenProperties
<1>3. Slice(s, d, e) \in [1 .. e - d -> A]
  BY <1>1 DEF Slice
<1> QED
  BY <1>2, <1>3, IsASeq, LenProperties DEF Slice

\* Entries that lie side by side are moved to the front.
LEMMA CompactedIsSlice ==
    ASSUME NEW s, NEW n \in Nat, NEW f \in 0 .. n, NEW e \in 0 .. n, f <= e,
           NEW live, live = {i \in 1 .. n : f < i /\ i <= e}
    PROVE  Compacted(s, live) = Slice(s, f, e)
<1>1. live = (f + 1) .. e
  OBVIOUS
<1>0. ASSUME NEW T, NEW b \in 0 .. n, f <= b, T = (f + 1) .. b
      PROVE  Cardinality(T) = b - f
  <2>1. Cardinality((f + 1) .. b) = b - f
    <3>1. f + 1 \in Int /\ b \in Int
      OBVIOUS
    <3>2. PICK c : c = Cardinality((f + 1) .. b)
      OBVIOUS
    <3>3. c = IF f + 1 > b THEN 0 ELSE b - (f + 1) + 1
      BY <3>1, <3>2, FS_Interval, Zenon
    <3>4. c = b - f
      BY <1>0, <3>3
    <3> QED
      BY <3>2, <3>4, Zenon
  <2> QED
    BY <1>0, <2>1, Zenon
<1>2. Cardinality(live) = e - f
  BY <1>0, <1>1
<1>3. ASSUME NEW i \in live PROVE Cardinality({j \in live : j <= i}) = i - f
  <2>1. {j \in live : j <= i} = (f + 1) .. i /\ i \in 0 .. n /\ f <= i
    BY <1>1
  <2> QED
    BY <1>0, <2>1, Zenon
<1>4. ASSUME NEW k \in 1 .. e - f
      PROVE  (CHOOSE i \in live : Cardinality({j \in live : j <= i}) = k) = f + k
  <2>1. f + k \in live
    BY <1>1
  <2>2. \A i \in live : Cardinality({j \in live : j <= i}) = k <=> i = f + k
    BY <1>1, <1>3
  <2> HIDE <1>1
  <2> QED
    BY <2>1, <2>2
<1>5. Compacted(s, live) =
          [k \in 1 .. e - f |-> s[CHOOSE i \in live : Cardinality({j \in live : j <= i}) = k]]
  BY <1>2 DEF Compacted
<1> HIDE <1>2
<1> QED
  BY <1>4, <1>5 DEF Slice

\* g holds the sums of the first 0, 1, ... n token counts of s.
Sums(g, s, n) ==
    /\ g \in [0 .. n -> Int]
    /\ g[0] = 0
    /\ \A i \in 1 .. n : g[i] = g[i - 1] + s[i].tokens

LEMMA RecordParts ==
    ASSUME NEW s \in Seq(Records), NEW i \in 1 .. Len(s)
    PROVE  s[i] \in Records /\ s[i].timestamp \in Nat /\ s[i].tokens \in Int
<1>1. s[i] \in Records
  BY ElementOfSeq
<1> QED
  BY <1>1 DEF Records

LEMMA SumsExist ==
    ASSUME NEW s \in Seq(Records)
    PROVE  \E g : Sums(g, s, Len(s))
<1> DEFINE S == {n \in 0 .. Len(s) : ~ \E g : Sums(g, s, n)}
<1>0. Len(s) \in Nat
  OBVIOUS
<1>1. CASE S = {}
  BY <1>0, <1>1
<1>2. CASE S # {}
  <2>0. S \in SUBSET Nat
    BY <1>0
  <2>1. PICK x \in S : \A y \in S : x <= y
    BY <1>2, <2>0, Least
  <2>2. x \in 0 .. Len(s) /\ ~ \E g : Sums(g, s, x)
    BY <2>1
  <2>3. CASE x = 0
    <3> DEFINE h == [i \in 0 .. 0 |-> 0]
    <3>1. Sums(h, s, 0)
      BY DEF Sums
    <3> QED
      BY <2>2, <2>3, <3>1
  <2>4. CASE x # 0
    <3>1. x - 1 \in 0 .. Len(s) /\ x - 1 \notin S
      BY <2>1, <2>2, <2>4
    <3>2. PICK g : Sums(g, s, x - 1)
      BY <3>1
    <3> DEFINE h == [i \in 0 .. x |-> IF i = x THEN g[x - 1] + s[x].tokens ELSE g[i]]
    <3>3. g \in [0 .. x - 1 -> Int] /\ g[0] = 0 /\ s[x].tokens \in Int
      BY <2>2, <2>4, <3>2, RecordParts DEF Sums
    <3>4. h \in [0 .. x -> Int] /\ h[0] = 0
      BY <2>2, <2>4, <3>3
    <3>5. ASSUME NEW i \in 1 .. x PROVE h[i] = h[i - 1] + s[i].tokens
      BY <2>2, <2>4, <3>2, <3>3 DEF Sums
    <3>6. Sums(h, s, x)
      BY <3>4, <3>5 DEF Sums
    <3> QED
      BY <2>2, <3>6
  <2> QED
    BY <2>3, <2>4
<1> QED
  BY <1>1, <1>2

\* The loop over the records computes the sum.
LEMMA TokensIsSum ==
    ASSUME NEW s \in Seq(Records), NEW g, Sums(g, s, Len(s))
    PROVE  Tokens(s) = g[Len(s)]
<1> DEFINE n == Len(s)
           Turn(f) == [i \in 0 .. n |-> IF i = 0 THEN 0 ELSE f[i - 1] + s[i].tokens]
           f0 == CHOOSE f : f = Turn(f)
<1>0. n \in Nat
  OBVIOUS
<1>1. Tokens(s) = f0[n]
  BY DEF Tokens
<1>2. g = Turn(g)
  <2>1. g = [i \in 0 .. n |-> g[i]]
    BY DEF Sums
  <2>2. \A i \in 0 .. n : g[i] = IF i = 0 THEN 0 ELSE g[i - 1] + s[i].tokens
    BY <1>0 DEF Sums
  <2> QED
    BY <2>1, <2>2
<1>3. f0 = Turn(f0)
  <2> HIDE DEF Turn
  <2> QED
    BY <1>2
<1> HIDE DEF f0
<1>4. \A i \in 0 .. n : f0[i] = IF i = 0 THEN 0 ELSE f0[i - 1] + s[i].tokens
  BY <1>3
<1> DEFINE S == {i \in 0 .. n : f0[i] # g[i]}
<1>5. S = {}
  <2> SUFFICES ASSUME S # {} PROVE FALSE
    OBVIOUS
  <2>1. PICK x \in S : \A y \in S : x <= y
    <3>1. S \in SUBSET Nat
      BY <1>0
    <3> HIDE DEF S
    <3> QED
      BY <3>1, Least
  <2>2. x \in 0 .. n /\ f0[x] # g[x]
    BY <2>1
  <2>3. x # 0
    BY <1>4, <2>2 DEF Sums
  <2>4. x - 1 \in 0 .. n /\ x \in 1 .. n /\ x - 1 \notin S
    BY <1>0, <2>1, <2>2, <2>3
  <2>5. f0[x - 1] = g[x - 1]
    BY <2>4
  <2>6. f0[x] = f0[x - 1] + s[x].tokens
    BY <1>4, <2>2, <2>3
  <2>7. g[x] = g[x - 1] + s[x].tokens
    BY <2>4 DEF Sums
  <2> QED
    BY <2>2, <2>5, <2>6, <2>7
<1>6. f0[n] = g[n]
  BY <1>0, <1>5
<1> QED
  BY <1>1, <1>6

\* The sum of a part of a list is the difference of two sums.
LEMMA TokensOfSlice ==
    ASSUME NEW s \in Seq(Records), NEW g, Sums(g, s, Len(s)),
           NEW d \in 0 .. Len(s), NEW e \in 0 .. Len(s), d <= e
    PROVE  Tokens(Slice(s, d, e)) = g[e] - g[d]
<1> DEFINE w == Slice(s, d, e)
<1>0. Len(s) \in Nat /\ g \in [0 .. Len(s) -> Int]
  BY DEF Sums
<1>1. w \in Seq(Records) /\ Len(w) = e - d /\ \A k \in 1 .. e - d : w[k] = s[d + k]
  BY SliceFacts
<1> HIDE DEF w
<1>2. \A i \in 1 .. Len(s) : g[i] = g[i - 1] + s[i].tokens /\ s[i].tokens \in Int
  BY RecordParts DEF Sums
<1> DEFINE h == [i \in 0 .. e - d |-> g[d + i] - g[d]]
<1>3. h \in [0 .. e - d -> Int]
  <2>1. ASSUME NEW i \in 0 .. e - d PROVE g[d + i] - g[d] \in Int
    <3>1. d + i \in 0 .. Len(s) /\ d \in 0 .. Len(s)
      BY <1>0
    <3>2. g[d + i] \in Int /\ g[d] \in Int
      BY <1>0, <3>1
    <3> QED
      BY <3>2
  <2> QED
    BY <2>1
<1>4. h[0] = 0
  BY <1>0
<1>5. ASSUME NEW i \in 1 .. e - d PROVE h[i] = h[i - 1] + w[i].tokens
  <2>1. d + i \in 1 .. Len(s) /\ (d + i) - 1 = d + (i - 1) /\ i - 1 \in 0 .. e - d
    BY <1>0
  <2>2. g[d + i] = g[d + (i - 1)] + s[d + i].tokens /\ s[d + i].tokens \in Int
    BY <1>2, <2>1
  <2>3. w[i] = s[d + i]
    BY <1>1
  <2>4. g[d + i] \in Int /\ g[d + (i - 1)] \in Int /\ g[d] \in Int
    BY <1>0, <2>1
  <2>5. h[i] = g[d + i] - g[d] /\ h[i - 1] = g[d + (i - 1)] - g[d]
    BY <2>1
  <2> HIDE DEF h
  <2> QED
    BY <2>2, <2>3, <2>4, <2>5, SMTT(30)
<1>6. Sums(h, w, Len(w))
  <2> HIDE DEF h
  <2> QED
    BY <1>1, <1>3, <1>4, <1>5 DEF Sums
<1>7. Tokens(w) = h[Len(w)]
  <2> HIDE DEF h
  <2> QED
    BY <1>1, <1>6, TokensIsSum
<1>8. h[e - d] = g[e] - g[d]
  BY <1>0
<1> QED
  BY <1>1, <1>7, <1>8 DEF w

LEMMA TokensTyped ==
    ASSUME NEW s \in Seq(Records)
    PROVE  Tokens(s) \in Int
<1>1. PICK g : Sums(g, s, Len(s))
  BY SumsExist
<1>2. Len(s) \in 0 .. Len(s)
  BY LenProperties
<1>3. g[Len(s)] \in Int
  BY <1>1, <1>2 DEF Sums
<1> QED
  BY <1>1, <1>3, TokensIsSum

\* The sums of token counts that are not negative do not decrease.
LEMMA SumsGrow ==
    ASSUME NEW s \in Seq(Records), NEW g, Sums(g, s, Len(s)),
           \A i \in 1 .. Len(s) : s[i].tokens >= 0,
           NEW d \in 0 .. Len(s), NEW e \in 0 .. Len(s), d <= e
    PROVE  g[d] \in Int /\ g[e] \in Int /\ g[d] <= g[e]
<1>0. Len(s) \in Nat /\ g \in [0 .. Len(s) -> Int]
  BY DEF Sums
<1>1. \A i \in 1 .. Len(s) : g[i] = g[i - 1] + s[i].tokens /\ s[i].tokens \in Nat
  <2>1. \A i \in 1 .. Len(s) : s[i].tokens \in Int
    BY RecordParts
  <2> QED
    BY <2>1 DEF Sums
<1> DEFINE S == {i \in d .. e : g[i] < g[d]}
<1>2. S = {}
  <2> SUFFICES ASSUME S # {} PROVE FALSE
    OBVIOUS
  <2>1. PICK x \in S : \A y \in S : x <= y
    <3>1. S \in SUBSET Nat
      BY <1>0
    <3> HIDE DEF S
    <3> QED
      BY <3>1, Least
  <2>2. x \in d .. e /\ g[x] < g[d] /\ x # d
    BY <1>0, <2>1
  <2>3. x - 1 \in d .. e /\ x - 1 \notin S /\ x \in 1 .. Len(s)
    BY <1>0, <2>1, <2>2
  <2>4. g[x] \in Int /\ g[x - 1] \in Int /\ g[d] \in Int
    <3>1. x \in 0 .. Len(s) /\ x - 1 \in 0 .. Len(s)
      BY <1>0, <2>2, <2>3
    <3> QED
      BY <1>0, <3>1
  <2>5. g[x - 1] >= g[d]
    BY <2>3, <2>4
  <2>6. g[x] = g[x - 1] + s[x].tokens /\ s[x].tokens \in Nat
    BY <1>1, <2>3
  <2> QED
    BY <2>2, <2>4, <2>5, <2>6, SMTT(30)
<1>3. g[d] \in Int /\ g[e] \in Int
  BY <1>0
<1>4. ~ (g[e] < g[d])
  BY <1>0, <1>2
<1> QED
  BY <1>3, <1>4

\* As long as no token count is negative and their sum is an int, the loop that adds
\* ints computes it.
LEMMA CurrentIsSum ==
    ASSUME NEW s \in Seq(Records), \A i \in 1 .. Len(s) : s[i].tokens >= 0,
           Tokens(s) < IntLimit
    PROVE  CurrentTokens(s) = Tokens(s) /\ Tokens(s) \in Nat
<1> DEFINE n == Len(s)
           Turn(f) == [i \in 0 .. n |-> IF i = 0 THEN 0 ELSE Plus(f[i - 1], s[i].tokens)]
           f0 == CHOOSE f : f = Turn(f)
<1>0. n \in Nat /\ IntLimit \in Nat /\ n \in 0 .. n
  BY LimiterAssumption
<1>1. PICK g : Sums(g, s, Len(s))
  BY SumsExist
<1>2. /\ g \in [0 .. n -> Int] /\ g[0] = 0
      /\ \A i \in 1 .. n : g[i] = g[i - 1] + s[i].tokens /\ s[i].tokens \in Int
  BY <1>1, RecordParts DEF Sums
<1>3. Tokens(s) = g[n]
  BY <1>1, TokensIsSum
<1>4. ASSUME NEW i \in 0 .. n PROVE g[i] \in 0 .. IntLimit - 1
  <2>1. 0 \in 0 .. n /\ 0 <= i /\ i <= n
    BY <1>0
  <2>2. g[0] <= g[i] /\ g[i] <= g[n] /\ g[i] \in Int /\ g[n] \in Int
    BY <1>0, <1>1, <2>1, SumsGrow
  <2> QED
    BY <1>0, <1>2, <1>3, <2>2
<1>5. g = Turn(g)
  <2>1. g = [i \in 0 .. n |-> g[i]]
    BY <1>2
  <2>2. ASSUME NEW i \in 0 .. n, i # 0 PROVE g[i] = Plus(g[i - 1], s[i].tokens)
    <3>1. i \in 1 .. n /\ i - 1 \in 0 .. n
      BY <1>0, <2>2
    <3>2. g[i] = g[i - 1] + s[i].tokens
      BY <1>2, <3>1
    <3>3. g[i] \in 0 .. IntLimit - 1
      BY <1>4
    <3> QED
      BY <1>0, <3>2, <3>3 DEF Plus
  <2> QED
    BY <1>2, <2>1, <2>2
<1>6. CurrentTokens(s) = f0[n]
  BY DEF CurrentTokens
<1>7. f0 = Turn(f0)
  <2> HIDE DEF Turn
  <2> QED
    BY <1>5
<1> HIDE DEF f0
<1>8. \A i \in 0 .. n : f0[i] = IF i = 0 THEN 0 ELSE Plus(f0[i - 1], s[i].tokens)
  BY <1>7
<1>9. \A i \in 0 .. n : g[i] = IF i = 0 THEN 0 ELSE Plus(g[i - 1], s[i].tokens)
  BY <1>5
<1> DEFINE S == {i \in 0 .. n : f0[i] # g[i]}
<1>10. S = {}
  <2> SUFFICES ASSUME S # {} PROVE FALSE
    OBVIOUS
  <2>1. PICK x \in S : \A y \in S : x <= y
    <3>1. S \in SUBSET Nat
      BY <1>0
    <3> HIDE DEF S
    <3> QED
      BY <3>1, Least
  <2>2. x \in 0 .. n /\ f0[x] # g[x]
    BY <2>1
  <2>3. x # 0
    BY <1>8, <1>9, <2>2
  <2>4. x - 1 \in 0 .. n /\ x - 1 \notin S
    BY <1>0, <2>1, <2>2, <2>3
  <2>5. f0[x - 1] = g[x - 1]
    BY <2>4
  <2>6. f0[x] = Plus(f0[x - 1], s[x].tokens)
    BY <1>8, <2>2, <2>3
  <2>7. g[x] = Plus(g[x - 1], s[x].tokens)
    BY <1>9, <2>2, <2>3
  <2> QED
    BY <2>2, <2>5, <2>6, <2>7
<1>11. f0[n] = g[n]
  BY <1>0, <1>10
<1>12. g[n] \in Nat
  BY <1>0, <1>4
<1> QED
  BY <1>3, <1>6, <1>11, <1>12

-----------------------------------------------------------------------------
(***************************************************************************)
(* What pruning leaves                                                     *)
(***************************************************************************)
\* The first entries have expired, the others have not.
LEMMA ExpiredFirst ==
    ASSUME NEW s \in Seq(Records), Sorted(s), NEW clock \in Nat
    PROVE  \E f \in 0 .. Len(s) :
               \A i \in 1 .. Len(s) : f < i <=> ~ Expired(s[i].timestamp, clock)
<1> DEFINE n == Len(s)
           S == {i \in 1 .. n : ~ Expired(s[i].timestamp, clock)}
<1>1. n \in Nat /\ Window \in Nat
  BY LimiterAssumption
<1>2. \A i \in 1 .. n : s[i].timestamp \in Nat
  BY RecordParts
<1>3. \A i, j \in 1 .. n : i \in S /\ i <= j => j \in S
  BY <1>1, <1>2 DEF Sorted, Expired
<1>4. S \in SUBSET (1 .. n)
  OBVIOUS
<1>5. \E f \in 0 .. n : \A i \in 1 .. n : i \in S <=> f < i
  <2> HIDE DEF S
  <2> QED
    BY <1>1, <1>3, <1>4, Cut
<1> QED
  BY <1>5

\* The minute that ends at a time holds what has not expired by then, and is not later.
LEMMA MinuteIsLive ==
    ASSUME NEW s \in Seq(Records), NEW end \in Nat
    PROVE  {i \in DOMAIN s : end - s[i].timestamp \in 0 .. Window}
             = {i \in DOMAIN s : s[i].timestamp <= end /\ ~ Expired(s[i].timestamp, end)}
<1>1. Window \in Nat /\ DOMAIN s = 1 .. Len(s)
  BY LimiterAssumption
<1>2. \A i \in 1 .. Len(s) : s[i].timestamp \in Nat
  BY RecordParts
<1> QED
  BY <1>1, <1>2 DEF Expired

\* A window of what was accepted is a part of it.
LEMMA WindowIsSlice ==
    ASSUME NEW s \in Seq(Records), Sorted(s), NEW end \in Nat, NEW f \in 0 .. Len(s),
           \A i \in 1 .. Len(s) : f < i <=> ~ Expired(s[i].timestamp, end)
    PROVE  \E e \in f .. Len(s) :
               /\ Compacted(s, {i \in DOMAIN s : /\ s[i].timestamp <= end
                                                 /\ ~ Expired(s[i].timestamp, end)})
                    = Slice(s, f, e)
               /\ \A i \in 1 .. Len(s) : i <= e <=> s[i].timestamp <= end
<1> DEFINE n == Len(s)
           S == {i \in 1 .. n : s[i].timestamp > end}
           live == {i \in DOMAIN s : s[i].timestamp <= end /\ ~ Expired(s[i].timestamp, end)}
<1>1. n \in Nat /\ Window \in Nat /\ DOMAIN s = 1 .. n
  BY LimiterAssumption
<1>2. \A i \in 1 .. n : s[i].timestamp \in Nat
  BY RecordParts
<1>3. \A i, j \in 1 .. n : i \in S /\ i <= j => j \in S
  BY <1>1, <1>2 DEF Sorted
<1>4. PICK e \in 0 .. n : \A i \in 1 .. n : i \in S <=> e < i
  <2>1. S \in SUBSET (1 .. n)
    OBVIOUS
  <2> HIDE DEF S
  <2> QED
    BY <1>1, <1>3, <2>1, Cut
<1>5. \A i \in 1 .. n : i <= e <=> s[i].timestamp <= end
  BY <1>1, <1>2, <1>4
<1>6. f <= e
  <2> SUFFICES ASSUME e < f PROVE FALSE
    BY <1>1
  <2>1. f \in 1 .. n /\ ~ (f < f) /\ ~ (f <= e)
    BY <1>1
  <2>2. Expired(s[f].timestamp, end) /\ s[f].timestamp \in Nat
    BY <1>2, <2>1
  <2>3. s[f].timestamp <= end
    BY <1>1, <2>2 DEF Expired
  <2> QED
    BY <1>5, <2>1, <2>3
<1>7. live = {i \in 1 .. n : f < i /\ i <= e}
  BY <1>1, <1>5
<1>8. Compacted(s, live) = Slice(s, f, e)
  <2> HIDE DEF live
  <2> QED
    BY <1>1, <1>6, <1>7, CompactedIsSlice
<1>9. e \in f .. n
  BY <1>1, <1>6
<1> QED
  BY <1>5, <1>8, <1>9

\* The live entries of the two lists are what was accepted in the window: the entries
\* after the f-th.
LiveFrom(s, times, records, f, clock) ==
    /\ \A i \in 1 .. Len(s) : f < i <=> ~ Expired(s[i].timestamp, clock)
    /\ Compacted(times, {i \in DOMAIN times : ~ Expired(times[i], clock)}) = TimesAfter(s, f)
    /\ Compacted(records, {i \in DOMAIN records : ~ Expired(records[i].timestamp, clock)})
         = Slice(s, f, Len(s))
    /\ Compacted(s, {i \in DOMAIN s : /\ s[i].timestamp <= clock
                                      /\ ~ Expired(s[i].timestamp, clock)})
         = Slice(s, f, Len(s))

LEMMA LiveEntries ==
    ASSUME NEW s \in Seq(Records), Sorted(s), NEW clock \in Nat, NEW times, NEW records,
           NEW d \in 0 .. Len(s), ListsAt(s, times, records, d, clock)
    PROVE  \E f \in d .. Len(s) : LiveFrom(s, times, records, f, clock)
<1> DEFINE n == Len(s)
           m == n - d
<1>1. n \in Nat /\ m \in Nat
  OBVIOUS
<1>2. PICK f \in 0 .. n : \A i \in 1 .. n : f < i <=> ~ Expired(s[i].timestamp, clock)
  BY ExpiredFirst
<1>3. f \in d .. n
  <2> SUFFICES ASSUME f < d PROVE FALSE
    BY <1>1
  <2>1. d \in 1 .. n /\ d \in 1 .. d
    BY <1>1
  <2>2. Expired(s[d].timestamp, clock)
    BY <2>1 DEF ListsAt
  <2> QED
    BY <1>2, <2>1, <2>2
<1>4. \A k \in 1 .. m : d + k \in 1 .. n /\ (f < d + k <=> f - d < k)
  BY <1>1
<1>5. /\ times = [k \in 1 .. m |-> s[d + k].timestamp]
      /\ records = [k \in 1 .. m |-> s[d + k]]
  BY DEF ListsAt, TimesAfter, Slice
<1>6. \A k \in 1 .. m : k <= m /\ (~ Expired(s[d + k].timestamp, clock) <=> f - d < k)
  BY <1>1, <1>2, <1>4
<1>7. f - d \in 0 .. m /\ m \in 0 .. m /\ f - d <= m /\ m - (f - d) = n - f
  BY <1>1, <1>3
<1>8. Compacted(times, {i \in DOMAIN times : ~ Expired(times[i], clock)}) = TimesAfter(s, f)
  <2> DEFINE live == {i \in DOMAIN times : ~ Expired(times[i], clock)}
  <2>1. DOMAIN times = 1 .. m /\ \A k \in 1 .. m : times[k] = s[d + k].timestamp
    BY <1>5
  <2>2. live = {k \in 1 .. m : f - d < k /\ k <= m}
    BY <1>6, <2>1, Zenon
  <2>3. Compacted(times, live) = Slice(times, f - d, m)
    <3> HIDE DEF live
    <3> QED
      BY <1>1, <1>7, <2>2, CompactedIsSlice
  <2>4. Slice(times, f - d, m) = [k \in 1 .. n - f |-> times[(f - d) + k]]
    BY <1>7 DEF Slice
  <2>5. \A k \in 1 .. n - f : (f - d) + k \in 1 .. m /\ d + ((f - d) + k) = f + k
    BY <1>1, <1>3
  <2>6. \A k \in 1 .. n - f : times[(f - d) + k] = s[f + k].timestamp
    <3>1. ASSUME NEW k \in 1 .. n - f PROVE times[(f - d) + k] = s[f + k].timestamp
      <4>1. times[(f - d) + k] = s[d + ((f - d) + k)].timestamp
        BY <2>1, <2>5
      <4> QED
        BY <2>5, <4>1
    <3> QED
      BY <3>1
  <2> QED
    BY <2>3, <2>4, <2>6 DEF TimesAfter
<1>9. Compacted(records, {i \in DOMAIN records : ~ Expired(records[i].timestamp, clock)})
        = Slice(s, f, n)
  <2> DEFINE live == {i \in DOMAIN records : ~ Expired(records[i].timestamp, clock)}
  <2>1. DOMAIN records = 1 .. m /\ \A k \in 1 .. m : records[k] = s[d + k]
    BY <1>5
  <2>2. live = {k \in 1 .. m : f - d < k /\ k <= m}
    BY <1>6, <2>1, Zenon
  <2>3. Compacted(records, live) = Slice(records, f - d, m)
    <3> HIDE DEF live
    <3> QED
      BY <1>1, <1>7, <2>2, CompactedIsSlice
  <2>4. Slice(records, f - d, m) = [k \in 1 .. n - f |-> records[(f - d) + k]]
    BY <1>7 DEF Slice
  <2>5. \A k \in 1 .. n - f : (f - d) + k \in 1 .. m /\ d + ((f - d) + k) = f + k
    BY <1>1, <1>3
  <2>6. \A k \in 1 .. n - f : records[(f - d) + k] = s[f + k]
    <3>1. ASSUME NEW k \in 1 .. n - f PROVE records[(f - d) + k] = s[f + k]
      <4>1. records[(f - d) + k] = s[d + ((f - d) + k)]
        BY <2>1, <2>5
      <4> QED
        BY <2>5, <4>1
    <3> QED
      BY <3>1
  <2> QED
    BY <2>3, <2>4, <2>6 DEF Slice
<1>10. Compacted(s, {i \in DOMAIN s : /\ s[i].timestamp <= clock
                                     /\ ~ Expired(s[i].timestamp, clock)}) = Slice(s, f, n)
  <2>1. PICK e \in f .. n :
            /\ Compacted(s, {i \in DOMAIN s : /\ s[i].timestamp <= clock
                                              /\ ~ Expired(s[i].timestamp, clock)})
                 = Slice(s, f, e)
            /\ \A i \in 1 .. n : i <= e <=> s[i].timestamp <= clock
    BY <1>2, WindowIsSlice
  <2>2. e = n
    <3> SUFFICES ASSUME e < n PROVE FALSE
      BY <1>1
    <3>1. n \in 1 .. n
      BY <1>1
    <3>2. s[n].timestamp <= clock
      BY <3>1 DEF ListsAt
    <3> QED
      BY <2>1, <3>1, <3>2
  <2> QED
    BY <2>1, <2>2
<1> QED
  BY <1>2, <1>3, <1>8, <1>9, <1>10 DEF LiveFrom

LEMMA ListTypes ==
    ASSUME NEW s \in Seq(Records), NEW f \in 0 .. Len(s)
    PROVE  /\ TimesAfter(s, f) \in Seq(Nat) /\ Len(TimesAfter(s, f)) = Len(s) - f
           /\ \A k \in 1 .. Len(s) - f : TimesAfter(s, f)[k] = s[f + k].timestamp
           /\ Slice(s, f, Len(s)) \in Seq(Records) /\ Len(Slice(s, f, Len(s))) = Len(s) - f
           /\ \A k \in 1 .. Len(s) - f : Slice(s, f, Len(s))[k] = s[f + k]
<1>1. Len(s) \in Nat /\ Len(s) - f \in Nat
  OBVIOUS
<1>2. \A k \in 1 .. Len(s) - f : f + k \in 1 .. Len(s)
  BY <1>1
<1>3. \A k \in 1 .. Len(s) - f : s[f + k].timestamp \in Nat
  BY <1>2, RecordParts
<1>4. TimesAfter(s, f) \in [1 .. Len(s) - f -> Nat]
  BY <1>3 DEF TimesAfter
<1>5. TimesAfter(s, f) \in Seq(Nat)
  BY <1>1, <1>4, IsASeq
<1>6. /\ Len(TimesAfter(s, f)) = Len(s) - f
      /\ \A k \in 1 .. Len(s) - f : TimesAfter(s, f)[k] = s[f + k].timestamp
  <2>1. DOMAIN TimesAfter(s, f) = 1 .. Len(s) - f
    BY DEF TimesAfter
  <2> QED
    BY <1>1, <1>5, <2>1, LenProperties DEF TimesAfter
<1>7. Len(s) \in 0 .. Len(s) /\ f <= Len(s)
  BY <1>1
<1>8. /\ Slice(s, f, Len(s)) \in Seq(Records) /\ Len(Slice(s, f, Len(s))) = Len(s) - f
      /\ \A k \in 1 .. Len(s) - f : Slice(s, f, Len(s))[k] = s[f + k]
  BY <1>7, SliceFacts, Zenon
<1> QED
  BY <1>5, <1>6, <1>8

\* The lists of a bucket after the pruning, at any later time.
LEMMA ListsPruned ==
    ASSUME NEW s \in Seq(Records), NEW clock \in Nat, NEW time \in Nat, clock <= time,
           NEW f \in 0 .. Len(s),
           \A i \in 1 .. Len(s) : f < i <=> ~ Expired(s[i].timestamp, clock),
           \A i \in 1 .. Len(s) : s[i].timestamp <= clock
    PROVE  ListsAt(s, TimesAfter(s, f), Slice(s, f, Len(s)), f, time)
<1>1. Window \in Nat /\ Len(s) \in Nat
  BY LimiterAssumption
<1>2. \A i \in 1 .. Len(s) : s[i].timestamp \in Nat
  BY RecordParts
<1>3. \A i \in 1 .. Len(s) : s[i].timestamp <= time
  BY <1>2
<1>4. \A i \in 1 .. f : i \in 1 .. Len(s) /\ ~ (f < i)
  BY <1>1
<1>5. \A i \in 1 .. f : Expired(s[i].timestamp, time)
  BY <1>1, <1>2, <1>4 DEF Expired
<1> QED
  BY <1>3, <1>5 DEF ListsAt

\* The new entry is appended to what was accepted and to both lists.
LEMMA ListsAppended ==
    ASSUME NEW s \in Seq(Records), Sorted(s), NEW clock \in Nat, NEW cost \in Int,
           NEW time \in Nat, clock <= time, NEW f \in 0 .. Len(s), NEW new,
           new = [timestamp |-> clock, tokens |-> cost],
           \A i \in 1 .. Len(s) : f < i <=> ~ Expired(s[i].timestamp, clock),
           \A i \in 1 .. Len(s) : s[i].timestamp <= clock
    PROVE  /\ Sorted(Append(s, new))
           /\ ListsAt(Append(s, new), Append(TimesAfter(s, f), clock),
                      Append(Slice(s, f, Len(s)), new), f, time)
<1> DEFINE n == Len(s)
           u == Append(s, new)
<1>1. n \in Nat /\ Window \in Nat /\ new \in Records /\ new.timestamp = clock
  BY LimiterAssumption DEF Records
<1>2. /\ u \in Seq(Records) /\ Len(u) = n + 1 /\ u[n + 1] = new
      /\ \A i \in 1 .. n : u[i] = s[i]
  BY <1>1
<1> HIDE DEF u
<1>3. \A i \in 1 .. n : s[i].timestamp \in Nat
  BY RecordParts
<1>4. \A i \in 1 .. n + 1 : i \in 1 .. n \/ i = n + 1
  BY <1>1
<1>5. \A i \in 1 .. n + 1 : u[i].timestamp <= clock /\ u[i].timestamp \in Nat
  BY <1>1, <1>2, <1>3, <1>4, SMTT(30)
<1>6. Sorted(u)
  <2> SUFFICES ASSUME NEW i \in 1 .. n + 1, NEW j \in 1 .. n + 1, i <= j
               PROVE  u[i].timestamp <= u[j].timestamp
    BY <1>2 DEF Sorted
  <2>1. CASE j = n + 1
    BY <1>1, <1>2, <1>5, <2>1
  <2>2. CASE j # n + 1
    <3>1. i \in 1 .. n /\ j \in 1 .. n
      BY <1>1, <2>2
    <3> QED
      BY <1>2, <3>1 DEF Sorted
  <2> QED
    BY <2>1, <2>2
<1>7. \A i \in 1 .. Len(u) : u[i].timestamp <= time
  BY <1>2, <1>5
<1>8. \A i \in 1 .. f : i \in 1 .. n /\ ~ (f < i)
  BY <1>1
<1>9. \A i \in 1 .. f : Expired(u[i].timestamp, time)
  BY <1>1, <1>2, <1>3, <1>8 DEF Expired
<1>10. /\ n - f \in Nat /\ (n + 1) - f = (n - f) + 1 /\ f + ((n - f) + 1) = n + 1
       /\ \A k \in 1 .. n - f : f + k \in 1 .. n
  BY <1>1
<1>11. Append(TimesAfter(s, f), clock) = TimesAfter(u, f)
  <2>1. TimesAfter(s, f) \in Seq(Nat) /\ Len(TimesAfter(s, f)) = n - f
    BY ListTypes, Zenon
  <2>2. /\ Append(TimesAfter(s, f), clock) \in Seq(Nat)
        /\ Len(Append(TimesAfter(s, f), clock)) = (n - f) + 1
        /\ Append(TimesAfter(s, f), clock)[(n - f) + 1] = clock
        /\ \A k \in 1 .. n - f : Append(TimesAfter(s, f), clock)[k] = TimesAfter(s, f)[k]
    BY <2>1
  <2>3. /\ TimesAfter(u, f) \in Seq(Nat) /\ Len(TimesAfter(u, f)) = (n - f) + 1
        /\ \A k \in 1 .. (n - f) + 1 : TimesAfter(u, f)[k] = u[f + k].timestamp
    <3>1. f \in 0 .. Len(u) /\ Len(u) - f = (n - f) + 1
      BY <1>1, <1>2
    <3>2. u \in Seq(Records)
      BY <1>2
    <3>3. /\ TimesAfter(u, f) \in Seq(Nat) /\ Len(TimesAfter(u, f)) = Len(u) - f
          /\ \A k \in 1 .. Len(u) - f : TimesAfter(u, f)[k] = u[f + k].timestamp
      BY <3>1, <3>2, ListTypes, Zenon
    <3> QED
      BY <3>1, <3>3, Zenon
  <2>4. \A k \in 1 .. n - f : TimesAfter(s, f)[k] = u[f + k].timestamp
    BY <1>2, <1>10 DEF TimesAfter
  <2>5. ASSUME NEW k \in 1 .. (n - f) + 1
        PROVE  Append(TimesAfter(s, f), clock)[k] = TimesAfter(u, f)[k]
    <3>1. CASE k = (n - f) + 1
      <4>1. u[f + k].timestamp = clock
        BY <1>1, <1>2, <1>10, <3>1
      <4> QED
        BY <2>2, <2>3, <3>1, <4>1
    <3>2. CASE k # (n - f) + 1
      <4>1. k \in 1 .. n - f
        BY <1>10, <3>2
      <4> QED
        BY <2>2, <2>3, <2>4, <4>1
    <3> QED
      BY <3>1, <3>2
  <2> QED
    BY <2>2, <2>3, <2>5, SeqEqual
<1>12. Append(Slice(s, f, n), new) = Slice(u, f, Len(u))
  <2>1. /\ Slice(s, f, n) \in Seq(Records) /\ Len(Slice(s, f, n)) = n - f
        /\ \A k \in 1 .. n - f : Slice(s, f, n)[k] = s[f + k]
    BY ListTypes, Zenon
  <2>2. /\ Append(Slice(s, f, n), new) \in Seq(Records)
        /\ Len(Append(Slice(s, f, n), new)) = (n - f) + 1
        /\ Append(Slice(s, f, n), new)[(n - f) + 1] = new
        /\ \A k \in 1 .. n - f : Append(Slice(s, f, n), new)[k] = Slice(s, f, n)[k]
    BY <1>1, <2>1
  <2>3. /\ Slice(u, f, n + 1) \in Seq(Records) /\ Len(Slice(u, f, n + 1)) = (n - f) + 1
        /\ \A k \in 1 .. (n - f) + 1 : Slice(u, f, n + 1)[k] = u[f + k]
    <3>1. f \in 0 .. Len(u) /\ Len(u) - f = (n - f) + 1 /\ Len(u) = n + 1
      BY <1>1, <1>2
    <3>2. u \in Seq(Records)
      BY <1>2
    <3>3. /\ Slice(u, f, Len(u)) \in Seq(Records) /\ Len(Slice(u, f, Len(u))) = Len(u) - f
          /\ \A k \in 1 .. Len(u) - f : Slice(u, f, Len(u))[k] = u[f + k]
      BY <3>1, <3>2, ListTypes, Zenon
    <3> QED
      BY <3>1, <3>3, Zenon
  <2>4. ASSUME NEW k \in 1 .. (n - f) + 1
        PROVE  Append(Slice(s, f, n), new)[k] = Slice(u, f, n + 1)[k]
    <3>1. CASE k = (n - f) + 1
      <4>1. u[f + k] = new
        BY <1>2, <1>10, <3>1
      <4> QED
        BY <2>2, <2>3, <3>1, <4>1
    <3>2. CASE k # (n - f) + 1
      <4>1. k \in 1 .. n - f
        BY <1>10, <3>2
      <4>2. u[f + k] = s[f + k]
        BY <1>2, <1>10, <4>1
      <4> QED
        BY <2>1, <2>2, <2>3, <4>1, <4>2
    <3> QED
      BY <3>1, <3>2
  <2> QED
    BY <1>2, <2>2, <2>3, <2>4, SeqEqual
<1> QED
  BY <1>6, <1>7, <1>9, <1>11, <1>12 DEF ListsAt, u

LEMMA PlusIsInt ==
    ASSUME NEW x \in Ints, NEW y \in Ints
    PROVE  Plus(x, y) \in Ints
<1>1. IntLimit \in Nat /\ x \in Int /\ y \in Int
  BY LimiterAssumption DEF Ints
<1> QED
  BY <1>1 DEF Plus, Ints

\* An addition that comes out above a limit has not wrapped around.
LEMMA OverIsOver ==
    ASSUME NEW tpm \in Int, tpm < IntLimit, NEW sum \in 0 .. tpm, NEW est \in Ints,
           Plus(sum, est) > tpm
    PROVE  sum + est > tpm
<1>1. PICK top \in Nat : top = IntLimit
  BY LimiterAssumption
<1>2. /\ est \in Int /\ -top <= est /\ est < top
      /\ sum \in Int /\ 0 <= sum /\ sum <= tpm /\ tpm < top
  BY <1>1 DEF Ints
<1>3. CASE sum + est >= top
  <2>1. Plus(sum, est) = sum + est - 2 * top
    BY <1>1, <1>2, <1>3 DEF Plus
  <2> QED
    BY <1>1, <1>2, <2>1
<1>4. CASE sum + est < top
  <2>1. ~ (sum + est >= top) /\ ~ (sum + est < -top)
    BY <1>2, <1>4
  <2>2. Plus(sum, est) = sum + est
    BY <1>1, <2>1 DEF Plus
  <2> QED
    BY <2>2
<1> QED
  BY <1>2, <1>3, <1>4

LEMMA CostIsInt ==
    ASSUME NEW payload \in Payloads PROVE EstimateTokens(payload) \in Ints
<1>1. /\ payload.len \in Nat /\ payload.max_tokens \in Ints
      /\ payload.len * 133 < 400 * IntLimit
  BY LimiterAssumption
<1>2. IntLimit \in Nat /\ 1 < IntLimit
  BY LimiterAssumption
<1> DEFINE base == (payload.len * 133) \div 400
           floor == IF base < 1 THEN 1 ELSE base
<1>3. base \in Int /\ base < IntLimit
  <2>1. PICK k \in Int : k = payload.len * 133
    BY <1>1
  <2>2. k \div 400 \in Int /\ 400 * (k \div 400) <= k
    BY <2>1
  <2> QED
    BY <1>1, <1>2, <2>1, <2>2
<1> HIDE DEF base
<1>4. floor \in Ints /\ 1 \in Ints
  BY <1>2, <1>3 DEF Ints
<1>5. Plus(floor, payload.max_tokens) \in Ints
  <2> HIDE DEF floor
  <2> QED
    BY <1>1, <1>4, PlusIsInt
<1>6. EstimateTokens(payload) = IF payload.len = 0 THEN 1 ELSE Plus(floor, payload.max_tokens)
  BY DEF EstimateTokens, base
<1> HIDE DEF floor
<1> QED
  BY <1>4, <1>5, <1>6

\* The live entries share a window, so that their sum is within the limit, and the loop
\* over the records computes it.
LEMMA LiveSum ==
    ASSUME NEW s \in Seq(Records), NEW clock \in Nat, NEW f \in 0 .. Len(s),
           \A i \in 1 .. Len(s) : f < i <=> ~ Expired(s[i].timestamp, clock),
           \A i \in 1 .. Len(s) : s[i].timestamp <= clock,
           NEW lim \in Limits, WithinLimits(s, lim), lim.tpm > 0, Plausible(s, lim)
    PROVE  /\ CurrentTokens(Slice(s, f, Len(s))) = Tokens(Slice(s, f, Len(s)))
           /\ Tokens(Slice(s, f, Len(s))) \in 0 .. lim.tpm
<1> DEFINE n == Len(s)
           w == Slice(s, f, n)
<1>1. /\ n \in Nat /\ n \in 0 .. n /\ f <= n /\ Window \in Nat /\ IntLimit \in Nat
      /\ lim.tpm \in Int /\ lim.tpm < IntLimit
  BY LimiterAssumption DEF Limits, Ints
<1>2. w \in Seq(Records) /\ Len(w) = n - f /\ \A k \in 1 .. n - f : w[k] = s[f + k]
  BY <1>1, SliceFacts
<1>3. \A k \in 1 .. Len(w) : w[k].tokens >= 0
  <2>1. \A k \in 1 .. n - f : f + k \in 1 .. n
    BY <1>1
  <2>2. DOMAIN s = 1 .. n
    OBVIOUS
  <2>3. \A i \in 1 .. n : s[i].tokens >= 0
    BY <2>2 DEF Plausible
  <2> HIDE DEF w
  <2> QED
    BY <1>2, <2>1, <2>3
<1>4. Tokens(w) <= lim.tpm
  <2>1. CASE f = n
    <3>1. PICK g : Sums(g, s, n)
      BY SumsExist
    <3>2. Tokens(w) = g[n] - g[f] /\ g[n] \in Int
      BY <1>1, <3>1, TokensOfSlice DEF Sums
    <3> HIDE DEF w
    <3> QED
      BY <1>1, <2>1, <3>2
  <2>2. CASE f # n
    <3>1. f < n /\ n \in 1 .. n /\ f + 1 \in 1 .. n
      BY <1>1, <2>2
    <3>2. s[n].timestamp \in Nat /\ s[f + 1].timestamp \in Nat
      BY <3>1, RecordParts
    <3>3. s[n].timestamp <= clock /\ ~ Expired(s[f + 1].timestamp, clock)
      BY <1>1, <3>1
    <3>4. s[n].timestamp <= s[f + 1].timestamp + Window
      BY <1>1, <3>2, <3>3 DEF Expired
    <3> QED
      BY <1>1, <3>1, <3>4 DEF WithinLimits
  <2> QED
    BY <2>1, <2>2
<1>5. Tokens(w) \in Int
  BY <1>2, TokensTyped
<1> HIDE DEF w
<1>6. Tokens(w) < IntLimit
  BY <1>1, <1>4, <1>5
<1>7. CurrentTokens(w) = Tokens(w) /\ Tokens(w) \in Nat
  BY <1>2, <1>3, <1>6, CurrentIsSum
<1> QED
  BY <1>1, <1>4, <1>7 DEF w

\* A request that is within the limits together with the live entries is within them
\* together with any entries that it shares a window with.
LEMMA AcceptedFits ==
    ASSUME NEW s \in Seq(Records), NEW clock \in Nat, NEW cost \in Int,
           NEW f \in 0 .. Len(s), NEW new, new = [timestamp |-> clock, tokens |-> cost],
           \A i \in 1 .. Len(s) : f < i <=> ~ Expired(s[i].timestamp, clock),
           NEW lim \in Limits, WithinLimits(s, lim),
           lim.rpm > 0 => Len(s) - f < lim.rpm,
           lim.tpm > 0 /\ Plausible(Append(s, new), lim) =>
               Tokens(Slice(s, f, Len(s))) + cost <= lim.tpm
    PROVE  WithinLimits(Append(s, new), lim)
<1> DEFINE n == Len(s)
           u == Append(s, new)
<1>1. /\ n \in Nat /\ Window \in Nat /\ new \in Records
      /\ new.timestamp = clock /\ new.tokens = cost
      /\ lim.rpm \in Int /\ lim.tpm \in Int
  BY LimiterAssumption DEF Records, Limits, Ints
<1>2. /\ u \in Seq(Records) /\ Len(u) = n + 1 /\ u[n + 1] = new
      /\ \A i \in 1 .. n : u[i] = s[i]
  BY <1>1
<1> HIDE DEF u
<1>3. PICK g : Sums(g, u, Len(u))
  BY <1>2, SumsExist
<1>4. /\ g \in [0 .. n + 1 -> Int]
      /\ \A i \in 1 .. n + 1 : g[i] = g[i - 1] + u[i].tokens
  BY <1>2, <1>3 DEF Sums
<1>5. ASSUME NEW d \in 0 .. n, NEW e \in 0 .. n, d <= e
      PROVE  Slice(s, d, e) = Slice(u, d, e) /\ Tokens(Slice(s, d, e)) = g[e] - g[d]
  <2>1. \A k \in 1 .. e - d : d + k \in 1 .. n
    BY <1>1
  <2>2. \A k \in 1 .. e - d : s[d + k] = u[d + k]
    BY <1>2, <2>1
  <2>3. Slice(s, d, e) = Slice(u, d, e)
    BY <2>2 DEF Slice
  <2>4. d \in 0 .. Len(u) /\ e \in 0 .. Len(u)
    BY <1>1, <1>2
  <2> QED
    BY <1>2, <1>3, <1>5, <2>3, <2>4, TokensOfSlice
<1>6. ASSUME NEW d \in 0 .. n + 1, NEW e \in 0 .. n + 1, d < e,
             u[e].timestamp <= u[d + 1].timestamp + Window
      PROVE  /\ lim.rpm > 0 => e - d <= lim.rpm
             /\ lim.tpm > 0 /\ Plausible(u, lim) => Tokens(Slice(u, d, e)) <= lim.tpm
  <2>1. CASE e # n + 1
    <3>0. n \in Nat /\ d < e
      BY <1>1, <1>6
    <3>1. d \in 0 .. n /\ e \in 0 .. n /\ e \in 1 .. n /\ d + 1 \in 1 .. n /\ d <= e
      BY <3>0, <2>1
    <3>2. s[e].timestamp <= s[d + 1].timestamp + Window
      BY <1>2, <1>6, <3>1
    <3>3. /\ lim.rpm > 0 => e - d <= lim.rpm
          /\ lim.tpm > 0 /\ Plausible(s, lim) => Tokens(Slice(s, d, e)) <= lim.tpm
      BY <1>6, <3>1, <3>2 DEF WithinLimits
    <3>4. Plausible(u, lim) => Plausible(s, lim)
      <4>1. DOMAIN s = 1 .. n /\ DOMAIN u = 1 .. n + 1 /\ \A i \in 1 .. n : i \in 1 .. n + 1
        BY <1>1, <1>2
      <4> QED
        BY <1>2, <4>1 DEF Plausible
    <3> QED
      BY <1>5, <3>1, <3>3, <3>4
  <2>2. CASE e = n + 1
    <3>1. d \in 0 .. n
      BY <1>1, <1>6, <2>2
    <3>2. f <= d
      <4> SUFFICES ASSUME d < f PROVE FALSE
        BY <1>1, <3>1
      <4>1. d + 1 \in 1 .. n /\ d + 1 <= f
        BY <1>1, <3>1
      <4>2. Expired(s[d + 1].timestamp, clock)
        BY <1>1, <3>1, <4>1
      <4>3. s[d + 1].timestamp \in Nat
        BY <4>1, RecordParts
      <4>4. clock <= s[d + 1].timestamp + Window
        BY <1>1, <1>2, <1>6, <2>2, <4>1
      <4> QED
        BY <1>1, <4>2, <4>3, <4>4 DEF Expired
    <3>3. n \in 0 .. n /\ f <= n /\ d <= n
      BY <1>1, <3>1
    <3>4. Tokens(Slice(s, f, n)) = g[n] - g[f]
      BY <1>5, <3>3
    <3>5. Plausible(u, lim) => g[f] <= g[d]
      <4> SUFFICES ASSUME Plausible(u, lim) PROVE g[f] <= g[d]
        OBVIOUS
      <4>1. \A i \in 1 .. Len(u) : u[i].tokens >= 0
        BY <1>2 DEF Plausible
      <4>2. f \in 0 .. Len(u) /\ d \in 0 .. Len(u)
        BY <1>1, <1>2, <3>1
      <4> QED
        BY <1>2, <1>3, <3>2, <4>1, <4>2, SumsGrow
    <3>6. Tokens(Slice(u, d, n + 1)) = g[n + 1] - g[d]
      <4>1. d \in 0 .. Len(u) /\ n + 1 \in 0 .. Len(u) /\ d <= n + 1
        BY <1>1, <1>2, <3>1
      <4> QED
        BY <1>2, <1>3, <4>1, TokensOfSlice
    <3>7. g[n + 1] = g[n] + cost
      <4>1. n + 1 \in 1 .. n + 1 /\ (n + 1) - 1 = n
        BY <1>1
      <4> QED
        BY <1>1, <1>2, <1>4, <4>1
    <3>8. g[n] \in Int /\ g[f] \in Int /\ g[d] \in Int
      <4>1. n \in 0 .. n + 1 /\ f \in 0 .. n + 1 /\ d \in 0 .. n + 1
        BY <1>1, <3>1
      <4>2. g \in [0 .. n + 1 -> Int]
        BY <1>4
      <4> QED
        BY <4>1, <4>2, Zenon
    <3>9. Plausible(u, lim) => Tokens(Slice(u, d, e)) <= Tokens(Slice(s, f, n)) + cost
      BY <2>2, <3>4, <3>5, <3>6, <3>7, <3>8, SMTT(30)
    <3>10. Tokens(Slice(u, d, e)) \in Int /\ Tokens(Slice(s, f, n)) \in Int
      BY <2>2, <3>4, <3>6, <3>7, <3>8, SMTT(30)
    <3>11. lim.tpm > 0 /\ Plausible(u, lim) => Tokens(Slice(u, d, e)) <= lim.tpm
      BY <1>1, <3>9, <3>10 DEF u
    <3>12. lim.rpm > 0 => e - d <= lim.rpm
      BY <1>1, <2>2, <3>1, <3>2
    <3> QED
      BY <3>11, <3>12
  <2> QED
    BY <2>1, <2>2
<1> QED
  BY <1>2, <1>6 DEF WithinLimits, u

-----------------------------------------------------------------------------
(***************************************************************************)
(* The steps                                                               *)
(***************************************************************************)
LimiterInv == LimiterTypes /\ CallerView /\ BucketView /\ QuotaView

LEMMA InitialLimiter == LimiterInit => LimiterInv
<1> SUFFICES ASSUME LimiterInit PROVE LimiterInv
  OBVIOUS
<1>1. LimiterTypes
  BY LimiterAssumption DEF LimiterInit, LimiterTypes, Places
<1>2. CallerView
  BY DEF LimiterInit, CallerView, CallerPart
<1>3. ASSUME NEW t \in Tenants
      PROVE  BucketPart(t) /\ WithinLimits(accepted[t], limit[t])
  <2>1. /\ accepted[t] = << >> /\ requestTimes[t] = << >> /\ tokenRecords[t] = << >>
        /\ now = 0 /\ Len(<< >>) = 0
    BY DEF LimiterInit
  <2>2. Sorted(<< >>)
    BY DEF Sorted
  <2>3. ListsAt(<< >>, << >>, << >>, 0, 0)
    <3>1. TimesAfter(<< >>, 0) = << >> /\ Slice(<< >>, 0, 0) = << >>
      BY DEF TimesAfter, Slice
    <3> QED
      BY <2>1, <3>1 DEF ListsAt
  <2>4. BucketAt(t, now)
    <3>1. 0 \in 0 .. Len(<< >>)
      OBVIOUS
    <3> QED
      BY <2>1, <2>3, <3>1 DEF BucketAt
  <2>5. WithinLimits(<< >>, limit[t])
    BY DEF WithinLimits
  <2> QED
    BY <2>1, <2>2, <2>4, <2>5 DEF BucketPart
<1>4. \A c \in Callers : DecidePart(c)
  BY DEF LimiterInit, DecidePart
<1> QED
  BY <1>1, <1>2, <1>3, <1>4 DEF LimiterInv, BucketView, QuotaView

\* Lists that are right at a time are right at a later one.
LEMMA ListsLater ==
    ASSUME NEW s \in Seq(Records), NEW times, NEW records, NEW d \in 0 .. Len(s),
           NEW x \in Nat, NEW y \in Nat, x <= y, ListsAt(s, times, records, d, x)
    PROVE  ListsAt(s, times, records, d, y)
<1>1. Window \in Nat /\ Len(s) \in Nat
  BY LimiterAssumption
<1>2. \A i \in 1 .. Len(s) : s[i].timestamp \in Nat
  BY RecordParts
<1>3. \A i \in 1 .. d : i \in 1 .. Len(s)
  BY <1>1
<1>4. \A i \in 1 .. d : Expired(s[i].timestamp, y)
  BY <1>1, <1>2, <1>3 DEF ListsAt, Expired
<1>5. \A i \in 1 .. Len(s) : s[i].timestamp <= y
  BY <1>2 DEF ListsAt
<1> QED
  BY <1>4, <1>5 DEF ListsAt

\* A caller that does not move keeps its part, as long as nobody takes its mutex.
LEMMA CallerKept ==
    ASSUME LimiterTypes, NEW q \in Callers, CallerPart(q),
           lpc'[q] = lpc[q], call'[q] = call[q], read'[q] = read[q],
           now' \in Nat, now <= now',
           lpc[q] # "idle" => todo' = {},
           lpc[q] \notin {"idle", "lookup"} => setting' = {},
           \A t \in Tenants : owner[t] = q => owner'[t] = q
    PROVE  CallerPart(q)'
<1>1. read[q] \in Nat /\ now \in Nat /\ \A a \in call[q] : a.tenant \in Tenants
  BY DEF LimiterTypes
<1>2. read'[q] <= now'
  BY <1>1 DEF CallerPart
<1> QED
  BY <1>1, <1>2 DEF CallerPart

LEMMA BucketKept ==
    ASSUME LimiterTypes, NEW t \in Tenants, BucketPart(t),
           accepted'[t] = accepted[t], requestTimes'[t] = requestTimes[t],
           tokenRecords'[t] = tokenRecords[t], now' \in Nat, now <= now',
           accepted[t] # << >> => todo' = {} /\ setting' = {}
    PROVE  BucketPart(t)'
<1>1. PICK d \in 0 .. Len(accepted[t]) :
          ListsAt(accepted[t], requestTimes[t], tokenRecords[t], d, now)
  BY DEF BucketPart, BucketAt
<1>2. accepted[t] \in Seq(Records) /\ now \in Nat
  BY DEF LimiterTypes
<1>3. ListsAt(accepted[t], requestTimes[t], tokenRecords[t], d, now')
  BY <1>1, <1>2, ListsLater
<1>4. BucketAt(t, now)'
  BY <1>1, <1>3 DEF BucketAt
<1> QED
  BY <1>4 DEF BucketPart

\* The caller that decides at time time, in bucket t.
LEMMA BucketAtKept ==
    ASSUME NEW t, NEW time, BucketAt(t, time), accepted'[t] = accepted[t],
           requestTimes'[t] = requestTimes[t], tokenRecords'[t] = tokenRecords[t],
           NEW later, later = time
    PROVE  \E d \in 0 .. Len(accepted'[t]) :
               ListsAt(accepted'[t], requestTimes'[t], tokenRecords'[t], d, later)
  BY DEF BucketAt

LEMMA DecideKept ==
    ASSUME NEW q \in Callers, DecidePart(q),
           lpc'[q] = lpc[q], call'[q] = call[q], read'[q] = read[q],
           \A a \in call[q] : lpc[q] = "decide" =>
               /\ accepted'[a.tenant] = accepted[a.tenant]
               /\ requestTimes'[a.tenant] = requestTimes[a.tenant]
               /\ tokenRecords'[a.tenant] = tokenRecords[a.tenant]
    PROVE  DecidePart(q)'
<1> SUFFICES ASSUME lpc[q] = "decide", NEW a \in call[q]
             PROVE  \E d \in 0 .. Len(accepted'[a.tenant]) :
                        ListsAt(accepted'[a.tenant], requestTimes'[a.tenant],
                                tokenRecords'[a.tenant], d, read'[q])
  BY DEF DecidePart, BucketAt
<1>1. BucketAt(a.tenant, read[q])
  BY DEF DecidePart
<1> QED
  BY <1>1, BucketAtKept

-----------------------------------------------------------------------------
\* SetTenantLimit runs before the first request is accepted.
LEMMA SetKeepsInv ==
    ASSUME LimiterInv, (\E e \in Entries : SetBegin(e)) \/ SetStep
    PROVE  LimiterInv'
<1>1. /\ UNCHANGED <<now, requestTimes, tokenRecords, accepted, owner, lpc, call, read>>
      /\ todo # {} \/ setting # {}
      /\ todo = {} => todo' = {} /\ setting' = {}
      /\ UNCHANGED limit \/ \E e \in setting : limit' = [limit EXCEPT ![e.tenant] = LimitOf(e)]
  BY DEF SetBegin, SetStep, SetNew, SetExisting, bucketVars
<1>2. LimiterTypes
  BY DEF LimiterInv
<1>3. \A c \in Callers : lpc[c] \in {"idle", "lookup"} /\ (lpc[c] # "idle" => todo = {})
  BY <1>1 DEF LimiterInv, CallerView, CallerPart
<1>4. \A t \in Tenants : accepted[t] = << >>
  BY <1>1 DEF LimiterInv, BucketView, BucketPart
<1>5. LimiterTypes'
  <2>1. \A e \in Entries : e.tenant \in Tenants
    BY LimiterAssumption
  <2>2. limit' \in [Tenants -> {DefaultLimit} \cup {LimitOf(e) : e \in Entries}]
    <3>1. setting \subseteq Entries
      BY <1>2 DEF LimiterTypes
    <3> QED
      BY <1>1, <1>2, <3>1, ZenonT(40) DEF LimiterTypes
  <2>3. /\ todo' \subseteq Entries /\ exists' \subseteq Tenants
        /\ setting' = {} \/ \E e \in Entries : setting' = {e}
    <3>1. CASE \E e \in Entries : SetBegin(e)
      BY <1>2, <3>1 DEF LimiterTypes, SetBegin
    <3>2. CASE SetStep
      BY <1>2, <2>1, <3>2 DEF LimiterTypes, SetStep, SetNew, SetExisting
    <3> QED
      BY <3>1, <3>2
  <2> QED
    BY <1>1, <1>2, <2>2, <2>3 DEF LimiterTypes
<1>6. now' \in Nat /\ now <= now'
  BY <1>1, <1>2 DEF LimiterTypes
<1>7. ASSUME NEW c \in Callers PROVE CallerPart(c)' /\ DecidePart(c)'
  <2>1. CallerPart(c) /\ DecidePart(c)
    BY DEF LimiterInv, CallerView, BucketView
  <2>2. CallerPart(c)'
    BY <1>1, <1>2, <1>3, <1>6, <2>1, CallerKept
  <2> QED
    BY <1>1, <2>1, <2>2, DecideKept
<1>8. ASSUME NEW t \in Tenants
      PROVE  BucketPart(t)' /\ WithinLimits(accepted'[t], limit'[t])
  <2>1. BucketPart(t)
    BY DEF LimiterInv, BucketView
  <2>2. BucketPart(t)'
    BY <1>1, <1>2, <1>4, <1>6, <2>1, BucketKept
  <2>3. WithinLimits(<< >>, limit'[t])
    BY DEF WithinLimits
  <2> QED
    BY <1>1, <1>4, <2>2, <2>3
<1> QED
  BY <1>5, <1>7, <1>8 DEF LimiterInv, CallerView, BucketView, QuotaView

LEMMA TimeKeepsInv ==
    ASSUME LimiterInv, TimePasses \/ UNCHANGED limiterVars
    PROVE  LimiterInv'
<1>1. UNCHANGED <<todo, setting, exists, limit, requestTimes, tokenRecords, accepted, owner,
                  lpc, call, read>>
  BY DEF TimePasses, limiterVars, mapVars, bucketVars
<1>2. LimiterTypes
  BY DEF LimiterInv
<1>3. now \in Nat /\ MaxTime \in Nat
  BY <1>2, LimiterAssumption DEF LimiterTypes
<1>4. now' \in Nat /\ now <= now' /\ now' <= MaxTime
  BY <1>2, <1>3 DEF TimePasses, limiterVars, LimiterTypes
<1>5. LimiterTypes'
  BY <1>1, <1>2, <1>4 DEF LimiterTypes
<1>6. ASSUME NEW c \in Callers PROVE CallerPart(c)' /\ DecidePart(c)'
  <2>1. CallerPart(c) /\ DecidePart(c)
    BY DEF LimiterInv, CallerView, BucketView
  <2>2. CallerPart(c)'
    <3>1. (lpc[c] # "idle" => todo' = {}) /\ (lpc[c] \notin {"idle", "lookup"} => setting' = {})
      BY <1>1, <2>1 DEF CallerPart
    <3> QED
      BY <1>1, <1>2, <1>4, <2>1, <3>1, CallerKept
  <2> QED
    BY <1>1, <2>1, <2>2, DecideKept
<1>7. ASSUME NEW t \in Tenants
      PROVE  BucketPart(t)' /\ WithinLimits(accepted'[t], limit'[t])
  <2>1. BucketPart(t) /\ WithinLimits(accepted[t], limit[t])
    BY DEF LimiterInv, BucketView, QuotaView
  <2>2. accepted[t] # << >> => todo' = {} /\ setting' = {}
    BY <1>1, <2>1 DEF BucketPart
  <2>3. BucketPart(t)'
    BY <1>1, <1>2, <1>4, <2>1, <2>2, BucketKept
  <2> QED
    BY <1>1, <2>1, <2>3
<1> QED
  BY <1>5, <1>6, <1>7 DEF LimiterInv, CallerView, BucketView, QuotaView

\* A step of Execute that leaves the buckets' lists alone.
LEMMA MoveKeepsInv ==
    ASSUME LimiterInv, NEW c \in Callers,
           UNCHANGED <<now, todo, setting, limit, requestTimes, tokenRecords, accepted>>,
           LimiterTypes', CallerPart(c)',
           \A q \in Callers \ {c} : lpc'[q] = lpc[q] /\ call'[q] = call[q] /\ read'[q] = read[q],
           \A q \in Callers \ {c} : \A t \in Tenants : owner[t] = q => owner'[t] = q,
           lpc'[c] = "decide" => read'[c] = now
    PROVE  LimiterInv'
<1>1. LimiterTypes
  BY DEF LimiterInv
<1>2. now' \in Nat /\ now <= now'
  BY <1>1 DEF LimiterTypes
<1>3. ASSUME NEW q \in Callers, q # c PROVE CallerPart(q)' /\ DecidePart(q)'
  <2>1. CallerPart(q) /\ DecidePart(q)
    BY DEF LimiterInv, CallerView, BucketView
  <2>2. CallerPart(q)'
    <3>1. (lpc[q] # "idle" => todo' = {}) /\ (lpc[q] \notin {"idle", "lookup"} => setting' = {})
      BY <2>1 DEF CallerPart
    <3> QED
      BY <1>1, <1>2, <1>3, <2>1, <3>1, CallerKept
  <2> QED
    BY <1>3, <2>1, <2>2, DecideKept
<1>4. ASSUME NEW t \in Tenants
      PROVE  BucketPart(t)' /\ WithinLimits(accepted'[t], limit'[t])
  <2>1. BucketPart(t) /\ WithinLimits(accepted[t], limit[t])
    BY DEF LimiterInv, BucketView, QuotaView
  <2>2. accepted[t] # << >> => todo' = {} /\ setting' = {}
    BY <2>1 DEF BucketPart
  <2>3. BucketPart(t)'
    BY <1>1, <1>2, <2>1, <2>2, BucketKept
  <2> QED
    BY <2>1, <2>3
<1>5. DecidePart(c)'
  <2> SUFFICES ASSUME lpc'[c] = "decide", NEW a \in call'[c]
               PROVE  \E d \in 0 .. Len(accepted'[a.tenant]) :
                          ListsAt(accepted'[a.tenant], requestTimes'[a.tenant],
                                  tokenRecords'[a.tenant], d, read'[c])
    BY DEF DecidePart, BucketAt
  <2>1. a.tenant \in Tenants
    BY DEF LimiterTypes
  <2>2. BucketAt(a.tenant, now) /\ read'[c] = now
    BY <2>1 DEF LimiterInv, BucketView, BucketPart
  <2> QED
    BY <2>2, BucketAtKept
<1> QED
  BY <1>3, <1>4, <1>5 DEF LimiterInv, CallerView, BucketView, QuotaView

LEMMA WaitKeepsInv ==
    ASSUME LimiterInv, NEW c \in Callers,
           \/ \E t \in Tenants, p \in Payloads : Call(c, t, p)
           \/ Lookup(c) \/ PassUnlimited(c) \/ LockBucket(c) \/ ReadClock(c)
    PROVE  LimiterInv'
<1>1. LimiterTypes /\ CallerPart(c)
  BY DEF LimiterInv, CallerView
<1>2. UNCHANGED <<now, todo, setting, limit, requestTimes, tokenRecords, accepted>>
  BY DEF Call, Lookup, PassUnlimited, LockBucket, ReadClock, mapVars, bucketVars
<1>3. \A a \in call[c] : a.tenant \in Tenants
  BY <1>1 DEF LimiterTypes
<1>4. 0 \in Nat /\ now \in Nat
  BY <1>1 DEF LimiterTypes
<1>5. CASE \E t \in Tenants, p \in Payloads : Call(c, t, p)
  <2>1. PICK t \in Tenants, p \in Payloads : Call(c, t, p)
    BY <1>5
  <2>2. /\ lpc[c] = "idle" /\ todo = {} /\ lpc' = [lpc EXCEPT ![c] = "lookup"]
        /\ call' = [call EXCEPT ![c] = {[tenant |-> t, payload |-> p]}]
        /\ UNCHANGED <<exists, owner, read>>
    BY <2>1 DEF Call, mapVars
  <2>3. LimiterTypes'
    BY <1>1, <1>2, <2>2 DEF LimiterTypes, Places
  <2>4. call'[c] = {[tenant |-> t, payload |-> p]} /\ lpc'[c] = "lookup"
    BY <1>1, <2>2 DEF LimiterTypes
  <2>5. CallerPart(c)'
    BY <1>1, <1>2, <2>2, <2>4 DEF CallerPart
  <2>6. \A q \in Callers \ {c} : lpc'[q] = lpc[q] /\ call'[q] = call[q] /\ read'[q] = read[q]
    BY <1>1, <2>2 DEF LimiterTypes
  <2> QED
    BY <1>2, <2>2, <2>3, <2>4, <2>5, <2>6, MoveKeepsInv
<1>6. CASE Lookup(c)
  <2>1. PICK a \in call[c] :
            /\ lpc[c] = "lookup" /\ setting = {} /\ exists' = exists \cup {a.tenant}
            /\ lpc' = [lpc EXCEPT ![c] = "lock"] /\ UNCHANGED <<owner, call, read>>
    BY <1>6 DEF Lookup, MapFree
  <2>2. LimiterTypes'
    BY <1>1, <1>2, <1>3, <2>1 DEF LimiterTypes, Places
  <2>3. lpc'[c] = "lock"
    BY <1>1, <2>1 DEF LimiterTypes
  <2>4. CallerPart(c)'
    BY <1>1, <1>2, <2>1, <2>3 DEF CallerPart
  <2>5. \A q \in Callers \ {c} : lpc'[q] = lpc[q] /\ call'[q] = call[q] /\ read'[q] = read[q]
    BY <1>1, <2>1 DEF LimiterTypes
  <2> QED
    BY <1>2, <2>1, <2>2, <2>3, <2>4, <2>5, MoveKeepsInv
<1>7. CASE PassUnlimited(c)
  <2>1. /\ lpc[c] = "lock" /\ lpc' = [lpc EXCEPT ![c] = "idle"]
        /\ call' = [call EXCEPT ![c] = {}] /\ read' = [read EXCEPT ![c] = 0]
        /\ UNCHANGED <<exists, owner>>
    BY <1>7 DEF PassUnlimited, Return, mapVars
  <2>2. LimiterTypes'
    BY <1>1, <1>2, <1>4, <2>1 DEF LimiterTypes, Places
  <2>3. lpc'[c] = "idle" /\ call'[c] = {} /\ read'[c] = 0
    BY <1>1, <2>1 DEF LimiterTypes
  <2>4. CallerPart(c)'
    BY <1>2, <1>4, <2>3 DEF CallerPart
  <2>5. \A q \in Callers \ {c} : lpc'[q] = lpc[q] /\ call'[q] = call[q] /\ read'[q] = read[q]
    BY <1>1, <2>1 DEF LimiterTypes
  <2> QED
    BY <1>2, <2>1, <2>2, <2>3, <2>4, <2>5, MoveKeepsInv
<1>8. CASE LockBucket(c)
  <2>1. PICK a \in call[c] :
            /\ lpc[c] = "lock" /\ owner[a.tenant] = NoCaller
            /\ owner' = [owner EXCEPT ![a.tenant] = c]
            /\ lpc' = [lpc EXCEPT ![c] = "clock"] /\ UNCHANGED <<exists, call, read>>
    BY <1>8 DEF LockBucket, mapVars
  <2>2. LimiterTypes'
    BY <1>1, <1>2, <1>3, <2>1 DEF LimiterTypes, Places
  <2>3. lpc'[c] = "clock" /\ owner'[a.tenant] = c
    BY <1>1, <1>3, <2>1 DEF LimiterTypes
  <2>4. CallerPart(c)'
    BY <1>1, <1>2, <2>1, <2>3 DEF CallerPart
  <2>5. \A q \in Callers \ {c} : lpc'[q] = lpc[q] /\ call'[q] = call[q] /\ read'[q] = read[q]
    BY <1>1, <2>1 DEF LimiterTypes
  <2>6. \A q \in Callers \ {c} : \A t \in Tenants : owner[t] = q => owner'[t] = q
    BY <1>1, <2>1, LimiterAssumption DEF LimiterTypes
  <2> QED
    BY <1>2, <2>2, <2>3, <2>4, <2>5, <2>6, MoveKeepsInv
<1>9. CASE ReadClock(c)
  <2>1. /\ lpc[c] = "clock" /\ read' = [read EXCEPT ![c] = now]
        /\ lpc' = [lpc EXCEPT ![c] = "decide"] /\ UNCHANGED <<exists, owner, call>>
    BY <1>9 DEF ReadClock, mapVars
  <2>2. LimiterTypes'
    BY <1>1, <1>2, <1>4, <2>1 DEF LimiterTypes, Places
  <2>3. lpc'[c] = "decide" /\ read'[c] = now
    BY <1>1, <2>1 DEF LimiterTypes
  <2>4. CallerPart(c)'
    BY <1>1, <1>2, <1>4, <2>1, <2>3 DEF CallerPart
  <2>5. \A q \in Callers \ {c} : lpc'[q] = lpc[q] /\ call'[q] = call[q] /\ read'[q] = read[q]
    BY <1>1, <2>1 DEF LimiterTypes
  <2> QED
    BY <1>2, <2>1, <2>2, <2>3, <2>4, <2>5, MoveKeepsInv
<1> QED
  BY <1>5, <1>6, <1>7, <1>8, <1>9

\* Pruned at the given time, the two lists of a bucket are what it accepted after the
\* f-th entry, which is also all that it accepted in the minute before.
PrunedAt(t, s, f, clock) ==
    /\ \A i \in 1 .. Len(s) : f < i <=> ~ Expired(s[i].timestamp, clock)
    /\ \A i \in 1 .. Len(s) : s[i].timestamp <= clock
    /\ LiveTimes(t, clock) = TimesAfter(s, f)
    /\ LiveRecords(t, clock) = Slice(s, f, Len(s))
    /\ InWindow(t, clock) = Slice(s, f, Len(s))

\* What the caller that holds the bucket finds when it prunes the lists.
LEMMA DecisionFacts ==
    ASSUME LimiterInv, NEW c \in Callers, lpc[c] = "decide", NEW a \in call[c],
           NEW t, t = a.tenant, NEW s, s = accepted[t]
    PROVE  /\ t \in Tenants /\ s \in Seq(Records) /\ Sorted(s) /\ read[c] \in Nat
           /\ owner[t] = c /\ todo = {} /\ setting = {}
           /\ \E f \in 0 .. Len(s) : PrunedAt(t, s, f, read[c])
<1>1. t \in Tenants /\ s \in Seq(Records) /\ read[c] \in Nat
  BY DEF LimiterInv, LimiterTypes
<1>2. Sorted(s)
  BY <1>1 DEF LimiterInv, BucketView, BucketPart
<1>3. owner[t] = c /\ todo = {} /\ setting = {}
  BY DEF LimiterInv, CallerView, CallerPart
<1>4. PICK d \in 0 .. Len(s) : ListsAt(s, requestTimes[t], tokenRecords[t], d, read[c])
  BY DEF LimiterInv, BucketView, DecidePart, BucketAt
<1>5. PICK f \in d .. Len(s) :
          /\ \A i \in 1 .. Len(s) : f < i <=> ~ Expired(s[i].timestamp, read[c])
          /\ LiveTimes(t, read[c]) = TimesAfter(s, f)
          /\ LiveRecords(t, read[c]) = Slice(s, f, Len(s))
          /\ InWindow(t, read[c]) = Slice(s, f, Len(s))
  <2>1. PICK times, records : times = requestTimes[t] /\ records = tokenRecords[t]
    OBVIOUS
  <2>0. {i \in DOMAIN s : read[c] - s[i].timestamp \in 0 .. Window}
          = {i \in DOMAIN s : s[i].timestamp <= read[c] /\ ~ Expired(s[i].timestamp, read[c])}
    BY <1>1, MinuteIsLive
  <2>2. /\ LiveTimes(t, read[c])
             = Compacted(times, {i \in DOMAIN times : ~ Expired(times[i], read[c])})
        /\ LiveRecords(t, read[c])
             = Compacted(records,
                         {i \in DOMAIN records : ~ Expired(records[i].timestamp, read[c])})
        /\ InWindow(t, read[c])
             = Compacted(s, {i \in DOMAIN s : /\ s[i].timestamp <= read[c]
                                              /\ ~ Expired(s[i].timestamp, read[c])})
    BY <2>0, <2>1 DEF LiveTimes, LiveRecords, InWindow
  <2>3. ListsAt(s, times, records, d, read[c])
    BY <1>4, <2>1
  <2>4. PICK f \in d .. Len(s) : LiveFrom(s, times, records, f, read[c])
    BY <1>1, <1>2, <2>3, LiveEntries
  <2> QED
    BY <2>2, <2>4, Zenon DEF LiveFrom
<1>6. f \in 0 .. Len(s) /\ \A i \in 1 .. Len(s) : s[i].timestamp <= read[c]
  BY <1>1, <1>4 DEF ListsAt
<1>7. PrunedAt(t, s, f, read[c])
  BY <1>5, <1>6 DEF PrunedAt
<1> QED
  BY <1>1, <1>2, <1>3, <1>6, <1>7

\* A bucket gets new lists, and its mutex is released.
LEMMA DecisionKeepsInv ==
    ASSUME LimiterInv, NEW c \in Callers, lpc[c] = "decide", NEW a \in call[c],
           NEW t \in Tenants, t = a.tenant,
           NEW u \in Seq(Records), NEW times \in Seq(Nat), NEW records \in Seq(Records),
           NEW f \in 0 .. Len(u),
           Sorted(u), ListsAt(u, times, records, f, now), WithinLimits(u, limit[t]),
           requestTimes' = [requestTimes EXCEPT ![t] = times],
           tokenRecords' = [tokenRecords EXCEPT ![t] = records],
           accepted' = [accepted EXCEPT ![t] = u],
           owner' = [owner EXCEPT ![t] = NoCaller], Return(c),
           UNCHANGED <<now, todo, setting, exists, limit>>
    PROVE  LimiterInv'
<1>1. LimiterTypes /\ CallerView /\ CallerPart(c)
  BY DEF LimiterInv, CallerView
<1>2. owner[t] = c /\ todo = {} /\ setting = {} /\ now \in Nat
  BY <1>1 DEF CallerPart, LimiterTypes
<1>3. /\ lpc' = [lpc EXCEPT ![c] = "idle"] /\ call' = [call EXCEPT ![c] = {}]
      /\ read' = [read EXCEPT ![c] = 0]
  BY DEF Return
<1>4. /\ requestTimes' \in [Tenants -> Seq(Nat)] /\ tokenRecords' \in [Tenants -> Seq(Records)]
      /\ accepted' \in [Tenants -> Seq(Records)]
      /\ owner' \in [Tenants -> Callers \cup {NoCaller}]
  BY <1>1 DEF LimiterTypes
<1>5. /\ lpc' \in [Callers -> Places] /\ read' \in [Callers -> Nat]
      /\ call' \in [Callers -> SUBSET [tenant : Tenants, payload : Payloads]]
  BY <1>1, <1>3 DEF LimiterTypes, Places
<1>6. LimiterTypes'
  BY <1>1, <1>4, <1>5 DEF LimiterTypes
<1>7. lpc'[c] = "idle" /\ call'[c] = {} /\ read'[c] = 0
  BY <1>1, <1>3 DEF LimiterTypes
<1>8. CallerPart(c)' /\ DecidePart(c)'
  BY <1>2, <1>7 DEF CallerPart, DecidePart
<1>9. ASSUME NEW q \in Callers, q # c PROVE CallerPart(q)' /\ DecidePart(q)'
  <2>1. lpc'[q] = lpc[q] /\ call'[q] = call[q] /\ read'[q] = read[q]
    BY <1>1, <1>3, <1>9 DEF LimiterTypes
  <2>2. CallerPart(q) /\ DecidePart(q)
    BY DEF LimiterInv, CallerView, BucketView
  <2>3. \A x \in Tenants : owner[x] = q => owner'[x] = q
    BY <1>1, <1>2, <1>9 DEF LimiterTypes
  <2>4. CallerPart(q)'
    BY <1>1, <1>2, <2>1, <2>2, <2>3, CallerKept
  <2>5. ASSUME NEW b \in call[q], lpc[q] = "decide"
        PROVE  /\ accepted'[b.tenant] = accepted[b.tenant]
               /\ requestTimes'[b.tenant] = requestTimes[b.tenant]
               /\ tokenRecords'[b.tenant] = tokenRecords[b.tenant]
    <3>1. b.tenant # t /\ b.tenant \in Tenants
      BY <1>1, <1>2, <1>9, <2>2, <2>5 DEF CallerPart, LimiterTypes
    <3> QED
      BY <1>1, <3>1 DEF LimiterTypes
  <2>6. DecidePart(q)'
    BY <2>1, <2>2, <2>5, DecideKept
  <2> QED
    BY <2>4, <2>6
<1>10. ASSUME NEW x \in Tenants, x # t
       PROVE  BucketPart(x)' /\ WithinLimits(accepted'[x], limit'[x])
  <2>1. /\ accepted'[x] = accepted[x] /\ requestTimes'[x] = requestTimes[x]
        /\ tokenRecords'[x] = tokenRecords[x]
    BY <1>1, <1>10 DEF LimiterTypes
  <2>2. BucketPart(x) /\ WithinLimits(accepted[x], limit[x])
    BY DEF LimiterInv, BucketView, QuotaView
  <2>3. now' \in Nat /\ now <= now'
    BY <1>2
  <2>4. BucketPart(x)'
    BY <1>1, <1>2, <2>1, <2>2, <2>3, BucketKept
  <2> QED
    BY <2>1, <2>2, <2>4
<1>11. BucketPart(t)' /\ WithinLimits(accepted'[t], limit'[t])
  <2>1. accepted'[t] = u /\ requestTimes'[t] = times /\ tokenRecords'[t] = records
    BY <1>1 DEF LimiterTypes
  <2>2. BucketAt(t, now)'
    BY <2>1 DEF BucketAt
  <2> QED
    BY <1>2, <2>1, <2>2 DEF BucketPart
<1> QED
  BY <1>6, <1>8, <1>9, <1>10, <1>11 DEF LimiterInv, CallerView, BucketView, QuotaView

LEMMA LimitsTyped ==
    ASSUME LimiterTypes, NEW t \in Tenants
    PROVE  limit[t] \in Limits /\ limit[t].rpm \in Int /\ limit[t].tpm \in Int
<1>1. \A e \in Entries : LimitOf(e) \in Limits
  BY LimiterAssumption DEF LimitOf, Limits
<1>2. limit[t] \in Limits
  <2>1. limit[t] = DefaultLimit \/ \E e \in Entries : limit[t] = LimitOf(e)
    BY DEF LimiterTypes
  <2>2. DefaultLimit \in Limits
    BY LimiterAssumption
  <2> QED
    BY <1>1, <2>1, <2>2, Zenon
<1>3. limit[t].rpm \in Ints /\ limit[t].tpm \in Ints
  BY <1>2 DEF Limits
<1> QED
  BY <1>2, <1>3, LimiterAssumption DEF Ints

LEMMA RejectKeepsInv ==
    ASSUME LimiterInv, NEW c \in Callers, Reject(c)
    PROVE  LimiterInv'
<1>1. PICK a, t, s :
          /\ a \in call[c] /\ t = a.tenant /\ s = accepted[t] /\ lpc[c] = "decide"
          /\ requestTimes' = [requestTimes EXCEPT ![t] = LiveTimes(t, read[c])]
          /\ tokenRecords' = [tokenRecords EXCEPT ![t] = LiveRecords(t, read[c])]
          /\ owner' = [owner EXCEPT ![t] = NoCaller]
          /\ Return(c) /\ UNCHANGED <<now, todo, setting, exists, limit, accepted>>
  BY DEF Reject, mapVars
<1>2. t \in Tenants /\ s \in Seq(Records) /\ Sorted(s) /\ read[c] \in Nat
  BY <1>1, DecisionFacts
<1> PICK f \in 0 .. Len(s) : PrunedAt(t, s, f, read[c])
  BY <1>1, DecisionFacts
<1>3. /\ \A i \in 1 .. Len(s) : f < i <=> ~ Expired(s[i].timestamp, read[c])
      /\ \A i \in 1 .. Len(s) : s[i].timestamp <= read[c]
      /\ LiveTimes(t, read[c]) = TimesAfter(s, f)
      /\ LiveRecords(t, read[c]) = Slice(s, f, Len(s))
  BY DEF PrunedAt
<1>4. now \in Nat /\ read[c] <= now /\ WithinLimits(s, limit[t])
  BY <1>1, <1>2 DEF LimiterInv, LimiterTypes, CallerView, CallerPart, QuotaView
<1>5. ListsAt(s, TimesAfter(s, f), Slice(s, f, Len(s)), f, now)
  BY <1>2, <1>3, <1>4, ListsPruned
<1>6. TimesAfter(s, f) \in Seq(Nat) /\ Slice(s, f, Len(s)) \in Seq(Records)
  BY <1>2, ListTypes
<1>7. accepted' = [accepted EXCEPT ![t] = s]
  BY <1>1, <1>2 DEF LimiterInv, LimiterTypes
<1> QED
  BY <1>1, <1>2, <1>3, <1>4, <1>5, <1>6, <1>7, DecisionKeepsInv

LEMMA AcceptKeepsInv ==
    ASSUME LimiterInv, NEW c \in Callers, Accept(c)
    PROVE  LimiterInv'
<1>0. PICK a \in call[c] :
          LET t == a.tenant
              cost == EstimateTokens(a.payload)
              new == [timestamp |-> read[c], tokens |-> cost]
              times == LiveTimes(t, read[c])
              records == LiveRecords(t, read[c])
          IN  /\ lpc[c] = "decide"
              /\ ~ OverLimit(t, times, records, cost)
              /\ requestTimes' = [requestTimes EXCEPT ![t] = Append(times, read[c])]
              /\ tokenRecords' = [tokenRecords EXCEPT ![t] = Append(records, new)]
              /\ accepted' = [accepted EXCEPT ![t] = Append(@, new)]
              /\ owner' = [owner EXCEPT ![t] = NoCaller]
              /\ Return(c)
              /\ UNCHANGED <<now, mapVars, limit>>
  BY DEF Accept
<1> PICK t, s, cost, new :
        /\ t = a.tenant /\ s = accepted[t] /\ cost = EstimateTokens(a.payload)
        /\ new = [timestamp |-> read[c], tokens |-> cost]
  OBVIOUS
<1>1. /\ t = a.tenant /\ s = accepted[t] /\ lpc[c] = "decide"
      /\ cost = EstimateTokens(a.payload)
      /\ new = [timestamp |-> read[c], tokens |-> cost]
      /\ ~ OverLimit(t, LiveTimes(t, read[c]), LiveRecords(t, read[c]), cost)
      /\ requestTimes' = [requestTimes EXCEPT ![t] = Append(LiveTimes(t, read[c]), read[c])]
      /\ tokenRecords' = [tokenRecords EXCEPT ![t] = Append(LiveRecords(t, read[c]), new)]
      /\ accepted' = [accepted EXCEPT ![t] = Append(accepted[t], new)]
      /\ owner' = [owner EXCEPT ![t] = NoCaller]
      /\ Return(c) /\ UNCHANGED <<now, todo, setting, exists, limit>>
  BY <1>0 DEF mapVars
<1>2. t \in Tenants /\ s \in Seq(Records) /\ Sorted(s) /\ read[c] \in Nat
  BY <1>1, DecisionFacts
<1> PICK f \in 0 .. Len(s) : PrunedAt(t, s, f, read[c])
  BY <1>1, DecisionFacts
<1>3. /\ \A i \in 1 .. Len(s) : f < i <=> ~ Expired(s[i].timestamp, read[c])
      /\ \A i \in 1 .. Len(s) : s[i].timestamp <= read[c]
      /\ LiveTimes(t, read[c]) = TimesAfter(s, f)
      /\ LiveRecords(t, read[c]) = Slice(s, f, Len(s))
  BY DEF PrunedAt
<1>4. now \in Nat /\ read[c] <= now /\ WithinLimits(s, limit[t])
  BY <1>1, <1>2 DEF LimiterInv, LimiterTypes, CallerView, CallerPart, QuotaView
<1>5. cost \in Ints /\ cost \in Int /\ IntLimit \in Nat
  BY <1>1, CostIsInt, LimiterAssumption DEF LimiterInv, LimiterTypes, Ints
<1>6. /\ Sorted(Append(s, new))
      /\ ListsAt(Append(s, new), Append(TimesAfter(s, f), read[c]),
                 Append(Slice(s, f, Len(s)), new), f, now)
  BY <1>1, <1>2, <1>3, <1>4, <1>5, ListsAppended
<1>7. WithinLimits(Append(s, new), limit[t])
  <2>1. limit[t] \in Limits /\ limit[t].rpm \in Int /\ limit[t].tpm \in Int
    BY <1>2, LimitsTyped DEF LimiterInv
  <2>2. Len(TimesAfter(s, f)) = Len(s) - f /\ Len(s) - f \in Int
    <3>1. s \in Seq(Records) /\ Len(s) \in Nat
      BY <1>2, LenProperties
    <3>2. Len(TimesAfter(s, f)) = Len(s) - f
      BY <3>1, ListTypes, Zenon
    <3> QED
      BY <3>1, <3>2
  <2>3. limit[t].rpm > 0 => Len(s) - f < limit[t].rpm
    BY <1>1, <1>3, <2>1, <2>2 DEF OverLimit
  <2>4. ASSUME limit[t].tpm > 0, Plausible(Append(s, new), limit[t])
        PROVE  Tokens(Slice(s, f, Len(s))) + cost <= limit[t].tpm
    <3>1. new \in Records /\ new.tokens = cost /\ Len(s) \in Nat
      BY <1>1, <1>2, <1>5 DEF Records
    <3>2. /\ DOMAIN Append(s, new) = 1 .. Len(s) + 1 /\ Append(s, new)[Len(s) + 1] = new
          /\ DOMAIN s = 1 .. Len(s) /\ \A i \in 1 .. Len(s) : Append(s, new)[i] = s[i]
      BY <1>2, <3>1
    <3>3. Len(s) + 1 \in 1 .. Len(s) + 1 /\ \A i \in 1 .. Len(s) : i \in 1 .. Len(s) + 1
      BY <3>1
    <3>4. Plausible(s, limit[t]) /\ cost >= 0 /\ cost + limit[t].tpm < IntLimit
      BY <2>4, <3>1, <3>2, <3>3 DEF Plausible
    <3>5. /\ CurrentTokens(Slice(s, f, Len(s))) = Tokens(Slice(s, f, Len(s)))
          /\ Tokens(Slice(s, f, Len(s))) \in 0 .. limit[t].tpm
      BY <1>2, <1>3, <1>4, <2>1, <2>4, <3>4, LiveSum
    <3>6. Plus(CurrentTokens(Slice(s, f, Len(s))), cost) <= limit[t].tpm
      <4>1. ~ (Plus(CurrentTokens(Slice(s, f, Len(s))), cost) > limit[t].tpm)
        BY <1>1, <1>3, <2>4 DEF OverLimit
      <4>2. Plus(Tokens(Slice(s, f, Len(s))), cost) \in Int
        BY <1>5, <2>1, <3>5 DEF Plus
      <4> QED
        BY <2>1, <3>5, <4>1, <4>2
    <3> QED
      BY <1>5, <2>1, <3>4, <3>5, <3>6 DEF Plus
  <2> QED
    BY <1>1, <1>2, <1>3, <1>4, <1>5, <2>1, <2>3, <2>4, AcceptedFits
<1>8. TimesAfter(s, f) \in Seq(Nat) /\ Slice(s, f, Len(s)) \in Seq(Records)
  BY <1>2, ListTypes
<1>9. new \in Records
  BY <1>1, <1>2, <1>5 DEF Records
<1>10. /\ Append(s, new) \in Seq(Records) /\ Append(TimesAfter(s, f), read[c]) \in Seq(Nat)
       /\ Append(Slice(s, f, Len(s)), new) \in Seq(Records)
       /\ f \in 0 .. Len(Append(s, new))
  BY <1>2, <1>8, <1>9
<1> QED
  BY <1>1, <1>2, <1>3, <1>6, <1>7, <1>10, DecisionKeepsInv

LEMMA LimiterStep ==
    ASSUME LimiterInv, [LimiterNext]_limiterVars
    PROVE  LimiterInv'
<1>1. CASE UNCHANGED limiterVars \/ TimePasses
  BY <1>1, TimeKeepsInv
<1>2. CASE (\E e \in Entries : SetBegin(e)) \/ SetStep
  BY <1>2, SetKeepsInv
<1>3. ASSUME NEW c \in Callers, CallerStep(c) PROVE LimiterInv'
  BY <1>3, WaitKeepsInv, RejectKeepsInv, AcceptKeepsInv DEF CallerStep
<1>4. ASSUME NEW c \in Callers, NEW t \in Tenants, NEW p \in Payloads, Call(c, t, p)
      PROVE  LimiterInv'
  BY <1>4, WaitKeepsInv
<1> QED
  BY <1>1, <1>2, <1>3, <1>4 DEF LimiterNext

LEMMA LimiterInvariance == LimiterSpec => []LimiterInv
<1>1. LimiterInit => LimiterInv
  BY InitialLimiter
<1>2. LimiterInv /\ [LimiterNext]_limiterVars => LimiterInv'
  BY LimiterStep
<1> QED
  BY <1>1, <1>2, PTL DEF LimiterSpec

-----------------------------------------------------------------------------
(***************************************************************************)
(* The theorems                                                            *)
(***************************************************************************)
\* Types, and the mutex of a bucket is held by one caller from the lock to the decision.
THEOREM LimiterTypeCorrect == LimiterSpec => []LimiterTypeOK
<1>1. LimiterInv => LimiterTypeOK
  <2> SUFFICES ASSUME LimiterInv PROVE LimiterTypeOK
    OBVIOUS
  <2>1. LimiterTypes /\ now \in Nat /\ MaxTime \in Nat
    BY LimiterAssumption DEF LimiterInv, LimiterTypes
  <2>2. now \in 0 .. MaxTime
    BY <2>1 DEF LimiterTypes
  <2>3. setting \subseteq Entries /\ Cardinality(setting) <= 1
    <3>1. CASE setting = {}
      BY <3>1, FS_EmptySet
    <3>2. CASE setting # {}
      <4>1. PICK e \in Entries : setting = {e}
        BY <2>1, <3>2 DEF LimiterTypes
      <4> QED
        BY <4>1, FS_Singleton
    <3> QED
      BY <3>1, <3>2
  <2>4. ASSUME NEW t \in Tenants
        PROVE  /\ \A i \in DOMAIN requestTimes[t] : requestTimes[t][i] \in 0 .. now
               /\ \A i \in DOMAIN tokenRecords[t] : tokenRecords[t][i] \in Records
    <3>1. PICK d \in 0 .. Len(accepted[t]) :
              ListsAt(accepted[t], requestTimes[t], tokenRecords[t], d, now)
      BY DEF LimiterInv, BucketView, BucketPart, BucketAt
    <3>2. accepted[t] \in Seq(Records) /\ tokenRecords[t] \in Seq(Records)
      BY <2>1 DEF LimiterTypes
    <3>3. ASSUME NEW i \in DOMAIN requestTimes[t] PROVE requestTimes[t][i] \in 0 .. now
      <4>1. Len(accepted[t]) \in Nat
        BY <3>2
      <4>2. /\ i \in 1 .. Len(accepted[t]) - d
            /\ requestTimes[t][i] = accepted[t][d + i].timestamp
        BY <3>1 DEF ListsAt, TimesAfter
      <4>3. d + i \in 1 .. Len(accepted[t])
        BY <4>1, <4>2
      <4>4. accepted[t][d + i].timestamp \in Nat
        BY <3>2, <4>3, RecordParts
      <4>5. accepted[t][d + i].timestamp <= now
        BY <3>1, <4>3 DEF ListsAt
      <4> QED
        BY <2>1, <4>2, <4>4, <4>5
    <3>4. \A i \in DOMAIN tokenRecords[t] : tokenRecords[t][i] \in Records
      BY <3>2
    <3> QED
      BY <3>3, <3>4
  <2>5. ASSUME NEW c \in Callers
        PROVE  /\ lpc[c] \in {"idle", "lookup", "lock", "clock", "decide"}
               /\ call[c] \subseteq [tenant : Tenants, payload : Payloads]
               /\ call[c] = {} <=> lpc[c] = "idle"
               /\ read[c] \in 0 .. now
               /\ lpc[c] \in {"clock", "decide"} => \A a \in call[c] : owner[a.tenant] = c
    <3>1. CallerPart(c)
      BY DEF LimiterInv, CallerView
    <3>2. read[c] \in 0 .. now
      BY <2>1, <3>1 DEF CallerPart, LimiterTypes
    <3> QED
      BY <2>1, <3>1, <3>2 DEF CallerPart, LimiterTypes, Places
  <2> QED
    BY <2>1, <2>2, <2>3, <2>4, <2>5 DEF LimiterTypes, LimiterTypeOK
<1> QED
  BY <1>1, LimiterInvariance, PTL

\* Execute keeps every tenant within its rpm, in every window of a minute, however the
\* calls interleave and whatever ints the clients send as max_tokens; and within its tpm,
\* if no estimate of what was accepted is negative or large enough to wrap around.
THEOREM QuotaHolds == LimiterSpec => []QuotaNeverExceeded
<1>1. LimiterInv => QuotaNeverExceeded
  <2> SUFFICES ASSUME LimiterInv, NEW t \in Tenants, NEW end \in 0 .. now
               PROVE  /\ limit[t].rpm > 0 => Len(InWindow(t, end)) <= limit[t].rpm
                      /\ limit[t].tpm > 0 /\ Plausible(accepted[t], limit[t]) =>
                             Tokens(InWindow(t, end)) <= limit[t].tpm
    BY DEF QuotaNeverExceeded
  <2> PICK s : s = accepted[t]
    OBVIOUS
  <2>1. /\ s \in Seq(Records) /\ Sorted(s) /\ WithinLimits(s, limit[t])
        /\ end \in Nat /\ Len(s) \in Nat /\ Window \in Nat
    BY LimiterAssumption DEF LimiterInv, LimiterTypes, BucketView, BucketPart, QuotaView
  <2>2. limit[t].rpm \in Int /\ limit[t].tpm \in Int
    BY LimitsTyped DEF LimiterInv
  <2>3. PICK f \in 0 .. Len(s) :
            \A i \in 1 .. Len(s) : f < i <=> ~ Expired(s[i].timestamp, end)
    BY <2>1, ExpiredFirst
  <2>4. PICK e \in f .. Len(s) :
            /\ InWindow(t, end) = Slice(s, f, e)
            /\ \A i \in 1 .. Len(s) : i <= e <=> s[i].timestamp <= end
    <3>0. {i \in DOMAIN s : end - s[i].timestamp \in 0 .. Window}
            = {i \in DOMAIN s : s[i].timestamp <= end /\ ~ Expired(s[i].timestamp, end)}
      BY <2>1, MinuteIsLive
    <3>1. InWindow(t, end)
            = Compacted(s, {i \in DOMAIN s : /\ s[i].timestamp <= end
                                             /\ ~ Expired(s[i].timestamp, end)})
      BY <3>0, Zenon DEF InWindow
    <3>2. \E e \in f .. Len(s) :
              /\ Compacted(s, {i \in DOMAIN s : /\ s[i].timestamp <= end
                                                /\ ~ Expired(s[i].timestamp, end)})
                   = Slice(s, f, e)
              /\ \A i \in 1 .. Len(s) : i <= e <=> s[i].timestamp <= end
      BY <2>1, <2>3, WindowIsSlice
    <3> QED
      BY <3>1, <3>2, Zenon
  <2>5. f \in 0 .. Len(s) /\ e \in 0 .. Len(s) /\ f <= e
    BY <2>1
  <2>6. Slice(s, f, e) \in Seq(Records) /\ Len(Slice(s, f, e)) = e - f
    BY <2>1, <2>5, SliceFacts
  <2>7. CASE f = e
    <3>1. PICK g : Sums(g, s, Len(s))
      BY <2>1, SumsExist
    <3>2. Tokens(Slice(s, f, e)) = g[e] - g[f] /\ g[e] \in Int
      BY <2>1, <2>5, <3>1, TokensOfSlice DEF Sums
    <3>3. Tokens(Slice(s, f, e)) = 0 /\ Len(Slice(s, f, e)) = 0
      BY <2>5, <2>6, <2>7, <3>2
    <3> QED
      BY <2>2, <2>4, <3>3
  <2>8. CASE f # e
    <3>1. f < e /\ e \in 1 .. Len(s) /\ f + 1 \in 1 .. Len(s)
      BY <2>1, <2>5, <2>8
    <3>2. s[e].timestamp \in Nat /\ s[f + 1].timestamp \in Nat
      BY <2>1, <3>1, RecordParts
    <3>3. s[e].timestamp <= end
      BY <2>4, <2>5, <3>1
    <3>4. ~ Expired(s[f + 1].timestamp, end)
      BY <2>3, <2>5, <3>1
    <3>5. s[e].timestamp <= s[f + 1].timestamp + Window
      BY <2>1, <3>2, <3>3, <3>4, SMTT(30) DEF Expired
    <3>6. /\ limit[t].rpm > 0 => e - f <= limit[t].rpm
          /\ limit[t].tpm > 0 /\ Plausible(s, limit[t]) =>
                 Tokens(Slice(s, f, e)) <= limit[t].tpm
      BY <2>1, <2>5, <3>1, <3>5 DEF WithinLimits
    <3> QED
      BY <2>4, <2>6, <3>6
  <2> QED
    BY <2>7, <2>8
<1> QED
  BY <1>1, LimiterInvariance, PTL

\* Execute refuses a request only if what it accepted in the minute before leaves no
\* room for it: refused requests and pruned entries count for nothing.  Of the tokens
\* this is so if no estimate of what was accepted is negative or may wrap around.
THEOREM RefusalsJustified == LimiterSpec => RefusedOnlyOverQuota
<1> DEFINE Full(c) ==
        lpc[c] = "decide" /\ lpc'[c] = "idle" /\ UNCHANGED accepted =>
            \A a \in call[c] :
                LET t == a.tenant
                    w == InWindow(t, read[c])
                IN  \/ limit[t].rpm > 0 /\ Len(w) >= limit[t].rpm
                    \/ /\ limit[t].tpm > 0
                       /\ Plausible(accepted[t], limit[t]) =>
                              Tokens(w) + EstimateTokens(a.payload) > limit[t].tpm
<1>1. LimiterInv /\ [LimiterNext]_limiterVars => [\A c \in Callers : Full(c)]_limiterVars
  <2> SUFFICES ASSUME LimiterInv, LimiterNext, NEW c \in Callers,
                      lpc[c] = "decide", lpc'[c] = "idle", UNCHANGED accepted,
                      NEW a \in call[c]
               PROVE  LET w == InWindow(a.tenant, read[c]) IN
                      \/ /\ limit[a.tenant].rpm > 0
                         /\ Len(w) >= limit[a.tenant].rpm
                      \/ /\ limit[a.tenant].tpm > 0
                         /\ Plausible(accepted[a.tenant], limit[a.tenant]) =>
                                Tokens(w) + EstimateTokens(a.payload) > limit[a.tenant].tpm
    OBVIOUS
  <2>1. LimiterTypes /\ CallerPart(c)
    BY DEF LimiterInv, CallerView
  <2>2. Reject(c) \/ Accept(c)
    <3>1. lpc' # lpc
      OBVIOUS
    <3>2. PICK q \in Callers : CallerStep(q) \/ \E t \in Tenants, p \in Payloads : Call(q, t, p)
      BY <3>1 DEF LimiterNext, SetBegin, SetStep, SetNew, SetExisting, TimePasses
    <3>3. q = c
      <4>1. \E place : lpc' = [lpc EXCEPT ![q] = place]
        BY <3>2 DEF CallerStep, Call, Lookup, PassUnlimited, LockBucket, ReadClock, Reject,
                    Accept, Return
      <4> QED
        BY <2>1, <4>1 DEF LimiterTypes
    <3> QED
      BY <3>2, <3>3 DEF CallerStep, Call, Lookup, PassUnlimited, LockBucket, ReadClock
  <2> PICK t, s : t = a.tenant /\ s = accepted[t]
    OBVIOUS
  <2> PICK f \in 0 .. Len(s) : PrunedAt(t, s, f, read[c])
    BY DecisionFacts
  <2>3. /\ \A i \in 1 .. Len(s) : f < i <=> ~ Expired(s[i].timestamp, read[c])
        /\ \A i \in 1 .. Len(s) : s[i].timestamp <= read[c]
        /\ LiveTimes(t, read[c]) = TimesAfter(s, f)
        /\ LiveRecords(t, read[c]) = Slice(s, f, Len(s))
        /\ InWindow(t, read[c]) = Slice(s, f, Len(s))
    BY DEF PrunedAt
  <2>4. s \in Seq(Records) /\ t \in Tenants /\ read[c] \in Nat
    BY DecisionFacts
  <2>5. ~ Accept(c)
    <3> SUFFICES ASSUME Accept(c) PROVE FALSE
      OBVIOUS
    <3>1. PICK b, new :
              /\ b \in call[c]
              /\ accepted' = [accepted EXCEPT ![b.tenant] = Append(accepted[b.tenant], new)]
      BY DEF Accept
    <3>2. b = a
      BY <2>1, <3>1 DEF CallerPart
    <3>3. accepted'[t] = Append(s, new)
      BY <2>1, <2>4, <3>1, <3>2 DEF LimiterTypes
    <3>4. Len(Append(s, new)) = Len(s) + 1 /\ Len(s) \in Nat
      BY <2>4
    <3> QED
      BY <3>3, <3>4
  <2>6. OverLimit(t, LiveTimes(t, read[c]), LiveRecords(t, read[c]), EstimateTokens(a.payload))
    <3>1. PICK b \in call[c] :
              OverLimit(b.tenant, LiveTimes(b.tenant, read[c]),
                        LiveRecords(b.tenant, read[c]), EstimateTokens(b.payload))
      BY <2>2, <2>5 DEF Reject
    <3>2. b = a
      BY <2>1 DEF CallerPart
    <3> QED
      BY <3>1, <3>2
  <2>7. Len(TimesAfter(s, f)) = Len(Slice(s, f, Len(s)))
    <3>1. /\ Len(TimesAfter(s, f)) = Len(s) - f
          /\ Len(Slice(s, f, Len(s))) = Len(s) - f
      BY <2>4, ListTypes, Zenon
    <3> QED
      BY <3>1
  <2>8. ASSUME limit[t].tpm > 0, Plausible(s, limit[t]),
               Plus(CurrentTokens(Slice(s, f, Len(s))), EstimateTokens(a.payload))
                 > limit[t].tpm
        PROVE  Tokens(Slice(s, f, Len(s))) + EstimateTokens(a.payload) > limit[t].tpm
    <3>1. /\ limit[t] \in Limits /\ limit[t].tpm \in Int /\ WithinLimits(s, limit[t])
          /\ IntLimit \in Nat
      BY <2>1, <2>4, LimitsTyped, LimiterAssumption DEF LimiterInv, QuotaView
    <3>2. limit[t].tpm < IntLimit
      BY <3>1 DEF Limits, Ints
    <3>3. PICK est \in Ints : est = EstimateTokens(a.payload)
      BY <2>1, CostIsInt DEF LimiterTypes
    <3>4. est \in Int /\ est < IntLimit
      BY <3>1, <3>3 DEF Ints
    <3>5. PICK sum \in 0 .. limit[t].tpm :
              /\ sum = Tokens(Slice(s, f, Len(s)))
              /\ sum = CurrentTokens(Slice(s, f, Len(s)))
      <4>1. /\ CurrentTokens(Slice(s, f, Len(s))) = Tokens(Slice(s, f, Len(s)))
            /\ Tokens(Slice(s, f, Len(s))) \in 0 .. limit[t].tpm
        BY <2>3, <2>4, <2>8, <3>1, LiveSum, ZenonT(40)
      <4> QED
        BY <4>1, Zenon
    <3>6. Plus(sum, est) > limit[t].tpm
      BY <2>8, <3>3, <3>5
    <3>7. sum + est > limit[t].tpm
      BY <3>1, <3>2, <3>3, <3>6, OverIsOver
    <3> QED
      BY <3>3, <3>5, <3>7
  <2> QED
    BY <2>3, <2>6, <2>7, <2>8 DEF OverLimit
<1> QED
  BY <1>1, LimiterInvariance, PTL DEF LimiterSpec, RefusedOnlyOverQuota
==============================================================================
