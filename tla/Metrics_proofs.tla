--------------------------- MODULE Metrics_proofs ----------------------------
(***************************************************************************)
(* Proofs about the metrics, for any number of handlers, calls, labels and *)
(* buckets.                                                                *)
(***************************************************************************)
EXTENDS Metrics, TLAPS, FiniteSetTheorems, SequenceTheorems, WellFoundedInduction

Places == {"idle", "find", "lock", "create", "bucket", "count", "load", "cas"}

Cells == [buckets : [DOMAIN Bounds -> Nat], count : Nat, sum : Nat]

MetricsTypes ==
    /\ series \in [Vecs -> [Labels -> Calls \cup {NoSeries}]]
    /\ cells \in [Calls -> Cells]
    /\ mpc \in [Callers -> Places]
    /\ done \in [Callers -> Nat]
    /\ at \in [Callers -> Calls \cup {NoSeries}]
    /\ bucket \in [Callers -> 1 .. Len(Bounds) + 1]
    /\ old \in [Callers -> Nat]
    /\ report \in [Vecs -> [Labels -> Seq(Nat)]]
    /\ before \in [Callers -> Nat]

\* A caller at work has a call to make, and from its lookup on the series of the
\* call's vector and label.
CallerPart(p) ==
    /\ IF mpc[p] = "idle" THEN done[p] <= Len(Work[p]) ELSE done[p] < Len(Work[p])
    /\ mpc[p] \in {"bucket", "count", "load", "cas"} =>
           at[p] = SeriesOf(p) /\ at[p] \in Calls
    /\ mpc[p] \in {"bucket", "load", "cas"} => Current(p).vec = "histogram"
    /\ mpc[p] # "bucket" => bucket[p] = 1

CallerView == \A p \in Callers : CallerPart(p)

-----------------------------------------------------------------------------
CallsOf(v, l) == {c \in Calls : Work[c[1]][c[2]].vec = v /\ Work[c[1]][c[2]].label = l}

\* A series is registered where its creator's call belongs, so no two are the same,
\* and one that is not registered holds nothing.
SeriesPlaced ==
    \A v \in Vecs, l \in Labels :
        series[v][l] \in Calls => series[v][l] \in CallsOf(v, l)

OthersZero ==
    \A c \in Calls : series[Work[c[1]][c[2]].vec][Work[c[1]][c[2]].label] # c =>
        cells[c] = Zeros

SeriesView == SeriesPlaced /\ OthersZero

\* The calls that have added to the count, and to the i-th bucket.
Counted(c) ==
    \/ c[2] <= done[c[1]]
    \/ c[2] = done[c[1]] + 1 /\ mpc[c[1]] \in {"load", "cas"}

Passed(c, i) ==
    \/ c[2] <= done[c[1]]
    \/ /\ c[2] = done[c[1]] + 1
       /\ \/ mpc[c[1]] \in {"count", "load", "cas"}
          \/ mpc[c[1]] = "bucket" /\ i < bucket[c[1]]

CountedOn(v, l) == {c \in CallsOf(v, l) : Counted(c)}

BucketedOn(l, i) ==
    {c \in CallsOf("histogram", l) : ValueOf(c) <= Bounds[i] /\ Passed(c, i)}

Held(v, l) == IF series[v][l] = NoSeries THEN Zeros ELSE cells[series[v][l]]

\* A series holds exactly what calls have added so far.
CountsPart(v, l) == Held(v, l).count = Cardinality(CountedOn(v, l))

BucketsPart(l) ==
    \A i \in DOMAIN Bounds :
        Held("histogram", l).buckets[i] = Cardinality(BucketedOn(l, i))

Sum(S) == MapThenSumSet(ValueOf, S)

SumPart(l) == Held("histogram", l).sum = Sum(CallsOn("histogram", l, done))

HeldView ==
    /\ \A v \in Vecs, l \in Labels : CountsPart(v, l)
    /\ \A l \in Labels : BucketsPart(l) /\ SumPart(l)

-----------------------------------------------------------------------------
\* A report is of the scrape under way, and +Inf was loaded before _count.
ScrapeView ==
    /\ \A p \in Callers : before[p] <= done[p]
    /\ spc = "idle" => report = Nothing
    /\ \A l \in Labels : Len(report["histogram"][l]) > Len(Bounds) =>
           report["histogram"][l][Len(Bounds) + 1] <= Held("histogram", l).count

MetricsInv ==
    MetricsTypes /\ CallerView /\ SeriesView /\ HeldView /\ ScrapeView /\ ScrapeTruthful

-----------------------------------------------------------------------------
(***************************************************************************)
(* Calls and sums over them                                                *)
(***************************************************************************)
LEMMA Least ==
    ASSUME NEW S \in SUBSET Nat, S # {}
    PROVE  \E x \in S : \A y \in S : x <= y
<1> DEFINE R == OpToRel(<, Nat)
<1>1. IsWellFoundedOn(R, Nat)
  BY NatLessThanWellFounded
<1>2. \A x, y \in Nat : y < x => <<y, x>> \in R
  BY DEF OpToRel
<1> HIDE DEF R
<1>3. PICK x \in S : \A y \in S : ~ (<<y, x>> \in R)
  BY <1>1, WFMin
<1>4. \A y \in S : ~ (y < x)
  BY <1>2, <1>3
<1>5. \A y \in S : x <= y
  BY <1>4
<1> QED
  BY <1>5

LEMMA CallShape ==
    ASSUME NEW c \in Calls
    PROVE  /\ c[1] \in Callers /\ c[2] \in 1 .. Len(Work[c[1]])
           /\ c[2] \in Nat /\ c = <<c[1], c[2]>>
           /\ Work[c[1]][c[2]] \in [vec : Vecs, label : Labels, value : Nat]
           /\ ValueOf(c) \in Nat
<1>1. PICK p \in Callers : c \in {p} \X DOMAIN Work[p]
  BY DEF Calls
<1>2. Work[p] \in Seq([vec : Vecs, label : Labels, value : Nat])
  BY MetricsAssumption
<1>3. DOMAIN Work[p] = 1 .. Len(Work[p]) /\ Len(Work[p]) \in Nat
  BY <1>2, LenProperties
<1>4. c[1] = p /\ c[2] \in 1 .. Len(Work[p]) /\ c = <<c[1], c[2]>>
  BY <1>1, <1>3
<1>5. Work[p][c[2]] \in [vec : Vecs, label : Labels, value : Nat]
  BY <1>2, <1>4, ElementOfSeq
<1> QED
  BY <1>3, <1>4, <1>5 DEF ValueOf

LEMMA CallExists ==
    ASSUME NEW p \in Callers, NEW k \in 1 .. Len(Work[p])
    PROVE  <<p, k>> \in Calls
<1>1. DOMAIN Work[p] = 1 .. Len(Work[p])
  BY MetricsAssumption, LenProperties
<1> QED
  BY <1>1 DEF Calls

LEMMA CallsFinite == IsFiniteSet(Calls)
<1> DEFINE F == {{p} \X DOMAIN Work[p] : p \in Callers}
<1>1. IsFiniteSet(F)
  <2> DEFINE f == [p \in Callers |-> {p} \X DOMAIN Work[p]]
  <2>1. IsFiniteSet(Callers)
    BY MetricsAssumption
  <2>2. f \in Surjection(Callers, F)
    BY DEF Surjection
  <2> QED
    BY <2>1, <2>2, FS_Surjection
<1>2. ASSUME NEW T \in F PROVE IsFiniteSet(T)
  <2>1. PICK p \in Callers : T = {p} \X DOMAIN Work[p]
    OBVIOUS
  <2>2. DOMAIN Work[p] = 1 .. Len(Work[p]) /\ Len(Work[p]) \in Nat
    BY MetricsAssumption, LenProperties
  <2>3. 1 \in Int /\ Len(Work[p]) \in Int
    BY <2>2
  <2>4. IsFiniteSet(1 .. Len(Work[p]))
    BY <2>3, FS_Interval, Zenon
  <2>5. IsFiniteSet({p})
    BY FS_Singleton
  <2> QED
    BY <2>1, <2>2, <2>4, <2>5, FS_Product
<1>3. IsFiniteSet(UNION F)
  BY <1>1, <1>2, FS_UNION
<1> QED
  BY <1>3 DEF Calls

LEMMA CardinalityOfCalls ==
    ASSUME NEW S \in SUBSET Calls
    PROVE  IsFiniteSet(S) /\ Cardinality(S) \in Nat
<1>1. IsFiniteSet(S)
  BY CallsFinite, FS_Subset
<1> QED
  BY <1>1, FS_CardinalityType

LEMMA CardinalityOfParts ==
    ASSUME NEW S \in SUBSET Calls, NEW T \in SUBSET S
    PROVE  Cardinality(T) <= Cardinality(S)
<1>1. IsFiniteSet(S)
  BY CardinalityOfCalls
<1> QED
  BY <1>1, FS_Subset

LEMMA OneMoreCall ==
    ASSUME NEW S \in SUBSET Calls, NEW c \in Calls, c \notin S
    PROVE  Cardinality(S \cup {c}) = Cardinality(S) + 1
BY CardinalityOfCalls, FS_AddElement

LEMMA OneCallLess ==
    ASSUME NEW S \in SUBSET Calls, NEW c \in S
    PROVE  Cardinality(S \ {c}) = Cardinality(S) - 1
BY CardinalityOfCalls, FS_RemoveElement

\* T gives the sum of the values of every part of D.
Sums(T, D) ==
    /\ T \in [SUBSET D -> Nat]
    /\ T[{}] = 0
    /\ \A s \in SUBSET D : \A x \in s : T[s] = T[s \ {x}] + ValueOf(x)

LEMMA SumsOfOneMore ==
    ASSUME NEW D \in SUBSET Calls, NEW y \in D, NEW T, Sums(T, D \ {y})
    PROVE  \E U : Sums(U, D)
<1> DEFINE W(s) == IF y \in s THEN T[s \ {y}] + ValueOf(y) ELSE T[s]
           U == [s \in SUBSET D |-> W(s)]
<1>1. /\ T \in [SUBSET (D \ {y}) -> Nat] /\ T[{}] = 0
      /\ \A s \in SUBSET (D \ {y}) : \A x \in s : T[s] = T[s \ {x}] + ValueOf(x)
  BY DEF Sums
<1>2. \A x \in D : ValueOf(x) \in Nat
  BY CallShape
<1>3. \A s \in SUBSET D : s \ {y} \in SUBSET (D \ {y}) /\ (y \notin s => s \in SUBSET (D \ {y}))
  OBVIOUS
<1>4. \A s \in SUBSET D : W(s) \in Nat
  BY <1>1, <1>2, <1>3
<1>5. U \in [SUBSET D -> Nat]
  BY <1>4
<1>6. U[{}] = 0
  BY <1>1
<1>7. ASSUME NEW s \in SUBSET D, NEW x \in s
      PROVE  U[s] = U[s \ {x}] + ValueOf(x)
  <2>0. U[s] = W(s) /\ U[s \ {x}] = W(s \ {x}) /\ ValueOf(x) \in Nat /\ ValueOf(y) \in Nat
    BY <1>2, <1>7
  <2>1. CASE x = y
    <3>1. y \notin s \ {x} /\ y \in s
      BY <2>1
    <3> QED
      BY <2>0, <2>1, <3>1
  <2>2. CASE x # y /\ y \in s
    <3>1. x \in s \ {y} /\ s \ {y} \in SUBSET (D \ {y}) /\ (s \ {x}) \ {y} \in SUBSET (D \ {y})
      BY <2>2
    <3>2. T[s \ {y}] = T[(s \ {y}) \ {x}] + ValueOf(x)
      BY <1>1, <3>1
    <3>3. (s \ {y}) \ {x} = (s \ {x}) \ {y}
      OBVIOUS
    <3>4. W(s) = T[s \ {y}] + ValueOf(y) /\ W(s \ {x}) = T[(s \ {x}) \ {y}] + ValueOf(y)
      BY <2>2
    <3>5. T[(s \ {x}) \ {y}] \in Nat /\ T[s \ {y}] \in Nat
      BY <1>1, <3>1
    <3>6. T[s \ {y}] = T[(s \ {x}) \ {y}] + ValueOf(x)
      BY <3>2, <3>3, Zenon
    <3> HIDE DEF U, W
    <3>7. PICK a, b \in Nat : a = T[s \ {y}] /\ b = T[(s \ {x}) \ {y}]
      BY <3>5
    <3>8. a + ValueOf(y) = b + ValueOf(y) + ValueOf(x)
      BY <2>0, <3>6, <3>7
    <3> QED
      BY <2>0, <3>4, <3>7, <3>8
  <2>3. CASE y \notin s
    <3>1. s \in SUBSET (D \ {y}) /\ y \notin s \ {x}
      BY <2>3
    <3> QED
      BY <1>1, <2>0, <2>3, <3>1
  <2> QED
    BY <2>1, <2>2, <2>3
<1>8. Sums(U, D)
  BY <1>5, <1>6, <1>7 DEF Sums
<1> QED
  BY <1>8

LEMMA SumsExist ==
    \A D \in SUBSET Calls : \E T : Sums(T, D)
<1> SUFFICES ASSUME NEW D0 \in SUBSET Calls, ~ \E T : Sums(T, D0)
             PROVE  FALSE
  OBVIOUS
<1> DEFINE Without(D) == D \in SUBSET Calls /\ ~ \E T : Sums(T, D)
           S == {n \in Nat : \E D \in SUBSET Calls : Without(D) /\ Cardinality(D) = n}
<1>1. Cardinality(D0) \in S
  BY CardinalityOfCalls
<1>2. PICK n \in S : \A m \in S : n <= m
  BY <1>1, Least
<1>3. PICK D \in SUBSET Calls : Without(D) /\ Cardinality(D) = n
  BY <1>2
<1>4. D # {}
  <2> SUFFICES ASSUME D = {} PROVE FALSE
    OBVIOUS
  <2> DEFINE T == [s \in SUBSET {} |-> 0]
  <2>1. Sums(T, {})
    BY DEF Sums
  <2> QED
    BY <1>3, <2>1
<1>5. PICK y \in D : TRUE
  BY <1>4
<1>6. D \ {y} \in SUBSET Calls /\ Cardinality(D \ {y}) = n - 1 /\ Cardinality(D \ {y}) \in Nat
  BY <1>3, OneCallLess, CardinalityOfCalls
<1>7. PICK m : m = Cardinality(D \ {y})
  OBVIOUS
<1>8. m \notin S
  <2>1. m \in Nat /\ n \in Nat /\ m = n - 1
    BY <1>6, <1>7, <1>2
  <2>2. m \in S => n <= m
    BY <1>2
  <2> HIDE DEF S
  <2> QED
    BY <2>1, <2>2
<1>9. ~ Without(D \ {y})
  BY <1>6, <1>7, <1>8
<1>10. PICK T : Sums(T, D \ {y})
  BY <1>6, <1>9
<1>11. \E U : Sums(U, D)
  BY <1>10, SumsOfOneMore
<1> QED
  BY <1>3, <1>11

LEMMA SumIsSums ==
    ASSUME NEW S \in SUBSET Calls, NEW T, Sums(T, Calls)
    PROVE  Sum(S) = T[S]
<1> DEFINE first(s) == CHOOSE x \in s : TRUE
           Turn(f) == [s \in SUBSET S |->
                          IF s = {} THEN 0 ELSE ValueOf(first(s)) + f[s \ {first(s)}]]
           f0 == CHOOSE f : f = Turn(f)
           g == [s \in SUBSET S |-> T[s]]
<1>1. Sum(S) = f0[S]
  BY DEF Sum, MapThenSumSet, MapThenFoldSet
<1>2. \A s \in SUBSET S : s # {} => first(s) \in s
  OBVIOUS
<1> HIDE DEF first
<1>3. \A x \in S : ValueOf(x) \in Nat
  BY CallShape
<1>4. /\ T[{}] = 0 /\ \A s \in SUBSET S : T[s] \in Nat
      /\ \A s \in SUBSET S : \A x \in s : T[s] = T[s \ {x}] + ValueOf(x)
  BY DEF Sums
<1>5. \A s \in SUBSET S : s # {} =>
          T[s] = ValueOf(first(s)) + T[s \ {first(s)}]
  <2> SUFFICES ASSUME NEW s \in SUBSET S, s # {}
               PROVE  T[s] = ValueOf(first(s)) + T[s \ {first(s)}]
    OBVIOUS
  <2>1. first(s) \in s
    BY <1>2
  <2>2. T[s] = T[s \ {first(s)}] + ValueOf(first(s))
    BY <1>4, <2>1
  <2>3. T[s \ {first(s)}] \in Nat /\ ValueOf(first(s)) \in Nat
    BY <1>3, <1>4, <2>1
  <2> QED
    BY <2>2, <2>3
<1>6. g = Turn(g)
  <2>1. \A s \in SUBSET S : g[s] = IF s = {} THEN 0 ELSE ValueOf(first(s)) + g[s \ {first(s)}]
    BY <1>4, <1>5
  <2> QED
    BY <2>1
<1>7. f0 = Turn(f0)
  <2> HIDE DEF g, Turn
  <2> QED
    BY <1>6
<1> HIDE DEF f0
<1>8. \A s \in SUBSET S :
          f0[s] = IF s = {} THEN 0 ELSE ValueOf(first(s)) + f0[s \ {first(s)}]
  BY <1>7
<1>9. \A s \in SUBSET S : f0[s] = T[s]
  <2> DEFINE B == {n \in Nat : \E s \in SUBSET S : Cardinality(s) = n /\ f0[s] # T[s]}
  <2> SUFFICES ASSUME B # {} PROVE FALSE
    BY CardinalityOfCalls
  <2>1. PICK n \in B : \A m \in B : n <= m
    BY Least
  <2>2. PICK s \in SUBSET S : Cardinality(s) = n /\ f0[s] # T[s]
    BY <2>1
  <2>3. s # {}
    BY <1>4, <1>8, <2>2
  <2>4. first(s) \in s
    BY <1>2, <2>3
  <2>5. PICK r : r = s \ {first(s)}
    OBVIOUS
  <2>6. r \in SUBSET S /\ Cardinality(r) = n - 1 /\ Cardinality(r) \in Nat
    BY <2>2, <2>4, <2>5, OneCallLess, CardinalityOfCalls
  <2>7. Cardinality(r) \notin B
    <3>1. PICK m : m = Cardinality(r)
      OBVIOUS
    <3>2. m \in Nat /\ n \in Nat /\ m = n - 1
      BY <2>1, <2>6, <3>1
    <3>3. m \in B => n <= m
      BY <2>1
    <3> HIDE DEF B
    <3>4. m \notin B
      BY <3>2, <3>3
    <3> QED
      BY <3>1, <3>4
  <2>8. f0[r] = T[r]
    BY <2>6, <2>7
  <2>9. f0[s] = ValueOf(first(s)) + f0[r]
    BY <1>8, <2>3, <2>5
  <2>10. T[s] = ValueOf(first(s)) + T[r]
    BY <1>5, <2>3, <2>5
  <2> QED
    BY <2>2, <2>8, <2>9, <2>10
<1> QED
  BY <1>1, <1>9

LEMMA SumOfNone == Sum({}) = 0
<1>1. PICK T : Sums(T, Calls)
  BY SumsExist
<1>2. Sum({}) = T[{}]
  BY <1>1, SumIsSums
<1> QED
  BY <1>1, <1>2 DEF Sums

LEMMA SumType ==
    ASSUME NEW S \in SUBSET Calls
    PROVE  Sum(S) \in Nat
<1>1. PICK T : Sums(T, Calls)
  BY SumsExist
<1>2. Sum(S) = T[S]
  BY <1>1, SumIsSums
<1> QED
  BY <1>1, <1>2 DEF Sums

LEMMA SumOfOneMore ==
    ASSUME NEW S \in SUBSET Calls, NEW c \in Calls, c \notin S
    PROVE  Sum(S \cup {c}) = Sum(S) + ValueOf(c)
<1>1. PICK T : Sums(T, Calls)
  BY SumsExist
<1>2. PICK U \in SUBSET Calls : U = S \cup {c}
  OBVIOUS
<1>3. Sum(S) = T[S] /\ Sum(U) = T[U]
  BY <1>1, SumIsSums
<1>4. U \ {c} = S /\ c \in U
  BY <1>2
<1>5. T[U] = T[U \ {c}] + ValueOf(c)
  BY <1>1, <1>4 DEF Sums
<1> QED
  BY <1>2, <1>3, <1>4, <1>5

LEMMA SumOfParts ==
    ASSUME NEW S \in SUBSET Calls, NEW R \in SUBSET S
    PROVE  Sum(R) <= Sum(S)
<1>1. PICK T : Sums(T, Calls)
  BY SumsExist
<1>2. /\ \A s \in SUBSET Calls : T[s] \in Nat
      /\ \A s \in SUBSET Calls : \A x \in s : T[s] = T[s \ {x}] + ValueOf(x)
  BY <1>1 DEF Sums
<1> DEFINE B == {n \in Nat : \E s \in SUBSET Calls :
                     Cardinality(s) = n /\ R \subseteq s /\ T[s] < T[R]}
<1>3. B = {}
  <2> SUFFICES ASSUME B # {} PROVE FALSE
    OBVIOUS
  <2>1. PICK n \in B : \A m \in B : n <= m
    BY Least
  <2>2. PICK s \in SUBSET Calls : Cardinality(s) = n /\ R \subseteq s /\ T[s] < T[R]
    BY <2>1
  <2>3. T[R] \in Nat /\ T[s] \in Nat
    BY <1>2
  <2>4. s # R
    BY <2>2, <2>3
  <2>5. PICK x \in s : x \notin R
    BY <2>2, <2>4
  <2>6. PICK r : r = s \ {x}
    OBVIOUS
  <2>7. /\ r \in SUBSET Calls /\ Cardinality(r) = n - 1 /\ Cardinality(r) \in Nat
        /\ R \subseteq r
    BY <2>2, <2>5, <2>6, OneCallLess, CardinalityOfCalls
  <2>8. T[s] = T[r] + ValueOf(x) /\ ValueOf(x) \in Nat /\ T[r] \in Nat
    BY <1>2, <2>5, <2>6, <2>7, CallShape
  <2>9. T[r] < T[R]
    BY <2>2, <2>3, <2>8
  <2>10. PICK m : m = Cardinality(r)
    OBVIOUS
  <2>11. m \in B /\ m = n - 1 /\ m \in Nat
    BY <2>7, <2>9, <2>10
  <2>12. n <= m /\ n \in Nat
    BY <2>1, <2>11
  <2> HIDE DEF B
  <2> QED
    BY <2>11, <2>12
<1>4. ~ (T[S] < T[R])
  BY <1>3, CardinalityOfCalls
<1>5. Sum(S) = T[S] /\ Sum(R) = T[R]
  BY <1>1, SumIsSums
<1>6. T[S] \in Nat /\ T[R] \in Nat
  BY <1>2
<1>7. T[R] <= T[S]
  BY <1>4, <1>6
<1> QED
  BY <1>5, <1>7

-----------------------------------------------------------------------------
(***************************************************************************)
(* What the invariant says of series and reports                           *)
(***************************************************************************)
\* The calls on a series that fall into the i-th bucket.
Within(v, l, n, i) == {c \in CallsOn(v, l, n) : ValueOf(c) <= Bounds[i]}

LEMMA TallyParts ==
    ASSUME NEW v, NEW l, NEW n
    PROVE  /\ CallsOn(v, l, n) \in SUBSET Calls
           /\ Tally(v, l, n).count = Cardinality(CallsOn(v, l, n))
           /\ Tally(v, l, n).sum = Sum(CallsOn(v, l, n))
           /\ \A i \in DOMAIN Bounds :
                  /\ Within(v, l, n, i) \in SUBSET Calls
                  /\ Tally(v, l, n).buckets[i] = Cardinality(Within(v, l, n, i))
           /\ Tally(v, l, n).count \in Nat /\ Tally(v, l, n).sum \in Nat
           /\ \A i \in DOMAIN Bounds : Tally(v, l, n).buckets[i] \in Nat
<1>1. CallsOn(v, l, n) \in SUBSET Calls
  BY DEF CallsOn
<1>2. \A i \in DOMAIN Bounds : Within(v, l, n, i) \in SUBSET Calls
  BY <1>1 DEF Within
<1>3. /\ Tally(v, l, n).count = Cardinality(CallsOn(v, l, n))
      /\ Tally(v, l, n).sum = Sum(CallsOn(v, l, n))
  BY DEF Tally, Sum
<1>4. \A i \in DOMAIN Bounds :
          Tally(v, l, n).buckets[i] = Cardinality(Within(v, l, n, i))
  BY DEF Tally, Within
<1>5. Tally(v, l, n).count \in Nat /\ Tally(v, l, n).sum \in Nat
  BY <1>1, <1>3, CardinalityOfCalls, SumType
<1>6. \A i \in DOMAIN Bounds : Tally(v, l, n).buckets[i] \in Nat
  BY <1>2, <1>4, CardinalityOfCalls
<1> QED
  BY <1>1, <1>2, <1>3, <1>4, <1>5, <1>6

\* More calls, a larger tally.
LEMMA TallyGrows ==
    ASSUME NEW v, NEW l, NEW n \in [Callers -> Nat], NEW m \in [Callers -> Nat],
           \A p \in Callers : n[p] <= m[p]
    PROVE  /\ Tally(v, l, n).count <= Tally(v, l, m).count
           /\ Tally(v, l, n).sum <= Tally(v, l, m).sum
           /\ \A i \in DOMAIN Bounds : Tally(v, l, n).buckets[i] <= Tally(v, l, m).buckets[i]
<1>1. CallsOn(v, l, n) \in SUBSET CallsOn(v, l, m)
  <2> SUFFICES ASSUME NEW c \in CallsOn(v, l, n) PROVE c \in CallsOn(v, l, m)
    OBVIOUS
  <2>1. c \in Calls /\ c[2] <= n[c[1]]
    BY DEF CallsOn
  <2>2. c[1] \in Callers /\ c[2] \in Nat
    BY <2>1, CallShape
  <2>3. c[2] <= m[c[1]]
    BY <2>1, <2>2
  <2> QED
    BY <2>3 DEF CallsOn
<1>2. \A i \in DOMAIN Bounds : Within(v, l, n, i) \in SUBSET Within(v, l, m, i)
  BY <1>1 DEF Within
<1>3. Cardinality(CallsOn(v, l, n)) <= Cardinality(CallsOn(v, l, m))
  BY <1>1, TallyParts, CardinalityOfParts
<1>4. Sum(CallsOn(v, l, n)) <= Sum(CallsOn(v, l, m))
  BY <1>1, TallyParts, SumOfParts
<1>5. \A i \in DOMAIN Bounds :
          Cardinality(Within(v, l, n, i)) <= Cardinality(Within(v, l, m, i))
  BY <1>2, TallyParts, CardinalityOfParts
<1> QED
  BY <1>3, <1>4, <1>5, TallyParts

LEMMA BegunFacts ==
    ASSUME MetricsTypes
    PROVE  Begun \in [Callers -> Nat] /\ \A p \in Callers : done[p] <= Begun[p]
BY DEF MetricsTypes, Begun

LEMMA SetTypes ==
    ASSUME NEW v, NEW l
    PROVE  /\ CountedOn(v, l) \in SUBSET Calls
           /\ \A i : BucketedOn(l, i) \in SUBSET Calls
BY DEF CountedOn, BucketedOn, CallsOf

\* What a series holds lies between the completed calls and those begun.
LEMMA HeldWithin ==
    ASSUME MetricsTypes, HeldView, NEW v \in Vecs, NEW l \in Labels
    PROVE  /\ Tally(v, l, done).count <= Held(v, l).count
           /\ Held(v, l).count <= Tally(v, l, Begun).count
           /\ v = "histogram" =>
                  /\ Tally(v, l, done).sum <= Held(v, l).sum
                  /\ Held(v, l).sum <= Tally(v, l, Begun).sum
                  /\ \A i \in DOMAIN Bounds :
                         /\ Tally(v, l, done).buckets[i] <= Held(v, l).buckets[i]
                         /\ Held(v, l).buckets[i] <= Tally(v, l, Begun).buckets[i]
<1>1. done \in [Callers -> Nat] /\ Begun \in [Callers -> Nat]
  BY BegunFacts DEF MetricsTypes
<1>2. \A p \in Callers : Begun[p] = IF mpc[p] = "idle" THEN done[p] ELSE done[p] + 1
  BY DEF Begun
<1>3. \A c \in Calls : c[1] \in Callers /\ c[2] \in Nat
  BY CallShape
<1>4. \A c \in Calls : /\ c[2] <= done[c[1]] => Counted(c)
                       /\ Counted(c) => c[2] <= Begun[c[1]]
  BY <1>1, <1>2, <1>3 DEF Counted
<1>5. \A c \in Calls, i \in DOMAIN Bounds :
          /\ c[2] <= done[c[1]] => Passed(c, i)
          /\ Passed(c, i) => c[2] <= Begun[c[1]]
  BY <1>1, <1>2, <1>3 DEF Passed
<1>6. /\ CallsOn(v, l, done) \in SUBSET CountedOn(v, l)
      /\ CountedOn(v, l) \in SUBSET CallsOn(v, l, Begun)
  BY <1>4 DEF CallsOn, CountedOn, CallsOf
<1>7. /\ Cardinality(CallsOn(v, l, done)) <= Cardinality(CountedOn(v, l))
      /\ Cardinality(CountedOn(v, l)) <= Cardinality(CallsOn(v, l, Begun))
  BY <1>6, TallyParts, SetTypes, CardinalityOfParts
<1>8. Held(v, l).count = Cardinality(CountedOn(v, l))
  BY DEF HeldView, CountsPart
<1>9. ASSUME v = "histogram", NEW i \in DOMAIN Bounds
      PROVE  /\ Tally(v, l, done).buckets[i] <= Held(v, l).buckets[i]
             /\ Held(v, l).buckets[i] <= Tally(v, l, Begun).buckets[i]
  <2>1. /\ Within(v, l, done, i) \in SUBSET BucketedOn(l, i)
        /\ BucketedOn(l, i) \in SUBSET Within(v, l, Begun, i)
    BY <1>5, <1>9 DEF Within, CallsOn, BucketedOn, CallsOf
  <2>2. /\ Cardinality(Within(v, l, done, i)) <= Cardinality(BucketedOn(l, i))
        /\ Cardinality(BucketedOn(l, i)) <= Cardinality(Within(v, l, Begun, i))
    BY <2>1, TallyParts, SetTypes, CardinalityOfParts
  <2>3. Held(v, l).buckets[i] = Cardinality(BucketedOn(l, i))
    BY <1>9 DEF HeldView, BucketsPart
  <2> QED
    BY <2>2, <2>3, TallyParts
<1>10. ASSUME v = "histogram"
       PROVE  /\ Tally(v, l, done).sum <= Held(v, l).sum
              /\ Held(v, l).sum <= Tally(v, l, Begun).sum
  <2>1. Held(v, l).sum = Tally(v, l, done).sum
    BY <1>10, TallyParts DEF HeldView, SumPart
  <2>2. Tally(v, l, done).sum <= Tally(v, l, Begun).sum
    BY <1>1, BegunFacts, TallyGrows
  <2>3. Tally(v, l, done).sum \in Nat
    BY TallyParts
  <2> QED
    BY <2>1, <2>2, <2>3
<1> QED
  BY <1>7, <1>8, <1>9, <1>10, TallyParts

LEMMA NothingLostFollows ==
    ASSUME MetricsTypes, HeldView
    PROVE  NothingLost
BY HeldWithin DEF NothingLost, AtMost, Held

-----------------------------------------------------------------------------
(***************************************************************************)
(* The steps                                                               *)
(***************************************************************************)
\* The call that p is making.
CallOf(p) == <<p, done[p] + 1>>

LEMMA CallerFacts ==
    ASSUME MetricsTypes, CallerView, NEW p \in Callers, mpc[p] # "idle"
    PROVE  /\ CallOf(p) \in Calls /\ done[p] \in Nat
           /\ Current(p) = Work[CallOf(p)[1]][CallOf(p)[2]]
           /\ CallOf(p) \in CallsOf(Current(p).vec, Current(p).label)
           /\ Current(p).vec \in Vecs /\ Current(p).label \in Labels
           /\ Current(p).value = ValueOf(CallOf(p)) /\ Current(p).value \in Nat
<1>1. done[p] < Len(Work[p]) /\ done[p] \in Nat /\ Len(Work[p]) \in Nat
  BY MetricsAssumption, LenProperties DEF CallerView, CallerPart, MetricsTypes
<1>2. CallOf(p) \in Calls
  BY <1>1, CallExists DEF CallOf
<1>3. Current(p) = Work[CallOf(p)[1]][CallOf(p)[2]]
  BY DEF Current, CallOf
<1>4. Current(p) \in [vec : Vecs, label : Labels, value : Nat]
  BY <1>2, <1>3, CallShape
<1> QED
  BY <1>1, <1>2, <1>3, <1>4 DEF CallsOf, ValueOf

\* Two calls are the same exactly when caller and number are.
LEMMA SameCall ==
    ASSUME NEW c \in Calls, NEW p, NEW k
    PROVE  c = <<p, k>> <=> c[1] = p /\ c[2] = k
BY CallShape

LEMMA HeldTypes ==
    ASSUME MetricsTypes, NEW v \in Vecs, NEW l \in Labels
    PROVE  Held(v, l) \in Cells
<1>1. Zeros \in Cells
  BY DEF Zeros, Cells
<1>2. series[v][l] \in Calls \cup {NoSeries}
  BY DEF MetricsTypes
<1> QED
  BY <1>1, <1>2 DEF Held, MetricsTypes

\* An addition to the series of one vector and label leaves the others alone.
LEMMA OnlyOneSeries ==
    ASSUME MetricsTypes, SeriesView, NEW v \in Vecs, NEW l \in Labels, NEW s \in Calls,
           series[v][l] = s, NEW new,
           cells' = [cells EXCEPT ![s] = new], UNCHANGED series
    PROVE  /\ \A w \in Vecs, k \in Labels : ~ (w = v /\ k = l) => Held(w, k)' = Held(w, k)
           /\ Held(v, l)' = new
<1>1. /\ NoSeries \notin Calls
      /\ \A w \in Vecs, k \in Labels : series[w][k] \in Calls \cup {NoSeries}
  BY MetricsAssumption DEF MetricsTypes
<1>2. \A w \in Vecs, k \in Labels : series[w][k] = s => w = v /\ k = l
  BY DEF SeriesView, SeriesPlaced, CallsOf
<1>3. s \in DOMAIN cells /\ \A c \in Calls : c # s => cells'[c] = cells[c]
  BY DEF MetricsTypes
<1>4. cells'[s] = new
  BY <1>3
<1> QED
  BY <1>1, <1>2, <1>3, <1>4 DEF Held

\* What does not change the counters or where calls are.
LEMMA SameCells ==
    ASSUME UNCHANGED <<series, cells>>
    PROVE  \A v, l : Held(v, l)' = Held(v, l)
BY DEF Held

LEMMA HeldSame ==
    ASSUME HeldView, UNCHANGED done,
           \A v \in Vecs, l \in Labels : Held(v, l)' = Held(v, l),
           \A c \in Calls : Counted(c)' <=> Counted(c),
           \A l \in Labels : \A c \in CallsOf("histogram", l) : \A i \in DOMAIN Bounds :
               Passed(c, i)' <=> Passed(c, i)
    PROVE  HeldView'
<1>1. ASSUME NEW v \in Vecs, NEW l \in Labels PROVE CountsPart(v, l)'
  <2>1. CountedOn(v, l)' = CountedOn(v, l)
    BY DEF CountedOn, CallsOf
  <2> QED
    BY <2>1 DEF HeldView, CountsPart
<1>2. ASSUME NEW l \in Labels PROVE BucketsPart(l)'
  <2>1. \A i \in DOMAIN Bounds : BucketedOn(l, i)' = BucketedOn(l, i)
    BY DEF BucketedOn
  <2> QED
    BY <2>1 DEF HeldView, BucketsPart, Vecs
<1>3. ASSUME NEW l \in Labels PROVE SumPart(l)'
  BY DEF HeldView, SumPart, Vecs
<1> QED
  BY <1>1, <1>2, <1>3 DEF HeldView

LEMMA AddCountHeld ==
    ASSUME MetricsTypes, CallerView, SeriesView, HeldView, NEW p \in Callers, AddCount(p)
    PROVE  HeldView'
<1>0. PICK c0, v0, l0, s : /\ c0 = CallOf(p) /\ v0 = Current(p).vec
                           /\ l0 = Current(p).label /\ s = at[p]
  OBVIOUS
<1>1. /\ c0 \in Calls /\ done[p] \in Nat /\ c0 \in CallsOf(v0, l0)
      /\ v0 \in Vecs /\ l0 \in Labels
  BY <1>0, CallerFacts DEF AddCount, At
<1>2. c0[1] = p /\ c0[2] = done[p] + 1
  BY <1>0 DEF CallOf
<1>3. series[v0][l0] = s /\ s \in Calls
  BY <1>0 DEF AddCount, At, CallerView, CallerPart, SeriesOf
<1>4. PICK new : new = [cells[s] EXCEPT !.count = @ + 1]
  OBVIOUS
<1>5. cells' = [cells EXCEPT ![s] = new] /\ UNCHANGED series
  BY <1>0, <1>4 DEF AddCount
<1>6. /\ \A v \in Vecs, l \in Labels : ~ (v = v0 /\ l = l0) => Held(v, l)' = Held(v, l)
      /\ Held(v0, l0)' = new
  BY <1>1, <1>3, <1>5, OnlyOneSeries, Zenon
<1>7. Held(v0, l0) = cells[s] /\ Held(v0, l0) \in Cells
  BY <1>1, <1>3, HeldTypes, MetricsAssumption DEF Held
<1>8. new.count = Held(v0, l0).count + 1 /\ new.buckets = Held(v0, l0).buckets
      /\ new.sum = Held(v0, l0).sum
  BY <1>4, <1>7 DEF Cells
<1>9. mpc[p] = "count" /\ mpc \in [Callers -> Places] /\ done \in [Callers -> Nat]
  BY DEF AddCount, At, MetricsTypes
<1>10. /\ v0 = "counter" => mpc' = [mpc EXCEPT ![p] = "idle"] /\ done' = [done EXCEPT ![p] = @ + 1]
       /\ v0 # "counter" => mpc' = [mpc EXCEPT ![p] = "load"] /\ done' = done
       /\ bucket' = bucket
  BY <1>0 DEF AddCount, GoTo
<1>11. ASSUME NEW c \in Calls PROVE Counted(c)' <=> Counted(c) \/ c = c0
  <2>1. c[1] \in Callers /\ c[2] \in Nat /\ (c = c0 <=> c[1] = p /\ c[2] = done[p] + 1)
    BY CallShape, <1>1, <1>2, SameCall, <1>0 DEF CallOf
  <2>2. CASE v0 = "counter"
    BY <1>1, <1>9, <1>10, <2>1, <2>2 DEF Counted
  <2>3. CASE v0 # "counter"
    BY <1>1, <1>9, <1>10, <2>1, <2>3 DEF Counted
  <2> QED
    BY <2>2, <2>3
<1>12. ~ Counted(c0)
  BY <1>1, <1>2, <1>9 DEF Counted
<1>13. ASSUME NEW l \in Labels, NEW c \in CallsOf("histogram", l), NEW i \in DOMAIN Bounds
       PROVE  Passed(c, i)' <=> Passed(c, i)
  <2>1. c \in Calls /\ Work[c[1]][c[2]].vec = "histogram"
    BY DEF CallsOf
  <2>2. c[1] \in Callers /\ c[2] \in Nat /\ (c = c0 <=> c[1] = p /\ c[2] = done[p] + 1)
    BY CallShape, <2>1, SameCall, <1>0 DEF CallOf
  <2>3. CASE v0 = "counter"
    <3>1. c # c0
      BY <1>1, <2>1, <2>3 DEF CallsOf
    <3> QED
      BY <1>1, <1>9, <1>10, <2>2, <2>3, <3>1 DEF Passed
  <2>4. CASE v0 # "counter"
    BY <1>1, <1>9, <1>10, <2>2, <2>4 DEF Passed
  <2> QED
    BY <2>3, <2>4
<1>14. ASSUME NEW v \in Vecs, NEW l \in Labels PROVE CountsPart(v, l)'
  <2>1. CASE v = v0 /\ l = l0
    <3>1. CountedOn(v, l)' = CountedOn(v, l) \cup {c0}
      BY <1>1, <1>11, <2>1 DEF CountedOn, CallsOf
    <3>2. c0 \notin CountedOn(v, l) /\ CountedOn(v, l) \in SUBSET Calls
      BY <1>12, SetTypes DEF CountedOn
    <3>3. Cardinality(CountedOn(v, l) \cup {c0}) = Cardinality(CountedOn(v, l)) + 1
      BY <1>1, <3>2, OneMoreCall
    <3> QED
      BY <1>6, <1>8, <2>1, <3>1, <3>3 DEF CountsPart, HeldView
  <2>2. CASE ~ (v = v0 /\ l = l0)
    <3>1. c0 \notin CallsOf(v, l)
      BY <1>1, <2>2 DEF CallsOf
    <3>2. CountedOn(v, l)' = CountedOn(v, l)
      BY <1>11, <3>1 DEF CountedOn, CallsOf
    <3> QED
      BY <1>6, <2>2, <3>2 DEF CountsPart, HeldView
  <2> QED
    BY <2>1, <2>2
<1>15. \A l \in Labels : /\ Held("histogram", l)'.buckets = Held("histogram", l).buckets
                         /\ Held("histogram", l)'.sum = Held("histogram", l).sum
  BY <1>6, <1>8 DEF Vecs
<1>16. ASSUME NEW l \in Labels PROVE BucketsPart(l)'
  <2>1. \A i \in DOMAIN Bounds : BucketedOn(l, i)' = BucketedOn(l, i)
    BY <1>13 DEF BucketedOn
  <2> QED
    BY <1>15, <2>1 DEF HeldView, BucketsPart
<1>17. ASSUME NEW l \in Labels PROVE SumPart(l)'
  <2>1. CallsOn("histogram", l, done') = CallsOn("histogram", l, done)
    <3>1. CASE v0 # "counter"
      BY <1>10, <3>1
    <3>2. CASE v0 = "counter"
      <4>1. ASSUME NEW c \in CallsOf("histogram", l)
            PROVE  c[2] <= done'[c[1]] <=> c[2] <= done[c[1]]
        <5>1. c \in Calls /\ c # c0
          BY <1>1, <3>2 DEF CallsOf
        <5>2. c[1] \in Callers /\ c[2] \in Nat /\ ~ (c[1] = p /\ c[2] = done[p] + 1)
          BY CallShape, <5>1, SameCall, <1>0 DEF CallOf
        <5> QED
          BY <1>1, <1>9, <1>10, <3>2, <5>2
      <4> QED
        BY <4>1 DEF CallsOn, CallsOf
    <3> QED
      BY <3>1, <3>2
  <2> QED
    BY <1>15, <2>1 DEF HeldView, SumPart
<1> QED
  BY <1>14, <1>16, <1>17 DEF HeldView

LEMMA AddBucketHeld ==
    ASSUME MetricsTypes, CallerView, SeriesView, HeldView, NEW p \in Callers, AddBucket(p)
    PROVE  HeldView'
<1>0. PICK c0, l0, s, b : /\ c0 = CallOf(p) /\ l0 = Current(p).label
                          /\ s = at[p] /\ b = bucket[p]
  OBVIOUS
<1>1. /\ c0 \in Calls /\ done[p] \in Nat /\ l0 \in Labels
      /\ Current(p).vec = "histogram" /\ Current(p).value = ValueOf(c0)
      /\ c0 \in CallsOf("histogram", l0)
  BY <1>0, CallerFacts DEF AddBucket, At, CallerView, CallerPart
<1>2. c0[1] = p /\ c0[2] = done[p] + 1
  BY <1>0 DEF CallOf
<1>3. series["histogram"][l0] = s /\ s \in Calls
  BY <1>0, <1>1 DEF AddBucket, At, CallerView, CallerPart, SeriesOf
<1>4. /\ b \in 1 .. Len(Bounds) /\ DOMAIN Bounds = 1 .. Len(Bounds) /\ Len(Bounds) \in Nat
      /\ b \in DOMAIN Bounds /\ ValueOf(c0) \in Nat
  <2>1. Len(Bounds) \in Nat /\ DOMAIN Bounds = 1 .. Len(Bounds)
    BY MetricsAssumption, LenProperties
  <2>2. b \in 1 .. Len(Bounds) + 1 /\ b <= Len(Bounds)
    BY <1>0 DEF AddBucket, MetricsTypes
  <2>3. b \in 1 .. Len(Bounds)
    BY <2>1, <2>2
  <2> QED
    BY <1>1, <2>1, <2>3, CallShape
<1>5. /\ mpc[p] = "bucket" /\ mpc \in [Callers -> Places] /\ done \in [Callers -> Nat]
      /\ bucket \in [Callers -> 1 .. Len(Bounds) + 1] /\ bucket[p] = b
      /\ bucket' = [bucket EXCEPT ![p] = b + 1]
      /\ UNCHANGED <<mpc, done, series>>
  BY <1>0 DEF AddBucket, At, MetricsTypes
<1>6. ASSUME NEW c \in Calls, NEW i \in DOMAIN Bounds
      PROVE  Passed(c, i)' <=> Passed(c, i) \/ (c = c0 /\ i = b)
  <2>1. c[1] \in Callers /\ c[2] \in Nat /\ (c = c0 <=> c[1] = p /\ c[2] = done[p] + 1)
    BY CallShape, SameCall, <1>0 DEF CallOf
  <2>2. i \in Nat /\ b \in Nat
    BY <1>4
  <2>3. CASE c[1] = p
    <3>1. mpc'[p] = "bucket" /\ mpc[p] = "bucket" /\ done'[p] = done[p] /\ bucket'[p] = b + 1
      BY <1>5
    <3>2. i < b + 1 <=> i < b \/ i = b
      BY <2>2
    <3>3. Passed(c, i)' <=> c[2] <= done[p] \/ (c[2] = done[p] + 1 /\ i < b + 1)
      BY <2>3, <3>1 DEF Passed
    <3>4. Passed(c, i) <=> c[2] <= done[p] \/ (c[2] = done[p] + 1 /\ i < b)
      BY <2>3, <3>1, <1>5 DEF Passed
    <3> QED
      BY <2>1, <2>3, <3>2, <3>3, <3>4
  <2>4. CASE c[1] # p
    <3>1. bucket'[c[1]] = bucket[c[1]] /\ c # c0
      BY <1>5, <2>1, <2>4
    <3> QED
      BY <1>5, <3>1 DEF Passed
  <2> QED
    BY <2>3, <2>4
<1>7. ~ Passed(c0, b)
  BY <1>1, <1>2, <1>4, <1>5 DEF Passed
<1>8. \A c \in Calls : Counted(c)' <=> Counted(c)
  BY <1>5 DEF Counted
<1>9. CASE ~ (ValueOf(c0) <= Bounds[b])
  <2>1. cells' = cells
    BY <1>0, <1>1, <1>9 DEF AddBucket, InBucket
  <2>2. \A v, l : Held(v, l)' = Held(v, l)
    BY <1>5, <2>1, SameCells
  <2>3. ASSUME NEW v \in Vecs, NEW l \in Labels PROVE CountsPart(v, l)'
    <3>1. CountedOn(v, l)' = CountedOn(v, l)
      BY <1>8 DEF CountedOn, CallsOf
    <3> QED
      BY <2>2, <3>1 DEF CountsPart, HeldView
  <2>4. ASSUME NEW l \in Labels PROVE BucketsPart(l)'
    <3>1. \A i \in DOMAIN Bounds : BucketedOn(l, i)' = BucketedOn(l, i)
      BY <1>6, <1>9 DEF BucketedOn, CallsOf
    <3> QED
      BY <2>2, <3>1 DEF BucketsPart, HeldView
  <2>5. ASSUME NEW l \in Labels PROVE SumPart(l)'
    BY <1>5, <2>2 DEF SumPart, HeldView
  <2> QED
    BY <2>3, <2>4, <2>5 DEF HeldView
<1>10. CASE ValueOf(c0) <= Bounds[b]
  <2>1. PICK new : new = [cells[s] EXCEPT !.buckets[b] = @ + 1]
    OBVIOUS
  <2>2. cells' = [cells EXCEPT ![s] = new]
    BY <1>0, <1>1, <1>10, <2>1 DEF AddBucket, InBucket
  <2>3. "histogram" \in Vecs
    BY DEF Vecs
  <2>4. /\ \A v \in Vecs, l \in Labels : ~ (v = "histogram" /\ l = l0) => Held(v, l)' = Held(v, l)
        /\ Held("histogram", l0)' = new
    <3>1. UNCHANGED series
      BY <1>5
    <3> QED
      BY <1>1, <1>3, <2>2, <2>3, <3>1, OnlyOneSeries, Zenon
  <2>5. Held("histogram", l0) = cells[s] /\ Held("histogram", l0) \in Cells
    BY <1>1, <1>3, <2>3, HeldTypes, MetricsAssumption DEF Held
  <2>6. /\ new.count = Held("histogram", l0).count /\ new.sum = Held("histogram", l0).sum
        /\ new.buckets = [Held("histogram", l0).buckets EXCEPT ![b] = @ + 1]
    BY <2>1, <2>5 DEF Cells
  <2>7. Held("histogram", l0).buckets \in [DOMAIN Bounds -> Nat]
    BY <2>5 DEF Cells
  <2>8. ASSUME NEW v \in Vecs, NEW l \in Labels PROVE CountsPart(v, l)'
    <3>1. CountedOn(v, l)' = CountedOn(v, l)
      BY <1>8 DEF CountedOn, CallsOf
    <3>2. Held(v, l)'.count = Held(v, l).count
      BY <2>4, <2>6
    <3> QED
      BY <3>1, <3>2 DEF CountsPart, HeldView
  <2>9. ASSUME NEW l \in Labels, NEW i \in DOMAIN Bounds
        PROVE  Held("histogram", l)'.buckets[i] = Cardinality(BucketedOn(l, i)')
    <3>0. Held("histogram", l).buckets[i] = Cardinality(BucketedOn(l, i))
      BY DEF HeldView, BucketsPart
    <3>1. CASE l = l0 /\ i = b
      <4>1. BucketedOn(l, i)' = BucketedOn(l, i) \cup {c0}
        BY <1>1, <1>6, <1>10, <3>1 DEF BucketedOn, CallsOf
      <4>2. c0 \notin BucketedOn(l, i) /\ BucketedOn(l, i) \in SUBSET Calls
        BY <1>7, <3>1, SetTypes DEF BucketedOn
      <4>3. Cardinality(BucketedOn(l, i) \cup {c0}) = Cardinality(BucketedOn(l, i)) + 1
        BY <1>1, <4>2, OneMoreCall
      <4>4. Held("histogram", l)'.buckets[i] = Held("histogram", l).buckets[i] + 1
        BY <1>4, <2>4, <2>6, <2>7, <3>1
      <4> QED
        BY <3>0, <4>1, <4>3, <4>4
    <3>2. CASE ~ (l = l0 /\ i = b)
      <4>1. BucketedOn(l, i)' = BucketedOn(l, i)
        <5>1. c0 \in CallsOf("histogram", l) => l = l0
          BY <1>1 DEF CallsOf
        <5> QED
          BY <1>6, <3>2, <5>1 DEF BucketedOn, CallsOf
      <4>2. Held("histogram", l)'.buckets[i] = Held("histogram", l).buckets[i]
        BY <1>4, <2>3, <2>4, <2>6, <2>7, <3>2
      <4> QED
        BY <3>0, <4>1, <4>2
    <3> QED
      BY <3>1, <3>2
  <2>10. ASSUME NEW l \in Labels PROVE SumPart(l)'
    <3>1. Held("histogram", l)'.sum = Held("histogram", l).sum
      BY <2>3, <2>4, <2>6
    <3> QED
      BY <1>5, <3>1 DEF SumPart, HeldView
  <2> QED
    BY <2>8, <2>9, <2>10 DEF HeldView, BucketsPart
<1> QED
  BY <1>9, <1>10

LEMMA CasSumHeld ==
    ASSUME MetricsTypes, CallerView, SeriesView, HeldView, NEW p \in Callers, CasSum(p)
    PROVE  HeldView'
<1>0. PICK c0, l0, s : c0 = CallOf(p) /\ l0 = Current(p).label /\ s = at[p]
  OBVIOUS
<1>1. /\ c0 \in Calls /\ done[p] \in Nat /\ l0 \in Labels
      /\ Current(p).vec = "histogram" /\ Current(p).value = ValueOf(c0)
      /\ c0 \in CallsOf("histogram", l0)
  BY <1>0, CallerFacts DEF CasSum, At, CallerView, CallerPart
<1>2. c0[1] = p /\ c0[2] = done[p] + 1
  BY <1>0 DEF CallOf
<1>3. series["histogram"][l0] = s /\ s \in Calls /\ "histogram" \in Vecs
  BY <1>0, <1>1 DEF CasSum, At, CallerView, CallerPart, SeriesOf, Vecs
<1>4. PICK new : new = [cells[s] EXCEPT !.sum = cells[s].sum + ValueOf(c0)]
  OBVIOUS
<1>5. cells' = [cells EXCEPT ![s] = new] /\ UNCHANGED series
  BY <1>0, <1>1, <1>4 DEF CasSum, SumUnchanged
<1>6. /\ \A v \in Vecs, l \in Labels : ~ (v = "histogram" /\ l = l0) => Held(v, l)' = Held(v, l)
      /\ Held("histogram", l0)' = new
  BY <1>1, <1>3, <1>5, OnlyOneSeries, Zenon
<1>7. Held("histogram", l0) = cells[s] /\ Held("histogram", l0) \in Cells
  BY <1>1, <1>3, HeldTypes, MetricsAssumption DEF Held
<1>8. /\ new.count = Held("histogram", l0).count /\ new.buckets = Held("histogram", l0).buckets
      /\ new.sum = Held("histogram", l0).sum + ValueOf(c0)
  BY <1>4, <1>7 DEF Cells
<1>9. /\ mpc[p] = "cas" /\ mpc \in [Callers -> Places] /\ done \in [Callers -> Nat]
      /\ mpc' = [mpc EXCEPT ![p] = "idle"] /\ done' = [done EXCEPT ![p] = @ + 1]
      /\ UNCHANGED bucket
  BY DEF CasSum, At, GoTo, MetricsTypes
<1>10. ASSUME NEW c \in Calls
       PROVE  /\ Counted(c)' <=> Counted(c)
              /\ \A i \in DOMAIN Bounds : Passed(c, i)' <=> Passed(c, i)
              /\ c[2] <= done'[c[1]] <=> c[2] <= done[c[1]] \/ c = c0
  <2>1. c[1] \in Callers /\ c[2] \in Nat /\ (c = c0 <=> c[1] = p /\ c[2] = done[p] + 1)
    BY CallShape, SameCall, <1>0 DEF CallOf
  <2>2. Counted(c)' <=> Counted(c)
    BY <1>1, <1>9, <2>1 DEF Counted
  <2>3. \A i \in DOMAIN Bounds : Passed(c, i)' <=> Passed(c, i)
    BY <1>1, <1>9, <2>1 DEF Passed
  <2>4. c[2] <= done'[c[1]] <=> c[2] <= done[c[1]] \/ c = c0
    BY <1>1, <1>9, <2>1
  <2> QED
    BY <2>2, <2>3, <2>4
<1>11. ~ (c0[2] <= done[c0[1]])
  BY <1>1, <1>2
<1>12. \A v \in Vecs, l \in Labels : /\ Held(v, l)'.count = Held(v, l).count
                                     /\ Held(v, l)'.buckets = Held(v, l).buckets
  BY <1>6, <1>8
<1>13. ASSUME NEW v \in Vecs, NEW l \in Labels PROVE CountsPart(v, l)'
  <2>1. CountedOn(v, l)' = CountedOn(v, l)
    BY <1>10 DEF CountedOn, CallsOf
  <2> QED
    BY <1>12, <2>1 DEF CountsPart, HeldView
<1>14. ASSUME NEW l \in Labels PROVE BucketsPart(l)'
  <2>1. \A i \in DOMAIN Bounds : BucketedOn(l, i)' = BucketedOn(l, i)
    BY <1>10 DEF BucketedOn, CallsOf
  <2> QED
    BY <1>3, <1>12, <2>1 DEF BucketsPart, HeldView
<1>15. ASSUME NEW l \in Labels PROVE SumPart(l)'
  <2>0. Held("histogram", l).sum = Sum(CallsOn("histogram", l, done))
    BY DEF HeldView, SumPart
  <2>1. CASE l = l0
    <3>1. CallsOn("histogram", l, done') = CallsOn("histogram", l, done) \cup {c0}
      BY <1>1, <1>10, <2>1 DEF CallsOn, CallsOf
    <3>2. c0 \notin CallsOn("histogram", l, done) /\ CallsOn("histogram", l, done) \in SUBSET Calls
      BY <1>11 DEF CallsOn
    <3>3. Sum(CallsOn("histogram", l, done) \cup {c0})
              = Sum(CallsOn("histogram", l, done)) + ValueOf(c0)
      BY <1>1, <3>2, SumOfOneMore
    <3> QED
      BY <1>6, <1>8, <2>0, <2>1, <3>1, <3>3 DEF SumPart
  <2>2. CASE l # l0
    <3>1. c0 \notin CallsOf("histogram", l)
      BY <1>1, <2>2 DEF CallsOf
    <3>2. CallsOn("histogram", l, done') = CallsOn("histogram", l, done)
      BY <1>10, <3>1 DEF CallsOn, CallsOf
    <3> QED
      BY <1>3, <1>6, <2>0, <2>2, <3>2 DEF SumPart
  <2> QED
    BY <2>1, <2>2
<1> QED
  BY <1>13, <1>14, <1>15 DEF HeldView

\* The steps of a call that change no counter.
QuietCall(p) == Begin(p) \/ Lookup(p) \/ Lock(p) \/ BucketsDone(p) \/ LoadSum(p) \/ CasFails(p)

LEMMA QuietHeld ==
    ASSUME MetricsTypes, CallerView, HeldView, NEW p \in Callers, QuietCall(p)
    PROVE  HeldView'
<1>1. UNCHANGED <<series, cells, done>>
  BY DEF QuietCall, Begin, Lookup, Lock, BucketsDone, LoadSum, CasFails
<1>2. /\ mpc \in [Callers -> Places] /\ done \in [Callers -> Nat]
      /\ bucket \in [Callers -> 1 .. Len(Bounds) + 1]
      /\ Len(Bounds) \in Nat /\ DOMAIN Bounds = 1 .. Len(Bounds)
  BY MetricsAssumption, LenProperties DEF MetricsTypes
<1>3. \A q \in Callers \ {p} : mpc'[q] = mpc[q] /\ bucket'[q] = bucket[q]
  BY <1>2 DEF QuietCall, Begin, Lookup, Lock, BucketsDone, LoadSum, CasFails, GoTo
<1>4. mpc'[p] \in {"load", "cas"} <=> mpc[p] \in {"load", "cas"}
  BY <1>2 DEF QuietCall, Begin, Lookup, Lock, BucketsDone, LoadSum, CasFails, GoTo, At, Entry
<1>5. ASSUME NEW i \in DOMAIN Bounds, mpc[p] = "idle" \/ Current(p).vec = "histogram"
      PROVE  (mpc'[p] \in {"count", "load", "cas"} \/ (mpc'[p] = "bucket" /\ i < bucket'[p]))
                <=> (mpc[p] \in {"count", "load", "cas"} \/ (mpc[p] = "bucket" /\ i < bucket[p]))
  <2>0. i \in 1 .. Len(Bounds) /\ bucket[p] \in 1 .. Len(Bounds) + 1
    BY <1>2
  <2>1. CASE Begin(p)
    BY <1>2, <2>1 DEF Begin, GoTo, At
  <2>2. CASE Lookup(p)
    <3>1. bucket[p] = 1 /\ bucket' = bucket /\ ~ (i < 1)
      BY <1>2, <2>2 DEF Lookup, At, CallerView, CallerPart
    <3> QED
      BY <1>2, <1>5, <2>2, <3>1 DEF Lookup, GoTo, At, Entry
  <2>3. CASE Lock(p)
    BY <1>2, <2>3 DEF Lock, GoTo, At
  <2>4. CASE BucketsDone(p)
    <3>1. i < bucket[p]
      BY <1>2, <2>0, <2>4 DEF BucketsDone
    <3> QED
      BY <1>2, <2>4, <3>1 DEF BucketsDone, GoTo, At
  <2>5. CASE LoadSum(p) \/ CasFails(p)
    BY <1>2, <2>5 DEF LoadSum, CasFails, GoTo, At
  <2> QED
    BY <2>1, <2>2, <2>3, <2>4, <2>5 DEF QuietCall
<1>6. \A c \in Calls : Counted(c)' <=> Counted(c)
  <2> SUFFICES ASSUME NEW c \in Calls PROVE Counted(c)' <=> Counted(c)
    OBVIOUS
  <2>1. c[1] \in Callers
    BY CallShape
  <2>2. CASE c[1] = p
    BY <1>1, <1>4, <2>2 DEF Counted
  <2>3. CASE c[1] # p
    BY <1>1, <1>3, <2>1, <2>3 DEF Counted
  <2> QED
    BY <2>2, <2>3
<1>7. ASSUME NEW l \in Labels, NEW c \in CallsOf("histogram", l), NEW i \in DOMAIN Bounds
      PROVE  Passed(c, i)' <=> Passed(c, i)
  <2>1. c[1] \in Callers /\ c[2] \in Nat /\ c \in Calls /\ Work[c[1]][c[2]].vec = "histogram"
    BY CallShape DEF CallsOf
  <2>2. CASE c[1] = p /\ c[2] = done[p] + 1
    <3>1. Current(p).vec = "histogram"
      BY <2>1, <2>2 DEF Current
    <3>2. done'[p] = done[p] /\ done[p] \in Nat
      BY <1>1, <1>2
    <3> QED
      BY <1>5, <2>2, <3>1, <3>2 DEF Passed
  <2>3. CASE c[1] = p /\ c[2] # done[p] + 1
    BY <1>1, <2>3 DEF Passed
  <2>4. CASE c[1] # p
    BY <1>1, <1>3, <2>1, <2>4 DEF Passed
  <2> QED
    BY <2>2, <2>3, <2>4
<1>8. \A v \in Vecs, l \in Labels : Held(v, l)' = Held(v, l)
  BY <1>1, SameCells
<1> QED
  BY <1>1, <1>6, <1>7, <1>8, HeldSame

\* A new series holds nothing, as none did.
LEMMA CreateKeepsHeld ==
    ASSUME MetricsTypes, CallerView, SeriesView, NEW p \in Callers, Create(p)
    PROVE  \A v \in Vecs, l \in Labels : Held(v, l)' = Held(v, l)
<1>0. PICK c0, v0, l0, new : /\ c0 = CallOf(p) /\ v0 = Current(p).vec
                             /\ l0 = Current(p).label /\ new = Registered(p)
  OBVIOUS
<1>1. c0 \in Calls /\ v0 \in Vecs /\ l0 \in Labels /\ c0 \in CallsOf(v0, l0)
  BY <1>0, CallerFacts DEF Create, At
<1>2. new = IF series[v0][l0] = NoSeries THEN c0 ELSE series[v0][l0]
  BY <1>0 DEF Registered, SeriesOf, CallOf
<1>3. /\ series' = [series EXCEPT ![v0][l0] = new] /\ UNCHANGED cells
      /\ series \in [Vecs -> [Labels -> Calls \cup {NoSeries}]]
  BY <1>0 DEF Create, MetricsTypes
<1>4. series[v0][l0] = NoSeries => cells[c0] = Zeros
  <2>1. Work[c0[1]][c0[2]].vec = v0 /\ Work[c0[1]][c0[2]].label = l0
    BY <1>1 DEF CallsOf
  <2>2. c0 # NoSeries
    BY <1>1, MetricsAssumption
  <2> QED
    BY <1>1, <2>1, <2>2 DEF SeriesView, SeriesPlaced, OthersZero
<1>5. series'[v0][l0] = new
  BY <1>1, <1>3
<1>6. \A v \in Vecs, l \in Labels : ~ (v = v0 /\ l = l0) => series'[v][l] = series[v][l]
  BY <1>1, <1>3
<1>7. c0 # NoSeries
  BY <1>1, MetricsAssumption
<1> SUFFICES ASSUME NEW v \in Vecs, NEW l \in Labels PROVE Held(v, l)' = Held(v, l)
  OBVIOUS
<1>8. CASE v = v0 /\ l = l0
  BY <1>2, <1>3, <1>4, <1>5, <1>7, <1>8 DEF Held
<1>9. CASE ~ (v = v0 /\ l = l0)
  BY <1>3, <1>6, <1>9 DEF Held
<1> QED
  BY <1>8, <1>9

LEMMA CreateHeld ==
    ASSUME MetricsTypes, CallerView, SeriesView, HeldView, NEW p \in Callers, Create(p)
    PROVE  HeldView'
<1>1. \A v \in Vecs, l \in Labels : Held(v, l)' = Held(v, l)
  BY CreateKeepsHeld
<1>2. /\ mpc \in [Callers -> Places] /\ mpc[p] = "create" /\ bucket[p] = 1
      /\ mpc' = [mpc EXCEPT ![p] = Entry(p)] /\ UNCHANGED <<done, bucket>>
  BY DEF Create, At, GoTo, MetricsTypes, CallerView, CallerPart
<1>3. Entry(p) = IF Current(p).vec = "counter" THEN "count" ELSE "bucket"
  BY DEF Entry
<1>4. \A c \in Calls : Counted(c)' <=> Counted(c)
  <2> SUFFICES ASSUME NEW c \in Calls PROVE Counted(c)' <=> Counted(c)
    OBVIOUS
  <2>1. c[1] \in Callers
    BY CallShape
  <2> QED
    BY <1>2, <1>3, <2>1 DEF Counted
<1>5. ASSUME NEW l \in Labels, NEW c \in CallsOf("histogram", l), NEW i \in DOMAIN Bounds
      PROVE  Passed(c, i)' <=> Passed(c, i)
  <2>1. c[1] \in Callers /\ c \in Calls /\ Work[c[1]][c[2]].vec = "histogram"
    BY CallShape DEF CallsOf
  <2>2. ~ (i < 1)
    BY MetricsAssumption, LenProperties
  <2>3. CASE c[1] = p /\ c[2] = done[p] + 1
    <3>1. Current(p).vec = "histogram"
      BY <2>1, <2>3 DEF Current
    <3> QED
      BY <1>2, <1>3, <2>2, <2>3, <3>1 DEF Passed
  <2>4. CASE ~ (c[1] = p /\ c[2] = done[p] + 1)
    BY <1>2, <2>1, <2>4 DEF Passed
  <2> QED
    BY <2>3, <2>4
<1> QED
  BY <1>1, <1>2, <1>4, <1>5, HeldSame

LEMMA CellTypes ==
    ASSUME MetricsTypes, NEW s \in Calls
    PROVE  /\ cells[s] \in Cells /\ cells[s].count \in Nat /\ cells[s].sum \in Nat
           /\ cells[s].buckets \in [DOMAIN Bounds -> Nat]
BY DEF MetricsTypes, Cells

\* A step of a call leaves the other callers alone.
OthersAlone(p) ==
    \A q \in Callers \ {p} :
        mpc'[q] = mpc[q] /\ done'[q] = done[q] /\ at'[q] = at[q] /\ bucket'[q] = bucket[q]

\* A series that is registered stays so.
SeriesStay ==
    \A v \in Vecs, l \in Labels : series[v][l] # NoSeries => series'[v][l] = series[v][l]

LEMMA OthersKeep ==
    ASSUME MetricsTypes, CallerView, NEW p \in Callers, OthersAlone(p), SeriesStay,
           CallerPart(p)'
    PROVE  CallerView'
<1> SUFFICES ASSUME NEW q \in Callers \ {p} PROVE CallerPart(q)'
  BY DEF CallerView
<1>1. /\ mpc'[q] = mpc[q] /\ done'[q] = done[q] /\ at'[q] = at[q] /\ bucket'[q] = bucket[q]
  BY DEF OthersAlone
<1>2. CallerPart(q)
  BY DEF CallerView
<1>3. Current(q)' = Current(q)
  BY <1>1 DEF Current
<1>4. ASSUME mpc[q] \in {"bucket", "count", "load", "cas"}
      PROVE  SeriesOf(q)' = SeriesOf(q)
  <2>1. mpc[q] # "idle"
    BY <1>4
  <2>2. Current(q).vec \in Vecs /\ Current(q).label \in Labels
    BY <2>1, CallerFacts
  <2>3. series[Current(q).vec][Current(q).label] \in Calls
    BY <1>2, <1>4 DEF CallerPart, SeriesOf
  <2>4. series[Current(q).vec][Current(q).label] # NoSeries
    BY <2>3, MetricsAssumption
  <2> QED
    BY <1>3, <2>2, <2>4 DEF SeriesOf, SeriesStay
<1> QED
  BY <1>1, <1>2, <1>3, <1>4 DEF CallerPart

\* What a call keeps of the invariant, apart from what the series hold.
CallKeeps(p) ==
    MetricsTypes' /\ CallerView' /\ SeriesView' /\ SeriesStay /\ UNCHANGED <<report, before, spc>>

LEMMA BeginKeeps ==
    ASSUME MetricsTypes, CallerView, SeriesView, NEW p \in Callers, Begin(p)
    PROVE  CallKeeps(p)
<1>1. /\ mpc[p] = "idle" /\ done[p] < Len(Work[p]) /\ mpc' = [mpc EXCEPT ![p] = "find"]
      /\ UNCHANGED <<series, cells, done, at, bucket, old, report, before, spc>>
  BY DEF Begin, At, GoTo, scrapeVars
<1>2. MetricsTypes'
  BY <1>1, SMTT(30) DEF MetricsTypes, Places
<1>3. mpc'[p] = "find" /\ OthersAlone(p)
  BY <1>1 DEF OthersAlone, MetricsTypes
<1>4. CallerPart(p)'
  BY <1>1, <1>3 DEF CallerView, CallerPart
<1>5. SeriesStay /\ SeriesView'
  BY <1>1 DEF SeriesStay, SeriesView, SeriesPlaced, OthersZero
<1> QED
  BY <1>1, <1>2, <1>3, <1>4, <1>5, OthersKeep DEF CallKeeps

LEMMA LookupKeeps ==
    ASSUME MetricsTypes, CallerView, SeriesView, NEW p \in Callers, Lookup(p)
    PROVE  CallKeeps(p)
<1>1. /\ mpc[p] = "find"
      /\ mpc' = [mpc EXCEPT ![p] = IF SeriesOf(p) = NoSeries THEN "lock" ELSE Entry(p)]
      /\ at' = [at EXCEPT ![p] = SeriesOf(p)]
      /\ UNCHANGED <<series, cells, done, bucket, old, report, before, spc>>
  BY DEF Lookup, At, GoTo, scrapeVars
<1>2. Current(p).vec \in Vecs /\ Current(p).label \in Labels
  BY <1>1, CallerFacts
<1>3. SeriesOf(p) \in Calls \cup {NoSeries}
  BY <1>2 DEF SeriesOf, MetricsTypes
<1>4. Entry(p) = IF Current(p).vec = "counter" THEN "count" ELSE "bucket"
  BY DEF Entry
<1>5. MetricsTypes'
  BY <1>1, <1>3, <1>4 DEF MetricsTypes, Places
<1>6. /\ mpc'[p] = IF SeriesOf(p) = NoSeries THEN "lock" ELSE Entry(p)
      /\ at'[p] = SeriesOf(p) /\ OthersAlone(p)
  BY <1>1 DEF OthersAlone, MetricsTypes
<1>7. Current(p)' = Current(p) /\ SeriesOf(p)' = SeriesOf(p)
  BY <1>1 DEF Current, SeriesOf
<1>8. CallerPart(p)'
  BY <1>1, <1>2, <1>3, <1>4, <1>6, <1>7, SMTT(30) DEF CallerView, CallerPart, Vecs
<1>9. SeriesStay /\ SeriesView'
  BY <1>1 DEF SeriesStay, SeriesView, SeriesPlaced, OthersZero
<1> QED
  BY <1>1, <1>5, <1>6, <1>8, <1>9, OthersKeep DEF CallKeeps

LEMMA LockKeeps ==
    ASSUME MetricsTypes, CallerView, SeriesView, NEW p \in Callers, Lock(p)
    PROVE  CallKeeps(p)
<1>1. /\ mpc[p] = "lock" /\ mpc' = [mpc EXCEPT ![p] = "create"]
      /\ UNCHANGED <<series, cells, done, at, bucket, old, report, before, spc>>
  BY DEF Lock, At, GoTo, scrapeVars
<1>2. MetricsTypes'
  BY <1>1, SMTT(30) DEF MetricsTypes, Places
<1>3. mpc'[p] = "create" /\ OthersAlone(p)
  BY <1>1 DEF OthersAlone, MetricsTypes
<1>4. CallerPart(p)'
  BY <1>1, <1>3 DEF CallerView, CallerPart
<1>5. SeriesStay /\ SeriesView'
  BY <1>1 DEF SeriesStay, SeriesView, SeriesPlaced, OthersZero
<1> QED
  BY <1>1, <1>2, <1>3, <1>4, <1>5, OthersKeep DEF CallKeeps

LEMMA CreateKeeps ==
    ASSUME MetricsTypes, CallerView, SeriesView, NEW p \in Callers, Create(p)
    PROVE  CallKeeps(p)
<1>0. PICK c0, v0, l0, new : /\ c0 = CallOf(p) /\ v0 = Current(p).vec
                             /\ l0 = Current(p).label /\ new = Registered(p)
  OBVIOUS
<1>1. c0 \in Calls /\ v0 \in Vecs /\ l0 \in Labels /\ c0 \in CallsOf(v0, l0)
  BY <1>0, CallerFacts DEF Create, At
<1>2. /\ series[v0][l0] \in Calls \cup {NoSeries}
      /\ new = IF series[v0][l0] = NoSeries THEN c0 ELSE series[v0][l0]
  BY <1>0, <1>1 DEF Registered, SeriesOf, CallOf, MetricsTypes
<1>3. new \in Calls /\ new \in CallsOf(v0, l0)
  <2>1. series[v0][l0] \in Calls => series[v0][l0] \in CallsOf(v0, l0)
    BY <1>1 DEF SeriesView, SeriesPlaced, OthersZero
  <2> QED
    BY <1>1, <1>2, <2>1
<1>4. /\ series' = [series EXCEPT ![v0][l0] = new]
      /\ at' = [at EXCEPT ![p] = new] /\ mpc' = [mpc EXCEPT ![p] = Entry(p)]
      /\ mpc[p] = "create" /\ UNCHANGED <<cells, done, bucket, old, report, before, spc>>
  BY <1>0 DEF Create, At, GoTo, scrapeVars
<1>5. Entry(p) = IF v0 = "counter" THEN "count" ELSE "bucket"
  BY <1>0 DEF Entry
<1>6. series' \in [Vecs -> [Labels -> Calls \cup {NoSeries}]]
  BY <1>1, <1>3, <1>4 DEF MetricsTypes
<1>7. /\ series'[v0][l0] = new
      /\ \A v \in Vecs, l \in Labels : ~ (v = v0 /\ l = l0) => series'[v][l] = series[v][l]
  BY <1>1, <1>4 DEF MetricsTypes
<1>8. MetricsTypes'
  BY <1>3, <1>4, <1>5, <1>6 DEF MetricsTypes, Places
<1>9. SeriesStay
  BY <1>2, <1>7 DEF SeriesStay
<1>10. mpc'[p] = Entry(p) /\ at'[p] = new /\ OthersAlone(p)
  BY <1>4 DEF OthersAlone, MetricsTypes
<1>11. Current(p)' = Current(p) /\ SeriesOf(p)' = new
  <2>1. Current(p)' = Current(p)
    BY <1>4 DEF Current
  <2> QED
    BY <1>0, <1>7, <2>1 DEF SeriesOf
<1>12. CallerPart(p)'
  BY <1>0, <1>1, <1>3, <1>4, <1>5, <1>10, <1>11, SMTT(30) DEF CallerView, CallerPart, Vecs
<1>13. SeriesView'
  <2>1. ASSUME NEW v \in Vecs, NEW l \in Labels, series'[v][l] \in Calls
        PROVE  series'[v][l] \in CallsOf(v, l)
    BY <1>3, <1>7, <2>1, SMTT(30) DEF SeriesView, SeriesPlaced
  <2>2. ASSUME NEW c \in Calls, series'[Work[c[1]][c[2]].vec][Work[c[1]][c[2]].label] # c
        PROVE  cells'[c] = Zeros
    <3>1. Work[c[1]][c[2]].vec \in Vecs /\ Work[c[1]][c[2]].label \in Labels
      BY CallShape
    <3>2. c # NoSeries
      BY MetricsAssumption
    <3>3. series[Work[c[1]][c[2]].vec][Work[c[1]][c[2]].label] # c
      BY <1>9, <2>2, <3>1, <3>2 DEF SeriesStay
    <3> QED
      BY <1>4, <3>3 DEF SeriesView, SeriesPlaced, OthersZero
  <2> QED
    BY <2>1, <2>2 DEF SeriesView, SeriesPlaced, OthersZero, CallsOf
<1> QED
  BY <1>4, <1>8, <1>9, <1>10, <1>12, <1>13, OthersKeep DEF CallKeeps

\* Only registered series are added to.
LEMMA AdditionsRegistered ==
    ASSUME MetricsTypes, CallerView, SeriesView, NEW p \in Callers, UNCHANGED series,
           mpc[p] \in {"bucket", "count", "cas"},
           \A c \in Calls : c # at[p] => cells'[c] = cells[c]
    PROVE  SeriesView' /\ SeriesStay
<1>1. at[p] \in Calls /\ at[p] = series[Current(p).vec][Current(p).label]
  BY DEF CallerView, CallerPart, SeriesOf
<1>2. Current(p).vec \in Vecs /\ Current(p).label \in Labels
  BY CallerFacts
<1>3. at[p] \in CallsOf(Current(p).vec, Current(p).label)
  BY <1>1, <1>2 DEF SeriesView, SeriesPlaced
<1>4. series[Work[at[p][1]][at[p][2]].vec][Work[at[p][1]][at[p][2]].label] = at[p]
  BY <1>1, <1>3, ZenonT(40) DEF CallsOf
<1>5. SeriesView'
  BY <1>4 DEF SeriesView, SeriesPlaced, OthersZero
<1> QED
  BY <1>5 DEF SeriesStay

LEMMA AddBucketKeeps ==
    ASSUME MetricsTypes, CallerView, SeriesView, NEW p \in Callers, AddBucket(p)
    PROVE  CallKeeps(p)
<1>1. /\ mpc[p] = "bucket" /\ bucket[p] <= Len(Bounds)
      /\ bucket' = [bucket EXCEPT ![p] = @ + 1]
      /\ UNCHANGED <<series, mpc, done, at, old, report, before, spc>>
  BY DEF AddBucket, At, scrapeVars
<1>2. /\ at[p] \in Calls /\ Len(Bounds) \in Nat /\ DOMAIN Bounds = 1 .. Len(Bounds)
      /\ bucket[p] \in 1 .. Len(Bounds)
  BY <1>1, MetricsAssumption, LenProperties DEF CallerView, CallerPart, MetricsTypes
<1>3. /\ cells' \in [Calls -> Cells]
      /\ \A c \in Calls : c # at[p] => cells'[c] = cells[c]
  <2>0. cells \in [Calls -> Cells]
    BY DEF MetricsTypes
  <2>1. CASE cells' = cells
    BY <2>0, <2>1
  <2>2. CASE cells' = [cells EXCEPT ![at[p]].buckets[bucket[p]] = @ + 1]
    <3>0. /\ cells[at[p]].buckets \in [DOMAIN Bounds -> Nat]
          /\ cells[at[p]].buckets[bucket[p]] + 1 \in Nat
      <4>1. cells[at[p]].buckets \in [DOMAIN Bounds -> Nat] /\ bucket[p] \in DOMAIN Bounds
        BY <1>2, CellTypes
      <4> QED
        BY <4>1
    <3>1. PICK b \in [DOMAIN Bounds -> Nat] :
              b = [cells[at[p]].buckets EXCEPT ![bucket[p]] = @ + 1]
      BY <3>0
    <3>2. PICK new \in Cells : new = [cells[at[p]] EXCEPT !.buckets = b]
      BY <1>2, <2>0 DEF Cells
    <3>3. cells' = [cells EXCEPT ![at[p]] = new]
      BY <2>2, <3>1, <3>2
    <3> QED
      BY <1>2, <2>0, <3>3
  <2> QED
    BY <2>1, <2>2 DEF AddBucket
<1>4. bucket' \in [Callers -> 1 .. Len(Bounds) + 1]
  BY <1>1, <1>2 DEF MetricsTypes
<1>5. MetricsTypes'
  BY <1>1, <1>3, <1>4 DEF MetricsTypes
<1>6. OthersAlone(p)
  BY <1>1 DEF OthersAlone, MetricsTypes
<1>7. SeriesView' /\ SeriesStay
  BY <1>1, <1>3, AdditionsRegistered
<1>8. CallerPart(p)'
  BY <1>1 DEF CallerView, CallerPart, SeriesOf, Current
<1> QED
  BY <1>1, <1>5, <1>6, <1>7, <1>8, OthersKeep DEF CallKeeps

LEMMA BucketsDoneKeeps ==
    ASSUME MetricsTypes, CallerView, SeriesView, NEW p \in Callers, BucketsDone(p)
    PROVE  CallKeeps(p)
<1>1. /\ mpc[p] = "bucket" /\ mpc' = [mpc EXCEPT ![p] = "count"]
      /\ bucket' = [bucket EXCEPT ![p] = 1]
      /\ UNCHANGED <<series, cells, done, at, old, report, before, spc>>
  BY DEF BucketsDone, At, GoTo, scrapeVars
<1>2. 1 \in 1 .. Len(Bounds) + 1
  BY MetricsAssumption, LenProperties
<1>3. MetricsTypes'
  BY <1>1, <1>2, SMTT(30) DEF MetricsTypes, Places
<1>4. mpc'[p] = "count" /\ bucket'[p] = 1 /\ OthersAlone(p)
  BY <1>1 DEF OthersAlone, MetricsTypes
<1>5. CallerPart(p)'
  BY <1>1, <1>4, SMTT(30) DEF CallerView, CallerPart, SeriesOf, Current
<1>6. SeriesStay /\ SeriesView'
  BY <1>1 DEF SeriesStay, SeriesView, SeriesPlaced, OthersZero
<1> QED
  BY <1>1, <1>3, <1>4, <1>5, <1>6, OthersKeep DEF CallKeeps

LEMMA AddCountKeeps ==
    ASSUME MetricsTypes, CallerView, SeriesView, NEW p \in Callers, AddCount(p)
    PROVE  CallKeeps(p)
<1>1. /\ mpc[p] = "count" /\ cells' = [cells EXCEPT ![at[p]].count = @ + 1]
      /\ Current(p).vec = "counter" =>
             mpc' = [mpc EXCEPT ![p] = "idle"] /\ done' = [done EXCEPT ![p] = @ + 1]
      /\ Current(p).vec # "counter" => mpc' = [mpc EXCEPT ![p] = "load"] /\ done' = done
      /\ UNCHANGED <<series, at, bucket, old, report, before, spc>>
  BY DEF AddCount, At, GoTo, scrapeVars
<1>2. /\ at[p] \in Calls /\ done[p] \in Nat /\ Len(Work[p]) \in Nat /\ done[p] < Len(Work[p])
      /\ Current(p).vec \in Vecs
  BY <1>1, MetricsAssumption, LenProperties, CallerFacts DEF CallerView, CallerPart
<1>3. /\ cells' \in [Calls -> Cells]
      /\ \A c \in Calls : c # at[p] => cells'[c] = cells[c]
  <2>0. PICK n \in Nat : n = cells[at[p]].count + 1
    BY <1>2, CellTypes
  <2>1. PICK new \in Cells : new = [cells[at[p]] EXCEPT !.count = n]
    BY <1>2, CellTypes DEF Cells
  <2>2. cells' = [cells EXCEPT ![at[p]] = new]
    BY <1>1, <2>0, <2>1
  <2> QED
    BY <1>2, <2>2 DEF MetricsTypes
<1>4. done' \in [Callers -> Nat] /\ mpc' \in [Callers -> Places]
  <2>0. /\ done \in [Callers -> Nat] /\ mpc \in [Callers -> Places]
        /\ {"idle", "load"} \subseteq Places
    BY DEF MetricsTypes, Places
  <2>1. CASE Current(p).vec = "counter"
    BY <1>1, <1>2, <2>0, <2>1
  <2>2. CASE Current(p).vec # "counter"
    BY <1>1, <1>2, <2>0, <2>2
  <2> QED
    BY <2>1, <2>2
<1>5. MetricsTypes'
  BY <1>1, <1>3, <1>4 DEF MetricsTypes
<1>6. OthersAlone(p)
  BY <1>1 DEF OthersAlone, MetricsTypes
<1>7. SeriesView' /\ SeriesStay
  BY <1>1, <1>3, AdditionsRegistered
<1>8. CallerPart(p)'
  <2>1. CASE Current(p).vec = "counter"
    <3>1. mpc'[p] = "idle" /\ done'[p] = done[p] + 1
      BY <1>1, <2>1 DEF MetricsTypes
    <3> QED
      BY <1>1, <1>2, <3>1 DEF CallerView, CallerPart
  <2>2. CASE Current(p).vec # "counter"
    <3>1. mpc'[p] = "load" /\ done' = done
      BY <1>1, <2>2 DEF MetricsTypes
    <3>2. Current(p)' = Current(p) /\ SeriesOf(p)' = SeriesOf(p)
      BY <1>1, <3>1 DEF Current, SeriesOf
    <3> QED
      BY <1>1, <1>2, <2>2, <3>1, <3>2 DEF CallerView, CallerPart, Vecs
  <2> QED
    BY <2>1, <2>2
<1> QED
  BY <1>1, <1>5, <1>6, <1>7, <1>8, OthersKeep DEF CallKeeps

LEMMA LoadSumKeeps ==
    ASSUME MetricsTypes, CallerView, SeriesView, NEW p \in Callers, LoadSum(p)
    PROVE  CallKeeps(p)
<1>1. /\ mpc[p] = "load" /\ mpc' = [mpc EXCEPT ![p] = "cas"]
      /\ old' = [old EXCEPT ![p] = cells[at[p]].sum]
      /\ UNCHANGED <<series, cells, done, at, bucket, report, before, spc>>
  BY DEF LoadSum, At, GoTo, scrapeVars
<1>2. cells[at[p]].sum \in Nat
  BY <1>1, CellTypes DEF CallerView, CallerPart
<1>3. MetricsTypes'
  BY <1>1, <1>2 DEF MetricsTypes, Places
<1>4. mpc'[p] = "cas" /\ OthersAlone(p)
  BY <1>1 DEF OthersAlone, MetricsTypes
<1>5. CallerPart(p)'
  BY <1>1, <1>4, SMTT(30) DEF CallerView, CallerPart, SeriesOf, Current
<1>6. SeriesStay /\ SeriesView'
  BY <1>1 DEF SeriesStay, SeriesView, SeriesPlaced, OthersZero
<1> QED
  BY <1>1, <1>3, <1>4, <1>5, <1>6, OthersKeep DEF CallKeeps

LEMMA CasSumKeeps ==
    ASSUME MetricsTypes, CallerView, SeriesView, NEW p \in Callers, CasSum(p)
    PROVE  CallKeeps(p)
<1>1. /\ mpc[p] = "cas" /\ mpc' = [mpc EXCEPT ![p] = "idle"]
      /\ cells' = [cells EXCEPT ![at[p]].sum = old[p] + Current(p).value]
      /\ done' = [done EXCEPT ![p] = @ + 1] /\ old' = [old EXCEPT ![p] = 0]
      /\ UNCHANGED <<series, at, bucket, report, before, spc>>
  BY DEF CasSum, At, GoTo, scrapeVars
<1>2. /\ at[p] \in Calls /\ done[p] \in Nat /\ Len(Work[p]) \in Nat /\ done[p] < Len(Work[p])
      /\ Current(p).value \in Nat /\ old[p] \in Nat
  BY <1>1, MetricsAssumption, LenProperties, CallerFacts DEF CallerView, CallerPart, MetricsTypes
<1>3. /\ cells' \in [Calls -> Cells]
      /\ \A c \in Calls : c # at[p] => cells'[c] = cells[c]
  <2>0. PICK n \in Nat : n = old[p] + Current(p).value
    BY <1>2
  <2>1. PICK new \in Cells : new = [cells[at[p]] EXCEPT !.sum = n]
    BY <1>2, CellTypes DEF Cells
  <2>2. cells' = [cells EXCEPT ![at[p]] = new]
    BY <1>1, <2>0, <2>1
  <2> QED
    BY <1>2, <2>2 DEF MetricsTypes
<1>4. MetricsTypes'
  BY <1>1, <1>2, <1>3 DEF MetricsTypes, Places
<1>5. mpc'[p] = "idle" /\ done'[p] = done[p] + 1 /\ OthersAlone(p)
  BY <1>1 DEF OthersAlone, MetricsTypes
<1>6. SeriesView' /\ SeriesStay
  BY <1>1, <1>3, AdditionsRegistered
<1>7. CallerPart(p)'
  BY <1>1, <1>2, <1>5 DEF CallerView, CallerPart
<1> QED
  BY <1>1, <1>4, <1>5, <1>6, <1>7, OthersKeep DEF CallKeeps

LEMMA CasFailsKeeps ==
    ASSUME MetricsTypes, CallerView, SeriesView, NEW p \in Callers, CasFails(p)
    PROVE  CallKeeps(p)
<1>1. /\ mpc[p] = "cas" /\ mpc' = [mpc EXCEPT ![p] = "load"]
      /\ UNCHANGED <<series, cells, done, at, bucket, old, report, before, spc>>
  BY DEF CasFails, At, GoTo, scrapeVars
<1>2. MetricsTypes'
  BY <1>1 DEF MetricsTypes, Places
<1>3. mpc'[p] = "load" /\ OthersAlone(p)
  BY <1>1 DEF OthersAlone, MetricsTypes
<1>4. CallerPart(p)'
  BY <1>1, <1>3, SMTT(30) DEF CallerView, CallerPart, SeriesOf, Current
<1>5. SeriesStay /\ SeriesView'
  BY <1>1 DEF SeriesStay, SeriesView, SeriesPlaced, OthersZero
<1> QED
  BY <1>1, <1>2, <1>3, <1>4, <1>5, OthersKeep DEF CallKeeps

-----------------------------------------------------------------------------
(***************************************************************************)
(* The scrape                                                              *)
(***************************************************************************)
\* A call moves on, or is completed: it never takes anything back.
Advances(p) ==
    /\ \A q \in Callers \ {p} : mpc'[q] = mpc[q] /\ done'[q] = done[q]
    /\ \/ /\ done'[p] = done[p]
          /\ mpc[p] # "idle" => mpc'[p] # "idle"
          /\ mpc[p] \in {"load", "cas"} => mpc'[p] \in {"load", "cas"}
       \/ done'[p] = done[p] + 1 /\ mpc[p] # "idle" /\ mpc'[p] = "idle"

LEMMA CallAdvances ==
    ASSUME MetricsTypes, NEW p \in Callers, Begin(p) \/ CallStep(p)
    PROVE  Advances(p)
<1>0. mpc \in [Callers -> Places] /\ done \in [Callers -> Nat]
  BY DEF MetricsTypes
<1>1. CASE QuietCall(p)
  BY <1>0, <1>1 DEF QuietCall, Advances, Begin, Lookup, Lock, BucketsDone, LoadSum, CasFails,
                    GoTo, At, Entry
<1>2. CASE Create(p)
  BY <1>0, <1>2 DEF Advances, Create, GoTo, At, Entry
<1>3. CASE AddBucket(p)
  BY <1>0, <1>3 DEF Advances, AddBucket
<1>4. CASE AddCount(p)
  BY <1>0, <1>4 DEF Advances, AddCount, GoTo, At
<1>5. CASE CasSum(p)
  BY <1>0, <1>5 DEF Advances, CasSum, GoTo, At
<1> QED
  BY <1>1, <1>2, <1>3, <1>4, <1>5 DEF CallStep, QuietCall

LEMMA AdvanceGrows ==
    ASSUME MetricsTypes, MetricsTypes', NEW p \in Callers, Advances(p)
    PROVE  /\ \A q \in Callers : done[q] <= done'[q] /\ Begun[q] <= Begun'[q]
           /\ \A c \in Calls : Counted(c) => Counted(c)'
<1>0. /\ done \in [Callers -> Nat] /\ done' \in [Callers -> Nat]
  BY DEF MetricsTypes
<1>1. \A q \in Callers : Begun[q] = IF mpc[q] = "idle" THEN done[q] ELSE done[q] + 1
  BY DEF Begun
<1>2. \A q \in Callers : Begun'[q] = IF mpc'[q] = "idle" THEN done'[q] ELSE done'[q] + 1
  BY DEF Begun
<1>3. ASSUME NEW q \in Callers PROVE done[q] <= done'[q] /\ Begun[q] <= Begun'[q]
  BY <1>0, <1>1, <1>2 DEF Advances
<1>4. ASSUME NEW c \in Calls, Counted(c) PROVE Counted(c)'
  <2>1. c[1] \in Callers /\ c[2] \in Nat
    BY CallShape
  <2>2. CASE c[1] = p
    BY <1>0, <1>4, <2>1, <2>2 DEF Advances, Counted
  <2>3. CASE c[1] # p
    BY <1>0, <1>4, <2>1, <2>3 DEF Advances, Counted
  <2> QED
    BY <2>2, <2>3
<1> QED
  BY <1>3, <1>4

LEMMA ReportTypes ==
    ASSUME MetricsTypes, NEW v \in Vecs, NEW l \in Labels
    PROVE  /\ report[v][l] \in Seq(Nat) /\ Len(report[v][l]) \in Nat
           /\ DOMAIN report[v][l] = 1 .. Len(report[v][l])
           /\ \A i \in DOMAIN report[v][l] : report[v][l][i] \in Nat
<1>1. report[v][l] \in Seq(Nat)
  BY DEF MetricsTypes
<1> QED
  BY <1>1, LenProperties, ElementOfSeq

\* The lines of a tally keep its order.
LEMMA LinesGrow ==
    ASSUME NEW l, NEW n \in [Callers -> Nat], NEW m \in [Callers -> Nat],
           \A p \in Callers : n[p] <= m[p], NEW i \in Nat \ {0}
    PROVE  /\ Line(Tally("histogram", l, n), i) <= Line(Tally("histogram", l, m), i)
           /\ Line(Tally("histogram", l, n), i) \in Nat
           /\ Line(Tally("histogram", l, m), i) \in Nat
<1>1. /\ Tally("histogram", l, n).count <= Tally("histogram", l, m).count
      /\ Tally("histogram", l, n).sum <= Tally("histogram", l, m).sum
      /\ \A j \in DOMAIN Bounds :
             Tally("histogram", l, n).buckets[j] <= Tally("histogram", l, m).buckets[j]
  BY TallyGrows
<1>2. i <= Len(Bounds) => i \in DOMAIN Bounds
  BY MetricsAssumption, LenProperties
<1> QED
  BY <1>1, <1>2, TallyParts DEF Line

LEMMA HeldLines ==
    ASSUME MetricsTypes, HeldView, NEW l \in Labels, NEW i \in Nat \ {0}
    PROVE  /\ Line(Tally("histogram", l, done), i) <= Line(Held("histogram", l), i)
           /\ Line(Held("histogram", l), i) <= Line(Tally("histogram", l, Begun), i)
           /\ Line(Held("histogram", l), i) \in Nat
<1>1. "histogram" \in Vecs
  BY DEF Vecs
<1>2. i <= Len(Bounds) => i \in DOMAIN Bounds
  BY MetricsAssumption, LenProperties
<1>3. Held("histogram", l) \in Cells
  BY <1>1, HeldTypes
<1>4. /\ Held("histogram", l).count \in Nat /\ Held("histogram", l).sum \in Nat
      /\ \A j \in DOMAIN Bounds : Held("histogram", l).buckets[j] \in Nat
  BY <1>3 DEF Cells
<1>5. Line(Tally("histogram", l, done), i) <= Line(Held("histogram", l), i)
  BY <1>1, <1>2, HeldWithin DEF Line
<1>6. Line(Held("histogram", l), i) <= Line(Tally("histogram", l, Begun), i)
  BY <1>1, <1>2, HeldWithin DEF Line
<1>7. Line(Held("histogram", l), i) \in Nat
  BY <1>2, <1>4 DEF Line
<1> QED
  BY <1>5, <1>6, <1>7

\* What the two halves of ScrapeTruthful say of one label.
CounterTrue(l) ==
    \A i \in DOMAIN report["counter"][l] :
        /\ Tally("counter", l, before).count <= report["counter"][l][i]
        /\ report["counter"][l][i] <= Tally("counter", l, Begun).count

HistogramTrue(l) ==
    \A i \in DOMAIN report["histogram"][l] :
        /\ Line(Tally("histogram", l, before), i) <= report["histogram"][l][i]
        /\ report["histogram"][l][i] <= Line(Tally("histogram", l, Begun), i)
        /\ i = Lines => report["histogram"][l][Len(Bounds) + 1] <= report["histogram"][l][i]

LEMMA TruthByLabel ==
    ScrapeTruthful <=> \A l \in Labels : CounterTrue(l) /\ HistogramTrue(l)
BY DEF ScrapeTruthful, CounterTrue, HistogramTrue, Range

LEMMA CallKeepsScrape ==
    ASSUME MetricsTypes, HeldView, ScrapeView, ScrapeTruthful, NEW p \in Callers,
           Advances(p), MetricsTypes', HeldView', UNCHANGED <<report, before, spc>>
    PROVE  ScrapeView' /\ ScrapeTruthful'
<1>0. /\ done \in [Callers -> Nat] /\ done' \in [Callers -> Nat] /\ before \in [Callers -> Nat]
      /\ Begun \in [Callers -> Nat] /\ Begun' \in [Callers -> Nat]
      /\ "histogram" \in Vecs /\ "counter" \in Vecs
  <2>1. /\ done \in [Callers -> Nat] /\ done' \in [Callers -> Nat]
        /\ before \in [Callers -> Nat]
    BY DEF MetricsTypes
  <2>2. Begun \in [Callers -> Nat]
    BY <2>1 DEF Begun
  <2>3. Begun' \in [Callers -> Nat]
    BY <2>1 DEF Begun
  <2> QED
    BY <2>1, <2>2, <2>3 DEF Vecs
<1>1. /\ \A q \in Callers : done[q] <= done'[q] /\ Begun[q] <= Begun'[q]
      /\ \A c \in Calls : Counted(c) => Counted(c)'
  BY AdvanceGrows
<1>2. PICK b, e : b = Begun /\ e = Begun'
  OBVIOUS
<1>3. ASSUME NEW l \in Labels PROVE Held("histogram", l).count <= Held("histogram", l)'.count
  <2>1. CountedOn("histogram", l) \in SUBSET CountedOn("histogram", l)'
    BY <1>1 DEF CountedOn, CallsOf
  <2>2. CountedOn("histogram", l)' \in SUBSET Calls
    BY DEF CountedOn, CallsOf
  <2>3. Cardinality(CountedOn("histogram", l)) <= Cardinality(CountedOn("histogram", l)')
    BY <2>1, <2>2, CardinalityOfParts
  <2> QED
    BY <1>0, <2>3 DEF HeldView, CountsPart
<1>4. ScrapeView'
  <2>1. \A q \in Callers : before'[q] <= done'[q]
    BY <1>0, <1>1 DEF ScrapeView
  <2>2. ASSUME NEW l \in Labels, Len(report'["histogram"][l]) > Len(Bounds)
        PROVE  report'["histogram"][l][Len(Bounds) + 1] <= Held("histogram", l)'.count
    <3>1. report["histogram"][l][Len(Bounds) + 1] <= Held("histogram", l).count
      BY <2>2 DEF ScrapeView
    <3>2. Held("histogram", l) \in Cells /\ Held("histogram", l)' \in Cells
      BY <1>0, HeldTypes, SMTT(30) DEF Held, MetricsTypes, Cells, Zeros
    <3>3. Held("histogram", l).count \in Nat /\ Held("histogram", l)'.count \in Nat
      BY <3>2 DEF Cells
    <3>4. report["histogram"][l][Len(Bounds) + 1] \in Nat
      <4>1. Len(Bounds) + 1 \in DOMAIN report["histogram"][l]
        BY <1>0, <2>2, ReportTypes, MetricsAssumption, LenProperties
      <4> QED
        BY <1>0, <4>1, ReportTypes
    <3> QED
      BY <1>3, <3>1, <3>3, <3>4
  <2>3. spc' = "idle" => report' = Nothing
    BY DEF ScrapeView
  <2> QED
    BY <2>1, <2>2, <2>3 DEF ScrapeView, Nothing
<1>5. ASSUME NEW l \in Labels PROVE CounterTrue(l)'
  <2> SUFFICES ASSUME NEW i \in DOMAIN report["counter"][l]
               PROVE  /\ Tally("counter", l, before).count <= report["counter"][l][i]
                      /\ report["counter"][l][i] <= Tally("counter", l, e).count
    BY <1>2 DEF CounterTrue
  <2>1. /\ Tally("counter", l, before).count <= report["counter"][l][i]
        /\ report["counter"][l][i] <= Tally("counter", l, b).count
    BY <1>2, TruthByLabel DEF CounterTrue
  <2>2. Tally("counter", l, b).count <= Tally("counter", l, e).count
    BY <1>0, <1>1, <1>2, TallyGrows
  <2>3. /\ Tally("counter", l, b).count \in Nat /\ Tally("counter", l, e).count \in Nat
        /\ report["counter"][l][i] \in Nat
    BY <1>0, TallyParts, ReportTypes
  <2> QED
    BY <2>1, <2>2, <2>3
<1>6. ASSUME NEW l \in Labels PROVE HistogramTrue(l)'
  <2> SUFFICES ASSUME NEW i \in DOMAIN report["histogram"][l]
               PROVE  /\ Line(Tally("histogram", l, before), i) <= report["histogram"][l][i]
                      /\ report["histogram"][l][i] <= Line(Tally("histogram", l, e), i)
                      /\ i = Lines => report["histogram"][l][Len(Bounds) + 1]
                                          <= report["histogram"][l][i]
    BY <1>2 DEF HistogramTrue
  <2>1. /\ Line(Tally("histogram", l, before), i) <= report["histogram"][l][i]
        /\ report["histogram"][l][i] <= Line(Tally("histogram", l, b), i)
        /\ i = Lines => report["histogram"][l][Len(Bounds) + 1] <= report["histogram"][l][i]
    BY <1>2, TruthByLabel DEF HistogramTrue
  <2>2. i \in Nat \ {0} /\ report["histogram"][l][i] \in Nat
    BY <1>0, ReportTypes, SMTT(30)
  <2>3. /\ Line(Tally("histogram", l, b), i) <= Line(Tally("histogram", l, e), i)
        /\ Line(Tally("histogram", l, b), i) \in Nat /\ Line(Tally("histogram", l, e), i) \in Nat
    BY <1>0, <1>1, <1>2, <2>2, LinesGrow
  <2> QED
    BY <2>1, <2>2, <2>3
<1>7. ScrapeTruthful'
  BY <1>5, <1>6, TruthByLabel DEF ScrapeTruthful, CounterTrue, HistogramTrue, Range
<1> QED
  BY <1>4, <1>7

\* What a step of the scraper leaves alone.
ScraperOnly == UNCHANGED <<series, cells, locking, callerVars>>

LEMMA ScraperKeeps ==
    ASSUME MetricsTypes, CallerView, SeriesView, HeldView, ScraperOnly,
           report' \in [Vecs -> [Labels -> Seq(Nat)]], before' \in [Callers -> Nat]
    PROVE  /\ MetricsTypes' /\ CallerView' /\ SeriesView' /\ HeldView'
           /\ Begun' = Begun /\ \A v, l : Held(v, l)' = Held(v, l)
<1>1. UNCHANGED <<series, cells, mpc, done, at, bucket, old>>
  BY DEF ScraperOnly, callerVars
<1>2. MetricsTypes'
  BY <1>1 DEF MetricsTypes
<1>3. CallerView'
  BY <1>1 DEF CallerView, CallerPart, SeriesOf, Current
<1>4. SeriesView'
  BY <1>1 DEF SeriesView, SeriesPlaced, OthersZero
<1>5. \A v, l : Held(v, l)' = Held(v, l)
  BY <1>1 DEF Held
<1>6. HeldView'
  <2>1. \A c \in Calls : Counted(c)' <=> Counted(c)
    BY <1>1 DEF Counted
  <2>2. \A l \in Labels : \A c \in CallsOf("histogram", l) : \A i \in DOMAIN Bounds :
            Passed(c, i)' <=> Passed(c, i)
    BY <1>1 DEF Passed
  <2> QED
    BY <1>1, <1>5, <2>1, <2>2, HeldSame
<1>7. Begun' = Begun
  BY <1>1 DEF Begun
<1> QED
  BY <1>2, <1>3, <1>4, <1>5, <1>6, <1>7

\* The steps that write nothing, or begin a report anew.
LEMMA NothingIsReport ==
    /\ Nothing \in [Vecs -> [Labels -> Seq(Nat)]]
    /\ \A v \in Vecs, l \in Labels : Nothing[v][l] = << >>
<1>1. << >> \in Seq(Nat)
  OBVIOUS
<1> QED
  BY <1>1 DEF Nothing

LEMMA NothingIsTrue ==
    ASSUME MetricsTypes, CallerView, SeriesView, HeldView, ScraperOnly, report' = Nothing,
           before' \in [Callers -> Nat], \A p \in Callers : before'[p] <= done[p]
    PROVE  MetricsInv'
<1>1. report' \in [Vecs -> [Labels -> Seq(Nat)]]
  BY NothingIsReport
<1>2. MetricsTypes' /\ CallerView' /\ SeriesView' /\ HeldView'
  BY <1>1, ScraperKeeps
<1>3. \A l \in Labels : report'["counter"][l] = << >> /\ report'["histogram"][l] = << >>
  BY NothingIsReport DEF Vecs
<1>4. ScrapeView'
  <2>1. done' = done
    BY DEF ScraperOnly, callerVars
  <2>2. Len(Bounds) \in Nat /\ Len(<< >>) = 0
    BY MetricsAssumption, LenProperties
  <2>3. \A l \in Labels : ~ (Len(report'["histogram"][l]) > Len(Bounds))
    BY <1>3, <2>2
  <2> QED
    BY <2>1, <2>3 DEF ScrapeView, Nothing
<1>5. ScrapeTruthful'
  BY <1>3 DEF ScrapeTruthful, Range
<1> QED
  BY <1>2, <1>4, <1>5 DEF MetricsInv

LEMMA WritesNothing ==
    ASSUME MetricsInv, ScraperOnly, UNCHANGED <<report, before>>,
           spc' = "idle" => spc = "idle"
    PROVE  MetricsInv'
<1>1. MetricsTypes /\ CallerView /\ SeriesView /\ HeldView /\ ScrapeView /\ ScrapeTruthful
  BY DEF MetricsInv
<1>2. report' \in [Vecs -> [Labels -> Seq(Nat)]] /\ before' \in [Callers -> Nat]
  BY <1>1 DEF MetricsTypes
<1>3. /\ MetricsTypes' /\ CallerView' /\ SeriesView' /\ HeldView'
      /\ Begun' = Begun /\ \A v, l : Held(v, l)' = Held(v, l)
  BY <1>1, <1>2, ScraperKeeps
<1>4. ScrapeView'
  BY <1>1, <1>3 DEF ScrapeView, Nothing, ScraperOnly, callerVars
<1>5. ScrapeTruthful'
  BY <1>1, <1>3 DEF ScrapeTruthful
<1> QED
  BY <1>3, <1>4, <1>5 DEF MetricsInv

\* One more value in a report.
LEMMA ReportGrows ==
    ASSUME MetricsTypes, NEW v \in Vecs, NEW l \in Labels, NEW n \in Nat, Write(v, l, n)
    PROVE  /\ report' \in [Vecs -> [Labels -> Seq(Nat)]]
           /\ Len(report'[v][l]) = Len(report[v][l]) + 1
           /\ report'[v][l][Len(report[v][l]) + 1] = n
           /\ \A i \in 1 .. Len(report[v][l]) : report'[v][l][i] = report[v][l][i]
           /\ DOMAIN report'[v][l] = 1 .. Len(report[v][l]) + 1
           /\ \A w \in Vecs, k \in Labels :
                  ~ (w = v /\ k = l) => report'[w][k] = report[w][k]
<1>1. report \in [Vecs -> [Labels -> Seq(Nat)]]
  BY DEF MetricsTypes
<1>2. PICK s \in Seq(Nat) : s = report[v][l]
  BY <1>1
<1>3. PICK u \in Seq(Nat) : u = Append(s, n)
  <2>1. Append(s, n) \in Seq(Nat)
    BY AppendProperties
  <2> QED
    BY <2>1, Zenon
<1>4. report' = [report EXCEPT ![v][l] = u]
  BY <1>2, <1>3 DEF Write
<1>5. /\ Len(u) = Len(s) + 1 /\ u[Len(s) + 1] = n
      /\ \A i \in 1 .. Len(s) : u[i] = s[i]
      /\ DOMAIN u = 1 .. Len(s) + 1
  BY <1>2, <1>3
<1>6. report' \in [Vecs -> [Labels -> Seq(Nat)]]
  BY <1>1, <1>3, <1>4
<1>7. report'[v][l] = u
  BY <1>1, <1>4
<1>8. \A w \in Vecs, k \in Labels : ~ (w = v /\ k = l) => report'[w][k] = report[w][k]
  BY <1>1, <1>4
<1> QED
  BY <1>2, <1>5, <1>6, <1>7, <1>8

LEMMA BeforeDone ==
    ASSUME MetricsTypes, ScrapeView
    PROVE  /\ before \in [Callers -> Nat] /\ done \in [Callers -> Nat]
           /\ \A p \in Callers : before[p] <= done[p]
BY DEF MetricsTypes, ScrapeView

LEMMA LoadCounterInv ==
    ASSUME MetricsInv, LoadCounter
    PROVE  MetricsInv'
<1>0. MetricsTypes /\ CallerView /\ SeriesView /\ HeldView /\ ScrapeView /\ ScrapeTruthful
  BY DEF MetricsInv
<1>1. /\ ScraperOnly /\ UNCHANGED <<spc, before>> /\ "counter" \in Vecs /\ "histogram" \in Vecs
      /\ spc = "counter"
  BY DEF LoadCounter, ScraperOnly, Vecs
<1>2. PICK l0 \in Labels : /\ l0 \in Unwritten("counter")
                           /\ Write("counter", l0, cells[series["counter"][l0]].count)
  BY DEF LoadCounter, Unwritten
<1>3. PICK n : n = Held("counter", l0).count
  OBVIOUS
<1>4. Write("counter", l0, n)
  BY <1>2, <1>3 DEF Held, Unwritten
<1>5. n \in Nat
  <2>1. Held("counter", l0) \in Cells
    BY <1>0, <1>1, HeldTypes
  <2> QED
    BY <1>3, <2>1 DEF Cells
<1>6. Tally("counter", l0, before).count <= n /\ n <= Tally("counter", l0, Begun).count
  <2>1. /\ Tally("counter", l0, done).count <= n
        /\ n <= Tally("counter", l0, Begun).count
    BY <1>0, <1>1, <1>3, HeldWithin
  <2>2. Tally("counter", l0, before).count <= Tally("counter", l0, done).count
    BY <1>0, BeforeDone, TallyGrows
  <2>3. /\ Tally("counter", l0, before).count \in Nat
        /\ Tally("counter", l0, done).count \in Nat
    BY TallyParts
  <2> QED
    BY <1>5, <2>1, <2>2, <2>3
<1>7. PICK m : m = Len(report["counter"][l0])
  OBVIOUS
<1>8. /\ report' \in [Vecs -> [Labels -> Seq(Nat)]] /\ m \in Nat
      /\ report'["counter"][l0][m + 1] = n
      /\ \A i \in 1 .. m : report'["counter"][l0][i] = report["counter"][l0][i]
      /\ DOMAIN report'["counter"][l0] = 1 .. m + 1 /\ DOMAIN report["counter"][l0] = 1 .. m
      /\ \A w \in Vecs, k \in Labels : ~ (w = "counter" /\ k = l0) => report'[w][k] = report[w][k]
  <2>1. /\ report' \in [Vecs -> [Labels -> Seq(Nat)]]
        /\ report'["counter"][l0][Len(report["counter"][l0]) + 1] = n
        /\ \A i \in 1 .. Len(report["counter"][l0]) :
               report'["counter"][l0][i] = report["counter"][l0][i]
        /\ DOMAIN report'["counter"][l0] = 1 .. Len(report["counter"][l0]) + 1
        /\ \A w \in Vecs, k \in Labels :
               ~ (w = "counter" /\ k = l0) => report'[w][k] = report[w][k]
    BY <1>0, <1>1, <1>4, <1>5, ReportGrows, SMTT(30)
  <2>2. m \in Nat /\ DOMAIN report["counter"][l0] = 1 .. m
    BY <1>0, <1>1, <1>7, ReportTypes
  <2> QED
    BY <1>7, <2>1, <2>2, Zenon
<1>9. /\ MetricsTypes' /\ CallerView' /\ SeriesView' /\ HeldView'
      /\ Begun' = Begun /\ \A v, l : Held(v, l)' = Held(v, l)
  <2>1. before' \in [Callers -> Nat]
    BY <1>0, <1>1 DEF MetricsTypes
  <2> QED
    BY <1>0, <1>1, <1>8, <2>1, ScraperKeeps
<1>10. \A l \in Labels : report'["histogram"][l] = report["histogram"][l]
  BY <1>1, <1>8
<1>11. ScrapeView'
  BY <1>0, <1>1, <1>9, <1>10 DEF ScrapeView, ScraperOnly, callerVars
<1>12. ASSUME NEW l \in Labels PROVE CounterTrue(l)'
  <2>0. CounterTrue(l)
    BY <1>0, TruthByLabel
  <2>1. CASE l = l0
    <3> SUFFICES ASSUME NEW i \in 1 .. m + 1
                 PROVE  /\ Tally("counter", l, before).count <= report'["counter"][l][i]
                        /\ report'["counter"][l][i] <= Tally("counter", l, Begun).count
      BY <1>1, <1>8, <1>9, <2>1 DEF CounterTrue
    <3>1. CASE i = m + 1
      BY <1>6, <1>8, <2>1, <3>1
    <3>2. CASE i # m + 1
      <4>1. i \in 1 .. m
        BY <1>8, <3>2
      <4> QED
        BY <1>8, <2>0, <2>1, <4>1 DEF CounterTrue
    <3> QED
      BY <3>1, <3>2
  <2>2. CASE l # l0
    BY <1>1, <1>8, <1>9, <2>0, <2>2 DEF CounterTrue
  <2> QED
    BY <2>1, <2>2
<1>13. ASSUME NEW l \in Labels PROVE HistogramTrue(l)'
  <2>0. HistogramTrue(l)
    BY <1>0, TruthByLabel
  <2> QED
    BY <1>1, <1>9, <1>10, <2>0 DEF HistogramTrue
<1>14. ScrapeTruthful'
  BY <1>12, <1>13 DEF ScrapeTruthful, CounterTrue, HistogramTrue, Range
<1> QED
  BY <1>9, <1>11, <1>14 DEF MetricsInv

LEMMA LoadLineInv ==
    ASSUME MetricsInv, LoadLine
    PROVE  MetricsInv'
<1>0. MetricsTypes /\ CallerView /\ SeriesView /\ HeldView /\ ScrapeView /\ ScrapeTruthful
  BY DEF MetricsInv
<1>1. /\ ScraperOnly /\ UNCHANGED <<spc, before>> /\ "counter" \in Vecs /\ "histogram" \in Vecs
      /\ spc = "histogram"
  BY DEF LoadLine, ScraperOnly, Vecs
<1>2. PICK l0 \in Labels :
          /\ series["histogram"][l0] # NoSeries /\ Written(l0) < Lines
          /\ Write("histogram", l0, LineValue(series["histogram"][l0], Written(l0) + 1))
  BY DEF LoadLine
<1>3. PICK m : m = Len(report["histogram"][l0])
  OBVIOUS
<1>4. /\ m \in Nat /\ m + 1 \in Nat \ {0} /\ Len(Bounds) \in Nat
      /\ DOMAIN report["histogram"][l0] = 1 .. m
  BY <1>0, <1>1, <1>3, ReportTypes, MetricsAssumption, LenProperties
<1>5. PICK n : n = Line(Held("histogram", l0), m + 1)
  OBVIOUS
<1>6. Write("histogram", l0, n)
  BY <1>2, <1>3, <1>5 DEF Held, Line, LineValue, Written
<1>7. n \in Nat
  BY <1>0, <1>4, <1>5, HeldLines
<1>8. /\ Line(Tally("histogram", l0, before), m + 1) <= n
      /\ n <= Line(Tally("histogram", l0, Begun), m + 1)
  <2>1. /\ Line(Tally("histogram", l0, done), m + 1) <= n
        /\ n <= Line(Tally("histogram", l0, Begun), m + 1)
    BY <1>0, <1>4, <1>5, HeldLines
  <2>2. /\ Line(Tally("histogram", l0, before), m + 1) <= Line(Tally("histogram", l0, done), m + 1)
        /\ Line(Tally("histogram", l0, before), m + 1) \in Nat
        /\ Line(Tally("histogram", l0, done), m + 1) \in Nat
    BY <1>0, <1>4, BeforeDone, LinesGrow
  <2> QED
    BY <1>7, <2>1, <2>2
<1>9. /\ report' \in [Vecs -> [Labels -> Seq(Nat)]]
      /\ report'["histogram"][l0][m + 1] = n
      /\ \A i \in 1 .. m : report'["histogram"][l0][i] = report["histogram"][l0][i]
      /\ DOMAIN report'["histogram"][l0] = 1 .. m + 1 /\ Len(report'["histogram"][l0]) = m + 1
      /\ \A w \in Vecs, k \in Labels : ~ (w = "histogram" /\ k = l0) => report'[w][k] = report[w][k]
  <2>1. /\ report' \in [Vecs -> [Labels -> Seq(Nat)]]
        /\ report'["histogram"][l0][Len(report["histogram"][l0]) + 1] = n
        /\ \A i \in 1 .. Len(report["histogram"][l0]) :
               report'["histogram"][l0][i] = report["histogram"][l0][i]
        /\ DOMAIN report'["histogram"][l0] = 1 .. Len(report["histogram"][l0]) + 1
        /\ Len(report'["histogram"][l0]) = Len(report["histogram"][l0]) + 1
        /\ \A w \in Vecs, k \in Labels :
               ~ (w = "histogram" /\ k = l0) => report'[w][k] = report[w][k]
    BY <1>0, <1>1, <1>6, <1>7, ReportGrows, SMTT(30)
  <2> QED
    BY <1>3, <2>1, Zenon
<1>10. /\ MetricsTypes' /\ CallerView' /\ SeriesView' /\ HeldView'
       /\ Begun' = Begun /\ \A v, l : Held(v, l)' = Held(v, l)
  <2>1. before' \in [Callers -> Nat]
    BY <1>0, <1>1 DEF MetricsTypes
  <2> QED
    BY <1>0, <1>1, <1>9, <2>1, ScraperKeeps
\* +Inf is the count when it is loaded, and _count is loaded later.
<1>11. m >= Len(Bounds) =>
           report'["histogram"][l0][Len(Bounds) + 1] <= Held("histogram", l0).count
  <2>0. Held("histogram", l0).count \in Nat
    <3>1. Held("histogram", l0) \in Cells
      BY <1>0, <1>1, HeldTypes
    <3> QED
      BY <3>1 DEF Cells
  <2>1. CASE m = Len(Bounds)
    <3>1. n = Held("histogram", l0).count
      BY <1>4, <1>5, <2>1 DEF Line
    <3> QED
      BY <1>9, <2>0, <2>1, <3>1
  <2>2. CASE m > Len(Bounds)
    <3>1. report["histogram"][l0][Len(Bounds) + 1] <= Held("histogram", l0).count
      BY <1>0, <1>3, <2>2 DEF ScrapeView
    <3>2. Len(Bounds) + 1 \in 1 .. m
      BY <1>4, <2>2
    <3> QED
      BY <1>9, <3>1, <3>2
  <2> QED
    BY <1>4, <2>1, <2>2
<1>12. ScrapeView'
  <2>1. ASSUME NEW l \in Labels, Len(report'["histogram"][l]) > Len(Bounds)
        PROVE  report'["histogram"][l][Len(Bounds) + 1] <= Held("histogram", l)'.count
    <3>1. CASE l = l0
      <4>1. m >= Len(Bounds)
        BY <1>4, <1>9, <2>1, <3>1
      <4> QED
        BY <1>10, <1>11, <3>1, <4>1
    <3>2. CASE l # l0
      BY <1>0, <1>1, <1>9, <1>10, <2>1, <3>2 DEF ScrapeView
    <3> QED
      BY <3>1, <3>2
  <2>2. \A p \in Callers : before'[p] <= done'[p]
    BY <1>0, <1>1 DEF ScrapeView, ScraperOnly, callerVars
  <2>3. spc' # "idle"
    BY <1>1
  <2> QED
    BY <2>1, <2>2, <2>3 DEF ScrapeView
<1>13. ASSUME NEW l \in Labels PROVE HistogramTrue(l)'
  <2>0. HistogramTrue(l)
    BY <1>0, TruthByLabel
  <2>1. CASE l = l0
    <3> SUFFICES ASSUME NEW i \in 1 .. m + 1
                 PROVE  /\ Line(Tally("histogram", l, before), i) <= report'["histogram"][l][i]
                        /\ report'["histogram"][l][i] <= Line(Tally("histogram", l, Begun), i)
                        /\ i = Lines => report'["histogram"][l][Len(Bounds) + 1]
                                            <= report'["histogram"][l][i]
      BY <1>1, <1>9, <1>10, <2>1 DEF HistogramTrue
    <3>1. CASE i = m + 1
      <4>1. i = Lines => n = Held("histogram", l0).count /\ m >= Len(Bounds)
        BY <1>4, <1>5, <3>1 DEF Lines, Line
      <4> QED
        BY <1>8, <1>9, <1>11, <2>1, <3>1, <4>1
    <3>2. CASE i # m + 1
      <4>1. i \in 1 .. m
        BY <1>4, <3>2
      <4>2. i = Lines => Len(Bounds) + 1 \in 1 .. m
        BY <1>4, <4>1 DEF Lines
      <4> QED
        BY <1>4, <1>9, <2>0, <2>1, <4>1, <4>2 DEF HistogramTrue
    <3> QED
      BY <3>1, <3>2
  <2>2. CASE l # l0
    <3>1. report'["histogram"][l] = report["histogram"][l]
      BY <1>1, <1>9, <2>2
    <3> QED
      BY <1>1, <1>10, <2>0, <3>1 DEF HistogramTrue
  <2> QED
    BY <2>1, <2>2
<1>14. ASSUME NEW l \in Labels PROVE CounterTrue(l)'
  <2>0. CounterTrue(l)
    BY <1>0, TruthByLabel
  <2>1. report'["counter"][l] = report["counter"][l]
    BY <1>1, <1>9
  <2> QED
    BY <1>1, <1>10, <2>0, <2>1 DEF CounterTrue
<1>15. ScrapeTruthful'
  BY <1>13, <1>14 DEF ScrapeTruthful, CounterTrue, HistogramTrue, Range
<1> QED
  BY <1>10, <1>12, <1>15 DEF MetricsInv

-----------------------------------------------------------------------------
(***************************************************************************)
(* The invariant                                                           *)
(***************************************************************************)
LEMMA InitialMetrics == MetricsInit => MetricsInv
<1> SUFFICES ASSUME MetricsInit PROVE MetricsInv
  OBVIOUS
<1>0. \A p \in Callers : Len(Work[p]) \in Nat
  BY MetricsAssumption, LenProperties
<1>1. Len(Bounds) \in Nat /\ 1 \in 1 .. Len(Bounds) + 1
  BY MetricsAssumption, LenProperties
<1>2. MetricsTypes
  <2>1. Zeros \in Cells
    BY DEF Zeros, Cells
  <2> QED
    BY <1>1, <2>1, NothingIsReport DEF MetricsInit, MetricsTypes, Places
<1>3. CallerView
  BY <1>0 DEF MetricsInit, CallerView, CallerPart
<1>4. NoSeries \notin Calls
  BY MetricsAssumption
<1>5. \A v \in Vecs, l \in Labels : series[v][l] = NoSeries
  BY DEF MetricsInit
<1>6. SeriesView
  <2>1. \A c \in Calls : cells[c] = Zeros
    BY DEF MetricsInit
  <2> QED
    BY <1>4, <1>5, <2>1 DEF SeriesView, SeriesPlaced, OthersZero
<1>7. ASSUME NEW c \in Calls
      PROVE  ~ (c[2] <= done[c[1]]) /\ ~ Counted(c) /\ \A i \in DOMAIN Bounds : ~ Passed(c, i)
  <2>1. c[1] \in Callers /\ c[2] \in 1 .. Len(Work[c[1]])
    BY CallShape
  <2>2. done[c[1]] = 0 /\ mpc[c[1]] = "idle" /\ Len(Work[c[1]]) \in Nat
    BY <1>0, <2>1 DEF MetricsInit
  <2>3. ~ (c[2] <= 0)
    BY <2>1, <2>2
  <2> QED
    BY <2>2, <2>3 DEF Counted, Passed
<1>8. HeldView
  <2>0. Cardinality({}) = 0
    BY FS_EmptySet
  <2>1. \A v \in Vecs, l \in Labels : Held(v, l) = Zeros /\ CountedOn(v, l) = {}
    BY <1>5, <1>7 DEF Held, CountedOn, CallsOf
  <2>2. \A l \in Labels, i \in DOMAIN Bounds : BucketedOn(l, i) = {}
    BY <1>7 DEF BucketedOn, CallsOf
  <2>3. \A l \in Labels : CallsOn("histogram", l, done) = {}
    BY <1>7 DEF CallsOn
  <2>4. \A v \in Vecs, l \in Labels : CountsPart(v, l)
    BY <2>0, <2>1 DEF CountsPart, Zeros
  <2>5. \A l \in Labels : BucketsPart(l)
    BY <2>0, <2>1, <2>2 DEF BucketsPart, Zeros, Vecs
  <2>6. \A l \in Labels : SumPart(l)
    BY <2>1, <2>3, SumOfNone DEF SumPart, Zeros, Vecs
  <2> QED
    BY <2>4, <2>5, <2>6 DEF HeldView
<1>9. \A l \in Labels : report["counter"][l] = << >> /\ report["histogram"][l] = << >>
  BY NothingIsReport DEF MetricsInit, Vecs
<1>10. ScrapeView
  <2>1. \A l \in Labels : ~ (Len(report["histogram"][l]) > Len(Bounds))
    BY <1>1, <1>9, LenProperties
  <2> QED
    BY <2>1 DEF ScrapeView, MetricsInit
<1>11. ScrapeTruthful
  BY <1>9 DEF ScrapeTruthful, Range
<1> QED
  BY <1>2, <1>3, <1>6, <1>8, <1>10, <1>11 DEF MetricsInv

LEMMA CallInv ==
    ASSUME MetricsInv, NEW p \in Callers, Begin(p) \/ CallStep(p)
    PROVE  MetricsInv'
<1>0. MetricsTypes /\ CallerView /\ SeriesView /\ HeldView /\ ScrapeView /\ ScrapeTruthful
  BY DEF MetricsInv
<1>1. CASE QuietCall(p)
  <2>1. CallKeeps(p)
    BY <1>0, <1>1, BeginKeeps, LookupKeeps, LockKeeps, BucketsDoneKeeps, LoadSumKeeps, CasFailsKeeps
       DEF QuietCall
  <2>2. HeldView'
    BY <1>0, <1>1, QuietHeld
  <2> QED
    BY <1>0, <2>1, <2>2, CallAdvances, CallKeepsScrape DEF CallKeeps, MetricsInv
<1>2. CASE Create(p)
  BY <1>0, <1>2, CreateKeeps, CreateHeld, CallAdvances, CallKeepsScrape DEF CallKeeps, MetricsInv
<1>3. CASE AddBucket(p)
  BY <1>0, <1>3, AddBucketKeeps, AddBucketHeld, CallAdvances, CallKeepsScrape
     DEF CallKeeps, MetricsInv
<1>4. CASE AddCount(p)
  BY <1>0, <1>4, AddCountKeeps, AddCountHeld, CallAdvances, CallKeepsScrape
     DEF CallKeeps, MetricsInv
<1>5. CASE CasSum(p)
  BY <1>0, <1>5, CasSumKeeps, CasSumHeld, CallAdvances, CallKeepsScrape DEF CallKeeps, MetricsInv
<1> QED
  BY <1>1, <1>2, <1>3, <1>4, <1>5 DEF CallStep, QuietCall

LEMMA ScraperInv ==
    ASSUME MetricsInv, ScrapeBegins \/ ScrapeStep \/ Stall
    PROVE  MetricsInv'
<1>0. MetricsTypes /\ CallerView /\ SeriesView /\ HeldView /\ ScrapeView
  BY DEF MetricsInv
<1>1. CASE ScrapeBegins
  <2>1. ScraperOnly /\ before' = done /\ report' = Nothing
    BY <1>0, <1>1 DEF ScrapeBegins, ScraperOnly, ScrapeView
  <2>2. before' \in [Callers -> Nat] /\ \A p \in Callers : before'[p] <= done[p]
    BY <1>0, <2>1 DEF MetricsTypes
  <2> QED
    BY <1>0, <2>1, <2>2, NothingIsTrue
<1>2. CASE LoadCounter
  BY <1>2, LoadCounterInv
<1>3. CASE LoadLine
  BY <1>3, LoadLineInv
<1>4. CASE HistogramEnds
  <2>1. ScraperOnly /\ report' = Nothing /\ before' = [p \in Callers |-> 0]
    BY <1>4 DEF HistogramEnds, ScraperOnly
  <2>2. before' \in [Callers -> Nat] /\ \A p \in Callers : before'[p] <= done[p]
    BY <1>0, <2>1 DEF MetricsTypes
  <2> QED
    BY <1>0, <2>1, <2>2, NothingIsTrue
<1>5. CASE SnapshotEnds \/ HistogramBegins \/ Stall
  <2>1. ScraperOnly /\ UNCHANGED <<report, before>> /\ (spc' = "idle" => spc = "idle")
    BY <1>5 DEF SnapshotEnds, HistogramBegins, Stall, ScraperOnly
  <2> QED
    BY <2>1, WritesNothing
<1> QED
  BY <1>1, <1>2, <1>3, <1>4, <1>5 DEF ScrapeStep

LEMMA MetricsInvariance == MetricsSpec => []MetricsInv
<1>1. MetricsInit => MetricsInv
  BY InitialMetrics
<1>2. MetricsInv /\ [MetricsNext]_metricsVars => MetricsInv'
  <2> SUFFICES ASSUME MetricsInv, [MetricsNext]_metricsVars PROVE MetricsInv'
    OBVIOUS
  <2>1. CASE \E p \in Callers : Begin(p) \/ CallStep(p)
    BY <2>1, CallInv
  <2>2. CASE ScrapeBegins \/ ScrapeStep \/ Stall
    BY <2>2, ScraperInv
  <2>3. CASE UNCHANGED metricsVars
    <3>1. ScraperOnly /\ UNCHANGED <<report, before>> /\ (spc' = "idle" => spc = "idle")
      BY <2>3 DEF metricsVars, scrapeVars, ScraperOnly
    <3> QED
      BY <3>1, WritesNothing
  <2> QED
    BY <2>1, <2>2, <2>3 DEF MetricsNext
<1> QED
  BY <1>1, <1>2, PTL DEF MetricsSpec

(***************************************************************************)
(* Inc and Observe lose no call and count none twice, however many         *)
(* handlers race to create a series and to add to its sum.                 *)
(***************************************************************************)
THEOREM MetricsLoseNothing == MetricsSpec => []NothingLost
<1>1. MetricsInv => NothingLost
  BY NothingLostFollows DEF MetricsInv
<1> QED
  BY <1>1, MetricsInvariance, PTL

(***************************************************************************)
(* Every line that WritePrometheus writes counts all calls completed       *)
(* before the scrape and none that had not begun, and +Inf is at most      *)
(* _count, although calls run beside it.                                   *)
(***************************************************************************)
THEOREM ScrapesTellTruth == MetricsSpec => []ScrapeTruthful
<1>1. MetricsInv => ScrapeTruthful
  BY DEF MetricsInv
<1> QED
  BY <1>1, MetricsInvariance, PTL
==============================================================================
