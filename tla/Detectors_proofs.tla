-------------------------- MODULE Detectors_proofs ---------------------------
(***************************************************************************)
(* Proofs that the two detectors compute what they should, for any         *)
(* alphabet, patterns and texts, and for any candidates.                   *)
(***************************************************************************)
EXTENDS InjectionMatcher, LuhnCheck, Integers, TLAPS, FiniteSetTheorems,
        SequenceTheorems, WellFoundedInduction

-----------------------------------------------------------------------------
(***************************************************************************)
(* Numbers and lists                                                       *)
(***************************************************************************)
LEMMA Least ==
    ASSUME NEW S \in SUBSET Nat, S # {}
    PROVE  \E x \in S : \A y \in S : x <= y
<1> DEFINE R == OpToRel(<, Nat)
<1>1. IsWellFoundedOn(R, Nat)
  BY NatLessThanWellFounded
<1>2. \A x, y \in Nat : y < x => <<y, x>> \in R
  BY DEF OpToRel
<1> HIDE DEF R
<1>3. PICK x \in S : \A y \in S : ~ (<<y, x>> \in R)
  BY <1>1, WFMin
<1>4. \A y \in S : ~ (y < x)
  BY <1>2, <1>3
<1>5. \A y \in S : x <= y
  BY <1>4
<1> QED
  BY <1>5

\* Induction up to n, for a set that can be named.
LEMMA Upwards ==
    ASSUME NEW n \in Nat, NEW S, 0 \in S, \A i \in 1 .. n : i - 1 \in S => i \in S
    PROVE  0 .. n \subseteq S
<1> DEFINE B == (0 .. n) \ S
<1> SUFFICES ASSUME B # {} PROVE FALSE
  OBVIOUS
<1>1. PICK x \in B : \A y \in B : x <= y
  <2>1. B \in SUBSET Nat
    OBVIOUS
  <2> HIDE DEF B
  <2> QED
    BY <2>1, Least
<1>2. x \in 1 .. n /\ x - 1 \in 0 .. n
  BY <1>1
<1>3. x - 1 \notin B
  BY <1>1, <1>2
<1> QED
  BY <1>1, <1>2, <1>3

\* The lists that the loop of Only has built after 0, 1, ... n turns.
Built(g, s, T, n) ==
    /\ g \in [0 .. n -> Seq(T)]
    /\ g[0] = << >>
    /\ \A i \in 1 .. n : g[i] = IF s[i] \in T THEN Append(g[i - 1], s[i]) ELSE g[i - 1]

LEMMA BuiltExist ==
    ASSUME NEW s, NEW T, NEW n \in Nat
    PROVE  \E g : Built(g, s, T, n)
<1> DEFINE S == {i \in 0 .. n : \E g : Built(g, s, T, i)}
<1>1. 0 \in S
  <2> DEFINE h == [i \in 0 .. 0 |-> << >>]
  <2>1. Built(h, s, T, 0)
    BY DEF Built
  <2> QED
    BY <2>1
<1>2. ASSUME NEW x \in 1 .. n, x - 1 \in S PROVE x \in S
  <2>1. PICK g : Built(g, s, T, x - 1)
    BY <1>2
  <2> DEFINE last == IF s[x] \in T THEN Append(g[x - 1], s[x]) ELSE g[x - 1]
             h == [i \in 0 .. x |-> IF i = x THEN last ELSE g[i]]
  <2>2. g[x - 1] \in Seq(T) /\ g[0] = << >> /\ \A i \in 0 .. x - 1 : g[i] \in Seq(T)
    BY <1>2, <2>1 DEF Built
  <2>3. last \in Seq(T)
    BY <2>2
  <2> HIDE DEF last
  <2>4. h \in [0 .. x -> Seq(T)] /\ h[0] = << >>
    BY <2>2, <2>3
  <2>5. ASSUME NEW i \in 1 .. x
        PROVE  h[i] = IF s[i] \in T THEN Append(h[i - 1], s[i]) ELSE h[i - 1]
    <3>1. h[x] = last /\ h[x - 1] = g[x - 1]
      OBVIOUS
    <3>2. CASE i = x
      BY <3>1, <3>2 DEF last
    <3>3. CASE i # x
      <4>1. i \in 1 .. x - 1 /\ h[i] = g[i] /\ h[i - 1] = g[i - 1]
        BY <3>3
      <4> QED
        BY <2>1, <4>1 DEF Built
    <3> QED
      BY <3>2, <3>3
  <2> HIDE DEF h
  <2>6. Built(h, s, T, x)
    BY <2>4, <2>5 DEF Built
  <2> QED
    BY <2>6
<1> HIDE DEF S
<1>3. n \in S
  BY <1>1, <1>2, Upwards
<1> QED
  BY <1>3 DEF S

LEMMA OnlyIsBuilt ==
    ASSUME NEW s, NEW T, Len(s) \in Nat, NEW g, Built(g, s, T, Len(s))
    PROVE  Only(s, T) = g[Len(s)]
<1> DEFINE n == Len(s)
           Turn(f) == [i \in 0 .. n |->
                          IF i = 0 THEN << >>
                          ELSE IF s[i] \in T THEN Append(f[i - 1], s[i]) ELSE f[i - 1]]
           f0 == CHOOSE f : f = Turn(f)
<1>1. Only(s, T) = f0[n]
  BY DEF Only
<1>2. g = Turn(g)
  <2>1. g = [i \in 0 .. n |-> g[i]]
    BY DEF Built
  <2>2. \A i \in 0 .. n : g[i] = IF i = 0 THEN << >>
                                 ELSE IF s[i] \in T THEN Append(g[i - 1], s[i]) ELSE g[i - 1]
    <3>1. \A i \in 0 .. n : i = 0 \/ i \in 1 .. n
      OBVIOUS
    <3>2. g[0] = << >> /\ \A i \in 1 .. n : i # 0
      BY DEF Built
    <3> QED
      BY <3>1, <3>2 DEF Built
  <2> QED
    BY <2>1, <2>2
<1>3. f0 = Turn(f0)
  <2> HIDE DEF Turn
  <2> QED
    BY <1>2
<1> HIDE DEF f0
<1>4. \A i \in 0 .. n : f0[i] = IF i = 0 THEN << >>
                               ELSE IF s[i] \in T THEN Append(f0[i - 1], s[i]) ELSE f0[i - 1]
  BY <1>3
<1> DEFINE S == {i \in 0 .. n : f0[i] = g[i]}
<1>5. 0 \in S
  BY <1>4 DEF Built
<1>6. ASSUME NEW i \in 1 .. n, i - 1 \in S PROVE i \in S
  BY <1>4, <1>6 DEF Built
<1>7. 0 .. n \subseteq S
  <2>1. n \in Nat
    OBVIOUS
  <2> HIDE DEF S, n
  <2> QED
    BY <1>5, <1>6, <2>1, Upwards
<1> QED
  BY <1>1, <1>7

LEMMA RangeOfAppend ==
    ASSUME NEW A, NEW s \in Seq(A), NEW a \in A
    PROVE  Range(Append(s, a)) = Range(s) \cup {a}
<1>1. /\ Append(s, a) \in Seq(A) /\ Len(Append(s, a)) = Len(s) + 1 /\ Len(s) \in Nat
      /\ \A i \in 1 .. Len(s) : Append(s, a)[i] = s[i]
      /\ Append(s, a)[Len(s) + 1] = a
  BY AppendProperties
<1>2. DOMAIN s = 1 .. Len(s) /\ DOMAIN Append(s, a) = 1 .. Len(s) + 1
  BY <1>1, LenProperties
<1>3. \A i : i \in 1 .. Len(s) + 1 <=> i \in 1 .. Len(s) \/ i = Len(s) + 1
  BY <1>1
<1> QED
  BY <1>1, <1>2, <1>3, Zenon DEF Range

\* The members of T among the first i entries of s.
Kept(s, T, i) == {s[j] : j \in {k \in 1 .. i : s[k] \in T}}

\* What the built lists hold, and that none grows by more than one entry a turn.
LEMMA BuiltFacts ==
    ASSUME NEW s, NEW T, NEW n \in Nat, NEW g, Built(g, s, T, n)
    PROVE  \A i \in 0 .. n :
               Len(g[i]) \in Nat /\ Range(g[i]) = Kept(s, T, i)
<1> DEFINE Holds(i) == Len(g[i]) \in Nat /\ Range(g[i]) = Kept(s, T, i)
           S == {i \in 0 .. n : Holds(i)}
<1>1. 0 \in S
  BY DEF Built, Range, Kept
<1>2. ASSUME NEW i \in 1 .. n, i - 1 \in S PROVE i \in S
  <2>1. g[i - 1] \in Seq(T) /\ g[i] \in Seq(T) /\ Len(g[i]) \in Nat
    BY DEF Built
  <2>2. \A j : j \in 1 .. i <=> j \in 1 .. i - 1 \/ j = i
    OBVIOUS
  <2>3. Range(g[i - 1]) = Kept(s, T, i - 1)
    BY <1>2
  <2>4. CASE s[i] \in T
    <3>1. g[i] = Append(g[i - 1], s[i])
      BY <2>4 DEF Built
    <3>2. Range(g[i]) = Range(g[i - 1]) \cup {s[i]}
      BY <2>1, <2>4, <3>1, RangeOfAppend
    <3>3. Kept(s, T, i) = Kept(s, T, i - 1) \cup {s[i]}
      BY <2>2, <2>4 DEF Kept
    <3>4. Range(g[i]) = Kept(s, T, i)
      BY <2>3, <3>2, <3>3, Zenon
    <3> QED
      BY <2>1, <3>4
  <2>5. CASE s[i] \notin T
    <3>1. g[i] = g[i - 1]
      BY <2>5 DEF Built
    <3>2. {k \in 1 .. i : s[k] \in T} = {k \in 1 .. i - 1 : s[k] \in T}
      BY <2>2, <2>5
    <3>3. Kept(s, T, i) = Kept(s, T, i - 1)
      BY <3>2 DEF Kept
    <3> QED
      BY <2>1, <2>3, <3>1, <3>3
  <2> QED
    BY <2>4, <2>5
<1> HIDE DEF Holds
<1>3. 0 .. n \subseteq S
  BY <1>1, <1>2, Upwards
<1> QED
  BY <1>3 DEF Holds

LEMMA BuiltGrow ==
    ASSUME NEW s, NEW T, NEW n \in Nat, NEW g, Built(g, s, T, n), NEW i \in 0 .. n
    PROVE  Len(g[i]) <= Len(g[n])
<1> DEFINE S == {k \in 0 .. n : i <= k => Len(g[i]) <= Len(g[k])}
<1>1. \A k \in 0 .. n : g[k] \in Seq(T) /\ Len(g[k]) \in Nat
  BY DEF Built
<1>2. 0 \in S
  BY <1>1
<1>3. ASSUME NEW k \in 1 .. n, k - 1 \in S PROVE k \in S
  <2>1. Len(g[k - 1]) <= Len(g[k])
    <3>1. g[k] = g[k - 1] \/ (s[k] \in T /\ g[k] = Append(g[k - 1], s[k]))
      BY DEF Built
    <3>2. g[k - 1] \in Seq(T) /\ Len(g[k - 1]) \in Nat
      BY <1>1
    <3> QED
      BY <3>1, <3>2
  <2> QED
    BY <1>1, <1>3, <2>1
<1> HIDE DEF S
<1>4. 0 .. n \subseteq S
  BY <1>2, <1>3, Upwards
<1> QED
  BY <1>4 DEF S

\* An entry that a list has once is in what is built from it once.
LEMMA OnlyFacts ==
    ASSUME NEW s, NEW T, Len(s) \in Nat,
           \A j, k \in 1 .. Len(s) : s[j] \in T /\ s[j] = s[k] => j = k
    PROVE  /\ Only(s, T) \in Seq(T)
           /\ Range(Only(s, T)) = Kept(s, T, Len(s))
           /\ \A j, k \in 1 .. Len(Only(s, T)) : Only(s, T)[j] = Only(s, T)[k] => j = k
<1>1. PICK n \in Nat : n = Len(s)
  OBVIOUS
<1>2. PICK g : Built(g, s, T, n)
  BY BuiltExist
<1>3. Only(s, T) = g[n]
  BY <1>1, <1>2, OnlyIsBuilt, Zenon
<1>4. \A i \in 0 .. n : g[i] \in Seq(T) /\ Len(g[i]) \in Nat /\ DOMAIN g[i] = 1 .. Len(g[i])
  BY <1>2, LenProperties DEF Built
<1>5. \A i \in 0 .. n : Range(g[i]) = Kept(s, T, i)
  BY <1>2, BuiltFacts, Zenon
<1> DEFINE Once(i) == \A j, k \in 1 .. Len(g[i]) : g[i][j] = g[i][k] => j = k
           S == {i \in 0 .. n : Once(i)}
<1>6. 0 \in S
  BY <1>1, <1>2 DEF Built
<1>7. ASSUME NEW i \in 1 .. n, i - 1 \in S PROVE i \in S
  <2>1. CASE s[i] \notin T
    <3>1. g[i] = g[i - 1]
      BY <1>2, <2>1 DEF Built
    <3> QED
      BY <1>7, <3>1
  <2>2. CASE s[i] \in T
    <3>1. PICK h \in Seq(T) : h = g[i - 1]
      BY <1>4
    <3>2. g[i] = Append(h, s[i]) /\ Len(h) \in Nat
      <4>1. g[i] = Append(g[i - 1], s[i])
        BY <1>2, <2>2 DEF Built
      <4> QED
        BY <3>1, <4>1
    <3>3. /\ Len(g[i]) = Len(h) + 1 /\ g[i][Len(h) + 1] = s[i]
          /\ \A j \in 1 .. Len(h) : g[i][j] = h[j]
      BY <2>2, <3>1, <3>2, AppendProperties
    <3>4. s[i] \notin Range(h)
      <4>1. Range(h) = Kept(s, T, i - 1)
        <5>1. i - 1 \in 0 .. n
          OBVIOUS
        <5> QED
          BY <1>5, <3>1, <5>1, Zenon
      <4>2. \A j \in 1 .. i - 1 : j \in 1 .. Len(s) /\ i \in 1 .. Len(s) /\ j # i
        BY <1>1
      <4> QED
        BY <2>2, <4>1, <4>2 DEF Kept
    <3>5. \A j \in 1 .. Len(h) : h[j] # s[i]
      BY <3>1, <3>4, LenProperties DEF Range
    <3>6. \A j, k \in 1 .. Len(h) : h[j] = h[k] => j = k
      BY <1>7, <3>1
    <3>7. \A j : j \in 1 .. Len(g[i]) <=> j \in 1 .. Len(h) \/ j = Len(h) + 1
      BY <3>2, <3>3
    <3>8. Once(i)
      BY <3>3, <3>5, <3>6, <3>7
    <3> QED
      BY <3>8
  <2> QED
    BY <2>1, <2>2
<1> HIDE DEF Once
<1>8. 0 .. n \subseteq S
  <2> HIDE DEF S
  <2> QED
    BY <1>1, <1>6, <1>7, Upwards
<1>9. n \in 0 .. n
  BY <1>1
<1>10. Once(n)
  BY <1>8, <1>9
<1> QED
  <2>1. Range(g[n]) = Kept(s, T, Len(s))
    BY <1>1, <1>5, <1>9, Zenon
  <2> QED
    BY <1>3, <1>4, <1>9, <1>10, <2>1 DEF Once

-----------------------------------------------------------------------------
(***************************************************************************)
(* Sums over a list of numbers                                             *)
(***************************************************************************)
\* U gives the sum of v over each set of places up to n.
Sums(U, v, n) ==
    /\ U \in [SUBSET (1 .. n) -> Nat]
    /\ U[{}] = 0
    /\ \A s \in SUBSET (1 .. n) : \A x \in s : U[s] = U[s \ {x}] + v[x]

LEMMA SumsOfOneMore ==
    ASSUME NEW n \in Nat \ {0}, NEW v, \A i \in 1 .. n : v[i] \in Nat,
           NEW U, Sums(U, v, n - 1)
    PROVE  \E W : Sums(W, v, n)
<1> DEFINE D == 1 .. n
           E == 1 .. n - 1
           w(s) == IF n \in s THEN U[s \ {n}] + v[n] ELSE U[s]
           W == [s \in SUBSET D |-> w(s)]
<1>1. E = D \ {n} /\ n \in D
  OBVIOUS
<1>2. /\ U \in [SUBSET E -> Nat] /\ U[{}] = 0
      /\ \A s \in SUBSET E : \A x \in s : U[s] = U[s \ {x}] + v[x]
  BY DEF Sums
<1>3. \A x \in D : v[x] \in Nat
  OBVIOUS
<1> HIDE DEF D, E
<1>4. \A s \in SUBSET D : s \ {n} \in SUBSET E /\ (n \notin s => s \in SUBSET E)
  BY <1>1
<1>5. \A s \in SUBSET D : w(s) \in Nat
  BY <1>1, <1>2, <1>3, <1>4
<1>6. W \in [SUBSET D -> Nat] /\ W[{}] = 0
  BY <1>2, <1>5
<1>7. ASSUME NEW s \in SUBSET D, NEW x \in s
      PROVE  W[s] = W[s \ {x}] + v[x]
  <2>1. W[s] = w(s) /\ W[s \ {x}] = w(s \ {x}) /\ v[x] \in Nat /\ v[n] \in Nat
    BY <1>1, <1>3
  <2>2. CASE x = n
    BY <2>1, <2>2
  <2>3. CASE x # n /\ n \in s
    <3>1. x \in s \ {n} /\ s \ {n} \in SUBSET E /\ (s \ {x}) \ {n} \in SUBSET E
      BY <1>4, <2>3
    <3>2. (s \ {n}) \ {x} = (s \ {x}) \ {n}
      OBVIOUS
    <3>3. U[s \ {n}] = U[(s \ {x}) \ {n}] + v[x]
      BY <1>2, <3>1, <3>2, Zenon
    <3>4. w(s) = U[s \ {n}] + v[n] /\ w(s \ {x}) = U[(s \ {x}) \ {n}] + v[n]
      BY <2>3
    <3>5. PICK a, b \in Nat : a = U[s \ {n}] /\ b = U[(s \ {x}) \ {n}]
      BY <1>2, <3>1
    <3> HIDE DEF W, w
    <3>6. a + v[n] = b + v[n] + v[x]
      BY <2>1, <3>3, <3>5
    <3> QED
      BY <2>1, <3>4, <3>5, <3>6
  <2>4. CASE n \notin s
    <3>1. s \in SUBSET E /\ n \notin s \ {x}
      BY <1>4, <2>4
    <3> QED
      BY <1>2, <2>1, <2>4, <3>1
  <2> QED
    BY <2>2, <2>3, <2>4
<1> HIDE DEF W, w
<1>8. Sums(W, v, n)
  BY <1>6, <1>7 DEF Sums, D
<1> QED
  BY <1>8

LEMMA SumsExist ==
    ASSUME NEW n \in Nat, NEW v, \A i \in 1 .. n : v[i] \in Nat
    PROVE  \E U : Sums(U, v, n)
<1> DEFINE S == {i \in 0 .. n : \E U : Sums(U, v, i)}
<1>1. 0 \in S
  <2> DEFINE U == [s \in SUBSET (1 .. 0) |-> 0]
  <2>1. 1 .. 0 = {}
    OBVIOUS
  <2>2. Sums(U, v, 0)
    BY <2>1 DEF Sums
  <2> QED
    BY <2>2
<1>2. ASSUME NEW i \in 1 .. n, i - 1 \in S PROVE i \in S
  <2>1. PICK U : Sums(U, v, i - 1)
    BY <1>2
  <2>2. i \in Nat \ {0} /\ \A j \in 1 .. i : v[j] \in Nat
    OBVIOUS
  <2>3. \E W : Sums(W, v, i)
    BY <2>1, <2>2, SumsOfOneMore
  <2> QED
    BY <2>3
<1> HIDE DEF S
<1>3. 0 .. n \subseteq S
  BY <1>1, <1>2, Upwards
<1> QED
  BY <1>3 DEF S

LEMMA SizeOfPlaces ==
    ASSUME NEW n \in Nat, NEW s \in SUBSET (1 .. n)
    PROVE  /\ Cardinality(s) \in 0 .. n
           /\ \A x \in s : Cardinality(s \ {x}) = Cardinality(s) - 1
<1>1. IsFiniteSet(1 .. n) /\ Cardinality(1 .. n) = n
  <2>1. 1 \in Int /\ n \in Int /\ (IF 1 > n THEN 0 ELSE n - 1 + 1) = n
    OBVIOUS
  <2> QED
    BY <2>1, FS_Interval
<1>2. IsFiniteSet(s) /\ Cardinality(s) <= Cardinality(1 .. n)
  BY <1>1, FS_Subset
<1>3. Cardinality(s) \in Nat
  BY <1>2, FS_CardinalityType
<1> QED
  BY <1>1, <1>2, <1>3, FS_RemoveElement

LEMMA SumIsSums ==
    ASSUME NEW n \in Nat, NEW v, \A i \in 1 .. n : v[i] \in Nat,
           NEW U, Sums(U, v, n), NEW P \in SUBSET (1 .. n)
    PROVE  SumFunctionOnSet(v, P) = U[P]
<1> DEFINE first(s) == CHOOSE x \in s : TRUE
           Turn(f) == [s \in SUBSET P |->
                          IF s = {} THEN 0 ELSE v[first(s)] + f[s \ {first(s)}]]
           f0 == CHOOSE f : f = Turn(f)
           g == [s \in SUBSET P |-> U[s]]
<1>1. SumFunctionOnSet(v, P) = f0[P]
  BY DEF SumFunctionOnSet, FoldFunctionOnSet, MapThenFoldSet
<1>2. \A s \in SUBSET P : s # {} => first(s) \in s
  OBVIOUS
<1> HIDE DEF first
<1>3. /\ U[{}] = 0 /\ \A s \in SUBSET P : s \in SUBSET (1 .. n) /\ U[s] \in Nat
      /\ \A s \in SUBSET P : \A x \in s : U[s] = U[s \ {x}] + v[x]
  BY DEF Sums
<1>4. ASSUME NEW s \in SUBSET P, s # {}
      PROVE  U[s] = v[first(s)] + U[s \ {first(s)}]
  <2>1. first(s) \in s /\ first(s) \in 1 .. n
    BY <1>2, <1>4
  <2>2. U[s] = U[s \ {first(s)}] + v[first(s)]
    BY <1>3, <2>1
  <2>3. U[s \ {first(s)}] \in Nat /\ v[first(s)] \in Nat
    BY <1>3, <2>1
  <2> QED
    BY <2>2, <2>3
<1>5. g = Turn(g)
  <2>1. \A s \in SUBSET P : g[s] = IF s = {} THEN 0 ELSE v[first(s)] + g[s \ {first(s)}]
    BY <1>3, <1>4
  <2> QED
    BY <2>1
<1>6. f0 = Turn(f0)
  <2> HIDE DEF g, Turn
  <2> QED
    BY <1>5
<1> HIDE DEF f0
<1>7. \A s \in SUBSET P : f0[s] = IF s = {} THEN 0 ELSE v[first(s)] + f0[s \ {first(s)}]
  BY <1>6
<1> DEFINE S == {k \in 0 .. n : \A s \in SUBSET P : Cardinality(s) = k => f0[s] = U[s]}
<1>8. 0 \in S
  <2> SUFFICES ASSUME NEW s \in SUBSET P, Cardinality(s) = 0 PROVE f0[s] = U[s]
    OBVIOUS
  <2>1. s = {}
    <3> SUFFICES ASSUME NEW x \in s PROVE FALSE
      OBVIOUS
    <3>1. PICK r \in SUBSET (1 .. n) : r = s \ {x}
      OBVIOUS
    <3>2. Cardinality(r) = Cardinality(s) - 1 /\ Cardinality(r) \in 0 .. n
      BY <3>1, SizeOfPlaces
    <3> QED
      BY <3>2
  <2> QED
    BY <1>3, <1>7, <2>1
<1>9. ASSUME NEW k \in 1 .. n, k - 1 \in S PROVE k \in S
  <2> SUFFICES ASSUME NEW s \in SUBSET P, Cardinality(s) = k PROVE f0[s] = U[s]
    OBVIOUS
  <2>1. s # {}
    BY FS_EmptySet
  <2>2. PICK r \in SUBSET P : r = s \ {first(s)}
    OBVIOUS
  <2>3. Cardinality(r) = k - 1
    BY <1>2, <2>1, <2>2, SizeOfPlaces
  <2>4. f0[r] = U[r]
    BY <1>9, <2>3
  <2>5. f0[s] = v[first(s)] + f0[r] /\ U[s] = v[first(s)] + U[r]
    BY <1>4, <1>7, <2>1, <2>2
  <2> QED
    BY <2>4, <2>5
<1> HIDE DEF S
<1>10. 0 .. n \subseteq S
  BY <1>8, <1>9, Upwards
<1>11. Cardinality(P) \in 0 .. n
  BY SizeOfPlaces
<1>12. f0[P] = U[P]
  BY <1>10, <1>11 DEF S
<1> QED
  BY <1>1, <1>12

\* Sums grow from the right, one place at a time.
LEMMA SumFromRight ==
    ASSUME NEW n \in Nat, NEW v, \A i \in 1 .. n : v[i] \in Nat
    PROVE  /\ SumFunctionOnSet(v, (n + 1) .. n) = 0
           /\ \A i \in 1 .. n :
                  /\ SumFunctionOnSet(v, (i + 1) .. n) \in Nat
                  /\ SumFunctionOnSet(v, i .. n) = SumFunctionOnSet(v, (i + 1) .. n) + v[i]
<1>1. PICK U : Sums(U, v, n)
  BY SumsExist
<1>2. \A i \in 1 .. n + 1 : SumFunctionOnSet(v, i .. n) = U[i .. n]
  <2>1. \A i \in 1 .. n + 1 : i .. n \in SUBSET (1 .. n)
    OBVIOUS
  <2> QED
    BY <1>1, <2>1, SumIsSums
<1>3. (n + 1) .. n = {} /\ n + 1 \in 1 .. n + 1
  OBVIOUS
<1>4. SumFunctionOnSet(v, (n + 1) .. n) = 0
  BY <1>1, <1>2, <1>3 DEF Sums
<1>5. ASSUME NEW i \in 1 .. n
      PROVE  /\ SumFunctionOnSet(v, (i + 1) .. n) \in Nat
             /\ SumFunctionOnSet(v, i .. n) = SumFunctionOnSet(v, (i + 1) .. n) + v[i]
  <2>1. i .. n \in SUBSET (1 .. n) /\ i \in i .. n /\ (i .. n) \ {i} = (i + 1) .. n
    OBVIOUS
  <2>2. (i + 1) .. n \in SUBSET (1 .. n) /\ i \in 1 .. n + 1 /\ i + 1 \in 1 .. n + 1
    OBVIOUS
  <2>3. U[i .. n] = U[(i .. n) \ {i}] + v[i] /\ U[(i + 1) .. n] \in Nat
    BY <1>1, <2>1, <2>2 DEF Sums
  <2> QED
    BY <1>2, <2>1, <2>2, <2>3
<1> QED
  BY <1>4, <1>5

-----------------------------------------------------------------------------
(***************************************************************************)
(* The Luhn check                                                          *)
(***************************************************************************)
Acceptable(number) == \A i \in DOMAIN number : number[i] \in Digits \cup Separators

LuhnTypes ==
    /\ candidate \in Seq(Characters)
    /\ lpc \in {"collect", "sum", "done"}
    /\ index \in Nat
    /\ digits \in Seq(Digits)
    /\ sum \in Nat
    /\ alternate \in BOOLEAN
    /\ valid \in BOOLEAN

\* The first loop has looked at all characters before index and found none wrong.
Collecting ==
    /\ index \in 1 .. Len(candidate) + 1
    /\ \E g : Built(g, candidate, Digits, Len(candidate)) /\ digits = g[index - 1]
    /\ \A i \in 1 .. index - 1 : candidate[i] \in Digits \cup Separators
    /\ sum = 0 /\ ~ alternate /\ ~ valid

\* The second loop has added the terms of all digits after index.
Summing ==
    /\ digits = DigitsOf(candidate)
    /\ Len(digits) \in MinDigits .. MaxDigits
    /\ Acceptable(candidate)
    /\ index \in 0 .. Len(digits)
    /\ sum = SumFunctionOnSet(Terms(digits), (index + 1) .. Len(digits))
    /\ alternate <=> (Len(digits) - index) % 2 = 1

LuhnInv ==
    /\ LuhnTypes
    /\ lpc = "collect" => Collecting
    /\ lpc = "sum" => Summing
    /\ LuhnIsRight

LEMMA DigitSums ==
    ASSUME NEW d \in 0 .. 9
    PROVE  /\ (d \div 10) + (d % 10) = d
           /\ ((2 * d) \div 10) + ((2 * d) % 10) = Doubled(d)
           /\ Doubled(d) \in Nat
<1>1. d \div 10 = 0 /\ d % 10 = d
  OBVIOUS
<1>2. CASE 2 * d > 9
  <2>1. (2 * d) \div 10 = 1 /\ (2 * d) % 10 = 2 * d - 10
    BY <1>2
  <2> QED
    BY <1>1, <1>2, <2>1 DEF Doubled
<1>3. CASE ~ (2 * d > 9)
  <2>1. (2 * d) \div 10 = 0 /\ (2 * d) % 10 = 2 * d
    BY <1>3
  <2> QED
    BY <1>1, <1>3, <2>1 DEF Doubled
<1> QED
  BY <1>2, <1>3

LEMMA TermFacts ==
    ASSUME NEW s \in Seq(Digits)
    PROVE  /\ Len(s) \in Nat /\ DOMAIN Terms(s) = 1 .. Len(s)
           /\ \A i \in 1 .. Len(s) :
                  /\ s[i] \in Digits
                  /\ Terms(s)[i] \in Nat
                  /\ Terms(s)[i] = IF (Len(s) - i) % 2 = 1 THEN Doubled(s[i]) ELSE s[i]
<1>1. Len(s) \in Nat /\ DOMAIN s = 1 .. Len(s) /\ \A i \in 1 .. Len(s) : s[i] \in Digits
  BY LenProperties, ElementOfSeq
<1>2. ASSUME NEW i \in 1 .. Len(s)
      PROVE  /\ Terms(s)[i] \in Nat
             /\ Terms(s)[i] = IF (Len(s) - i) % 2 = 1 THEN Doubled(s[i]) ELSE s[i]
  <2>1. PICK d \in 0 .. 9 : d = s[i]
    BY <1>1 DEF Digits
  <2>2. CASE (Len(s) - i) % 2 = 1
    <3>1. Terms(s)[i] = ((2 * d) \div 10) + ((2 * d) % 10)
      BY <1>1, <2>1, <2>2 DEF Terms
    <3> QED
      BY <2>1, <2>2, <3>1, DigitSums
  <2>3. CASE (Len(s) - i) % 2 # 1
    <3>1. Terms(s)[i] = (d \div 10) + (d % 10)
      BY <1>1, <2>1, <2>3 DEF Terms
    <3>2. (d \div 10) + (d % 10) = d
      BY DigitSums, Zenon
    <3>3. Terms(s)[i] = d
      BY <3>1, <3>2, Zenon
    <3> QED
      BY <2>1, <2>3, <3>3
  <2> QED
    BY <2>2, <2>3
<1> QED
  BY <1>1, <1>2 DEF Terms

LEMMA LuhnInvInit == LuhnInit => LuhnInv
<1> SUFFICES ASSUME LuhnInit PROVE LuhnInv
  OBVIOUS
<1>1. candidate \in Seq(Characters) /\ Len(candidate) \in Nat
  BY LuhnAssumption, LenProperties DEF LuhnInit, LuhnStart
<1>2. LuhnTypes
  <2>1. /\ lpc = "collect" /\ index = 1 /\ digits = << >> /\ sum = 0
        /\ alternate = FALSE /\ valid = FALSE
    BY DEF LuhnInit, LuhnStart
  <2>2. lpc \in {"collect", "sum", "done"} /\ alternate \in BOOLEAN /\ valid \in BOOLEAN
    BY <2>1, Zenon
  <2>3. index \in Nat /\ sum \in Nat /\ digits \in Seq(Digits)
    BY <2>1
  <2> QED
    BY <1>1, <2>2, <2>3 DEF LuhnTypes
<1>3. Collecting
  <2>1. PICK g : Built(g, candidate, Digits, Len(candidate))
    BY <1>1, BuiltExist
  <2>2. digits = g[index - 1] /\ index = 1
    BY <2>1 DEF LuhnInit, LuhnStart, Built
  <2> QED
    BY <1>1, <2>1, <2>2 DEF LuhnInit, LuhnStart, Collecting
<1> QED
  BY <1>2, <1>3 DEF LuhnInv, LuhnInit, LuhnStart, LuhnIsRight

LEMMA CollectSafe == LuhnInv /\ Collect => LuhnInv'
<1> SUFFICES ASSUME LuhnInv, Collect PROVE LuhnInv'
  OBVIOUS
<1> DEFINE c == candidate[index]
           n == Len(candidate)
<1>1. /\ lpc = "collect" /\ index \in 1 .. n /\ n \in Nat
      /\ candidate' = candidate /\ index' = index + 1
      /\ UNCHANGED <<sum, alternate, valid>> /\ LuhnTypes /\ Collecting
  BY LenProperties DEF Collect, LuhnInv, LuhnTypes, Collecting
<1>2. PICK g : Built(g, candidate, Digits, n) /\ digits = g[index - 1]
  BY <1>1 DEF Collecting
<1>3. g \in [0 .. n -> Seq(Digits)]
  BY <1>2 DEF Built
<1>4. /\ lpc' = IF Unacceptable(c) THEN "done" ELSE "collect"
      /\ digits' = IF c \in Digits /\ ~ Unacceptable(c) THEN Append(digits, c) ELSE digits
  BY <1>1 DEF Collect
<1>5. g[index] = IF c \in Digits THEN Append(digits, c) ELSE digits
  BY <1>1, <1>2 DEF Built
<1>6. LuhnTypes'
  <2>1. digits' \in Seq(Digits)
    BY <1>1, <1>4 DEF LuhnTypes
  <2> QED
    BY <1>1, <1>4, <2>1 DEF LuhnTypes
<1>7. CASE ~ Unacceptable(c)
  <2>1. lpc' = "collect" /\ digits' = g[index]
    BY <1>4, <1>5, <1>7
  <2>2. c \in Digits \cup Separators
    BY <1>7 DEF Unacceptable
  <2>3. \A i \in 1 .. index : candidate[i] \in Digits \cup Separators
    BY <1>1, <2>2 DEF Collecting
  <2>4. Collecting'
    <3>1. index' \in 1 .. n + 1 /\ index' - 1 = index
      BY <1>1
    <3> QED
      BY <1>1, <1>2, <2>1, <2>3, <3>1 DEF Collecting
  <2> QED
    BY <1>6, <2>1, <2>4 DEF LuhnInv, LuhnIsRight
<1>8. CASE Unacceptable(c)
  <2>1. lpc' = "done" /\ ~ valid'
    BY <1>1, <1>4, <1>8 DEF Collecting
  <2>2. CASE c \notin Digits
    <3>1. c \notin Digits \cup Separators /\ index \in DOMAIN candidate
      BY <1>1, <1>8, <2>2, LenProperties DEF Unacceptable, LuhnTypes
    <3> QED
      BY <1>1, <1>6, <2>1, <3>1 DEF LuhnInv, LuhnIsRight
  <2>3. CASE c \in Digits
    <3>1. Len(digits) >= Capacity /\ Len(digits) \in Nat
      BY <1>1, <1>8, <2>3, LenProperties DEF Unacceptable, LuhnTypes
    <3>2. Len(g[index]) = Len(digits) + 1
      <4>1. g[index] = Append(digits, c) /\ digits \in Seq(Digits)
        BY <1>1, <1>5, <2>3 DEF LuhnTypes
      <4> QED
        BY <2>3, <4>1, AppendProperties
    <3>3. Len(g[index]) <= Len(g[n])
      BY <1>1, <1>2, BuiltGrow
    <3>4. DigitsOf(candidate) = g[n]
      BY <1>1, <1>2, OnlyIsBuilt DEF DigitsOf
    <3>5. Len(g[n]) \notin MinDigits .. MaxDigits
      <4>1. Len(g[n]) \in Nat
        BY <1>1, <1>3, LenProperties
      <4> QED
        BY <3>1, <3>2, <3>3, <4>1, LuhnAssumption
    <3> QED
      BY <1>1, <1>6, <2>1, <3>4, <3>5 DEF LuhnInv, LuhnIsRight
  <2> QED
    BY <2>2, <2>3
<1> QED
  BY <1>7, <1>8

LEMMA CollectedSafe == LuhnInv /\ Collected => LuhnInv'
<1> SUFFICES ASSUME LuhnInv, Collected PROVE LuhnInv'
  OBVIOUS
<1> DEFINE n == Len(candidate)
<1>1. /\ index = n + 1 /\ n \in Nat /\ DOMAIN candidate = 1 .. n
      /\ UNCHANGED <<candidate, digits, sum, alternate, valid>> /\ LuhnTypes /\ Collecting
      /\ lpc' = IF Len(digits) \in MinDigits .. MaxDigits THEN "sum" ELSE "done"
      /\ index' = Len(digits) /\ Len(digits) \in Nat
  BY LenProperties DEF Collected, LuhnInv, LuhnTypes, Collecting
<1>2. LuhnTypes'
  BY <1>1 DEF LuhnTypes
<1>3. PICK g : Built(g, candidate, Digits, n) /\ digits = g[n]
  BY <1>1 DEF Collecting
<1>4. digits = DigitsOf(candidate)
  BY <1>1, <1>3, OnlyIsBuilt DEF DigitsOf
<1>5. Acceptable(candidate)
  BY <1>1 DEF Acceptable, Collecting
<1>6. CASE Len(digits) \in MinDigits .. MaxDigits
  <2>1. sum = SumFunctionOnSet(Terms(digits), (Len(digits) + 1) .. Len(digits))
    <3>1. \A i \in 1 .. Len(digits) : Terms(digits)[i] \in Nat
      BY <1>1, TermFacts DEF LuhnTypes
    <3> QED
      BY <1>1, <3>1, SumFromRight DEF Collecting
  <2>2. (Len(digits) - Len(digits)) % 2 = 0 /\ ~ alternate
    BY <1>1 DEF Collecting
  <2>3. Summing'
    BY <1>1, <1>4, <1>5, <1>6, <2>1, <2>2 DEF Summing, Acceptable
  <2> QED
    BY <1>1, <1>2, <1>6, <2>3 DEF LuhnInv, LuhnIsRight
<1>7. CASE Len(digits) \notin MinDigits .. MaxDigits
  BY <1>1, <1>2, <1>4, <1>7 DEF LuhnInv, LuhnIsRight, Collecting
<1> QED
  BY <1>6, <1>7

LEMMA AddDigitSafe == LuhnInv /\ AddDigit => LuhnInv'
<1> SUFFICES ASSUME LuhnInv, AddDigit PROVE LuhnInv'
  OBVIOUS
<1> DEFINE n == Len(digits)
           v == Terms(digits)
<1>1. /\ lpc = "sum" /\ index \in 1 .. n /\ n \in Nat
      /\ sum' = sum + (IF alternate THEN Doubled(digits[index]) ELSE digits[index])
      /\ alternate' = ~ alternate /\ index' = index - 1
      /\ UNCHANGED <<candidate, lpc, digits, valid>> /\ LuhnTypes /\ Summing
  BY LenProperties DEF AddDigit, LuhnInv, LuhnTypes, Summing
<1>2. /\ \A i \in 1 .. n : v[i] \in Nat
      /\ v[index] = IF (n - index) % 2 = 1 THEN Doubled(digits[index]) ELSE digits[index]
  BY <1>1, TermFacts DEF LuhnTypes
<1>3. sum' = sum + v[index] /\ sum = SumFunctionOnSet(v, (index + 1) .. n)
  BY <1>1, <1>2 DEF Summing
<1> HIDE DEF v
<1>4. sum' = SumFunctionOnSet(v, index .. n)
  BY <1>1, <1>2, <1>3, SumFromRight
<1>5. index' + 1 = index /\ index' \in 0 .. n
  BY <1>1
<1>6. LuhnTypes'
  BY <1>1, <1>2, <1>3 DEF LuhnTypes
<1>7. alternate' <=> (n - index') % 2 = 1
  <2>1. alternate <=> (n - index) % 2 = 1
    BY <1>1 DEF Summing
  <2>2. PICK m \in Nat : m = n - index /\ n - index' = m + 1
    BY <1>1
  <2>3. m % 2 = 1 <=> ~ ((m + 1) % 2 = 1)
    OBVIOUS
  <2> QED
    BY <1>1, <2>1, <2>2, <2>3
<1>8. Summing'
  BY <1>1, <1>4, <1>5, <1>7 DEF Summing, v, Acceptable
<1> QED
  BY <1>1, <1>6, <1>8 DEF LuhnInv, LuhnIsRight

LEMMA LuhnEndsSafe == LuhnInv /\ LuhnEnds => LuhnInv'
<1> SUFFICES ASSUME LuhnInv, LuhnEnds PROVE LuhnInv'
  OBVIOUS
<1>1. /\ index = 0 /\ lpc' = "done" /\ valid' = (sum % 10 = 0)
      /\ UNCHANGED <<candidate, index, digits, sum, alternate>> /\ LuhnTypes /\ Summing
  BY DEF LuhnEnds, LuhnInv
<1>2. sum = Checksum(DigitsOf(candidate))
  <2>1. DOMAIN Terms(digits) = 1 .. Len(digits)
    BY <1>1, TermFacts DEF LuhnTypes
  <2>2. sum = SumFunctionOnSet(Terms(digits), 1 .. Len(digits))
    BY <1>1 DEF Summing
  <2> QED
    BY <1>1, <2>1, <2>2 DEF Checksum, SumFunction, Summing
<1>3. LuhnTypes'
  BY <1>1 DEF LuhnTypes
<1>4. LuhnIsRight'
  BY <1>1, <1>2 DEF LuhnIsRight, Summing, Acceptable
<1> QED
  BY <1>1, <1>3, <1>4 DEF LuhnInv

(***************************************************************************)
(* VerifyLuhn accepts exactly the candidates made of digits and separators *)
(* with an admissible number of digits and a checksum divisible by 10,     *)
(* whatever the candidate, the capacity of the array and the bounds.       *)
(***************************************************************************)
THEOREM LuhnCheckCorrect == LuhnSpec => []LuhnIsRight
<1>1. LuhnInv /\ [LuhnNext]_luhnVars => LuhnInv'
  <2> SUFFICES ASSUME LuhnInv, [LuhnNext]_luhnVars PROVE LuhnInv'
    OBVIOUS
  <2>1. CASE LuhnNext
    BY <2>1, CollectSafe, CollectedSafe, AddDigitSafe, LuhnEndsSafe DEF LuhnNext
  <2>2. CASE UNCHANGED luhnVars
    BY <2>2 DEF luhnVars, LuhnInv, LuhnTypes, Collecting, Summing, Acceptable, LuhnIsRight
  <2> QED
    BY <2>1, <2>2
<1>2. LuhnInv => LuhnIsRight
  BY DEF LuhnInv
<1> QED
  BY LuhnInvInit, <1>1, <1>2, PTL DEF LuhnSpec

-----------------------------------------------------------------------------
(***************************************************************************)
(* Suffixes                                                                *)
(***************************************************************************)
\* u is a suffix of s.
Ends(u, s) ==
    /\ Len(u) <= Len(s)
    /\ \A k \in 1 .. Len(u) : u[k] = s[Len(s) - Len(u) + k]

LEMMA SuffixBasics ==
    ASSUME NEW A, NEW s \in Seq(A)
    PROVE  /\ Ends(s, s) /\ Ends(<< >>, s)
           /\ \A u \in Seq(A) : Ends(u, s) /\ Len(u) = Len(s) => u = s
<1>1. Len(s) \in Nat
  OBVIOUS
<1>2. Ends(s, s) /\ Ends(<< >>, s)
  BY <1>1 DEF Ends
<1>3. ASSUME NEW u \in Seq(A), Ends(u, s), Len(u) = Len(s) PROVE u = s
  <2>1. \A k \in 1 .. Len(u) : u[k] = s[k]
    BY <1>1, <1>3 DEF Ends
  <2> QED
    BY <1>3, <2>1, SeqEqual
<1> QED
  BY <1>2, <1>3

LEMMA SuffixOfSuffix ==
    ASSUME NEW A, NEW s \in Seq(A), NEW v \in Seq(A), NEW u \in Seq(A), Ends(v, s)
    PROVE  /\ Ends(u, v) => Ends(u, s)
           /\ Ends(u, s) /\ Len(u) <= Len(v) => Ends(u, v)
<1>1. Len(s) \in Nat /\ Len(v) \in Nat /\ Len(u) \in Nat
  OBVIOUS
<1>2. Len(v) <= Len(s) /\ \A k \in 1 .. Len(v) : v[k] = s[Len(s) - Len(v) + k]
  BY DEF Ends
<1>3. ASSUME Len(u) <= Len(v), NEW k \in 1 .. Len(u)
      PROVE  v[Len(v) - Len(u) + k] = s[Len(s) - Len(u) + k]
  <2>1. Len(v) - Len(u) + k \in 1 .. Len(v)
    BY <1>1, <1>3
  <2>2. PICK j \in 1 .. Len(v) : j = Len(v) - Len(u) + k
    BY <2>1
  <2>3. Len(s) - Len(v) + j = Len(s) - Len(u) + k
    BY <1>1, <2>2
  <2> QED
    BY <1>2, <2>2, <2>3
<1>4. Ends(u, v) => Ends(u, s)
  BY <1>1, <1>2, <1>3 DEF Ends
<1>5. Ends(u, s) /\ Len(u) <= Len(v) => Ends(u, v)
  BY <1>1, <1>3 DEF Ends
<1> QED
  BY <1>4, <1>5

LEMMA SuffixOfAppend ==
    ASSUME NEW A, NEW s \in Seq(A), NEW u \in Seq(A), NEW b \in A, NEW c \in A
    PROVE  Ends(Append(u, c), Append(s, b)) <=> Ends(u, s) /\ c = b
<1>1. Len(s) \in Nat /\ Len(u) \in Nat
  OBVIOUS
<1>2. /\ Len(Append(s, b)) = Len(s) + 1 /\ Append(s, b)[Len(s) + 1] = b
      /\ \A k \in 1 .. Len(s) : Append(s, b)[k] = s[k]
  BY AppendProperties
<1>3. /\ Len(Append(u, c)) = Len(u) + 1 /\ Append(u, c)[Len(u) + 1] = c
      /\ \A k \in 1 .. Len(u) : Append(u, c)[k] = u[k]
  BY AppendProperties
<1> DEFINE sb == Append(s, b)
           uc == Append(u, c)
<1> HIDE DEF sb, uc
<1>4. Ends(uc, sb) <=> /\ Len(u) <= Len(s)
                           /\ \A k \in 1 .. Len(u) + 1 : uc[k] = sb[Len(s) - Len(u) + k]
  <2>1. Len(uc) = Len(u) + 1 /\ Len(sb) = Len(s) + 1
    BY <1>2, <1>3 DEF sb, uc
  <2>2. \A k \in 1 .. Len(u) + 1 : Len(sb) - Len(uc) + k = Len(s) - Len(u) + k
    BY <1>1, <2>1
  <2>3. Len(uc) <= Len(sb) <=> Len(u) <= Len(s)
    BY <1>1, <2>1
  <2> QED
    BY <2>1, <2>2, <2>3 DEF Ends
<1>5. ASSUME Len(u) <= Len(s)
      PROVE  (\A k \in 1 .. Len(u) + 1 : uc[k] = sb[Len(s) - Len(u) + k])
                 <=> (\A k \in 1 .. Len(u) : u[k] = s[Len(s) - Len(u) + k]) /\ c = b
  <2>1. \A k \in 1 .. Len(u) : uc[k] = u[k] /\ sb[Len(s) - Len(u) + k] = s[Len(s) - Len(u) + k]
    <3>1. \A k \in 1 .. Len(u) : Len(s) - Len(u) + k \in 1 .. Len(s)
      BY <1>1, <1>5
    <3> QED
      BY <1>2, <1>3, <3>1 DEF sb, uc
  <2>2. uc[Len(u) + 1] = c /\ sb[Len(s) - Len(u) + (Len(u) + 1)] = b
    <3>1. Len(s) - Len(u) + (Len(u) + 1) = Len(s) + 1
      BY <1>1
    <3> QED
      BY <1>2, <1>3, <3>1 DEF sb, uc
  <2>3. \A k : k \in 1 .. Len(u) + 1 <=> k \in 1 .. Len(u) \/ k = Len(u) + 1
    BY <1>1
  <2> QED
    BY <2>1, <2>2, <2>3
<1>6. Ends(uc, sb) <=> Ends(u, s) /\ c = b
  BY <1>4, <1>5 DEF Ends
<1> QED
  BY <1>6 DEF sb, uc

LEMMA SuffixOfTail ==
    ASSUME NEW A, NEW s \in Seq(A), s # << >>, NEW u \in Seq(A)
    PROVE  Ends(u, s) <=> u = s \/ Ends(u, Tail(s))
<1>1. /\ Tail(s) \in Seq(A) /\ Len(Tail(s)) = Len(s) - 1 /\ Len(s) \in Nat /\ Len(u) \in Nat
      /\ \A i \in 1 .. Len(s) - 1 : Tail(s)[i] = s[i + 1]
  BY HeadTailProperties
<1>2. Ends(Tail(s), s)
  <2>1. \A k \in 1 .. Len(Tail(s)) : Len(s) - Len(Tail(s)) + k = k + 1
    BY <1>1
  <2> QED
    BY <1>1, <2>1 DEF Ends
<1>3. Ends(u, s) /\ Len(u) <= Len(Tail(s)) => Ends(u, Tail(s))
  BY <1>1, <1>2, SuffixOfSuffix
<1>4. Ends(u, Tail(s)) => Ends(u, s)
  BY <1>1, <1>2, SuffixOfSuffix
<1>5. Ends(u, s) /\ ~ (Len(u) <= Len(Tail(s))) => u = s
  <2>1. Ends(u, s) => Len(u) <= Len(s)
    BY DEF Ends
  <2>2. Ends(u, s) /\ Len(u) = Len(s) => u = s
    BY SuffixBasics
  <2> QED
    BY <1>1, <2>1, <2>2
<1>6. Ends(s, s)
  BY SuffixBasics
<1> QED
  BY <1>3, <1>4, <1>5, <1>6

-----------------------------------------------------------------------------
(***************************************************************************)
(* The trie as a set of words                                              *)
(***************************************************************************)
Alphabet == Range(Bytes)

\* A string for each node.
Strings(word, N) == word \in [N -> Seq(Alphabet)]

\* word gives what the path from the root to each node spells.
Spelled(word, N) ==
    /\ Strings(word, N)
    /\ 0 \in N /\ word[0] = << >>
    /\ \A m, n \in N : word[m] = word[n] => m = n
    /\ \A n \in N \ {0} : \E p \in N, b \in Alphabet : word[n] = Append(word[p], b)

\* Of all nodes, n spells the longest suffix of s.
Longest(word, N, s, n) ==
    /\ n \in N
    /\ Ends(word[n], s)
    /\ \A m \in N : Ends(word[m], s) => Len(word[m]) <= Len(word[n])

\* What follows the longest suffix of s follows s.
LEMMA LongestOfAppend ==
    ASSUME NEW word, NEW N, Spelled(word, N), NEW s \in Seq(Alphabet), NEW b \in Alphabet,
           NEW f, Longest(word, N, s, f), NEW n, Longest(word, N, Append(word[f], b), n)
    PROVE  Longest(word, N, Append(s, b), n)
<1>1. \A m \in N : word[m] \in Seq(Alphabet) /\ Len(word[m]) \in Nat
  BY DEF Spelled, Strings
<1>2. f \in N /\ n \in N /\ Append(s, b) \in Seq(Alphabet) /\ Append(word[f], b) \in Seq(Alphabet)
  BY <1>1 DEF Longest
<1>3. Ends(Append(word[f], b), Append(s, b))
  BY <1>1, <1>2, SuffixOfAppend DEF Longest
<1>4. Ends(word[n], Append(s, b))
  BY <1>1, <1>2, <1>3, SuffixOfSuffix DEF Longest
<1>5. ASSUME NEW m \in N, Ends(word[m], Append(s, b))
      PROVE  Len(word[m]) <= Len(word[n])
  <2>1. CASE m = 0
    <3>1. Len(word[m]) = 0
      BY <2>1 DEF Spelled
    <3> QED
      BY <1>1, <1>2, <3>1
  <2>2. CASE m # 0
    <3>1. PICK p \in N, c \in Alphabet : word[m] = Append(word[p], c)
      BY <2>2 DEF Spelled
    <3>2. Ends(word[p], s) /\ c = b
      BY <1>1, <1>5, <3>1, SuffixOfAppend
    <3>3. Ends(word[p], word[f])
      <4>1. Len(word[p]) <= Len(word[f])
        BY <3>2 DEF Longest
      <4> QED
        BY <1>1, <1>2, <3>2, <4>1, SuffixOfSuffix DEF Longest
    <3>4. Ends(word[m], Append(word[f], b))
      BY <1>1, <1>2, <3>1, <3>2, <3>3, SuffixOfAppend
    <3> QED
      BY <3>4 DEF Longest
  <2> QED
    BY <2>1, <2>2
<1> QED
  BY <1>2, <1>4, <1>5 DEF Longest

\* A string that no node spells has the longest suffix that its tail has.
LEMMA LongestOfTail ==
    ASSUME NEW word, NEW N, Spelled(word, N), NEW s \in Seq(Alphabet), s # << >>,
           NEW n, Longest(word, N, Tail(s), n), \A m \in N : word[m] # s
    PROVE  Longest(word, N, s, n)
<1>1. \A m \in N : word[m] \in Seq(Alphabet)
  BY DEF Spelled, Strings
<1>2. \A m \in N : Ends(word[m], s) <=> Ends(word[m], Tail(s))
  BY <1>1, SuffixOfTail
<1> QED
  BY <1>2 DEF Longest

LEMMA LongestOfWord ==
    ASSUME NEW word, NEW N, Spelled(word, N), NEW n \in N
    PROVE  Longest(word, N, word[n], n)
<1>1. word[n] \in Seq(Alphabet)
  BY DEF Spelled, Strings
<1>2. Ends(word[n], word[n])
  BY <1>1, SuffixBasics
<1> QED
  BY <1>2 DEF Longest, Ends

\* Words end in s as they end in its longest suffix.
LEMMA SuffixesOfLongest ==
    ASSUME NEW word, NEW N, Spelled(word, N), NEW s \in Seq(Alphabet),
           NEW n, Longest(word, N, s, n), NEW m \in N
    PROVE  Ends(word[m], s) <=> Ends(word[m], word[n])
<1>1. n \in N /\ word[m] \in Seq(Alphabet) /\ word[n] \in Seq(Alphabet)
  BY DEF Spelled, Strings, Longest
<1>2. Ends(word[n], s) /\ (Ends(word[m], s) => Len(word[m]) <= Len(word[n]))
  BY DEF Longest
<1> QED
  BY <1>1, <1>2, SuffixOfSuffix

-----------------------------------------------------------------------------
(***************************************************************************)
(* The automaton: what the invariant says                                  *)
(***************************************************************************)
Node == [next : [Alphabet -> Nat], fail : Nat, output : Seq(Range(patterns))]

KeyOf(i) == Clean(patterns[i])

\* The patterns inserted so far, but for the empty ones.
Known == {i \in 1 .. pattern - 1 : KeyOf(i) # << >>}

OwnAt(u) == {i \in Known : KeyOf(i) = u}

EndingIn(s) == {i \in Known : Ends(KeyOf(i), s)}

\* An output is empty when no pattern of S is due, and else begins with a longest one.
Says(output, S) ==
    /\ output = << >> <=> S = {}
    /\ output # << >> =>
           \E i \in S : /\ output[1] = patterns[i]
                        /\ \A j \in S : Len(KeyOf(j)) <= Len(KeyOf(i))

\* A node's transitions are those of the trie.
InTrie(word, n) ==
    \A b \in Alphabet :
        LET c == nodes[n].next[b] IN
        /\ c = 0 => \A m \in DOMAIN nodes : word[m] # Append(word[n], b)
        /\ c # 0 => c \in DOMAIN nodes /\ word[c] = Append(word[n], b)

\* They lead where the text read so far goes on.
InAutomaton(word, n) ==
    \A b \in Alphabet :
        Longest(word, DOMAIN nodes, Append(word[n], b), nodes[n].next[b])

Trie(word) ==
    /\ Spelled(word, DOMAIN nodes)
    /\ \A i \in Known : \E n \in DOMAIN nodes : word[n] = KeyOf(i)

MatcherTypes ==
    /\ patterns \in PatternLists
    /\ pattern \in 1 .. Len(patterns) + 1
    /\ \E size \in Nat : DOMAIN nodes = 0 .. size
    /\ nodes \in [DOMAIN nodes -> Node]
    /\ apc \in {"insert", "complete", "search"}
    /\ curr \in DOMAIN nodes
    /\ pos \in Nat \ {0}
    /\ apc # "search" => match = NoMatch
    /\ apc # "insert" => pattern = Len(patterns) + 1
    /\ apc = "insert" /\ pattern = Len(patterns) + 1 => pos = 1 /\ curr = 0
    /\ apc = "complete" => pos = 1 /\ curr = 0

\* While patterns are inserted, the current one up to pos.
InsertView(word) ==
    /\ Trie(word)
    /\ pattern <= Len(patterns) =>
           pos \in 1 .. Len(Key) + 1 /\ word[curr] = SubSeq(Key, 1, pos - 1)
    /\ \A n \in DOMAIN nodes :
           /\ InTrie(word, n)
           /\ nodes[n].fail = 0
           /\ Says(nodes[n].output, OwnAt(word[n]))

\* While the automaton is completed: the nodes of D are, those queued have their
\* failure links and outputs.
QueueView(word, N, D, q) ==
    /\ q \in Seq(N)
    /\ \A i, j \in 1 .. Len(q) : q[i] = q[j] => i = j
    /\ \A i \in 1 .. Len(q) : q[i] \notin D
    /\ \A i, j \in 1 .. Len(q) : i < j =>
           /\ Len(word[q[i]]) <= Len(word[q[j]])
           /\ Len(word[q[j]]) <= Len(word[q[i]]) + 1
    /\ 0 \in D /\ D \subseteq N
    /\ \A p \in N, n \in N, b \in Alphabet :
           word[n] = Append(word[p], b) => (p \in D <=> n \in D \cup Range(q))

CompleteView(word, D) ==
    /\ Trie(word)
    /\ QueueView(word, DOMAIN nodes, D, queue)
    /\ \A n \in DOMAIN nodes :
           /\ n \in D => InAutomaton(word, n)
           /\ n \notin D => InTrie(word, n)
           /\ n \in D \cup Range(queue) =>
                  /\ n # 0 => Longest(word, DOMAIN nodes, Tail(word[n]), nodes[n].fail)
                  /\ Says(nodes[n].output, EndingIn(word[n]))
           /\ n \notin D \cup Range(queue) => Says(nodes[n].output, OwnAt(word[n]))

\* Once it is complete: it stands at the longest suffix of what it has read.
SearchView(word) ==
    /\ Trie(word)
    /\ \A n \in DOMAIN nodes :
           InAutomaton(word, n) /\ Says(nodes[n].output, EndingIn(word[n]))
    /\ text \in Texts
    /\ pos <= Len(text) + 1
    /\ match = NoMatch => Longest(word, DOMAIN nodes, SubSeq(Folded, 1, pos - 1), curr)

MatcherInv ==
    /\ MatcherTypes
    /\ apc = "insert" => \E word : InsertView(word)
    /\ apc = "complete" => \E word, D : CompleteView(word, D)
    /\ apc = "search" => (\E word : SearchView(word)) /\ MatcherFindsFirst

-----------------------------------------------------------------------------
(***************************************************************************)
(* Inserting the patterns                                                  *)
(***************************************************************************)
LEMMA PatternFacts ==
    ASSUME patterns \in PatternLists
    PROVE  /\ Len(patterns) \in Nat /\ DOMAIN patterns = 1 .. Len(patterns)
           /\ \A i \in 1 .. Len(patterns) :
                  /\ patterns[i] \in Range(patterns) /\ patterns[i] # NoMatch
                  /\ KeyOf(i) \in Seq(Alphabet)
<1>1. /\ patterns \in Seq(Range(patterns)) /\ NoMatch \notin Range(patterns)
      /\ \A p \in Range(patterns) : Clean(p) \in Seq(Range(Bytes))
  BY MatcherAssumption
<1>2. Len(patterns) \in Nat /\ DOMAIN patterns = 1 .. Len(patterns)
  BY <1>1, LenProperties
<1>3. \A i \in 1 .. Len(patterns) : patterns[i] \in Range(patterns)
  BY <1>2 DEF Range
<1>4. ASSUME NEW i \in 1 .. Len(patterns)
      PROVE  patterns[i] # NoMatch /\ KeyOf(i) \in Seq(Alphabet)
  BY <1>1, <1>3, Zenon DEF KeyOf, Alphabet
<1> QED
  BY <1>2, <1>3, <1>4

LEMMA NodeFacts ==
    ASSUME nodes \in [DOMAIN nodes -> Node], NEW n \in DOMAIN nodes
    PROVE  /\ nodes[n].next \in [Alphabet -> Nat] /\ nodes[n].fail \in Nat
           /\ nodes[n].output \in Seq(Range(patterns))
<1>1. nodes[n] \in Node
  OBVIOUS
<1> QED
  BY <1>1 DEF Node

LEMMA NodeChanged ==
    ASSUME NEW old \in Node, NEW k \in Alphabet, NEW v \in Nat,
           NEW new, new = [old EXCEPT !.next[k] = v]
    PROVE  /\ new \in Node /\ new.fail = old.fail /\ new.output = old.output
           /\ \A b \in Alphabet : new.next[b] = IF b = k THEN v ELSE old.next[b]
<1>1. old.next \in [Alphabet -> Nat] /\ old.fail \in Nat /\ old.output \in Seq(Range(patterns))
  BY DEF Node
<1>2. PICK next : next = [old.next EXCEPT ![k] = v]
  OBVIOUS
<1>3. next \in [Alphabet -> Nat] /\ \A b \in Alphabet : next[b] = IF b = k THEN v ELSE old.next[b]
  BY <1>1, <1>2
<1>4. new = [old EXCEPT !.next = next]
  BY <1>2
<1>5. new = [next |-> next, fail |-> old.fail, output |-> old.output]
  BY <1>4 DEF Node
<1> QED
  BY <1>1, <1>3, <1>5 DEF Node

LEMMA EmptyNodeFacts ==
    /\ EmptyNode \in Node /\ EmptyNode.fail = 0 /\ EmptyNode.output = << >>
    /\ \A b \in Alphabet : EmptyNode.next[b] = 0
  BY DEF EmptyNode, Node, Alphabet

LEMMA MatcherInvInit == MatcherInit => MatcherInv
<1> SUFFICES ASSUME MatcherInit PROVE MatcherInv
  OBVIOUS
<1>1. /\ patterns \in PatternLists /\ nodes = [n \in {0} |-> EmptyNode] /\ apc = "insert"
      /\ pattern = 1 /\ pos = 1 /\ curr = 0 /\ match = NoMatch
  BY DEF MatcherInit, MatcherStart
<1>2. DOMAIN nodes = {0} /\ nodes[0] = EmptyNode /\ 0 .. 0 = {0}
  BY <1>1
<1>3. MatcherTypes
  <2>1. nodes \in [DOMAIN nodes -> Node]
    BY <1>1, <1>2, EmptyNodeFacts
  <2>2. \E size \in Nat : DOMAIN nodes = 0 .. size
    BY <1>2
  <2> QED
    BY <1>1, <1>2, <2>1, <2>2, PatternFacts DEF MatcherTypes
<1>4. PICK word : word = [n \in {0} |-> << >>]
  OBVIOUS
<1>5. Known = {}
  BY <1>1 DEF Known
<1>6. Spelled(word, DOMAIN nodes)
  BY <1>2, <1>4 DEF Spelled, Strings
<1>7. InTrie(word, 0) /\ Says(nodes[0].output, OwnAt(word[0])) /\ nodes[0].fail = 0
  <2>1. \A b \in Alphabet : Append(<< >>, b) # << >>
    OBVIOUS
  <2> QED
    BY <1>2, <1>4, <1>5, <2>1, EmptyNodeFacts DEF InTrie, Says, OwnAt
<1>8. pattern <= Len(patterns) =>
          pos \in 1 .. Len(Key) + 1 /\ word[curr] = SubSeq(Key, 1, pos - 1)
  <2> SUFFICES ASSUME pattern <= Len(patterns)
               PROVE  pos \in 1 .. Len(Key) + 1 /\ word[curr] = SubSeq(Key, 1, pos - 1)
    OBVIOUS
  <2>1. Key \in Seq(Alphabet)
    BY <1>1, PatternFacts DEF Key, KeyOf
  <2>2. SubSeq(Key, 1, 0) = << >>
    BY SubSeqEmpty
  <2> QED
    BY <1>1, <1>4, <2>1, <2>2
<1>9. InsertView(word)
  BY <1>2, <1>5, <1>6, <1>7, <1>8 DEF InsertView, Trie
<1> QED
  BY <1>1, <1>3, <1>9 DEF MatcherInv

LEMMA LastByte ==
    ASSUME NEW s \in Seq(Alphabet), NEW t \in Seq(Alphabet), NEW b \in Alphabet,
           NEW c \in Alphabet, Append(s, b) = Append(t, c)
    PROVE  s = t /\ b = c
BY AppendInjective

\* A node n + 1 for the string u.
Added(more, word, n, u) ==
    /\ Strings(more, 0 .. n + 1)
    /\ more[n + 1] = u
    /\ \A m \in 0 .. n : more[m] = word[m]

\* A node added for the string that follows one of the nodes by a byte.
LEMMA NodeAdded ==
    ASSUME NEW n \in Nat, NEW word, Spelled(word, 0 .. n),
           NEW p \in 0 .. n, NEW b \in Alphabet, NEW s, s = Append(word[p], b),
           \A m \in 0 .. n : word[m] # s, NEW more, Added(more, word, n, s)
    PROVE  /\ Spelled(more, 0 .. n + 1)
           /\ \A m \in 0 .. n + 1, c \in Alphabet : more[m] # Append(more[n + 1], c)
<1>1. \A m \in 0 .. n : word[m] \in Seq(Alphabet) /\ Len(word[m]) \in Nat
  BY DEF Spelled, Strings
<1>2. /\ more[n + 1] = Append(word[p], b) /\ \A m \in 0 .. n : more[m] = word[m]
      /\ \A m \in 0 .. n : word[m] # Append(word[p], b)
      /\ Strings(more, 0 .. n + 1)
  BY DEF Added
<1>3. \A m : m \in 0 .. n + 1 <=> m \in 0 .. n \/ m = n + 1
  OBVIOUS
<1>4. Append(word[p], b) \in Seq(Alphabet)
  BY <1>1
<1>5. 0 \in 0 .. n + 1 /\ more[0] = << >>
  BY <1>2 DEF Spelled
<1>6. \A m, k \in 0 .. n + 1 : more[m] = more[k] => m = k
  BY <1>2, <1>3 DEF Spelled
<1>7. ASSUME NEW m \in (0 .. n + 1) \ {0}
      PROVE  \E q \in 0 .. n + 1, c \in Alphabet : more[m] = Append(more[q], c)
  <2>1. CASE m = n + 1
    <3>1. p \in 0 .. n + 1 /\ more[m] = Append(word[p], b) /\ more[p] = word[p]
      BY <1>2, <2>1
    <3> QED
      BY <3>1, Zenon
  <2>2. CASE m # n + 1
    <3>1. m \in (0 .. n) \ {0}
      BY <2>2
    <3>2. PICK q \in 0 .. n, c \in Alphabet : word[m] = Append(word[q], c)
      BY <3>1 DEF Spelled
    <3>3. q \in 0 .. n + 1 /\ more[m] = Append(more[q], c)
      <4>1. m \in 0 .. n /\ q \in 0 .. n + 1
        BY <3>1
      <4> QED
        BY <1>2, <3>2, <4>1, Zenon
    <3> QED
      BY <3>3
  <2> QED
    BY <2>1, <2>2
<1>8. ASSUME NEW m \in 0 .. n + 1, NEW c \in Alphabet, more[m] = Append(more[n + 1], c)
      PROVE  FALSE
  <2>1. CASE m = n + 1
    <3>1. Len(Append(more[n + 1], c)) = Len(more[n + 1]) + 1 /\ Len(more[n + 1]) \in Nat
      BY <1>2, <1>4, AppendProperties
    <3> QED
      BY <1>8, <2>1, <3>1
  <2>2. CASE m # n + 1
    <3>1. PICK u \in Seq(Alphabet) : u = Append(word[p], b)
      BY <1>4
    <3>2. m \in 0 .. n /\ word[m] = Append(u, c)
      BY <1>2, <1>3, <1>8, <2>2, <3>1
    <3>3. word[m] # << >>
      BY <3>2, AppendProperties
    <3>4. PICK q \in 0 .. n, d \in Alphabet : word[m] = Append(word[q], d)
      BY <3>2, <3>3 DEF Spelled
    <3>5. PICK v \in Seq(Alphabet) : v = word[q]
      BY <1>1, <3>4
    <3>6. Append(u, c) = Append(v, d)
      BY <3>2, <3>4, <3>5, Zenon
    <3>7. v = u
      BY <3>6, LastByte
    <3> QED
      BY <3>1, <3>4, <3>5, <3>7, Zenon
  <2> QED
    BY <2>1, <2>2
<1> QED
  BY <1>2, <1>5, <1>6, <1>7, <1>8 DEF Spelled

LEMMA InsertByteSafe == MatcherInv /\ InsertByte => MatcherInv'
<1> SUFFICES ASSUME MatcherInv, InsertByte PROVE MatcherInv'
  OBVIOUS
<1> USE DEF Inserting
<1>1. PICK word : InsertView(word)
  BY DEF MatcherInv, InsertByte
<1>2. /\ MatcherTypes /\ apc = "insert" /\ pattern <= Len(patterns) /\ pattern \in Nat
      /\ pos \in 1 .. Len(Key) /\ Len(Key) \in Nat /\ Key \in Seq(Alphabet)
      /\ word[curr] = SubSeq(Key, 1, pos - 1)
      /\ UNCHANGED <<patterns, apc, pattern, queue, text, match>> /\ pos' = pos + 1
  <2>1. /\ MatcherTypes /\ apc = "insert"
        /\ pattern \in 1 .. Len(patterns) /\ patterns \in PatternLists
    BY PatternFacts DEF MatcherInv, InsertByte, MatcherTypes
  <2>2. Key \in Seq(Alphabet) /\ Len(Key) \in Nat
    BY <2>1, PatternFacts DEF Key, KeyOf
  <2> QED
    BY <1>1, <2>1, <2>2 DEF InsertByte, InsertView
<1>3. PICK size \in Nat : DOMAIN nodes = 0 .. size
  BY <1>2 DEF MatcherTypes
<1>4. PICK k \in Alphabet : k = Key[pos]
  BY <1>2, ElementOfSeq
<1>5. Key' = Key /\ Known' = Known
  BY <1>2 DEF Key, Known, KeyOf
<1>6. Append(word[curr], k) = SubSeq(Key, 1, pos)
  <2>1. SubSeq(Key, 1, pos) = SubSeq(Key, 1, pos - 1) \o <<Key[pos]>>
    BY <1>2, SubSeqRecursiveSecond
  <2>2. SubSeq(Key, 1, pos - 1) \in Seq(Alphabet)
    <3>1. \A i \in 1 .. pos - 1 : Key[i] \in Alphabet
      BY <1>2, ElementOfSeq
    <3>2. 1 \in Int /\ pos - 1 \in Int
      BY <1>2
    <3> QED
      BY <3>1, <3>2, SubSeqProperties
  <2> QED
    BY <1>2, <1>4, <2>1, <2>2, AppendIsConcat
<1>7. /\ Trie(word) /\ curr \in DOMAIN nodes /\ nodes \in [DOMAIN nodes -> Node]
      /\ \A n \in DOMAIN nodes : /\ InTrie(word, n) /\ nodes[n].fail = 0
                                 /\ Says(nodes[n].output, OwnAt(word[n]))
  BY <1>1, <1>2 DEF InsertView, MatcherTypes
<1>8. PICK next \in Nat : next = nodes[curr].next[k]
  BY <1>7, NodeFacts
<1>9. /\ patterns' \in PatternLists /\ pattern' \in 1 .. Len(patterns') + 1
       /\ apc' = "insert" /\ match' = NoMatch /\ pattern' # Len(patterns') + 1 /\ Node' = Node
  <2>1. Len(patterns) \in Nat
    BY <1>2, PatternFacts DEF MatcherTypes
  <2> QED
    BY <1>2, <2>1 DEF MatcherTypes, Node
<1>10. CASE next # 0
  <2>1. curr' = next /\ nodes' = nodes
    BY <1>2, <1>4, <1>8, <1>10 DEF InsertByte
  <2>2. next \in DOMAIN nodes /\ word[next] = Append(word[curr], k)
    BY <1>7, <1>8, <1>10 DEF InTrie
  <2>3. InsertView(word)'
    <3>1. pos' \in 1 .. Len(Key) + 1 /\ word[curr'] = SubSeq(Key, 1, pos' - 1)
      <4>1. pos' - 1 = pos /\ pos' \in 1 .. Len(Key) + 1
        BY <1>2
      <4> QED
        BY <1>6, <2>1, <2>2, <4>1
    <3> QED
      BY <1>2, <1>5, <1>7, <2>1, <3>1 DEF InsertView, Trie, InTrie, Says, OwnAt, KeyOf
  <2>4. MatcherTypes'
    <3>1. curr' \in DOMAIN nodes' /\ pos' \in Nat \ {0}
      BY <1>2, <2>1, <2>2
    <3> QED
      BY <1>2, <1>9, <2>1, <3>1 DEF MatcherTypes
  <2> QED
    BY <1>2, <2>3, <2>4 DEF MatcherInv
<1>11. CASE next = 0
  <2> DEFINE new == size + 1
  <2>1. Cardinality(DOMAIN nodes) = new
    <3>1. 0 \in Int /\ size \in Int /\ (IF 0 > size THEN 0 ELSE size - 0 + 1) = size + 1
      OBVIOUS
    <3>2. Cardinality(0 .. size) = size + 1
      BY <3>1, FS_Interval
    <3> QED
      BY <1>3, <3>2
  <2>2. /\ curr' = new
        /\ nodes' = [n \in 0 .. new |->
                        CASE n = new -> EmptyNode
                          [] n = curr -> [nodes[n] EXCEPT !.next[k] = new]
                          [] OTHER -> nodes[n]]
    BY <1>2, <1>4, <1>8, <1>11, <2>1 DEF InsertByte
  <2>3. /\ DOMAIN nodes' = 0 .. new /\ curr \in 0 .. size /\ curr # new
        /\ nodes'[new] = EmptyNode
        /\ nodes'[curr] = [nodes[curr] EXCEPT !.next[k] = new]
        /\ \A n \in 0 .. size : n # curr => nodes'[n] = nodes[n]
    BY <1>3, <1>7, <2>2
  <2>4. PICK more : more = [m \in 0 .. new |-> IF m = new THEN Append(word[curr], k)
                                                        ELSE word[m]]
    OBVIOUS
  <2>5. Spelled(word, 0 .. size) /\ \A m \in 0 .. size : word[m] # Append(word[curr], k)
    BY <1>3, <1>7, <1>8, <1>11 DEF Trie, InTrie
  <2>6. /\ Strings(more, 0 .. size + 1)
         /\ more[new] = Append(word[curr], k) /\ \A m \in 0 .. size : more[m] = word[m]
    <3>1. \A m \in 0 .. size : word[m] \in Seq(Alphabet)
      BY <2>5 DEF Spelled, Strings
    <3>2. Append(word[curr], k) \in Seq(Alphabet)
      BY <2>3, <3>1
    <3> QED
      BY <2>4, <3>1, <3>2 DEF Strings
  <2>7. /\ Spelled(more, 0 .. new)
        /\ more[new] = Append(word[curr], k) /\ \A m \in 0 .. size : more[m] = word[m]
        /\ \A m \in 0 .. new, c \in Alphabet : more[m] # Append(more[new], c)
    <3>1. PICK p \in 0 .. size : p = curr
      BY <2>3
    <3>2. \A m \in 0 .. size : word[m] # Append(word[p], k)
      BY <2>5, <3>1, Zenon
    <3>3. more[size + 1] = Append(word[p], k)
      BY <2>6, <3>1, Zenon
    <3>4. \A m \in 0 .. size : more[m] = word[m]
      BY <2>6, Zenon
    <3>5. Spelled(word, 0 .. size) /\ Strings(more, 0 .. size + 1)
      BY <2>5, <2>6
    <3>6. /\ Spelled(more, 0 .. size + 1)
          /\ \A m \in 0 .. size + 1, c \in Alphabet : more[m] # Append(more[size + 1], c)
      <4>1. PICK u : u = Append(word[p], k)
        OBVIOUS
      <4>2. Added(more, word, size, u) /\ \A m \in 0 .. size : word[m] # u
        BY <3>2, <3>3, <3>4, <3>5, <4>1, Zenon DEF Added
      <4> QED
        BY <3>5, <4>1, <4>2, NodeAdded, Zenon
    <3> QED
      BY <2>6, <3>6, Zenon
  <2>8. \A m : m \in 0 .. new <=> m \in 0 .. size \/ m = new
    OBVIOUS
  <2>9. /\ \A n \in 0 .. size : nodes'[n].fail = nodes[n].fail /\ nodes'[n].output = nodes[n].output
        /\ \A n \in 0 .. size, b \in Alphabet :
               nodes'[n].next[b] = IF n = curr /\ b = k THEN new ELSE nodes[n].next[b]
    <3>1. new \in Nat /\ nodes[curr] \in Node
      BY <1>7
    <3> HIDE DEF new
    <3>2. /\ nodes'[curr].fail = nodes[curr].fail /\ nodes'[curr].output = nodes[curr].output
          /\ \A b \in Alphabet : nodes'[curr].next[b] = IF b = k THEN new ELSE nodes[curr].next[b]
      BY <2>3, <3>1, NodeChanged
    <3> QED
      BY <2>3, <3>2
  <2>10. nodes' \in [0 .. new -> Node]
    <3>1. \A n \in 0 .. size : nodes[n] \in Node
      BY <1>3, <1>7
    <3>2. nodes'[curr] \in Node
      <4>1. new \in Nat /\ nodes[curr] \in Node
        BY <1>7
      <4> HIDE DEF new
      <4> QED
        BY <2>3, <4>1, NodeChanged
    <3>3. \A n \in 0 .. new : nodes'[n] \in Node
      BY <2>3, <2>8, <3>1, <3>2, EmptyNodeFacts
    <3> QED
      BY <2>2, <3>3
  <2>11. MatcherTypes'
    <3>1. new \in Nat /\ pos' \in Nat \ {0}
      BY <1>2
    <3>2. nodes' \in [DOMAIN nodes' -> Node'] /\ \E s \in Nat : DOMAIN nodes' = 0 .. s
      BY <1>9, <2>3, <2>10, <3>1
    <3>3. curr' \in DOMAIN nodes'
      BY <2>2, <2>3
    <3> QED
      BY <1>9, <3>1, <3>2, <3>3 DEF MatcherTypes
  <2>12. Trie(more)'
    <3>1. \A i \in Known : \E n \in 0 .. new : more[n] = KeyOf(i)
      BY <1>3, <1>7, <2>7, <2>8 DEF Trie
    <3> QED
      BY <1>2, <1>5, <2>3, <2>7, <3>1 DEF Trie, KeyOf
  <2>13. ASSUME NEW n \in 0 .. new PROVE InTrie(more, n)'
    <3> SUFFICES ASSUME NEW b \in Alphabet, NEW c, c = nodes'[n].next[b]
                 PROVE  /\ c = 0 => \A m \in 0 .. new : more[m] # Append(more[n], b)
                        /\ c # 0 => c \in 0 .. new /\ more[c] = Append(more[n], b)
      <4>1. DOMAIN nodes' = 0 .. new
        BY <2>3
      <4> QED
        BY <4>1, SMTT(30) DEF InTrie
    <3>1. CASE n = new
      <4>1. c = 0
        BY <2>3, <3>1, EmptyNodeFacts
      <4> QED
        BY <2>7, <3>1, <4>1
    <3>2. CASE n = curr /\ b = k
      <4>1. c = new /\ new # 0 /\ new \in 0 .. new
        BY <2>3, <2>9, <3>2
      <4>2. more[n] = word[curr] /\ more[c] = Append(word[curr], k)
        BY <2>3, <2>7, <3>2, <4>1
      <4> QED
        BY <3>2, <4>1, <4>2
    <3>3. CASE n # new /\ ~ (n = curr /\ b = k)
      <4>1. n \in 0 .. size /\ c = nodes[n].next[b] /\ more[n] = word[n]
        BY <2>7, <2>8, <2>9, <3>3
      <4>2. /\ c = 0 => \A m \in 0 .. size : word[m] # Append(word[n], b)
            /\ c # 0 => c \in 0 .. size /\ word[c] = Append(word[n], b)
        BY <1>3, <1>7, <4>1 DEF InTrie
      <4>3. Append(word[curr], k) # Append(word[n], b)
        <5>1. word[curr] \in Seq(Alphabet) /\ word[n] \in Seq(Alphabet)
          BY <2>3, <2>5, <4>1 DEF Spelled, Strings
        <5>2. word[curr] = word[n] => curr = n
          BY <2>3, <2>5, <4>1 DEF Spelled
        <5> QED
          BY <3>3, <5>1, <5>2, LastByte
      <4> QED
        BY <2>7, <2>8, <4>1, <4>2, <4>3
    <3> QED
      BY <3>1, <3>2, <3>3
  <2>14. ASSUME NEW n \in 0 .. new
         PROVE  nodes'[n].fail = 0 /\ Says(nodes'[n].output, OwnAt(more[n]))
    <3>1. CASE n = new
      <4>1. OwnAt(more[n]) = {}
        BY <1>3, <1>7, <2>5, <2>7, <3>1 DEF OwnAt, Trie
      <4> QED
        BY <2>3, <3>1, <4>1, EmptyNodeFacts DEF Says
    <3>2. CASE n # new
      <4>1. n \in 0 .. size
        BY <2>8, <3>2
      <4> QED
        BY <1>3, <1>7, <2>7, <2>9, <4>1
    <3> QED
      BY <3>1, <3>2
  <2>15. pos' \in 1 .. Len(Key) + 1 /\ more[curr'] = SubSeq(Key, 1, pos' - 1)
    <3>1. pos' - 1 = pos /\ pos' \in 1 .. Len(Key) + 1
      BY <1>2
    <3> QED
      BY <1>6, <2>2, <2>7, <3>1
  <2>16. InsertView(more)'
    <3>1. \A n \in 0 .. new : Says(nodes[n].output, OwnAt(more[n]))'
      BY <1>2, <1>5, <2>14, Zenon DEF Says, OwnAt, KeyOf
    <3> QED
      BY <1>2, <1>5, <2>3, <2>12, <2>13, <2>14, <2>15, <3>1 DEF InsertView
  <2> QED
    BY <1>2, <2>11, <2>16 DEF MatcherInv
<1> QED
  BY <1>10, <1>11
LEMMA OutputChanged ==
    ASSUME NEW old \in Node, NEW v \in Seq(Range(patterns)),
           NEW new, new = [old EXCEPT !.output = v]
    PROVE  new \in Node /\ new.next = old.next /\ new.fail = old.fail /\ new.output = v
BY DEF Node

\* The start of the next pattern.
LEMMA PatternStarts ==
    ASSUME NEW word, patterns \in PatternLists, pattern \in 1 .. Len(patterns),
           word[0] = << >>
    PROVE  1 \in 1 .. Len(Key) + 1 /\ word[0] = SubSeq(Key, 1, 1 - 1)
<1>1. Key \in Seq(Alphabet) /\ Len(Key) \in Nat
  BY PatternFacts DEF Key, KeyOf
<1>2. SubSeq(Key, 1, 0) = << >>
  BY SubSeqEmpty
<1> QED
  BY <1>1, <1>2

LEMMA PatternEndsSafe == MatcherInv /\ PatternEnds => MatcherInv'
<1> SUFFICES ASSUME MatcherInv, PatternEnds PROVE MatcherInv'
  OBVIOUS
<1> USE DEF Inserting
<1>1. PICK word : InsertView(word)
  BY DEF MatcherInv, PatternEnds
<1>2. /\ MatcherTypes /\ apc = "insert" /\ pattern \in 1 .. Len(patterns) /\ pattern \in Nat
      /\ patterns \in PatternLists /\ Len(patterns) \in Nat
      /\ UNCHANGED <<patterns, apc, queue, text, match>> /\ pattern' = pattern + 1
      /\ pos' = 1 /\ curr' = 0
  BY PatternFacts DEF MatcherInv, PatternEnds, MatcherTypes
<1>3. Key \in Seq(Alphabet) /\ Len(Key) \in Nat /\ Key = KeyOf(pattern)
  BY <1>2, PatternFacts DEF Key, KeyOf
<1>4. word[curr] = Key
  <2>1. pos = Len(Key) + 1 /\ word[curr] = SubSeq(Key, 1, pos - 1)
    BY <1>1, <1>2, <1>3 DEF PatternEnds, InsertView
  <2>2. pos - 1 = Len(Key)
    BY <1>3, <2>1
  <2> QED
    BY <1>3, <2>1, <2>2, SubSeqFull
<1>5. /\ Spelled(word, DOMAIN nodes) /\ curr \in DOMAIN nodes /\ 0 \in DOMAIN nodes
      /\ word[0] = << >> /\ nodes \in [DOMAIN nodes -> Node]
      /\ \A i \in Known : \E n \in DOMAIN nodes : word[n] = KeyOf(i)
      /\ \A n \in DOMAIN nodes : /\ InTrie(word, n) /\ nodes[n].fail = 0
                                 /\ Says(nodes[n].output, OwnAt(word[n]))
  BY <1>1, <1>2 DEF InsertView, MatcherTypes, Trie, Spelled
<1>6. patterns[pattern] \in Range(patterns)
  BY <1>2, PatternFacts
<1>7. Node' = Node /\ KeyOf(pattern)' = KeyOf(pattern') /\ \A i : KeyOf(i)' = KeyOf(i)
  BY <1>2 DEF Node, KeyOf
<1>8. Known' = IF Key = << >> THEN Known ELSE Known \cup {pattern}
  <2>1. 1 .. pattern' - 1 = (1 .. pattern - 1) \cup {pattern}
    BY <1>2
  <2> QED
    BY <1>2, <1>3, <2>1 DEF Known, KeyOf
<1>9. /\ DOMAIN nodes' = DOMAIN nodes /\ nodes' \in [DOMAIN nodes -> Node]
      /\ \A n \in DOMAIN nodes :
             /\ nodes'[n].next = nodes[n].next /\ nodes'[n].fail = nodes[n].fail
             /\ nodes'[n].output = IF n = curr /\ Key # << >>
                                   THEN Append(nodes[n].output, patterns[pattern])
                                   ELSE nodes[n].output
  <2>1. CASE Key = << >>
    BY <1>5, <2>1 DEF PatternEnds
  <2>2. CASE Key # << >>
    <3>1. PICK v : v = Append(nodes[curr].output, patterns[pattern])
      OBVIOUS
    <3>2. v \in Seq(Range(patterns))
      BY <1>5, <1>6, <3>1, NodeFacts
    <3>3. /\ DOMAIN nodes' = DOMAIN nodes
          /\ nodes'[curr] = [nodes[curr] EXCEPT !.output = v]
          /\ \A n \in DOMAIN nodes : n # curr => nodes'[n] = nodes[n]
          /\ nodes' = [n \in DOMAIN nodes |-> nodes'[n]]
      BY <1>5, <2>2, <3>1 DEF PatternEnds
    <3>4. /\ nodes'[curr] \in Node /\ nodes'[curr].next = nodes[curr].next
          /\ nodes'[curr].fail = nodes[curr].fail /\ nodes'[curr].output = v
      BY <1>5, <3>2, <3>3, OutputChanged
    <3>5. nodes' \in [DOMAIN nodes -> Node]
      BY <1>5, <3>3, <3>4
    <3> QED
      BY <2>2, <3>1, <3>3, <3>4, <3>5
  <2> QED
    BY <2>1, <2>2
<1>10. MatcherTypes'
  <2>1. \E size \in Nat : DOMAIN nodes' = 0 .. size
    BY <1>2, <1>9 DEF MatcherTypes
  <2>2. /\ pattern' \in 1 .. Len(patterns') + 1 /\ pos' \in Nat \ {0} /\ curr' \in DOMAIN nodes'
        /\ match' = NoMatch
    BY <1>2, <1>5, <1>9 DEF MatcherTypes
  <2>3. nodes' \in [DOMAIN nodes' -> Node']
    BY <1>7, <1>9
  <2> QED
    BY <1>2, <2>1, <2>2, <2>3 DEF MatcherTypes
<1>11. pattern' <= Len(patterns') =>
           pos' \in 1 .. Len(Key') + 1 /\ word[curr'] = SubSeq(Key', 1, pos' - 1)
  <2> SUFFICES ASSUME pattern' <= Len(patterns')
               PROVE  pos' \in 1 .. Len(Key') + 1 /\ word[curr'] = SubSeq(Key', 1, pos' - 1)
    OBVIOUS
  <2>1. pattern' \in 1 .. Len(patterns') /\ patterns' = patterns
    BY <1>2
  <2>2. Key' \in Seq(Alphabet) /\ Len(Key') \in Nat
    BY <1>2, <2>1, PatternFacts DEF Key, KeyOf
  <2>3. SubSeq(Key', 1, 0) = << >>
    BY SubSeqEmpty
  <2> QED
    BY <1>2, <1>5, <2>2, <2>3
<1>12. Trie(word)'
  <2>1. \A i \in Known' : \E n \in DOMAIN nodes : word[n] = KeyOf(i)
    BY <1>3, <1>4, <1>5, <1>8
  <2> QED
    BY <1>5, <1>7, <1>9, <2>1 DEF Trie
<1>13. ASSUME NEW n \in DOMAIN nodes PROVE Says(nodes[n].output, OwnAt(word[n]))'
  <2>1. CASE n # curr \/ Key = << >>
    <3>1. OwnAt(word[n])' = OwnAt(word[n])
      <4>1. n # curr => word[n] # Key
        BY <1>4, <1>5 DEF Spelled
      <4>2. OwnAt(word[n])' = {i \in Known' : KeyOf(i) = word[n]}
        BY <1>7 DEF OwnAt
      <4> QED
        BY <1>3, <1>8, <2>1, <4>1, <4>2 DEF OwnAt
    <3>2. nodes'[n].output = nodes[n].output
      BY <1>9, <2>1
    <3>3. Says(nodes[n].output, OwnAt(word[n]))
      BY <1>5
    <3> QED
      BY <1>2, <1>7, <3>1, <3>2, <3>3 DEF Says
  <2>2. CASE n = curr /\ Key # << >>
    <3>1. PICK out \in Seq(Range(patterns)) : out = nodes[n].output
      BY <1>5, NodeFacts
    <3>2. PICK new : new = Append(out, patterns[pattern])
      OBVIOUS
    <3>3. PICK S : S = OwnAt(word[n])
      OBVIOUS
    <3>4. PICK S2 : S2 = S \cup {pattern}
      OBVIOUS
    <3>5. OwnAt(word[n])' = S2 /\ nodes'[n].output = new /\ Says(out, S)
      <4>1. OwnAt(word[n])' = {i \in Known' : KeyOf(i) = word[n]}
        BY <1>7 DEF OwnAt
      <4>2. KeyOf(pattern) = word[n]
        BY <1>3, <1>4, <2>2
      <4> QED
        BY <1>5, <1>8, <1>9, <2>2, <3>1, <3>2, <3>3, <3>4, <4>1, <4>2 DEF OwnAt
    <3>6. \A j \in S2 : KeyOf(j) = Key
      BY <1>3, <1>4, <2>2, <3>3, <3>4 DEF OwnAt
    <3>7. new # << >> /\ new[1] = IF out = << >> THEN patterns[pattern] ELSE out[1]
      BY <1>6, <3>1, <3>2, AppendProperties, EmptySeq
    <3>8. \E i \in S2 : new[1] = patterns[i]
      BY <3>4, <3>5, <3>7 DEF Says
    <3>9. \A i, j \in S2 : Len(KeyOf(j)) <= Len(KeyOf(i))
      BY <1>3, <3>6
    <3>10. Says(new, S2)
      BY <3>4, <3>7, <3>8, <3>9 DEF Says
    <3> QED
      BY <1>2, <1>7, <3>5, <3>10 DEF Says
  <2> QED
    BY <2>1, <2>2
<1>14. ASSUME NEW n \in DOMAIN nodes PROVE InTrie(word, n)'
  <2>1. InTrie(word, n)
    BY <1>5
  <2> QED
    BY <1>9, <2>1 DEF InTrie
<1>15. \A n \in DOMAIN nodes : nodes'[n].fail = 0
  BY <1>5, <1>9
<1>16. InsertView(word)'
  BY <1>9, <1>11, <1>12, <1>13, <1>14, <1>15 DEF InsertView
<1> QED
  BY <1>2, <1>10, <1>16 DEF MatcherInv
-----------------------------------------------------------------------------
(***************************************************************************)
(* Completing the automaton                                                *)
(***************************************************************************)
LEMMA AlphabetFacts ==
    /\ Len(Bytes) \in Nat /\ DOMAIN Bytes = 1 .. Len(Bytes)
    /\ \A i \in 1 .. Len(Bytes) : Bytes[i] \in Alphabet
    /\ \A b \in Alphabet : \E i \in 1 .. Len(Bytes) : b = Bytes[i]
    /\ \A i, j \in 1 .. Len(Bytes) : Bytes[i] = Bytes[j] => i = j
<1>1. Bytes \in Seq(Range(Bytes)) /\ IsInjective(Bytes)
  BY MatcherAssumption
<1>2. Len(Bytes) \in Nat /\ DOMAIN Bytes = 1 .. Len(Bytes)
  BY <1>1, LenProperties
<1> QED
  BY <1>1, <1>2 DEF Alphabet, Range, IsInjective

\* A list of the nodes whose strings follow that of n by a byte.
AreKids(word, N, n, kids) ==
    /\ kids \in Seq(N \ {0})
    /\ \A i, j \in 1 .. Len(kids) : kids[i] = kids[j] => i = j
    /\ \A c \in N : c \in Range(kids) <=> \E b \in Alphabet : word[c] = Append(word[n], b)

LEMMA ChildrenFacts ==
    ASSUME NEW word, Spelled(word, DOMAIN nodes), NEW n \in DOMAIN nodes, InTrie(word, n)
    PROVE  /\ AreKids(word, DOMAIN nodes, n, Children(n))
           /\ \A c \in DOMAIN nodes, b \in Alphabet :
                  word[c] = Append(word[n], b) <=> c # 0 /\ nodes[n].next[b] = c
<1>1. PICK s : s = [i \in DOMAIN Bytes |-> nodes[n].next[Bytes[i]]]
  OBVIOUS
<1>2. PICK T : T = DOMAIN nodes \ {0}
  OBVIOUS
<1>3. /\ Len(s) = Len(Bytes) /\ Len(s) \in Nat
      /\ \A i \in 1 .. Len(s) : s[i] = nodes[n].next[Bytes[i]]
  BY <1>1, AlphabetFacts
<1>4. /\ \A m \in DOMAIN nodes : word[m] \in Seq(Alphabet)
      /\ word[0] = << >> /\ 0 \in DOMAIN nodes
      /\ \A m, k \in DOMAIN nodes : word[m] = word[k] => m = k
  BY DEF Spelled, Strings
<1>5. ASSUME NEW c \in DOMAIN nodes, NEW b \in Alphabet
      PROVE  word[c] = Append(word[n], b) <=> c # 0 /\ nodes[n].next[b] = c
  <2>1. PICK d : d = nodes[n].next[b]
    OBVIOUS
  <2>2. PICK u : u = Append(word[n], b)
    OBVIOUS
  <2>3. u # << >>
    BY <1>4, <2>2, AppendProperties
  <2>4. /\ d = 0 => \A m \in DOMAIN nodes : word[m] # u
        /\ d # 0 => d \in DOMAIN nodes /\ word[d] = u
    BY <2>1, <2>2 DEF InTrie
  <2>5. word[c] = u <=> c # 0 /\ d = c
    BY <1>4, <2>3, <2>4
  <2> QED
    BY <2>1, <2>2, <2>5
<1>6. ASSUME NEW j \in 1 .. Len(s), NEW k \in 1 .. Len(s), s[j] \in T, s[j] = s[k]
      PROVE  j = k
  <2>1. PICK a \in Alphabet, b \in Alphabet : a = Bytes[j] /\ b = Bytes[k]
    BY <1>3, AlphabetFacts
  <2>2. s[j] # 0 /\ s[j] \in DOMAIN nodes /\ nodes[n].next[a] = s[j] /\ nodes[n].next[b] = s[j]
    BY <1>2, <1>3, <1>6, <2>1
  <2>3. word[s[j]] = Append(word[n], a) /\ word[s[j]] = Append(word[n], b)
    BY <1>5, <2>2
  <2>4. a = b
    <3>1. Append(word[n], a) = Append(word[n], b) /\ word[n] \in Seq(Alphabet)
      BY <1>4, <2>3
    <3> QED
      BY <3>1, LastByte
  <2> QED
    BY <1>3, <2>1, <2>4, AlphabetFacts
<1>7. Children(n) = Only(s, T)
  BY <1>1, <1>2 DEF Children
<1>8. /\ Children(n) \in Seq(T)
      /\ Range(Children(n)) = Kept(s, T, Len(s))
      /\ \A i, j \in 1 .. Len(Children(n)) : Children(n)[i] = Children(n)[j] => i = j
  BY <1>3, <1>6, <1>7, OnlyFacts
<1>9. ASSUME NEW c \in DOMAIN nodes
      PROVE  c \in Range(Children(n)) <=> \E b \in Alphabet : word[c] = Append(word[n], b)
  <2>1. c \in Range(Children(n)) <=> c \in T /\ \E j \in 1 .. Len(s) : s[j] = c
    BY <1>8 DEF Kept
  <2>2. (\E j \in 1 .. Len(s) : s[j] = c) <=> \E b \in Alphabet : nodes[n].next[b] = c
    BY <1>3, AlphabetFacts
  <2> QED
    BY <1>2, <1>5, <2>1, <2>2
<1> QED
  BY <1>2, <1>5, <1>8, <1>9, Zenon DEF AreKids

LEMMA KnownFacts ==
    ASSUME patterns \in PatternLists, pattern \in 1 .. Len(patterns) + 1, NEW i \in Known
    PROVE  /\ i \in 1 .. Len(patterns) /\ KeyOf(i) \in Seq(Alphabet) /\ KeyOf(i) # << >>
           /\ Len(KeyOf(i)) \in Nat \ {0}
<1>1. i \in 1 .. Len(patterns) /\ KeyOf(i) # << >>
  BY PatternFacts DEF Known
<1>2. KeyOf(i) \in Seq(Alphabet)
  BY <1>1, PatternFacts
<1> QED
  BY <1>1, <1>2, EmptySeq

\* Nothing but the whole of a string of at most one byte ends in it.
LEMMA EndingInShort ==
    ASSUME patterns \in PatternLists, pattern \in 1 .. Len(patterns) + 1,
           NEW s \in Seq(Alphabet), Len(s) <= 1
    PROVE  EndingIn(s) = OwnAt(s)
<1>1. ASSUME NEW i \in Known PROVE Ends(KeyOf(i), s) <=> KeyOf(i) = s
  <2>1. KeyOf(i) \in Seq(Alphabet) /\ Len(KeyOf(i)) \in Nat \ {0} /\ Len(s) \in Nat
    BY KnownFacts
  <2>2. Ends(KeyOf(i), s) => Len(KeyOf(i)) = Len(s)
    BY <2>1 DEF Ends
  <2> QED
    BY <2>1, <2>2, SuffixBasics
<1> QED
  BY <1>1 DEF EndingIn, OwnAt

\* A string of one byte.
LEMMA OneByte ==
    ASSUME NEW b \in Alphabet
    PROVE  /\ Append(<< >>, b) \in Seq(Alphabet) /\ Append(<< >>, b) # << >>
           /\ Len(Append(<< >>, b)) = 1 /\ Tail(Append(<< >>, b)) = << >>
<1>1. PICK s : s = Append(<< >>, b)
  OBVIOUS
<1>2. s \in Seq(Alphabet) /\ Len(s) = 1
  BY <1>1
<1>3. s # << >>
  BY <1>1, AppendProperties
<1>4. Tail(s) \in Seq(Alphabet) /\ Len(Tail(s)) = 0
  BY <1>2, <1>3, HeadTailProperties
<1>5. Tail(s) = << >>
  BY <1>4, EmptySeq
<1> QED
  BY <1>1, <1>2, <1>3, <1>5

LEMMA LongestOfNothing ==
    ASSUME NEW word, NEW N, Spelled(word, N)
    PROVE  Longest(word, N, << >>, 0)
<1>1. 0 \in N /\ word[0] = << >>
  BY DEF Spelled
<1>2. Ends(<< >>, << >>)
  BY DEF Ends
<1> QED
  BY <1>1, <1>2 DEF Longest, Ends
LEMMA TrieEndsSafe == MatcherInv /\ TrieEnds => MatcherInv'
<1> SUFFICES ASSUME MatcherInv, TrieEnds PROVE MatcherInv'
  OBVIOUS
<1>1. PICK word : InsertView(word)
  BY DEF MatcherInv, TrieEnds
<1>2. /\ MatcherTypes /\ patterns \in PatternLists /\ pattern = Len(patterns) + 1
      /\ pattern \in 1 .. Len(patterns) + 1 /\ pos = 1 /\ curr = 0
      /\ apc' = "complete" /\ queue' = Children(0)
      /\ UNCHANGED <<patterns, nodes, pattern, pos, curr, text, match>>
  BY PatternFacts DEF MatcherInv, TrieEnds, MatcherTypes
<1>3. PICK N : N = DOMAIN nodes
  OBVIOUS
<1>4. /\ Trie(word) /\ Spelled(word, N) /\ 0 \in N /\ word[0] = << >>
      /\ \A n \in N : word[n] \in Seq(Alphabet)
      /\ \A m, n \in N : word[m] = word[n] => m = n
      /\ \A n \in N : /\ InTrie(word, n) /\ nodes[n].fail = 0
                      /\ Says(nodes[n].output, OwnAt(word[n]))
  BY <1>1, <1>3 DEF InsertView, Trie, Spelled, Strings
<1>5. PICK q : q = Children(0)
  OBVIOUS
<1>6. /\ q \in Seq(N \ {0}) /\ \A i, j \in 1 .. Len(q) : q[i] = q[j] => i = j
      /\ \A c \in N : c \in Range(q) <=> \E b \in Alphabet : word[c] = Append(<< >>, b)
  <2>1. InTrie(word, 0) /\ Spelled(word, DOMAIN nodes) /\ 0 \in DOMAIN nodes
    BY <1>3, <1>4
  <2>2. AreKids(word, N, 0, q)
    BY <1>3, <1>5, <2>1, ChildrenFacts, Zenon
  <2> QED
    BY <1>4, <2>2, Zenon DEF AreKids
<1>7. /\ q \in Seq(N) /\ Len(q) \in Nat /\ DOMAIN q = 1 .. Len(q)
      /\ \A i \in 1 .. Len(q) : q[i] \in N /\ q[i] # 0 /\ q[i] \in Range(q)
  BY <1>6, LenProperties, ElementOfSeq DEF Range
<1>8. \A i \in 1 .. Len(q) : Len(word[q[i]]) = 1
  <2> TAKE i \in 1 .. Len(q)
  <2>1. PICK b \in Alphabet : word[q[i]] = Append(<< >>, b)
    BY <1>6, <1>7, Zenon
  <2> QED
    BY <2>1, OneByte, Zenon
<1>9. QueueView(word, N, {0}, q)
  <2>1. ASSUME NEW p \in N, NEW n \in N, NEW b \in Alphabet, word[n] = Append(word[p], b)
        PROVE  p \in {0} <=> n \in {0} \cup Range(q)
    <3>1. n # 0
      BY <1>4, <2>1, AppendProperties
    <3>2. p = 0 => n \in Range(q)
      BY <1>4, <1>6, <2>1
    <3>3. ASSUME NEW c \in Alphabet, word[n] = Append(<< >>, c) PROVE p = 0
      <4>1. PICK v \in Seq(Alphabet) : v = word[p]
        BY <1>4
      <4>2. Append(v, b) = Append(<< >>, c)
        BY <2>1, <3>3, <4>1, Zenon
      <4>3. v = << >>
        <5>1. << >> \in Seq(Alphabet)
          OBVIOUS
        <5> QED
          BY <4>2, <5>1, LastByte
      <4> QED
        BY <1>4, <4>1, <4>3
    <3> QED
      BY <1>6, <3>1, <3>2, <3>3
  <2>2. \A i, j \in 1 .. Len(q) : i < j =>
            /\ Len(word[q[i]]) <= Len(word[q[j]])
            /\ Len(word[q[j]]) <= Len(word[q[i]]) + 1
    BY <1>8
  <2>3. {0} \subseteq N /\ 0 \in {0} /\ \A i \in 1 .. Len(q) : q[i] \notin {0}
    BY <1>4, <1>7
  <2> QED
    BY <1>6, <1>7, <2>1, <2>2, <2>3, Zenon DEF QueueView
<1>10. InAutomaton(word, 0)
  <2> SUFFICES ASSUME NEW b \in Alphabet, NEW c, c = nodes[0].next[b]
               PROVE  Longest(word, N, Append(word[0], b), c)
    BY <1>3 DEF InAutomaton
  <2>1. InTrie(word, 0)
    BY <1>4
  <2>2. CASE c # 0
    <3>1. c \in N /\ word[c] = Append(word[0], b)
      BY <1>3, <2>1, <2>2 DEF InTrie
    <3>2. Longest(word, N, word[c], c)
      BY <1>4, <3>1, LongestOfWord
    <3> QED
      BY <3>1, <3>2, Zenon
  <2>3. CASE c = 0
    <3>1. PICK s : s = Append(<< >>, b)
      OBVIOUS
    <3>2. s \in Seq(Alphabet) /\ s # << >> /\ Tail(s) = << >>
      BY <3>1, OneByte
    <3>3. \A m \in N : word[m] # s
      BY <1>3, <1>4, <2>1, <2>3, <3>1, ZenonT(40) DEF InTrie
    <3>4. Longest(word, N, Tail(s), 0)
      BY <1>4, <3>2, LongestOfNothing
    <3>5. Longest(word, N, s, 0)
      BY <1>4, <3>2, <3>3, <3>4, LongestOfTail
    <3> QED
      BY <1>4, <2>3, <3>1, <3>5, Zenon
  <2> QED
    BY <2>2, <2>3
<1>11. ASSUME NEW n \in {0} \cup Range(q)
       PROVE  /\ n # 0 => Longest(word, N, Tail(word[n]), nodes[n].fail)
              /\ Says(nodes[n].output, EndingIn(word[n]))
  <2>1. n \in N
    BY <1>4, <1>7 DEF Range
  <2>2. CASE n = 0
    <3>1. word[n] \in Seq(Alphabet) /\ Len(word[n]) <= 1
      BY <1>4, <2>2
    <3>2. EndingIn(word[n]) = OwnAt(word[n])
      BY <1>2, <3>1, EndingInShort
    <3> QED
      BY <1>4, <2>1, <2>2, <3>2
  <2>3. CASE n # 0
    <3>1. PICK b \in Alphabet : word[n] = Append(<< >>, b)
      BY <1>6, <2>1, <2>3
    <3>2. word[n] \in Seq(Alphabet) /\ Len(word[n]) <= 1 /\ Tail(word[n]) = << >>
      BY <3>1, OneByte
    <3>3. EndingIn(word[n]) = OwnAt(word[n])
      BY <1>2, <3>2, EndingInShort
    <3>4. Longest(word, N, << >>, 0)
      BY <1>4, LongestOfNothing
    <3> QED
      BY <1>4, <2>1, <3>2, <3>3, <3>4
  <2> QED
    BY <2>2, <2>3
<1>12. Known' = Known /\ Node' = Node
  BY <1>2 DEF Known, KeyOf, Node
<1>13. CompleteView(word, {0})'
  <2>1. Trie(word)'
    BY <1>2, <1>4, <1>12 DEF Trie, KeyOf
  <2>2. ASSUME NEW n \in N
        PROVE  /\ InTrie(word, n)' <=> InTrie(word, n)
               /\ InAutomaton(word, n)' <=> InAutomaton(word, n)
    BY <1>2 DEF InTrie, InAutomaton
  <2>3. ASSUME NEW n \in N
        PROVE  /\ n \in {0} => InAutomaton(word, n)'
               /\ n \notin {0} => InTrie(word, n)'
               /\ n \in {0} \cup Range(q) =>
                      /\ n # 0 => Longest(word, N, Tail(word[n]), nodes[n].fail)
                      /\ Says(nodes[n].output, EndingIn(word[n]))'
               /\ n \notin {0} \cup Range(q) => Says(nodes[n].output, OwnAt(word[n]))'
    <3>1. n \in {0} => InAutomaton(word, n)'
      BY <1>10, <2>2
    <3>2. n \notin {0} => InTrie(word, n)'
      BY <1>4, <2>2
    <3>3. ASSUME n \in {0} \cup Range(q)
          PROVE  /\ n # 0 => Longest(word, N, Tail(word[n]), nodes[n].fail)
                 /\ Says(nodes[n].output, EndingIn(word[n]))'
      BY <1>2, <1>11, <1>12, <3>3, Zenon DEF EndingIn, Says, KeyOf
    <3>4. Says(nodes[n].output, OwnAt(word[n]))'
      BY <1>2, <1>4, <1>12, Zenon DEF OwnAt, Says, KeyOf
    <3> QED
      BY <3>1, <3>2, <3>3, <3>4, Zenon
  <2> QED
    BY <1>2, <1>3, <1>5, <1>9, <2>1, <2>3 DEF CompleteView
<1>14. MatcherTypes'
  <2>1. nodes' \in [DOMAIN nodes' -> Node'] /\ \E size \in Nat : DOMAIN nodes' = 0 .. size
    BY <1>2, <1>12 DEF MatcherTypes
  <2>2. match' = NoMatch /\ curr' \in DOMAIN nodes' /\ pos' \in Nat \ {0}
    BY <1>2 DEF MatcherTypes, TrieEnds
  <2> QED
    BY <1>2, <2>1, <2>2 DEF MatcherTypes
<1> QED
  BY <1>2, <1>13, <1>14 DEF MatcherInv
\* Of the nodes that are not completed, one of those queued is as near to the root as any.
LEMMA Waiting ==
    ASSUME NEW word, NEW N, Spelled(word, N), NEW D, NEW q, QueueView(word, N, D, q),
           NEW m \in N \ D
    PROVE  \E i \in 1 .. Len(q) : Len(word[q[i]]) <= Len(word[m])
<1> DEFINE Waits(k) == \E i \in 1 .. Len(q) : Len(word[q[i]]) <= Len(word[k])
           Lost == {k \in N \ D : ~ Waits(k)}
           S == {Len(word[k]) : k \in Lost}
<1> SUFFICES ASSUME ~ Waits(m) PROVE FALSE
  OBVIOUS
<1>1. \A k \in N : word[k] \in Seq(Alphabet) /\ Len(word[k]) \in Nat
  BY DEF Spelled, Strings
<1>2. PICK k \in Lost : \A l \in Lost : Len(word[k]) <= Len(word[l])
  <2>1. S \in SUBSET Nat /\ S # {}
    BY <1>1
  <2>2. PICK x \in S : \A y \in S : x <= y
    <3> HIDE DEF S
    <3> QED
      BY <2>1, Least
  <2> HIDE DEF Lost
  <2> QED
    BY <2>2
<1>3. k \in N /\ k \notin D /\ k # 0 /\ ~ Waits(k)
  BY <1>2 DEF QueueView
<1>4. PICK p \in N, b \in Alphabet : word[k] = Append(word[p], b)
  BY <1>3 DEF Spelled
<1>5. Len(word[k]) = Len(word[p]) + 1
  BY <1>1, <1>4, AppendProperties
<1>6. CASE p \in D
  <2>1. k \in Range(q) /\ q \in Seq(N)
    BY <1>3, <1>4, <1>6 DEF QueueView
  <2>2. PICK i \in 1 .. Len(q) : q[i] = k
    BY <2>1, LenProperties DEF Range
  <2> QED
    BY <1>1, <1>3, <2>2
<1>7. CASE p \notin D
  <2>1. p \notin Lost
    BY <1>1, <1>2, <1>3, <1>5
  <2>2. PICK i \in 1 .. Len(q) : Len(word[q[i]]) <= Len(word[p])
    BY <1>7, <2>1
  <2>3. q[i] \in N
    <3>1. q \in Seq(N)
      BY DEF QueueView
    <3> QED
      BY <2>2, <3>1, ElementOfSeq
  <2>4. Len(word[q[i]]) <= Len(word[k])
    BY <1>1, <1>3, <1>5, <2>2, <2>3
  <2> QED
    BY <1>3, <2>4
<1> QED
  BY <1>6, <1>7

\* So all nodes nearer than the first of the queue are completed, and those as near as it
\* are completed or queued.
LEMMA NearerNodes ==
    ASSUME NEW word, NEW N, Spelled(word, N), NEW D, NEW q, QueueView(word, N, D, q),
           q # << >>, NEW m \in N
    PROVE  /\ q[1] \in N /\ q[1] \notin D /\ q[1] # 0
           /\ Len(word[m]) < Len(word[q[1]]) => m \in D
           /\ Len(word[m]) <= Len(word[q[1]]) => m \in D \cup Range(q)
<1>1. \A k \in N : word[k] \in Seq(Alphabet) /\ Len(word[k]) \in Nat
  BY DEF Spelled, Strings
<1>2. q \in Seq(N) /\ Len(q) \in Nat /\ 1 \in 1 .. Len(q) /\ \A i \in 1 .. Len(q) : q[i] \in N
  BY LenProperties, EmptySeq, ElementOfSeq DEF QueueView
<1>3. \A i \in 1 .. Len(q) : Len(word[q[1]]) <= Len(word[q[i]])
  <2> TAKE i \in 1 .. Len(q)
  <2>1. i = 1 \/ 1 < i
    BY <1>2
  <2> QED
    BY <1>1, <1>2, <2>1 DEF QueueView
<1>4. \A k \in N : Len(word[k]) < Len(word[q[1]]) => k \in D
  <2> SUFFICES ASSUME NEW k \in N \ D, Len(word[k]) < Len(word[q[1]]) PROVE FALSE
    OBVIOUS
  <2>1. PICK i \in 1 .. Len(q) : Len(word[q[i]]) <= Len(word[k])
    BY Waiting
  <2> QED
    BY <1>1, <1>2, <1>3, <2>1
<1>5. ASSUME Len(word[m]) <= Len(word[q[1]]), m # 0 PROVE m \in D \cup Range(q)
  <2>1. PICK p \in N, b \in Alphabet : word[m] = Append(word[p], b)
    BY <1>5 DEF Spelled
  <2>2. Len(word[m]) = Len(word[p]) + 1
    BY <1>1, <2>1, AppendProperties
  <2>3. p \in D
    BY <1>1, <1>2, <1>4, <1>5, <2>2
  <2> QED
    BY <2>1, <2>3 DEF QueueView
<1>6. 0 \in D /\ q[1] \notin D
  BY <1>2 DEF QueueView
<1> QED
  BY <1>2, <1>4, <1>5, <1>6

\* The first of the queue gives its place to its children at the end.
Moved(q, n, kids, r) == q # << >> /\ n = Head(q) /\ r = Tail(q) \o kids

LEMMA QueueMoves ==
    ASSUME NEW word, NEW N, Spelled(word, N), NEW D, NEW q, QueueView(word, N, D, q),
           NEW n, NEW kids, AreKids(word, N, n, kids), NEW r, Moved(q, n, kids, r),
           NEW E, E = D \cup {n}
    PROVE  /\ QueueView(word, N, E, r)
           /\ \A c \in Range(kids) : c \in N /\ c \notin D \cup Range(q)
           /\ E \cup Range(r) = D \cup Range(q) \cup Range(kids)
<1>1. /\ kids \in Seq(N \ {0})
      /\ \A i, j \in 1 .. Len(kids) : kids[i] = kids[j] => i = j
      /\ \A c \in N : c \in Range(kids) <=> \E b \in Alphabet : word[c] = Append(word[n], b)
  BY Zenon DEF AreKids
<1>2. q # << >> /\ n = Head(q) /\ r = Tail(q) \o kids
  BY Zenon DEF Moved
<1>3. /\ \A k \in N : word[k] \in Seq(Alphabet) /\ Len(word[k]) \in Nat
      /\ \A k, l \in N : word[k] = word[l] => k = l
  BY DEF Spelled, Strings
<1>4. /\ q \in Seq(N) /\ Len(q) \in Nat \ {0} /\ DOMAIN q = 1 .. Len(q)
      /\ \A i \in 1 .. Len(q) : q[i] \in N /\ q[i] \notin D
      /\ \A i, j \in 1 .. Len(q) : q[i] = q[j] => i = j
      /\ \A i, j \in 1 .. Len(q) : i < j => /\ Len(word[q[i]]) <= Len(word[q[j]])
                                            /\ Len(word[q[j]]) <= Len(word[q[i]]) + 1
      /\ 0 \in D /\ D \subseteq N
  BY <1>2, LenProperties, EmptySeq, ElementOfSeq DEF QueueView
<1>5. \A p, m \in N : \A b \in Alphabet :
          word[m] = Append(word[p], b) => (p \in D <=> m \in D \cup Range(q))
  BY DEF QueueView
<1>6. n = q[1] /\ n \in N /\ n \notin D /\ n \in Range(q) /\ 1 \in 1 .. Len(q)
  BY <1>4, <1>2 DEF Range
<1>7. /\ kids \in Seq(N) /\ Len(kids) \in Nat /\ DOMAIN kids = 1 .. Len(kids)
      /\ \A i \in 1 .. Len(kids) : kids[i] \in N /\ kids[i] \in Range(kids)
  BY <1>1, LenProperties, ElementOfSeq DEF Range
<1>8. ASSUME NEW c \in Range(kids)
      PROVE  c \in N /\ c \notin D \cup Range(q) /\ Len(word[c]) = Len(word[n]) + 1
  <2>1. c \in N
    BY <1>7 DEF Range
  <2>2. PICK b \in Alphabet : word[c] = Append(word[n], b)
    BY <1>1, <2>1
  <2>3. c \notin D \cup Range(q)
    BY <1>5, <1>6, <2>1, <2>2
  <2> QED
    BY <1>3, <1>6, <2>1, <2>2, <2>3, AppendProperties
<1>9. PICK t \in Seq(N) : t = Tail(q)
  BY <1>4, <1>2, HeadTailProperties
<1>10. /\ Len(t) = Len(q) - 1 /\ Len(t) \in Nat /\ DOMAIN t = 1 .. Len(t)
      /\ \A i \in 1 .. Len(t) : i + 1 \in 1 .. Len(q) /\ t[i] = q[i + 1]
  BY <1>4, <1>9, <1>2, HeadTailProperties, LenProperties
<1>11. r \in Seq(N) /\ r = t \o kids
  BY <1>7, <1>9, <1>2, ConcatProperties
<1>12. /\ Len(r) = Len(t) + Len(kids) /\ DOMAIN r = 1 .. Len(r) /\ Len(r) \in Nat
       /\ \A i \in 1 .. Len(r) : r[i] = IF i <= Len(t) THEN t[i] ELSE kids[i - Len(t)]
  BY <1>7, <1>9, <1>11, ConcatProperties, LenProperties
<1>13. ASSUME NEW i \in 1 .. Len(r)
       PROVE  \/ i \in 1 .. Len(t) /\ i + 1 \in 1 .. Len(q) /\ r[i] = q[i + 1]
              \/ i \notin 1 .. Len(t) /\ i - Len(t) \in 1 .. Len(kids) /\ r[i] = kids[i - Len(t)]
  BY <1>7, <1>10, <1>12
<1>14. ASSUME NEW i \in 1 .. Len(r)
       PROVE  /\ i \in 1 .. Len(t) => r[i] \in Range(q) /\ r[i] # n
              /\ i \notin 1 .. Len(t) => r[i] \in Range(kids)
  <2>1. CASE i \in 1 .. Len(t)
    <3>1. PICK k \in 1 .. Len(q) : k = i + 1 /\ r[i] = q[k] /\ k # 1
      <4>1. i + 1 # 1
        BY <1>10
      <4> QED
        BY <1>13, <2>1, <4>1
    <3>2. q[k] \in Range(q)
      BY <1>4 DEF Range
    <3>3. q[k] # q[1]
      BY <1>4, <1>6, <3>1
    <3> QED
      BY <1>6, <2>1, <3>1, <3>2, <3>3
  <2>2. CASE i \notin 1 .. Len(t)
    <3>1. PICK k \in 1 .. Len(kids) : r[i] = kids[k]
      BY <1>13, <2>2
    <3> QED
      BY <1>7, <2>2, <3>1
  <2> QED
    BY <2>1, <2>2
<1>15. Range(r) = (Range(q) \ {n}) \cup Range(kids)
  <2>1. ASSUME NEW x \in Range(r) PROVE x \in (Range(q) \ {n}) \cup Range(kids)
    <3>1. PICK i \in 1 .. Len(r) : r[i] = x
      BY <1>12 DEF Range
    <3> QED
      BY <1>14, <3>1
  <2>2. ASSUME NEW x \in Range(q) \ {n} PROVE x \in Range(r)
    <3>1. PICK i \in 1 .. Len(q) : q[i] = x
      BY <1>4 DEF Range
    <3>2. i # 1
      BY <1>6, <3>1
    <3>3. PICK j \in 1 .. Len(t) : j + 1 = i
      <4>1. i - 1 \in 1 .. Len(t) /\ (i - 1) + 1 = i
        BY <1>4, <1>10, <3>2
      <4> QED
        BY <4>1
    <3>4. j \in 1 .. Len(r) /\ r[j] = x
      BY <1>7, <1>10, <1>12, <3>1, <3>3
    <3> QED
      BY <1>12, <3>4 DEF Range
  <2>3. ASSUME NEW x \in Range(kids) PROVE x \in Range(r)
    <3>1. PICK i \in 1 .. Len(kids) : kids[i] = x
      BY <1>7 DEF Range
    <3>2. PICK j \in 1 .. Len(r) : j = i + Len(t) /\ ~ (j <= Len(t)) /\ j - Len(t) = i
      <4>1. /\ i + Len(t) \in 1 .. Len(r) /\ ~ (i + Len(t) <= Len(t))
            /\ (i + Len(t)) - Len(t) = i
        BY <1>7, <1>10, <1>12
      <4> QED
        BY <4>1, Zenon
    <3>3. r[j] = x
      BY <1>12, <3>1, <3>2
    <3> QED
      BY <1>12, <3>3 DEF Range
  <2> QED
    BY <2>1, <2>2, <2>3
<1>16. \A i, j \in 1 .. Len(r) : r[i] = r[j] => i = j
  <2> SUFFICES ASSUME NEW i \in 1 .. Len(r), NEW j \in 1 .. Len(r), r[i] = r[j] PROVE i = j
    OBVIOUS
  <2>1. r[i] = r[j]
    OBVIOUS
  <2>2. CASE i \in 1 .. Len(t) /\ j \in 1 .. Len(t)
    BY <1>4, <1>13, <2>2
  <2>3. CASE i \notin 1 .. Len(t) /\ j \notin 1 .. Len(t)
    <3>1. PICK k \in 1 .. Len(kids), l \in 1 .. Len(kids) :
              k = i - Len(t) /\ l = j - Len(t) /\ r[i] = kids[k] /\ r[j] = kids[l]
      BY <1>13, <2>3
    <3>2. k = l
      BY <1>1, <2>1, <3>1
    <3> QED
      BY <1>10, <3>1, <3>2
  <2>4. CASE i \in 1 .. Len(t) <=> j \notin 1 .. Len(t)
    BY <1>8, <1>14, <2>1, <2>4
  <2> QED
    BY <2>2, <2>3, <2>4
<1>17. \A i \in 1 .. Len(r) : r[i] \notin D \cup {n}
  <2> TAKE i \in 1 .. Len(r)
  <2>1. CASE i \in 1 .. Len(t)
    <3>1. i + 1 # 1
      OBVIOUS
    <3> QED
      BY <1>4, <1>6, <1>13, <2>1, <3>1
  <2>2. CASE i \notin 1 .. Len(t)
    BY <1>6, <1>7, <1>8, <1>13, <2>2
  <2> QED
    BY <2>1, <2>2
<1>18. ASSUME NEW i \in 1 .. Len(r), NEW j \in 1 .. Len(r), i < j
       PROVE  /\ Len(word[r[i]]) <= Len(word[r[j]])
              /\ Len(word[r[j]]) <= Len(word[r[i]]) + 1
  <2>1. CASE j \in 1 .. Len(t)
    <3>1. i \in 1 .. Len(t) /\ i + 1 < j + 1
      BY <1>10, <1>18, <2>1
    <3>2. PICK k \in 1 .. Len(q), l \in 1 .. Len(q) :
              k < l /\ r[i] = q[k] /\ r[j] = q[l]
      BY <1>13, <2>1, <3>1
    <3> QED
      BY <1>4, <3>2
  <2>2. CASE i \in 1 .. Len(t) /\ j \notin 1 .. Len(t)
    <3>1. Len(word[r[j]]) = Len(word[n]) + 1
      BY <1>7, <1>8, <1>13, <2>2
    <3>2. r[i] = q[i + 1] /\ i + 1 \in 1 .. Len(q) /\ 1 < i + 1
      BY <1>13, <2>2
    <3>3. Len(word[q[1]]) <= Len(word[r[i]]) /\ Len(word[r[i]]) <= Len(word[q[1]]) + 1
      BY <1>4, <1>6, <3>2
    <3>4. Len(word[r[i]]) \in Nat /\ Len(word[n]) \in Nat
      BY <1>3, <1>4, <1>6, <3>2
    <3> QED
      BY <1>6, <3>1, <3>3, <3>4
  <2>3. CASE i \notin 1 .. Len(t)
    <3>1. j \notin 1 .. Len(t)
      BY <1>10, <1>18, <2>3
    <3>2. Len(word[r[i]]) = Len(word[n]) + 1 /\ Len(word[r[j]]) = Len(word[n]) + 1
      BY <1>7, <1>8, <1>13, <2>3, <3>1
    <3> QED
      BY <1>3, <1>6, <3>2
  <2> QED
    BY <2>1, <2>2, <2>3
<1>19. ASSUME NEW p \in N, NEW m \in N, NEW b \in Alphabet, word[m] = Append(word[p], b)
       PROVE  p \in D \cup {n} <=> m \in (D \cup {n}) \cup Range(r)
  <2>1. p \in D <=> m \in D \cup Range(q)
    BY <1>5, <1>19
  <2>2. m \in Range(kids) <=> p = n
    <3>1. p = n => m \in Range(kids)
      BY <1>1, <1>19
    <3>2. ASSUME NEW c \in Alphabet, word[m] = Append(word[n], c) PROVE p = n
      <4>1. PICK v \in Seq(Alphabet), w \in Seq(Alphabet) : v = word[p] /\ w = word[n]
        BY <1>3, <1>6
      <4>2. Append(v, b) = Append(w, c)
        BY <1>19, <3>2, <4>1, Zenon
      <4>3. v = w
        BY <4>2, LastByte
      <4> QED
        BY <1>3, <1>6, <4>1, <4>3
    <3> QED
      BY <1>1, <3>1, <3>2
  <2> QED
    BY <1>6, <1>15, <2>1, <2>2
<1>20. QueueView(word, N, D \cup {n}, r)
  <2>1. 0 \in D \cup {n} /\ D \cup {n} \subseteq N
    BY <1>4, <1>6
  <2> QED
    BY <1>11, <1>16, <1>17, <1>18, <1>19, <2>1, Zenon DEF QueueView
<1>21. D \cup {n} \cup Range(r) = D \cup Range(q) \cup Range(kids)
  BY <1>6, <1>15
<1> QED
  BY <1>8, <1>20, <1>21, Zenon
LEMMA NextChanged ==
    ASSUME NEW old \in Node, NEW v \in [Alphabet -> Nat],
           NEW new, new = [old EXCEPT !.next = v]
    PROVE  new \in Node /\ new.next = v /\ new.fail = old.fail /\ new.output = old.output
BY DEF Node

Relinked(old, new, g, v) == new = [old EXCEPT !.fail = g, !.output = v]

LEMMA LinksChanged ==
    ASSUME NEW old \in Node, NEW g \in Nat, NEW v \in Seq(Range(patterns)),
           NEW new, Relinked(old, new, g, v)
    PROVE  new \in Node /\ new.next = old.next /\ new.fail = g /\ new.output = v
<1>1. new = [old EXCEPT !.fail = g, !.output = v]
  BY DEF Relinked
<1> QED
  BY <1>1 DEF Node

\* Two outputs one after the other, the longer patterns first.
LEMMA SaysJoined ==
    ASSUME NEW A, NEW o1 \in Seq(A), NEW o2 \in Seq(A), NEW S1, NEW S2,
           Says(o1, S1), Says(o2, S2),
           NEW n \in Nat, \A i \in S1 : Len(KeyOf(i)) = n, \A j \in S2 : Len(KeyOf(j)) <= n
    PROVE  Says(o1 \o o2, S1 \cup S2)
<1>1. CASE o1 = << >>
  <2>1. S1 = {} /\ o1 \o o2 = o2
    BY <1>1 DEF Says
  <2> QED
    BY <2>1
<1>2. CASE o1 # << >>
  <2>1. PICK o : o = o1 \o o2
    OBVIOUS
  <2>2. Len(o) = Len(o1) + Len(o2) /\ Len(o1) \in Nat \ {0} /\ Len(o2) \in Nat /\ o[1] = o1[1]
    BY <1>2, <2>1, ConcatProperties, EmptySeq
  <2>3. o # << >>
    BY <2>2
  <2>4. PICK i \in S1 : o[1] = patterns[i]
    BY <1>2, <2>2 DEF Says
  <2>5. S1 \cup S2 # {} /\ i \in S1 \cup S2
    BY <2>4
  <2>6. \A j \in S1 \cup S2 : Len(KeyOf(j)) <= Len(KeyOf(i))
    BY <2>4
  <2>7. Says(o, S1 \cup S2)
    BY <2>3, <2>4, <2>5, <2>6, Zenon DEF Says
  <2> QED
    BY <2>1, <2>7, Zenon
<1> QED
  BY <1>1, <1>2

\* What ends in a node's string is the whole of it or ends in that of its failure state.
LEMMA EndingInNode ==
    ASSUME patterns \in PatternLists, pattern \in 1 .. Len(patterns) + 1,
           NEW word, Trie(word), NEW s \in Seq(Alphabet), s # << >>,
           NEW g, Longest(word, DOMAIN nodes, Tail(s), g)
    PROVE  /\ EndingIn(s) = OwnAt(s) \cup EndingIn(word[g])
           /\ \A j \in EndingIn(word[g]) : Len(KeyOf(j)) <= Len(s)
<1>1. /\ Spelled(word, DOMAIN nodes)
      /\ \A i \in Known : \E m \in DOMAIN nodes : word[m] = KeyOf(i)
  BY DEF Trie
<1>2. Tail(s) \in Seq(Alphabet)
  BY HeadTailProperties
<1>3. ASSUME NEW i \in Known
      PROVE  /\ Ends(KeyOf(i), s) <=> KeyOf(i) = s \/ Ends(KeyOf(i), word[g])
             /\ Ends(KeyOf(i), s) => Len(KeyOf(i)) <= Len(s)
  <2>1. PICK m \in DOMAIN nodes : word[m] = KeyOf(i)
    BY <1>1
  <2>2. Ends(word[m], Tail(s)) <=> Ends(word[m], word[g])
    BY <1>1, <1>2, SuffixesOfLongest
  <2>3. KeyOf(i) \in Seq(Alphabet)
    BY KnownFacts
  <2>4. Ends(KeyOf(i), s) <=> KeyOf(i) = s \/ Ends(KeyOf(i), Tail(s))
    BY <2>3, SuffixOfTail
  <2>5. Ends(KeyOf(i), s) => Len(KeyOf(i)) <= Len(s)
    BY DEF Ends
  <2> QED
    BY <2>1, <2>2, <2>4, <2>5, Zenon
<1> QED
  BY <1>3, Zenon DEF EndingIn, OwnAt

\* The failure state of a node that is reached by b: where b leads from its parent's.
LEMMA FailOfChild ==
    ASSUME NEW word, Spelled(word, DOMAIN nodes), NEW s \in Seq(Alphabet), s # << >>,
           NEW f, Longest(word, DOMAIN nodes, Tail(s), f), InAutomaton(word, f),
           NEW b \in Alphabet
    PROVE  Longest(word, DOMAIN nodes, Tail(Append(s, b)), nodes[f].next[b])
<1>1. Tail(s) \in Seq(Alphabet) /\ Tail(Append(s, b)) = Append(Tail(s), b)
  <2>1. PICK t : t = Tail(s)
    OBVIOUS
  <2>2. PICK sb : sb = Append(s, b)
    OBVIOUS
  <2>3. /\ t \in Seq(Alphabet) /\ Len(t) = Len(s) - 1 /\ Len(s) \in Nat \ {0}
        /\ \A i \in 1 .. Len(s) - 1 : t[i] = s[i + 1]
    BY <2>1, HeadTailProperties, EmptySeq
  <2>4. /\ sb \in Seq(Alphabet) /\ sb # << >> /\ Len(sb) = Len(s) + 1 /\ sb[Len(s) + 1] = b
        /\ \A i \in 1 .. Len(s) : sb[i] = s[i]
    BY <2>2, AppendProperties
  <2>5. PICK u \in Seq(Alphabet) : u = Tail(sb)
    BY <2>4, HeadTailProperties
  <2>6. Len(u) = Len(s) /\ \A i \in 1 .. Len(s) : u[i] = sb[i + 1]
    BY <2>3, <2>4, <2>5, HeadTailProperties
  <2>7. PICK v \in Seq(Alphabet) : v = Append(t, b)
    <3>1. Append(t, b) \in Seq(Alphabet)
      BY <2>3
    <3> QED
      BY <3>1, Zenon
  <2>8. Len(v) = Len(s) /\ v[Len(s)] = b /\ \A i \in 1 .. Len(s) - 1 : v[i] = t[i]
    BY <2>3, <2>7, AppendProperties
  <2>9. \A i \in 1 .. Len(s) : u[i] = v[i]
    <3> TAKE i \in 1 .. Len(s)
    <3>1. CASE i = Len(s)
      BY <2>3, <2>4, <2>6, <2>8, <3>1
    <3>2. CASE i # Len(s)
      <4>1. i \in 1 .. Len(s) - 1 /\ i + 1 \in 1 .. Len(s)
        BY <2>3, <3>2
      <4> QED
        BY <2>3, <2>4, <2>6, <2>8, <4>1
    <3> QED
      BY <3>1, <3>2
  <2>10. u = v
    BY <2>6, <2>8, <2>9, SeqEqual
  <2> QED
    BY <2>1, <2>2, <2>3, <2>5, <2>7, <2>10, Zenon
<1>2. PICK g : g = nodes[f].next[b]
  OBVIOUS
<1>3. Longest(word, DOMAIN nodes, Append(word[f], b), g)
  BY <1>2 DEF InAutomaton
<1>4. Longest(word, DOMAIN nodes, Append(Tail(s), b), g)
  BY <1>1, <1>3, LongestOfAppend
<1> QED
  BY <1>1, <1>2, <1>4, Zenon

\* A node's transition once it is completed.
LEMMA NextOfCompleted ==
    ASSUME NEW word, Spelled(word, DOMAIN nodes), NEW n \in DOMAIN nodes, n # 0,
           InTrie(word, n), NEW f, Longest(word, DOMAIN nodes, Tail(word[n]), f),
           InAutomaton(word, f), NEW b \in Alphabet, NEW c,
           c = IF nodes[n].next[b] # 0 THEN nodes[n].next[b] ELSE nodes[f].next[b]
    PROVE  Longest(word, DOMAIN nodes, Append(word[n], b), c)
<1>1. word[n] \in Seq(Alphabet) /\ word[n] # << >>
  BY DEF Spelled, Strings
<1>2. PICK s \in Seq(Alphabet) : s = Append(word[n], b)
  <2>1. Append(word[n], b) \in Seq(Alphabet)
    BY <1>1
  <2> QED
    BY <2>1, Zenon
<1>3. s # << >>
  BY <1>1, <1>2, AppendProperties
<1>4. CASE nodes[n].next[b] # 0
  <2>1. c \in DOMAIN nodes /\ word[c] = Append(word[n], b)
    BY <1>4 DEF InTrie
  <2>2. Longest(word, DOMAIN nodes, word[c], c)
    BY <2>1, LongestOfWord
  <2> QED
    BY <2>1, <2>2, Zenon
<1>5. CASE nodes[n].next[b] = 0
  <2>1. c = nodes[f].next[b] /\ \A m \in DOMAIN nodes : word[m] # s
    BY <1>2, <1>5, Zenon DEF InTrie
  <2>2. Longest(word, DOMAIN nodes, Tail(s), c)
    BY <1>1, <1>2, <2>1, FailOfChild, Zenon
  <2>3. Longest(word, DOMAIN nodes, s, c)
    BY <1>3, <2>1, <2>2, LongestOfTail
  <2> QED
    BY <1>2, <2>3, Zenon
<1> QED
  BY <1>4, <1>5
LEMMA DequeueSafe == MatcherInv /\ Dequeue => MatcherInv'
<1> SUFFICES ASSUME MatcherInv, Dequeue PROVE MatcherInv'
  OBVIOUS
<1> DEFINE n == Head(queue)
           f == nodes[n].fail
           kids == Children(n)
           X == [b \in Alphabet |-> IF nodes[n].next[b] # 0 THEN nodes[n].next[b]
                                    ELSE nodes[f].next[b]]
           G(c) == nodes[f].next[CHOOSE b \in Alphabet : nodes[n].next[b] = c]
<1>1. nodes' = [c \in DOMAIN nodes |->
          CASE c = n -> [nodes[n] EXCEPT !.next = X]
            [] c \in Range(kids) ->
                   [nodes[c] EXCEPT !.fail = G(c),
                                    !.output = nodes[c].output \o nodes[G(c)].output]
            [] OTHER -> nodes[c]]
  BY Zenon DEF Dequeue, Inherited, Alphabet
<1>2. queue' = Tail(queue) \o kids
  BY Zenon DEF Dequeue
<1> HIDE DEF n, f, kids, X, G
<1>3. /\ apc = "complete" /\ queue # << >>
       /\ UNCHANGED <<patterns, apc, pattern, pos, curr, text, match>>
  BY Zenon DEF Dequeue
<1>4. PICK word, D : CompleteView(word, D)
  BY <1>3 DEF MatcherInv
<1>5. /\ MatcherTypes /\ patterns \in PatternLists /\ pattern \in 1 .. Len(patterns) + 1
      /\ pattern = Len(patterns) + 1 /\ pos = 1 /\ curr = 0 /\ match = NoMatch
      /\ apc = "complete" /\ queue # << >>
      /\ UNCHANGED <<patterns, apc, pattern, pos, curr, text, match>>
  BY <1>3 DEF MatcherInv, MatcherTypes
<1>6. PICK N : N = DOMAIN nodes
  OBVIOUS
<1>7. n = Head(queue)
  BY DEF n
<1>8. f = nodes[n].fail
  BY DEF f
<1>9. /\ Trie(word) /\ Spelled(word, N) /\ QueueView(word, N, D, queue) /\ 0 \in N
      /\ D \subseteq N /\ queue \in Seq(N)
      /\ \A m \in N : word[m] \in Seq(Alphabet) /\ Len(word[m]) \in Nat
      /\ \A m, k \in N : word[m] = word[k] => m = k
      /\ \A m \in N :
             /\ m \in D => InAutomaton(word, m)
             /\ m \notin D => InTrie(word, m)
             /\ m \in D \cup Range(queue) =>
                    /\ m # 0 => Longest(word, N, Tail(word[m]), nodes[m].fail)
                    /\ Says(nodes[m].output, EndingIn(word[m]))
             /\ m \notin D \cup Range(queue) => Says(nodes[m].output, OwnAt(word[m]))
  BY <1>4, <1>6 DEF CompleteView, Trie, Spelled, Strings, QueueView
<1>10. /\ n = queue[1] /\ n \in N /\ n \notin D /\ n # 0 /\ n \in Range(queue)
      /\ \A m \in N : /\ Len(word[m]) < Len(word[n]) => m \in D
                      /\ Len(word[m]) <= Len(word[n]) => m \in D \cup Range(queue)
  <2>1. n = queue[1]
    BY <1>5, <1>7, <1>9
  <2>2. \A m \in N : /\ n \in N /\ n \notin D /\ n # 0
                     /\ Len(word[m]) < Len(word[n]) => m \in D
                     /\ Len(word[m]) <= Len(word[n]) => m \in D \cup Range(queue)
    BY <1>5, <1>9, <2>1, NearerNodes
  <2> QED
    BY <1>9, <2>1, <2>2
<1>11. word[n] # << >>
  BY <1>9, <1>10 DEF Spelled
<1>12. InTrie(word, n) /\ Longest(word, N, Tail(word[n]), f)
  BY <1>8, <1>9, <1>10
<1>13. f \in N /\ InAutomaton(word, f)
  <2>1. f \in N /\ Len(word[f]) <= Len(Tail(word[n]))
    BY <1>12 DEF Longest, Ends
  <2>2. Len(Tail(word[n])) = Len(word[n]) - 1
    BY <1>9, <1>10, <1>11, HeadTailProperties
  <2>3. Len(word[f]) < Len(word[n])
    BY <1>9, <1>10, <2>1, <2>2
  <2> QED
    BY <1>9, <1>10, <2>1, <2>3
<1>14. kids = Children(n)
  BY DEF kids
<1>15. /\ AreKids(word, N, n, kids)
       /\ \A c \in N :
              /\ c \in Range(kids) <=> \E b \in Alphabet : word[c] = Append(word[n], b)
              /\ \A b \in Alphabet :
                     word[c] = Append(word[n], b) <=> c # 0 /\ nodes[n].next[b] = c
       /\ kids \in Seq(N \ {0})
  <2>1. Spelled(word, DOMAIN nodes) /\ n \in DOMAIN nodes /\ InTrie(word, n)
    BY <1>6, <1>9, <1>10, <1>12
  <2>2. AreKids(word, N, n, kids)
    BY <1>6, <1>14, <2>1, ChildrenFacts, Zenon
  <2>3. \A c \in DOMAIN nodes, b \in Alphabet :
            word[c] = Append(word[n], b) <=> c # 0 /\ nodes[n].next[b] = c
    BY <2>1, ChildrenFacts
  <2> QED
    BY <1>6, <2>2, <2>3, Zenon DEF AreKids
<1>16. PICK E : E = D \cup {n}
  OBVIOUS
<1>17. PICK q : q = Tail(queue) \o kids
  OBVIOUS
<1>18. /\ QueueView(word, N, E, q)
       /\ \A c \in Range(kids) : c \in N /\ c \notin D \cup Range(queue)
       /\ E \cup Range(q) = D \cup Range(queue) \cup Range(kids)
  <2>1. Spelled(word, N) /\ QueueView(word, N, D, queue)
    BY <1>9
  <2>2. Moved(queue, n, kids, q)
    BY <1>5, <1>7, <1>17, Zenon DEF Moved
  <2> QED
    <3>1. AreKids(word, N, n, kids)
      BY <1>15
    <3> QED
      BY <1>16, <2>1, <2>2, <3>1, QueueMoves
<1>19. queue' = q
  BY <1>17, <1>2
\* What becomes of the nodes.
<1>20. /\ DOMAIN nodes' = N
       /\ nodes'[n] = [nodes[n] EXCEPT !.next = X]
       /\ \A c \in Range(kids) :
              nodes'[c] = [nodes[c] EXCEPT !.fail = G(c),
                                           !.output = nodes[c].output \o nodes[G(c)].output]
       /\ \A m \in N : m # n /\ m \notin Range(kids) => nodes'[m] = nodes[m]
       /\ nodes' = [m \in N |-> nodes'[m]]
  <2>1. \A c \in Range(kids) : c \in N /\ c # n
    BY <1>10, <1>18
  <2> QED
    BY <1>1, <1>6, <1>10, <2>1, Zenon
<1>21. ASSUME NEW c \in Range(kids)
       PROVE  /\ G(c) \in N
              /\ Longest(word, N, Tail(word[c]), G(c))
              /\ Says(nodes[c].output \o nodes[G(c)].output, EndingIn(word[c]))
  <2>1. PICK b \in Alphabet : word[c] = Append(word[n], b)
    BY <1>15, <1>18
  <2>2. c \in N /\ c # 0 /\ c \notin D \cup Range(queue) /\ word[c] \in Seq(Alphabet)
    BY <1>9, <1>15, <1>18, <2>1
  <2>3. \A a \in Alphabet : nodes[n].next[a] = c <=> a = b
    <3> SUFFICES ASSUME NEW a \in Alphabet PROVE nodes[n].next[a] = c <=> a = b
      OBVIOUS
    <3>1. nodes[n].next[a] = c <=> word[c] = Append(word[n], a)
      BY <1>15, <2>2
    <3>2. Append(word[n], b) = Append(word[n], a) => a = b
      <4>1. PICK v \in Seq(Alphabet) : v = word[n]
        BY <1>9, <1>10
      <4>2. Append(v, b) = Append(v, a) => a = b
        BY LastByte
      <4> QED
        BY <4>1, <4>2, Zenon
    <3> QED
      BY <2>1, <3>1, <3>2, Zenon
  <2>4. PICK g : g = nodes[f].next[b]
    OBVIOUS
  <2>5. G(c) = g
    <3>1. (CHOOSE a \in Alphabet : nodes[n].next[a] = c) = b
      BY <2>3
    <3> QED
      BY <2>4, <3>1, Zenon DEF G
  <2>6. Longest(word, N, Tail(word[c]), g)
    <3>1. PICK s \in Seq(Alphabet) : s = word[n] /\ s # << >>
      BY <1>9, <1>10, <1>11
    <3>2. Longest(word, DOMAIN nodes, Tail(s), f)
      BY <1>6, <1>12, <3>1, Zenon
    <3>3. Spelled(word, DOMAIN nodes) /\ InAutomaton(word, f)
      BY <1>6, <1>9, <1>13
    <3>4. Longest(word, DOMAIN nodes, Tail(Append(s, b)), g)
      BY <2>4, <3>1, <3>2, <3>3, FailOfChild, Zenon
    <3> QED
      BY <1>6, <2>1, <3>1, <3>4, Zenon
  <2>7. word[c] # << >> /\ Len(word[c]) = Len(word[n]) + 1
    BY <1>9, <1>10, <2>1, AppendProperties
  <2>8. g \in N /\ Len(word[g]) <= Len(Tail(word[c]))
    BY <2>6 DEF Longest, Ends
  <2>9. Len(Tail(word[c])) = Len(word[n])
    <3>1. Len(Tail(word[c])) = Len(word[c]) - 1
      BY <2>2, <2>7, HeadTailProperties
    <3> QED
      BY <1>9, <1>10, <2>7, <3>1
  <2>10. g \in D \cup Range(queue)
    BY <1>10, <2>8, <2>9
  <2>11. Says(nodes[c].output, OwnAt(word[c])) /\ Says(nodes[g].output, EndingIn(word[g]))
    BY <1>9, <2>2, <2>8, <2>10
  <2>12. /\ EndingIn(word[c]) = OwnAt(word[c]) \cup EndingIn(word[g])
         /\ \A j \in EndingIn(word[g]) : Len(KeyOf(j)) <= Len(word[c])
    BY <1>5, <1>6, <1>9, <2>2, <2>6, <2>7, EndingInNode
  <2>13. \A i \in OwnAt(word[c]) : Len(KeyOf(i)) = Len(word[c])
    BY DEF OwnAt
  <2>14. PICK o1 \in Seq(Range(patterns)), o2 \in Seq(Range(patterns)) :
             o1 = nodes[c].output /\ o2 = nodes[g].output
    BY <1>5, <1>6, <2>2, <2>8, NodeFacts DEF MatcherTypes
  <2>15. Says(o1 \o o2, OwnAt(word[c]) \cup EndingIn(word[g]))
    BY <1>9, <2>2, <2>11, <2>12, <2>13, <2>14, SaysJoined
  <2> QED
    BY <2>5, <2>6, <2>8, <2>12, <2>14, <2>15, Zenon
<1>22. ASSUME NEW m \in N
       PROVE  /\ nodes'[m] \in Node
              /\ nodes'[m].next = IF m = n THEN X ELSE nodes[m].next
              /\ m \notin Range(kids) =>
                     nodes'[m].fail = nodes[m].fail /\ nodes'[m].output = nodes[m].output
              /\ m \in Range(kids) =>
                     /\ nodes'[m].fail = G(m)
                     /\ nodes'[m].output = nodes[m].output \o nodes[G(m)].output
  <2>1. /\ nodes \in [DOMAIN nodes -> Node] /\ \E size \in Nat : DOMAIN nodes = 0 .. size
        /\ nodes[m] \in Node
    BY <1>5, <1>6 DEF MatcherTypes
  <2>2. CASE m = n
    <3>1. X \in [Alphabet -> Nat]
      <4>1. nodes[n].next \in [Alphabet -> Nat] /\ nodes[f].next \in [Alphabet -> Nat]
        BY <1>6, <1>10, <1>13, <2>1, NodeFacts
      <4> QED
        BY <4>1 DEF X
    <3>2. m \notin Range(kids)
      BY <1>10, <1>18, <2>2
    <3> QED
      <4>1. nodes'[m] = [nodes[m] EXCEPT !.next = X]
        BY <1>20, <2>2, Zenon
      <4>2. /\ nodes'[m] \in Node /\ nodes'[m].next = X
            /\ nodes'[m].fail = nodes[m].fail /\ nodes'[m].output = nodes[m].output
        <5>1. PICK old \in Node, v \in [Alphabet -> Nat] : old = nodes[m] /\ v = X
          BY <2>1, <3>1, Zenon
        <5>2. PICK new : new = nodes'[m]
          OBVIOUS
        <5>3. new = [old EXCEPT !.next = v]
          BY <4>1, <5>1, <5>2, Zenon
        <5> QED
          BY <5>1, <5>3, <5>2, NextChanged
      <4> QED
        BY <2>2, <3>2, <4>2, Zenon
  <2>3. CASE m \in Range(kids)
    <3>1. m # n
      BY <1>10, <1>18, <2>3
    <3>2. G(m) \in Nat
      BY <1>6, <1>21, <2>1, <2>3
    <3>3. PICK v \in Seq(Range(patterns)) : v = nodes[m].output \o nodes[G(m)].output
      <4>1. /\ nodes[m].output \in Seq(Range(patterns))
            /\ nodes[G(m)].output \in Seq(Range(patterns))
        BY <1>6, <1>21, <2>1, <2>3, NodeFacts
      <4>2. nodes[m].output \o nodes[G(m)].output \in Seq(Range(patterns))
        BY <4>1, ConcatProperties
      <4> QED
        BY <4>2, Zenon
    <3>4. nodes'[m] = [nodes[m] EXCEPT !.fail = G(m), !.output = v]
      BY <1>20, <2>3, <3>3, Zenon
    <3> QED
      <4>1. /\ nodes'[m] \in Node /\ nodes'[m].next = nodes[m].next
            /\ nodes'[m].fail = G(m) /\ nodes'[m].output = v
        <5>1. PICK old \in Node, g \in Nat : old = nodes[m] /\ g = G(m)
          BY <2>1, <3>2, Zenon
        <5>2. PICK new : new = nodes'[m]
          OBVIOUS
        <5>3. Relinked(old, new, g, v)
          BY <3>4, <5>1, <5>2, Zenon DEF Relinked
        <5>4. new \in Node /\ new.next = old.next /\ new.fail = g /\ new.output = v
          BY <5>3, LinksChanged
        <5> QED
          BY <5>1, <5>2, <5>4, Zenon
      <4> QED
        BY <2>3, <3>1, <3>3, <4>1, Zenon
  <2>4. CASE m # n /\ m \notin Range(kids)
    BY <1>20, <2>1, <2>4, Zenon
  <2> QED
    BY <2>2, <2>3, <2>4
<1>23. Known' = Known /\ Node' = Node /\ \A i : KeyOf(i)' = KeyOf(i)
  BY <1>5 DEF Known, KeyOf, Node
<1>24. ASSUME NEW m \in N
       PROVE  /\ m \in E => InAutomaton(word, m)'
              /\ m \notin E => InTrie(word, m)'
  <2>1. CASE m = n
    <3>1. nodes'[m].next = X /\ m \in E
      BY <1>16, <1>22, <2>1
    <3>2. ASSUME NEW b \in Alphabet PROVE Longest(word, N, Append(word[m], b), X[b])
      <4>1. PICK c : c = X[b]
        OBVIOUS
      <4>2. c = IF nodes[n].next[b] # 0 THEN nodes[n].next[b] ELSE nodes[f].next[b]
        BY <4>1 DEF X
      <4>3. Longest(word, DOMAIN nodes, Append(word[n], b), c)
        BY <1>6, <1>9, <1>10, <1>12, <1>13, <4>2, NextOfCompleted
      <4> QED
        BY <1>6, <2>1, <4>1, <4>3, Zenon
    <3>3. InAutomaton(word, m)'
      BY <1>20, <3>1, <3>2, Zenon DEF InAutomaton, Alphabet
    <3> QED
      BY <3>1, <3>3
  <2>2. CASE m # n
    <3>1. nodes'[m].next = nodes[m].next
      BY <1>22, <2>2
    <3>2. m \in E <=> m \in D
      BY <1>16, <2>2
    <3>3. m \in D => InAutomaton(word, m)'
      <4>1. m \in D => InAutomaton(word, m)
        BY <1>9
      <4> QED
        BY <1>6, <1>20, <3>1, <4>1, Zenon DEF InAutomaton, Alphabet
    <3>4. m \notin D => InTrie(word, m)'
      <4>1. m \notin D => InTrie(word, m)
        BY <1>9
      <4> QED
        BY <1>6, <1>20, <3>1, <4>1, Zenon DEF InTrie, Alphabet
    <3> QED
      BY <3>2, <3>3, <3>4
  <2> QED
    BY <2>1, <2>2
<1>25. ASSUME NEW m \in N
       PROVE  /\ m \in E \cup Range(q) =>
                     /\ m # 0 => Longest(word, N, Tail(word[m]), nodes'[m].fail)
                     /\ Says(nodes'[m].output, EndingIn(word[m]))
              /\ m \notin E \cup Range(q) => Says(nodes'[m].output, OwnAt(word[m]))
  <2>1. CASE m \in Range(kids)
    <3>1. m \in E \cup Range(q)
      BY <1>18, <2>1
    <3>2. Longest(word, N, Tail(word[m]), nodes'[m].fail)
      BY <1>21, <1>22, <2>1, Zenon
    <3>3. Says(nodes'[m].output, EndingIn(word[m]))
      BY <1>21, <1>22, <2>1, Zenon
    <3> QED
      BY <3>1, <3>2, <3>3
  <2>2. CASE m \notin Range(kids)
    <3>1. nodes'[m].fail = nodes[m].fail /\ nodes'[m].output = nodes[m].output
      BY <1>22, <2>2
    <3>2. m \in E \cup Range(q) <=> m \in D \cup Range(queue)
      BY <1>18, <2>2
    <3> QED
      BY <1>9, <3>1, <3>2
  <2> QED
    BY <2>1, <2>2
<1>26. DOMAIN nodes' = N
  BY <1>20
<1>27. CompleteView(word, E)'
  <2>1. Trie(word)'
    BY <1>6, <1>9, <1>23, <1>26 DEF Trie
  <2>2. ASSUME NEW m \in N
        PROVE  /\ m \in E \cup Range(q) =>
                      /\ m # 0 => Longest(word, N, Tail(word[m]), nodes'[m].fail)
                      /\ Says(nodes[m].output, EndingIn(word[m]))'
               /\ m \notin E \cup Range(q) => Says(nodes[m].output, OwnAt(word[m]))'
    <3> QED
      BY <1>5, <1>23, <1>25, Zenon DEF Says, EndingIn, OwnAt
  <2> QED
    BY <1>18, <1>19, <1>24, <1>26, <2>1, <2>2 DEF CompleteView
<1>28. MatcherTypes'
  <2>1. /\ nodes' \in [DOMAIN nodes' -> Node'] /\ \E size \in Nat : DOMAIN nodes' = 0 .. size
        /\ curr' \in DOMAIN nodes'
    <3>1. nodes' \in [N -> Node]
      BY <1>20, <1>22, Zenon
    <3> QED
      BY <1>5, <1>6, <1>23, <1>26, <3>1 DEF MatcherTypes
  <2>2. pos' \in Nat \ {0}
    BY <1>5
  <2> QED
    BY <1>5, <2>1, <2>2 DEF MatcherTypes
<1>29. \E w, U : CompleteView(w, U)'
  BY <1>27, Zenon
<1> QED
  BY <1>28, <1>3, <1>29 DEF MatcherInv
-----------------------------------------------------------------------------
(***************************************************************************)
(* Searching a text                                                        *)
(***************************************************************************)
LEMMA TextFacts ==
    ASSUME text \in Texts
    PROVE  /\ Len(text) \in Nat
           /\ Folded \in Seq(Alphabet) /\ Len(Folded) = Len(text)
           /\ \A i \in 1 .. Len(text) : Folded[i] = Lower(text[i]) /\ Lower(text[i]) \in Alphabet
<1>1. text \in Seq(Range(text)) /\ \A b \in Range(text) : Lower(b) \in Range(Bytes)
  BY MatcherAssumption
<1>2. Len(text) \in Nat /\ DOMAIN text = 1 .. Len(text)
  BY <1>1, LenProperties
<1>3. \A i \in 1 .. Len(text) : Lower(text[i]) \in Alphabet
  <2> TAKE i \in 1 .. Len(text)
  <2>1. text[i] \in Range(text)
    BY <1>2 DEF Range
  <2> QED
    BY <1>1, <2>1, Zenon DEF Alphabet
<1>4. Folded = [i \in 1 .. Len(text) |-> Lower(text[i])]
  BY <1>2 DEF Folded
<1>5. Folded \in Seq(Alphabet) /\ Len(Folded) = Len(text)
  BY <1>2, <1>3, <1>4, IsASeq, LenProperties
<1> QED
  BY <1>2, <1>3, <1>4, <1>5

\* The first e bytes of the text in lower case.
LEMMA PrefixFacts ==
    ASSUME text \in Texts, NEW e \in 0 .. Len(text), NEW s, s = SubSeq(Folded, 1, e)
    PROVE  /\ s \in Seq(Alphabet) /\ Len(s) = e
           /\ \A i \in 1 .. e : s[i] = Folded[i]
           /\ e > 0 => s = Append(SubSeq(Folded, 1, e - 1), Lower(text[e]))
<1>1. /\ Folded \in Seq(Alphabet) /\ Len(Folded) = Len(text) /\ Len(text) \in Nat
      /\ \A i \in 1 .. Len(text) : Folded[i] = Lower(text[i]) /\ Folded[i] \in Alphabet
  BY TextFacts
<1>2. ASSUME NEW d \in 0 .. Len(text)
      PROVE  /\ SubSeq(Folded, 1, d) \in Seq(Alphabet) /\ Len(SubSeq(Folded, 1, d)) = d
             /\ \A i \in 1 .. d : SubSeq(Folded, 1, d)[i] = Folded[i]
  <2>1. 1 \in Int /\ d \in Int /\ d - 1 + 1 = d /\ \A i \in 1 .. d : Folded[i] \in Alphabet
    BY <1>1
  <2> QED
    BY <1>1, <2>1, SubSeqProperties
<1>3. ASSUME e > 0 PROVE s = Append(SubSeq(Folded, 1, e - 1), Lower(text[e]))
  <2>1. e \in 1 .. Len(Folded) /\ e - 1 \in 0 .. Len(text) /\ Folded[e] = Lower(text[e])
    BY <1>1, <1>3
  <2>2. SubSeq(Folded, 1, e) = SubSeq(Folded, 1, e - 1) \o <<Folded[e]>>
    BY <1>1, <2>1, SubSeqRecursiveSecond
  <2>3. SubSeq(Folded, 1, e - 1) \in Seq(Alphabet) /\ Folded[e] \in Alphabet
    BY <1>1, <1>2, <2>1
  <2> QED
    BY <2>1, <2>2, <2>3, AppendIsConcat
<1> QED
  BY <1>2, <1>3

\* The patterns that end at e are those that the first e bytes end in.
LEMMA EndingAtIsEndingIn ==
    ASSUME patterns \in PatternLists, pattern = Len(patterns) + 1,
           text \in Texts, NEW e \in 1 .. Len(text), NEW s, s = SubSeq(Folded, 1, e)
    PROVE  EndingAt(e) = EndingIn(s)
<1>1. /\ Len(patterns) \in Nat /\ DOMAIN patterns = 1 .. Len(patterns)
      /\ \A i \in 1 .. Len(patterns) : KeyOf(i) \in Seq(Alphabet)
  BY PatternFacts
<1>2. Known = {i \in DOMAIN patterns : KeyOf(i) # << >>}
  <2>1. 1 .. pattern - 1 = DOMAIN patterns
    BY <1>1
  <2> QED
    BY <2>1 DEF Known
<1>3. /\ e \in 0 .. Len(text) /\ Len(text) \in Nat /\ Len(s) = e
      /\ \A i \in 1 .. e : s[i] = Folded[i]
      /\ Folded \in Seq(Alphabet) /\ Len(Folded) = Len(text)
  BY TextFacts, PrefixFacts
<1>4. ASSUME NEW key \in Seq(Alphabet), key # << >>
      PROVE  Len(key) <= e /\ SubSeq(Folded, e - Len(key) + 1, e) = key <=> Ends(key, s)
  <2>1. Len(key) \in Nat \ {0}
    BY <1>4, EmptySeq
  <2> SUFFICES ASSUME Len(key) <= e
               PROVE  SubSeq(Folded, e - Len(key) + 1, e) = key
                          <=> \A k \in 1 .. Len(key) : key[k] = s[e - Len(key) + k]
    BY <1>3 DEF Ends
  <2>2. PICK a \in 1 .. e : a = e - Len(key) + 1
    <3>1. e - Len(key) + 1 \in 1 .. e
      BY <1>3, <2>1
    <3> QED
      BY <3>1, Zenon
  <2>3. PICK w : w = SubSeq(Folded, a, e)
    OBVIOUS
  <2>4. /\ w \in Seq(Alphabet) /\ Len(w) = Len(key)
        /\ \A k \in 1 .. Len(key) : w[k] = Folded[a + k - 1]
    <3>1. /\ a \in Int /\ e \in Int /\ e - a + 1 = Len(key) /\ a <= e + 1
          /\ \A i \in a .. e : i \in 1 .. Len(Folded) /\ Folded[i] \in Alphabet
      BY <1>3, <2>1, <2>2, ElementOfSeq
    <3> QED
      BY <1>3, <2>1, <2>2, <2>3, <3>1, SubSeqProperties
  <2>5. \A k \in 1 .. Len(key) : w[k] = s[e - Len(key) + k]
    <3> TAKE k \in 1 .. Len(key)
    <3>1. PICK i \in 1 .. e : i = a + k - 1 /\ i = e - Len(key) + k
      <4>1. a + k - 1 \in 1 .. e /\ a + k - 1 = e - Len(key) + k
        BY <2>1, <2>2
      <4> QED
        BY <4>1, Zenon
    <3> QED
      BY <1>3, <2>4, <3>1
  <2>6. w = key <=> \A k \in 1 .. Len(key) : key[k] = w[k]
    BY <2>1, <2>4, SeqEqual
  <2> QED
    BY <2>2, <2>3, <2>5, <2>6
<1>5. ASSUME NEW i \in DOMAIN patterns, KeyOf(i) # << >>
      PROVE  (Len(KeyOf(i)) <= e /\ SubSeq(Folded, e - Len(KeyOf(i)) + 1, e) = KeyOf(i))
                 <=> Ends(KeyOf(i), s)
  <2>1. PICK key \in Seq(Alphabet) : key = KeyOf(i)
    BY <1>1
  <2> QED
    BY <1>4, <1>5, <2>1
<1>6. EndingAt(e) = {i \in DOMAIN patterns :
          /\ KeyOf(i) # << >>
          /\ Len(KeyOf(i)) <= e /\ SubSeq(Folded, e - Len(KeyOf(i)) + 1, e) = KeyOf(i)}
  BY DEF EndingAt, KeyOf
<1> QED
  BY <1>2, <1>5, <1>6 DEF EndingIn
LEMMA SearchBeginsSafe == MatcherInv /\ SearchBegins => MatcherInv'
<1> SUFFICES ASSUME MatcherInv, SearchBegins PROVE MatcherInv'
  OBVIOUS
<1>1. PICK word, D : CompleteView(word, D)
  BY DEF MatcherInv, SearchBegins
<1>2. /\ MatcherTypes /\ pos = 1 /\ curr = 0 /\ match = NoMatch /\ queue = << >>
      /\ pattern = Len(patterns) + 1 /\ apc' = "search" /\ text' \in Texts
      /\ UNCHANGED <<patterns, nodes, pattern, pos, curr, queue, match>>
  BY DEF MatcherInv, SearchBegins, MatcherTypes
<1>3. PICK N : N = DOMAIN nodes
  OBVIOUS
<1>4. Trie(word) /\ Spelled(word, N) /\ QueueView(word, N, D, queue)
  BY <1>1, <1>3 DEF CompleteView, Trie
<1>5. \A n \in N : n \in D
  <2> SUFFICES ASSUME NEW n \in N \ D PROVE FALSE
    OBVIOUS
  <2>1. \E i \in 1 .. Len(queue) : Len(word[queue[i]]) <= Len(word[n])
    BY <1>4, Waiting
  <2>2. Len(queue) = 0
    BY <1>2
  <2> QED
    BY <2>1, <2>2
<1>6. \A n \in N : InAutomaton(word, n) /\ Says(nodes[n].output, EndingIn(word[n]))
  BY <1>1, <1>3, <1>5 DEF CompleteView
<1>7. Known' = Known /\ Node' = Node
  BY <1>2 DEF Known, KeyOf, Node
<1>8. SubSeq(Folded, 1, pos - 1)' = << >>
  <2>1. pos' - 1 = 0
    BY <1>2
  <2>2. SubSeq(Folded', 1, 0) = << >>
    BY SubSeqEmpty
  <2> QED
    BY <2>1, <2>2
<1>9. SearchView(word)'
  <2>1. Trie(word)'
    BY <1>2, <1>4, <1>7 DEF Trie, KeyOf
  <2>2. \A n \in N : InAutomaton(word, n)' /\ Says(nodes[n].output, EndingIn(word[n]))'
    BY <1>2, <1>6, <1>7 DEF InAutomaton, Says, EndingIn, KeyOf
  <2>3. pos' <= Len(text') + 1
    <3>1. text' \in Seq(Range(text'))
      BY <1>2, MatcherAssumption
    <3>2. Len(text') \in Nat
      BY <3>1, LenProperties
    <3> QED
      BY <1>2, <3>2
  <2>4. Longest(word, N, SubSeq(Folded, 1, pos - 1)', curr')
    BY <1>2, <1>4, <1>8, LongestOfNothing
  <2> QED
    BY <1>2, <1>3, <2>1, <2>2, <2>3, <2>4 DEF SearchView
<1>10. MatcherFindsFirst'
  BY <1>2 DEF MatcherFindsFirst
<1>11. MatcherTypes'
  <2>1. nodes' \in [DOMAIN nodes' -> Node'] /\ \E size \in Nat : DOMAIN nodes' = 0 .. size
    BY <1>2, <1>7 DEF MatcherTypes
  <2>2. curr' \in DOMAIN nodes' /\ pos' \in Nat \ {0}
    BY <1>2 DEF MatcherTypes
  <2> QED
    BY <1>2, <2>1, <2>2 DEF MatcherTypes
<1> QED
  BY <1>2, <1>9, <1>10, <1>11 DEF MatcherInv

LEMMA SearchByteSafe == MatcherInv /\ SearchByte => MatcherInv'
<1> SUFFICES ASSUME MatcherInv, SearchByte PROVE MatcherInv'
  OBVIOUS
<1>1. PICK word : SearchView(word)
  BY DEF MatcherInv, SearchByte
<1>2. /\ MatcherTypes /\ patterns \in PatternLists /\ pattern = Len(patterns) + 1
      /\ pattern \in 1 .. Len(patterns) + 1 /\ apc = "search" /\ text \in Texts
      /\ match = NoMatch /\ pos \in Nat \ {0} /\ pos <= Len(text) /\ pos' = pos + 1
      /\ MatcherFindsFirst /\ curr \in DOMAIN nodes
      /\ UNCHANGED <<patterns, nodes, apc, pattern, queue, text>>
  BY <1>1 DEF MatcherInv, SearchByte, SearchView, MatcherTypes
<1>3. PICK N : N = DOMAIN nodes
  OBVIOUS
<1>4. Len(text) \in Nat /\ pos \in 1 .. Len(text)
  BY <1>2, TextFacts
<1>5. PICK b \in Alphabet : b = Lower(text[pos])
  BY <1>2, <1>4, TextFacts
<1>6. PICK s : s = SubSeq(Folded, 1, pos - 1)
  OBVIOUS
<1>7. PICK t : t = SubSeq(Folded, 1, pos)
  OBVIOUS
<1>8. s \in Seq(Alphabet) /\ t \in Seq(Alphabet) /\ t = Append(s, b)
  <2>1. pos - 1 \in 0 .. Len(text) /\ pos \in 0 .. Len(text) /\ pos > 0
    BY <1>4
  <2>2. s \in Seq(Alphabet)
    BY <1>2, <1>6, <2>1, PrefixFacts
  <2>3. t \in Seq(Alphabet) /\ t = Append(SubSeq(Folded, 1, pos - 1), Lower(text[pos]))
    BY <1>2, <1>7, <2>1, PrefixFacts
  <2> QED
    BY <1>5, <1>6, <2>2, <2>3, Zenon
<1>9. /\ Trie(word) /\ Spelled(word, N) /\ Longest(word, N, s, curr)
      /\ \A n \in N : InAutomaton(word, n) /\ Says(nodes[n].output, EndingIn(word[n]))
  BY <1>1, <1>2, <1>3, <1>6 DEF SearchView, Trie
<1>10. PICK c : c = curr'
  OBVIOUS
<1>11. c = nodes[curr].next[b]
  BY <1>5, <1>10 DEF SearchByte
<1>12. Longest(word, N, t, c)
  <2>1. Longest(word, N, Append(word[curr], b), c)
    BY <1>2, <1>3, <1>9, <1>11, Zenon DEF InAutomaton
  <2>2. Longest(word, N, Append(s, b), c)
    BY <1>8, <1>9, <2>1, LongestOfAppend
  <2> QED
    BY <1>8, <2>2, Zenon
<1>13. c \in N
  BY <1>12 DEF Longest
<1>14. EndingAt(pos) = EndingIn(word[c])
  <2>1. EndingAt(pos) = EndingIn(t)
    BY <1>2, <1>4, <1>7, EndingAtIsEndingIn
  <2>2. ASSUME NEW i \in Known PROVE Ends(KeyOf(i), t) <=> Ends(KeyOf(i), word[c])
    <3>1. PICK m \in N : word[m] = KeyOf(i)
      BY <1>3, <1>9 DEF Trie
    <3>2. Ends(word[m], t) <=> Ends(word[m], word[c])
      BY <1>8, <1>9, <1>12, SuffixesOfLongest
    <3> QED
      BY <3>1, <3>2, Zenon
  <2> QED
    BY <2>1, <2>2, Zenon DEF EndingIn
<1>15. PICK out \in Seq(Range(patterns)) : out = nodes[c].output
  BY <1>2, <1>3, <1>13, NodeFacts DEF MatcherTypes
<1>16. /\ Says(out, EndingAt(pos))
       /\ match' = IF out = << >> THEN NoMatch ELSE out[1]
  BY <1>9, <1>10, <1>13, <1>14, <1>15 DEF SearchByte
<1>17. out # << >> => out[1] # NoMatch
  <2>1. out # << >> => out[1] \in Range(patterns)
    BY ElementOfSeq, EmptySeq, LenProperties
  <2>2. NoMatch \notin Range(patterns)
    BY <1>2, MatcherAssumption
  <2> QED
    BY <2>1, <2>2
<1>18. /\ match' = NoMatch <=> EndingAt(pos) = {}
       /\ match' # NoMatch =>
              \E i \in EndingAt(pos) :
                  /\ match' = patterns[i]
                  /\ \A j \in EndingAt(pos) : Len(KeyOf(j)) <= Len(KeyOf(i))
  BY <1>16, <1>17 DEF Says
<1>19. \A e : EndingAt(e)' = EndingAt(e)
  BY <1>2 DEF EndingAt, Folded
<1>20. MatcherFindsFirst'
  <2>1. pos' - 1 = pos /\ \A e : e \in 1 .. pos <=> e \in 1 .. pos - 1 \/ e = pos
    BY <1>2
  <2>2. \A e \in 1 .. pos - 1 : EndingAt(e) = {}
    BY <1>2 DEF MatcherFindsFirst
  <2>3. match' = NoMatch <=> \A e \in 1 .. pos : EndingAt(e) = {}
    BY <1>18, <2>1, <2>2
  <2>4. match' # NoMatch =>
            \E i \in EndingAt(pos) :
                /\ match' = patterns[i]
                /\ \A j \in EndingAt(pos) : Len(Clean(patterns[j])) <= Len(Clean(match'))
    BY <1>18, Zenon DEF KeyOf
  <2> QED
    BY <1>2, <1>19, <2>1, <2>3, <2>4, Zenon DEF MatcherFindsFirst
<1>21. Known' = Known /\ Node' = Node
  BY <1>2 DEF Known, KeyOf, Node
<1>22. SearchView(word)'
  <2>1. Trie(word)'
    BY <1>2, <1>9, <1>21 DEF Trie, KeyOf
  <2>2. \A n \in N : InAutomaton(word, n)' /\ Says(nodes[n].output, EndingIn(word[n]))'
    BY <1>2, <1>9, <1>21 DEF InAutomaton, Says, EndingIn, KeyOf
  <2>3. pos' <= Len(text') + 1
    BY <1>2, <1>4
  <2>4. Longest(word, N, SubSeq(Folded, 1, pos - 1)', curr')
    <3>1. SubSeq(Folded, 1, pos - 1)' = t
      <4>1. Folded' = Folded
        BY <1>2 DEF Folded
      <4>2. pos' - 1 = pos
        BY <1>2
      <4> QED
        BY <1>7, <4>1, <4>2
    <3> QED
      BY <1>10, <1>12, <3>1
  <2> QED
    BY <1>2, <1>3, <2>1, <2>2, <2>3, <2>4 DEF SearchView
<1>23. MatcherTypes'
  <2>1. nodes' \in [DOMAIN nodes' -> Node'] /\ \E size \in Nat : DOMAIN nodes' = 0 .. size
    BY <1>2, <1>21 DEF MatcherTypes
  <2>2. curr' \in DOMAIN nodes' /\ pos' \in Nat \ {0}
    BY <1>2, <1>3, <1>10, <1>13
  <2> QED
    BY <1>2, <2>1, <2>2 DEF MatcherTypes
<1> QED
  BY <1>2, <1>20, <1>22, <1>23 DEF MatcherInv

(***************************************************************************)
(* The Aho-Corasick search of NewAhoCorasick and Search agrees with a      *)
(* plain one: it reports nothing while no pattern has ended in the text,   *)
(* and a longest one at the first byte where any ends, for any alphabet,   *)
(* list of patterns and text.                                              *)
(***************************************************************************)
THEOREM MatcherCorrect == MatcherSpec => []MatcherFindsFirst
<1>1. MatcherInv /\ [MatcherNext]_matcherVars => MatcherInv'
  <2> SUFFICES ASSUME MatcherInv, [MatcherNext]_matcherVars PROVE MatcherInv'
    OBVIOUS
  <2>1. CASE MatcherNext
    BY <2>1, InsertByteSafe, PatternEndsSafe, TrieEndsSafe, DequeueSafe, SearchBeginsSafe,
       SearchByteSafe DEF MatcherNext
  <2>2. CASE UNCHANGED matcherVars
    <3>1. /\ UNCHANGED <<patterns, nodes, apc, pattern, pos, curr, queue, text, match>>
          /\ MatcherInv
      BY <2>2 DEF matcherVars
    <3>2. Known' = Known /\ Node' = Node /\ Key' = Key /\ Folded' = Folded
      BY <3>1 DEF Known, KeyOf, Node, Key, Folded
    <3>3. MatcherTypes'
      BY <3>1, <3>2 DEF MatcherInv, MatcherTypes
    <3>4. ASSUME NEW word
          PROVE  /\ Trie(word)' <=> Trie(word)
                 /\ \A n : InTrie(word, n)' <=> InTrie(word, n)
                 /\ \A n : InAutomaton(word, n)' <=> InAutomaton(word, n)
                 /\ \A n : Says(nodes[n].output, EndingIn(word[n]))'
                               <=> Says(nodes[n].output, EndingIn(word[n]))
                 /\ \A n : Says(nodes[n].output, OwnAt(word[n]))'
                               <=> Says(nodes[n].output, OwnAt(word[n]))
      BY <3>1, <3>2 DEF Trie, InTrie, InAutomaton, Says, OwnAt, EndingIn, KeyOf
    <3>5. ASSUME NEW word, InsertView(word) PROVE InsertView(word)'
      BY <3>1, <3>2, <3>4, <3>5 DEF InsertView
    <3>6. ASSUME NEW word, NEW D, CompleteView(word, D) PROVE CompleteView(word, D)'
      BY <3>1, <3>4, <3>6 DEF CompleteView
    <3>7. ASSUME NEW word, SearchView(word) PROVE SearchView(word)'
      BY <3>1, <3>2, <3>4, <3>7 DEF SearchView
    <3>8. MatcherFindsFirst => MatcherFindsFirst'
      BY <3>1, <3>2 DEF MatcherFindsFirst, EndingAt
    <3> QED
      BY <3>1, <3>3, <3>5, <3>6, <3>7, <3>8 DEF MatcherInv
  <2> QED
    BY <2>1, <2>2
<1>2. MatcherInv => MatcherFindsFirst
  BY DEF MatcherInv, MatcherFindsFirst
<1> QED
  BY MatcherInvInit, <1>1, <1>2, PTL DEF MatcherSpec
==============================================================================
