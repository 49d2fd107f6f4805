----------------------------- MODULE TotalsProofs ----------------------------
(***************************************************************************)
(* What the sum of a sequence does when an element is added at the end or  *)
(* taken from the front, and how the sums of two functions over a set      *)
(* compare.  Induction is over a set of numbers, not over a predicate.     *)
(***************************************************************************)
EXTENDS Totals, FiniteSetTheorems, WellFoundedInduction, TLAPS

(* A set of numbers with 0 and the successor of each of its numbers has    *)
(* all of them: otherwise take the least that is missing.                  *)
LEMMA SetInduction ==
    ASSUME NEW S, 0 \in S, \A n \in Nat : n \in S => n + 1 \in S
    PROVE  \A n \in Nat : n \in S
<1> DEFINE R == {ss \in Nat \X Nat : ss[1] < ss[2]}
           T == Nat \ S
<1>1. IsWellFoundedOn(R, Nat)
  <2>1. OpToRel(<, Nat) = R
    BY DEF OpToRel
  <2> QED BY <2>1, NatLessThanWellFounded
<1>2. SUFFICES ASSUME T # {} PROVE FALSE
  OBVIOUS
<1>3. T \subseteq Nat
  OBVIOUS
<1>4. PICK x \in T : \A y \in T : ~ (<<y, x>> \in R)
  <2> HIDE DEF R, T
  <2> QED BY <1>1, <1>2, <1>3, WFMin
<1>5. x # 0 /\ x - 1 \in Nat
  OBVIOUS
<1>6. x - 1 \notin S /\ <<x - 1, x>> \in R
  BY <1>5
<1> QED BY <1>4, <1>5, <1>6

(* A set of numbers that has one has a least one.                          *)
LEMMA LeastExists ==
    ASSUME NEW T, T \subseteq Nat, T # {}
    PROVE  \E x \in T : \A y \in T : x <= y
<1> DEFINE S == {m \in Nat : (\E x \in T : x <= m) => \E x \in T : \A y \in T : x <= y}
<1>1. 0 \in S
  OBVIOUS
<1>2. ASSUME NEW m \in Nat, m \in S PROVE m + 1 \in S
  <2>1. CASE \E x \in T : x <= m
    BY <1>2, <2>1
  <2>2. CASE ~ \E x \in T : x <= m
    BY <2>2
  <2> QED BY <2>1, <2>2
<1>3. \A m \in Nat : m \in S
  <2> HIDE DEF S
  <2> QED BY <1>1, <1>2, SetInduction
<1>4. PICK z \in T : TRUE
  OBVIOUS
<1> QED BY <1>3, <1>4

(* Steps 1..n, each from X to X, and what they make of x one by one.      *)
StepsOn(n, X) == [1..n -> [X -> X]]

Iterates(g, n, x, F) == g[0] = x /\ \A i \in 1..n : g[i] = F[i][g[i - 1]]

(* A function that is defined by steps over 0..n, each from the value      *)
(* before it, exists.                                                      *)
LEMMA IterationExists ==
    ASSUME NEW n \in Nat, NEW X, NEW x \in X, NEW F \in StepsOn(n, X)
    PROVE  \E g \in [0..n -> X] : Iterates(g, n, x, F)
<1> USE DEF StepsOn, Iterates
<1> DEFINE Steps(g, m) == g[0] = x /\ \A i \in 1..m : g[i] = F[i][g[i - 1]]
           S == {m \in Nat : m <= n => \E g \in [0..m -> X] : Steps(g, m)}
<1>1. 0 \in S
  <2> DEFINE h == [i \in 0..0 |-> x]
  <2>1. h \in [0..0 -> X] /\ Steps(h, 0)
    OBVIOUS
  <2> QED BY <2>1
<1>2. ASSUME NEW m \in Nat, m \in S PROVE m + 1 \in S
  <2> SUFFICES ASSUME m + 1 <= n PROVE \E g \in [0..(m + 1) -> X] : Steps(g, m + 1)
    OBVIOUS
  <2>1. PICK g \in [0..m -> X] : Steps(g, m)
    BY <1>2
  <2> DEFINE h == [i \in 0..(m + 1) |-> IF i = m + 1 THEN F[m + 1][g[m]] ELSE g[i]]
  <2>2. h \in [0..(m + 1) -> X]
    <3>1. g[m] \in X /\ F[m + 1] \in [X -> X]
      OBVIOUS
    <3>2. F[m + 1][g[m]] \in X
      BY <3>1
    <3> QED BY <3>2
  <2>3. ASSUME NEW i \in 1..(m + 1)
        PROVE  h[i] = F[i][h[i - 1]]
    <3>1. CASE i = m + 1
      BY <3>1
    <3>2. CASE i # m + 1
      <4>1. i \in 1..m /\ i - 1 \in 0..m
        BY <3>2
      <4> QED BY <2>1, <3>2, <4>1
    <3> QED BY <3>1, <3>2
  <2>4. h[0] = x
    BY <2>1
  <2> QED BY <2>2, <2>3, <2>4
<1>3. n \in S
  <2> HIDE DEF S
  <2> QED BY <1>1, <1>2, SetInduction
<1> QED BY <1>3
(* A function that adds up the elements of a sequence of integers.         *)
AddsUp(g, s) == g = [k \in 0..Len(s) |-> IF k = 0 THEN 0 ELSE g[k - 1] + s[k]]

(* There is one: a prefix's can be extended by one element.                *)
LEMMA TotalsExist ==
    ASSUME NEW s \in Seq(Int)
    PROVE  \E g : AddsUp(g, s)
<1> DEFINE Step(g, n) == [k \in 0..n |-> IF k = 0 THEN 0 ELSE g[k - 1] + s[k]]
           S == {n \in Nat : n <= Len(s) => \E g : g = Step(g, n)}
<1>1. 0 \in S
  <2>1. [k \in 0..0 |-> 0] = Step([k \in 0..0 |-> 0], 0)
    OBVIOUS
  <2> QED BY <2>1
<1>2. ASSUME NEW n \in Nat, n \in S PROVE n + 1 \in S
  <2> SUFFICES ASSUME n + 1 <= Len(s) PROVE \E g : g = Step(g, n + 1)
    OBVIOUS
  <2>1. n <= Len(s)
    OBVIOUS
  <2>2. PICK g : g = Step(g, n)
    BY <1>2, <2>1
  <2> DEFINE h == [k \in 0..(n + 1) |-> IF k = n + 1 THEN g[n] + s[n + 1] ELSE g[k]]
  <2>3. ASSUME NEW k \in 0..(n + 1)
        PROVE  h[k] = IF k = 0 THEN 0 ELSE h[k - 1] + s[k]
    <3>1. CASE k = n + 1
      BY <3>1
    <3>2. CASE k # n + 1
      <4>1. k \in 0..n /\ (k # 0 => k - 1 \in 0..n)
        BY <3>2
      <4>2. g[k] = IF k = 0 THEN 0 ELSE g[k - 1] + s[k]
        BY <2>2, <4>1
      <4> QED BY <3>2, <4>1, <4>2
    <3> QED BY <3>1, <3>2
  <2>4. h = Step(h, n + 1)
    BY <2>3
  <2> QED BY <2>4
<1>3. Len(s) \in S
  <2> HIDE DEF S
  <2> QED BY <1>1, <1>2, SetInduction
<1> QED BY <1>3 DEF AddsUp

(* So RunningTotal is what its definition says.                            *)
LEMMA RunningTotalAddsUp ==
    ASSUME NEW s \in Seq(Int)
    PROVE  AddsUp(RunningTotal(s), s)
<1>1. PICK g : AddsUp(g, s)
  BY TotalsExist
<1> QED BY <1>1 DEF RunningTotal, AddsUp

(* And what adds up the elements is integers, and RunningTotal.            *)
LEMMA TotalsUnique ==
    ASSUME NEW s \in Seq(Int), NEW g, AddsUp(g, s)
    PROVE  \A n \in 0..Len(s) : g[n] \in Int /\ RunningTotal(s)[n] = g[n]
<1> DEFINE r == RunningTotal(s)
           S == {n \in Nat : n <= Len(s) => g[n] \in Int /\ r[n] = g[n]}
<1>1. AddsUp(r, s)
  BY RunningTotalAddsUp
<1> HIDE DEF r
<1>2. 0 \in S
  BY <1>1 DEF AddsUp
<1>3. ASSUME NEW n \in Nat, n \in S PROVE n + 1 \in S
  <2> SUFFICES ASSUME n + 1 <= Len(s) PROVE g[n + 1] \in Int /\ r[n + 1] = g[n + 1]
    OBVIOUS
  <2>1. n + 1 \in 0..Len(s) /\ n + 1 # 0 /\ s[n + 1] \in Int /\ (n + 1) - 1 = n
    OBVIOUS
  <2>2. g[n + 1] = g[n] + s[n + 1] /\ r[n + 1] = r[n] + s[n + 1]
    BY <1>1, <2>1 DEF AddsUp
  <2>3. g[n] \in Int /\ r[n] = g[n]
    BY <1>3
  <2> QED BY <2>1, <2>2, <2>3
<1>4. \A n \in Nat : n \in S
  <2> HIDE DEF S
  <2> QED BY <1>2, <1>3, SetInduction
<1> QED BY <1>4 DEF r

LEMMA TotalType ==
    ASSUME NEW s \in Seq(Int)
    PROVE  TotalOf(s) \in Int
  BY RunningTotalAddsUp, TotalsUnique DEF TotalOf

LEMMA TotalOfNone == TotalOf(<<>>) = 0
<1>1. <<>> \in Seq(Int) /\ Len(<<>>) = 0
  OBVIOUS
<1> DEFINE e == <<>>
           r == RunningTotal(e)
<1>2. AddsUp(r, e)
  BY <1>1, RunningTotalAddsUp
<1> HIDE DEF e, r
<1>3. r[0] = 0
  BY <1>1, <1>2 DEF AddsUp, e
<1> QED BY <1>1, <1>3 DEF TotalOf, e, r

LEMMA TotalOfAppend ==
    ASSUME NEW s \in Seq(Int), NEW x \in Int
    PROVE  TotalOf(Append(s, x)) = TotalOf(s) + x
<1> DEFINE r == RunningTotal(s)
           t == Append(s, x)
           g == [k \in 0..Len(t) |-> IF k = Len(t) THEN r[Len(s)] + x ELSE r[k]]
<1>1. AddsUp(r, s)
  BY RunningTotalAddsUp
<1>2. t \in Seq(Int) /\ Len(t) = Len(s) + 1 /\ Len(s) \in Nat /\ t[Len(t)] = x
      /\ \A k \in 1..Len(s) : t[k] = s[k]
  OBVIOUS
<1> HIDE DEF r, t
<1>3. ASSUME NEW k \in 0..Len(t)
      PROVE  g[k] = IF k = 0 THEN 0 ELSE g[k - 1] + t[k]
  <2>1. CASE k = Len(t)
    BY <1>2, <2>1
  <2>2. CASE k # Len(t)
    <3>1. k \in 0..Len(s) /\ (k # 0 => k - 1 \in 0..Len(s) /\ t[k] = s[k])
      BY <1>2, <2>2
    <3>2. r[k] = IF k = 0 THEN 0 ELSE r[k - 1] + s[k]
      BY <1>1, <3>1 DEF AddsUp
    <3> QED BY <1>2, <2>2, <3>1, <3>2
  <2> QED BY <2>1, <2>2
<1>4. AddsUp(g, t)
  BY <1>3 DEF AddsUp
<1>5. TotalOf(t) = g[Len(t)]
  <2> HIDE DEF g
  <2> QED BY <1>2, <1>4, TotalsUnique DEF TotalOf
<1> QED BY <1>2, <1>5 DEF TotalOf, r, t

LEMMA TotalOfTail ==
    ASSUME NEW s \in Seq(Int), s # <<>>
    PROVE  TotalOf(s) = Head(s) + TotalOf(Tail(s))
<1> DEFINE r == RunningTotal(s)
           t == Tail(s)
           g == [k \in 0..Len(t) |-> r[k + 1] - s[1]]
<1>1. AddsUp(r, s)
  BY RunningTotalAddsUp
<1>2. t \in Seq(Int) /\ Len(s) = Len(t) + 1 /\ Len(t) \in Nat /\ Head(s) = s[1]
      /\ s[1] \in Int /\ \A k \in 1..Len(t) : t[k] = s[k + 1]
  OBVIOUS
<1>3. \A k \in 0..Len(s) : r[k] \in Int
  BY <1>1, TotalsUnique
<1> HIDE DEF r, t
<1>4. ASSUME NEW k \in 0..Len(t)
      PROVE  g[k] = IF k = 0 THEN 0 ELSE g[k - 1] + t[k]
  <2>1. r[k + 1] = r[k] + s[k + 1] /\ r[0] = 0
    BY <1>1, <1>2 DEF AddsUp
  <2>2. CASE k = 0
    BY <1>2, <1>3, <2>1, <2>2
  <2>3. CASE k # 0
    <3>1. k - 1 \in 0..Len(t) /\ (k - 1) + 1 = k /\ k \in 1..Len(t)
      BY <1>2, <2>3
    <3>2. g[k - 1] = r[k] - s[1] /\ t[k] = s[k + 1] /\ s[k + 1] \in Int
      BY <1>2, <3>1
    <3> QED BY <1>2, <1>3, <2>1, <3>2, <2>3
  <2> QED BY <2>2, <2>3
<1>5. AddsUp(g, t)
  BY <1>4 DEF AddsUp
<1>6. TotalOf(t) = g[Len(t)]
  <2> HIDE DEF g
  <2> QED BY <1>2, <1>5, TotalsUnique DEF TotalOf
<1> QED BY <1>2, <1>3, <1>6 DEF TotalOf, r, t
-----------------------------------------------------------------------------
(* h sums f over those subsets of S that have at most n elements.          *)
OneOf(s) == CHOOSE y \in s : TRUE

Added(sum, f, s) == IF s = {} THEN 0 ELSE f[OneOf(s)] + sum[s \ {OneOf(s)}]

SumsUp(h, S, f, n) ==
    /\ DOMAIN h = SUBSET S
    /\ \A s \in SUBSET S : Cardinality(s) <= n => h[s] = Added(h, f, s)

(* Without one of its elements a set has one element less.                 *)
LEMMA OneLess ==
    ASSUME NEW S, IsFiniteSet(S), NEW s \in SUBSET S, s # {}
    PROVE  /\ OneOf(s) \in s /\ s \ {OneOf(s)} \in SUBSET S
           /\ IsFiniteSet(s) /\ Cardinality(s) \in Nat \ {0}
           /\ Cardinality(s \ {OneOf(s)}) = Cardinality(s) - 1
<1>1. OneOf(s) \in s
  BY DEF OneOf
<1>2. IsFiniteSet(s)
  BY FS_Subset
<1>3. Cardinality(s) \in Nat /\ Cardinality(s) # 0
  BY <1>2, FS_CardinalityType, FS_EmptySet
<1>4. Cardinality(s \ {OneOf(s)}) = Cardinality(s) - 1
  BY <1>1, <1>2, FS_RemoveElement
<1> QED BY <1>1, <1>2, <1>3, <1>4

LEMMA SumsExist ==
    ASSUME NEW S, IsFiniteSet(S), NEW f
    PROVE  \A n \in Nat : \E h : SumsUp(h, S, f, n)
<1> USE DEF Added
<1> DEFINE N == {n \in Nat : \E h : SumsUp(h, S, f, n)}
<1>1. 0 \in N
  <2> DEFINE h == [s \in SUBSET S |-> 0]
  <2>1. ASSUME NEW s \in SUBSET S, Cardinality(s) <= 0 PROVE s = {}
    <3> SUFFICES ASSUME s # {} PROVE FALSE
      OBVIOUS
    <3>1. Cardinality(s) \in Nat \ {0}
      BY OneLess
    <3> QED BY <2>1, <3>1
  <2>2. SumsUp(h, S, f, 0)
    BY <2>1 DEF SumsUp
  <2> QED BY <2>2
<1>2. ASSUME NEW n \in Nat, n \in N PROVE n + 1 \in N
  <2>1. PICK g : SumsUp(g, S, f, n)
    BY <1>2
  <2> DEFINE h == [s \in SUBSET S |-> IF Cardinality(s) = n + 1
                                      THEN f[OneOf(s)] + g[s \ {OneOf(s)}] ELSE g[s]]
  <2>2. ASSUME NEW s \in SUBSET S, Cardinality(s) <= n + 1
        PROVE  h[s] = IF s = {} THEN 0 ELSE f[OneOf(s)] + h[s \ {OneOf(s)}]
    <3>1. CASE s = {}
      <4>1. Cardinality(s) = 0
        BY <3>1, FS_EmptySet
      <4>2. h[s] = g[s]
        BY <4>1
      <4> QED BY <2>1, <3>1, <4>1, <4>2 DEF SumsUp
    <3>2. CASE s # {}
      <4> DEFINE rest == s \ {OneOf(s)}
      <4>1. rest \in SUBSET S /\ Cardinality(s) \in Nat /\ Cardinality(rest) = Cardinality(s) - 1
        BY <3>2, OneLess
      <4>2. h[rest] = g[rest]
        BY <2>2, <4>1
      <4>3. CASE Cardinality(s) = n + 1
        BY <3>2, <4>2, <4>3
      <4>4. CASE Cardinality(s) # n + 1
        <5>1. Cardinality(s) <= n /\ h[s] = g[s]
          BY <2>2, <4>1, <4>4
        <5>2. g[s] = f[OneOf(s)] + g[rest]
          BY <2>1, <3>2, <5>1 DEF SumsUp
        <5> QED BY <3>2, <4>2, <5>1, <5>2
      <4> QED BY <4>3, <4>4
    <3> QED BY <3>1, <3>2
  <2>3. SumsUp(h, S, f, n + 1)
    BY <2>2 DEF SumsUp
  <2> QED BY <2>3
<1>3. \A n \in Nat : n \in N
  <2> HIDE DEF N
  <2> QED BY <1>1, <1>2, SetInduction
<1> QED BY <1>3

(* So SumsOver is what its definition says.                                *)
LEMMA SumsOverSumsUp ==
    ASSUME NEW S, IsFiniteSet(S), NEW f, NEW s \in SUBSET S
    PROVE  SumsOver(S, f)[s] = Added(SumsOver(S, f), f, s)
<1> USE DEF Added
<1> DEFINE Rec(h) == h = [t \in SUBSET S |-> IF t = {} THEN 0 ELSE f[OneOf(t)] + h[t \ {OneOf(t)}]]
<1>1. \A t \in SUBSET S : Cardinality(t) <= Cardinality(S)
  BY FS_Subset
<1>2. PICK g : SumsUp(g, S, f, Cardinality(S))
  BY SumsExist, FS_CardinalityType
<1> DEFINE h == [t \in SUBSET S |-> g[t]]
<1>3. ASSUME NEW t \in SUBSET S
      PROVE  h[t] = IF t = {} THEN 0 ELSE f[OneOf(t)] + h[t \ {OneOf(t)}]
  <2>1. t \ {OneOf(t)} \in SUBSET S
    OBVIOUS
  <2> QED BY <1>1, <1>2, <2>1 DEF SumsUp
<1>4. Rec(h)
  BY <1>3
<1> DEFINE c == CHOOSE r : Rec(r)
<1>5. Rec(c)
  <2> HIDE DEF h, Rec
  <2> QED BY <1>4
<1>6. SumsOver(S, f) = c
  BY DEF SumsOver, OneOf
<1> HIDE DEF c
<1> QED BY <1>5, <1>6

(* What is pointwise no greater adds up to no more.                        *)
LEMMA SumsCompare ==
    ASSUME NEW S, IsFiniteSet(S), NEW f \in [S -> Int], NEW g \in [S -> Int],
           \A x \in S : f[x] <= g[x]
    PROVE  SumOver(S, f) \in Int /\ SumOver(S, g) \in Int /\ SumOver(S, f) <= SumOver(S, g)
<1> DEFINE F == SumsOver(S, f)
           G == SumsOver(S, g)
           N == {n \in Nat : \A s \in SUBSET S : Cardinality(s) <= n =>
                                 F[s] \in Int /\ G[s] \in Int /\ F[s] <= G[s]}
<1>1. ASSUME NEW s \in SUBSET S
      PROVE  F[s] = Added(F, f, s)
  BY SumsOverSumsUp
<1>2. ASSUME NEW s \in SUBSET S
      PROVE  G[s] = Added(G, g, s)
  BY SumsOverSumsUp
<1> HIDE DEF F, G
<1>3. 0 \in N
  <2> SUFFICES ASSUME NEW s \in SUBSET S, Cardinality(s) <= 0
               PROVE  F[s] \in Int /\ G[s] \in Int /\ F[s] <= G[s]
    OBVIOUS
  <2>1. s = {}
    <3> SUFFICES ASSUME s # {} PROVE FALSE
      OBVIOUS
    <3>1. Cardinality(s) \in Nat \ {0}
      BY OneLess
    <3> QED BY <3>1
  <2>2. F[s] = 0 /\ G[s] = 0
    <3>1. Added(F, f, s) = 0 /\ Added(G, g, s) = 0
      BY <2>1 DEF Added
    <3> QED BY <1>1, <1>2, <3>1
  <2> QED BY <2>2
<1>4. ASSUME NEW n \in Nat, n \in N PROVE n + 1 \in N
  <2> SUFFICES ASSUME NEW s \in SUBSET S, Cardinality(s) <= n + 1
               PROVE  F[s] \in Int /\ G[s] \in Int /\ F[s] <= G[s]
    OBVIOUS
  <2>1. CASE s = {}
    <3>1. Added(F, f, s) = 0 /\ Added(G, g, s) = 0
      BY <2>1 DEF Added
    <3>2. F[s] = 0 /\ G[s] = 0
      BY <1>1, <1>2, <3>1
    <3> QED BY <3>2
  <2>2. CASE s # {}
    <3> DEFINE x == OneOf(s)
               rest == s \ {OneOf(s)}
    <3>1. x \in S /\ rest \in SUBSET S /\ Cardinality(rest) <= n
      BY <2>2, OneLess
    <3>2. F[rest] \in Int /\ G[rest] \in Int /\ F[rest] <= G[rest]
      BY <1>4, <3>1
    <3>3. F[s] = f[x] + F[rest] /\ G[s] = g[x] + G[rest]
      BY <1>1, <1>2, <2>2 DEF Added
    <3> HIDE DEF x, rest
    <3> QED BY <3>1, <3>2, <3>3
  <2> QED BY <2>1, <2>2
<1>5. \A n \in Nat : n \in N
  <2> HIDE DEF N
  <2> QED BY <1>3, <1>4, SetInduction
<1>6. Cardinality(S) \in Nat
  BY FS_CardinalityType
<1> QED BY <1>5, <1>6 DEF SumOver, F, G

(* If d is taken from f at k, d is taken from the sum.                     *)
LEMMA ReducedSum ==
    ASSUME NEW S, IsFiniteSet(S), NEW f \in [S -> Int], NEW g \in [S -> Int],
           NEW k \in S, NEW d \in Int, g[k] = f[k] - d,
           \A x \in S \ {k} : g[x] = f[x]
    PROVE  SumOver(S, f) \in Int /\ SumOver(S, g) = SumOver(S, f) - d
<1> DEFINE F == SumsOver(S, f)
           G == SumsOver(S, g)
           Differ(s) == /\ k \in s => G[s] = F[s] - d
                        /\ k \notin s => G[s] = F[s]
           N == {n \in Nat : \A s \in SUBSET S : Cardinality(s) <= n =>
                                 F[s] \in Int /\ Differ(s)}
<1>1. ASSUME NEW s \in SUBSET S
      PROVE  F[s] = Added(F, f, s)
  BY SumsOverSumsUp
<1>2. ASSUME NEW s \in SUBSET S
      PROVE  G[s] = Added(G, g, s)
  BY SumsOverSumsUp
<1> HIDE DEF F, G
<1>3. 0 \in N
  <2> SUFFICES ASSUME NEW s \in SUBSET S, Cardinality(s) <= 0
               PROVE  F[s] \in Int /\ Differ(s)
    OBVIOUS
  <2>1. s = {}
    <3> SUFFICES ASSUME s # {} PROVE FALSE
      OBVIOUS
    <3>1. Cardinality(s) \in Nat \ {0}
      BY OneLess
    <3> QED BY <3>1
  <2>2. F[s] = 0 /\ G[s] = 0
    <3>1. Added(F, f, s) = 0 /\ Added(G, g, s) = 0
      BY <2>1 DEF Added
    <3> QED BY <1>1, <1>2, <3>1
  <2>3. k \notin s
    BY <2>1
  <2> QED BY <2>2, <2>3
<1>4. ASSUME NEW n \in Nat, n \in N PROVE n + 1 \in N
  <2> SUFFICES ASSUME NEW s \in SUBSET S, Cardinality(s) <= n + 1
               PROVE  F[s] \in Int /\ Differ(s)
    OBVIOUS
  <2>1. CASE s = {}
    <3>1. Added(F, f, s) = 0 /\ Added(G, g, s) = 0
      BY <2>1 DEF Added
    <3>2. F[s] = 0 /\ G[s] = 0
      BY <1>1, <1>2, <3>1
    <3>3. k \notin s
      BY <2>1
    <3> QED BY <3>2, <3>3
  <2>2. CASE s # {}
    <3> DEFINE x == OneOf(s)
               rest == s \ {x}
    <3>1. x \in s /\ x \in S /\ rest \in SUBSET S /\ Cardinality(rest) <= n
      BY <2>2, OneLess
    <3>2. F[rest] \in Int /\ Differ(rest)
      BY <1>4, <3>1
    <3>3. F[s] = f[x] + F[rest] /\ G[s] = g[x] + G[rest]
      BY <1>1, <1>2, <2>2 DEF Added
    <3>4. k \in s <=> k = x \/ k \in rest
      BY <3>1
    <3>5. ~ (k = x /\ k \in rest)
      OBVIOUS
    <3> HIDE DEF x, rest
    <3>6. f[x] \in Int /\ (x = k => g[x] = f[x] - d) /\ (x # k => g[x] = f[x])
      BY <3>1
    <3>7. CASE k = x
      BY <3>2, <3>3, <3>4, <3>5, <3>6, <3>7
    <3>8. CASE k # x
      BY <3>2, <3>3, <3>4, <3>6, <3>8
    <3> QED BY <3>7, <3>8
  <2> QED BY <2>1, <2>2
<1>5. \A n \in Nat : n \in N
  <2> HIDE DEF N
  <2> QED BY <1>3, <1>4, SetInduction
<1>6. Cardinality(S) \in Nat
  BY FS_CardinalityType
<1>7. F[S] \in Int /\ Differ(S)
  BY <1>5, <1>6
<1> QED BY <1>7 DEF SumOver, F, G

(* Nothing that is negative adds up to nothing negative.                   *)
LEMMA SumNotNegative ==
    ASSUME NEW S, IsFiniteSet(S), NEW f \in [S -> Nat]
    PROVE  SumOver(S, f) \in Nat
<1> DEFINE F == SumsOver(S, f)
           N == {n \in Nat : \A s \in SUBSET S : Cardinality(s) <= n => F[s] \in Nat}
<1>1. ASSUME NEW s \in SUBSET S
      PROVE  F[s] = Added(F, f, s)
  BY SumsOverSumsUp
<1> HIDE DEF F
<1>2. 0 \in N
  <2> SUFFICES ASSUME NEW s \in SUBSET S, Cardinality(s) <= 0
               PROVE  F[s] \in Nat
    OBVIOUS
  <2>1. s = {}
    <3> SUFFICES ASSUME s # {} PROVE FALSE
      OBVIOUS
    <3>1. Cardinality(s) \in Nat \ {0}
      BY OneLess
    <3> QED BY <3>1
  <2>2. Added(F, f, s) = 0
    BY <2>1 DEF Added
  <2> QED BY <1>1, <2>2
<1>3. ASSUME NEW n \in Nat, n \in N PROVE n + 1 \in N
  <2> SUFFICES ASSUME NEW s \in SUBSET S, Cardinality(s) <= n + 1
               PROVE  F[s] \in Nat
    OBVIOUS
  <2>1. CASE s = {}
    <3>1. Added(F, f, s) = 0
      BY <2>1 DEF Added
    <3> QED BY <1>1, <3>1
  <2>2. CASE s # {}
    <3> DEFINE x == OneOf(s)
               rest == s \ {x}
    <3>1. x \in S /\ rest \in SUBSET S /\ Cardinality(rest) <= n
      BY <2>2, OneLess
    <3>2. F[rest] \in Nat
      BY <1>3, <3>1
    <3>3. F[s] = f[x] + F[rest]
      BY <1>1, <2>2 DEF Added
    <3> HIDE DEF x, rest
    <3>4. f[x] \in Nat
      BY <3>1
    <3> QED BY <3>2, <3>3, <3>4
  <2> QED BY <2>1, <2>2
<1>4. \A n \in Nat : n \in N
  <2> HIDE DEF N
  <2> QED BY <1>2, <1>3, SetInduction
<1>5. Cardinality(S) \in Nat
  BY FS_CardinalityType
<1>6. F[S] \in Nat
  BY <1>4, <1>5
<1> QED BY <1>6 DEF SumOver, F

(* A finite set of numbers that has one has a greatest one.                *)
LEMMA GreatestExists ==
    ASSUME NEW S, S \subseteq Int, IsFiniteSet(S), S # {}
    PROVE  \E x \in S : \A y \in S : y <= x
<1> DEFINE Greatest(s) == \E x \in s : \A y \in s : y <= x
           N == {n \in Nat : \A s \in SUBSET S : s # {} /\ Cardinality(s) <= n => Greatest(s)}
<1>1. 0 \in N
  <2>1. ASSUME NEW s \in SUBSET S, s # {}, Cardinality(s) <= 0
        PROVE  FALSE
    <3>1. Cardinality(s) \in Nat \ {0}
      BY <2>1, OneLess
    <3> QED BY <2>1, <3>1
  <2> QED BY <2>1
<1>2. ASSUME NEW n \in Nat, n \in N PROVE n + 1 \in N
  <2> SUFFICES ASSUME NEW s \in SUBSET S, s # {}, Cardinality(s) <= n + 1
               PROVE  Greatest(s)
    OBVIOUS
  <2> DEFINE x == OneOf(s)
             rest == s \ {x}
  <2>1. /\ x \in s /\ rest \in SUBSET S /\ Cardinality(rest) <= n
        /\ s = rest \cup {x}
    <3>1. /\ x \in s /\ rest \in SUBSET S /\ Cardinality(s) \in Nat \ {0}
          /\ Cardinality(rest) = Cardinality(s) - 1
      BY OneLess
    <3> QED BY <3>1
  <2> HIDE DEF x, rest
  <2>2. CASE rest = {}
    <3>1. \A y \in s : y <= x
      BY <2>1, <2>2
    <3> QED BY <2>1, <3>1
  <2>3. CASE rest # {}
    <3>1. PICK z \in rest : \A y \in rest : y <= z
      BY <1>2, <2>1, <2>3
    <3>2. CASE x <= z
      <4>1. z \in s /\ \A y \in s : y <= z
        BY <2>1, <3>1, <3>2
      <4> QED BY <4>1
    <3>3. CASE ~ (x <= z)
      <4>1. x \in Int /\ z \in Int
        BY <2>1
      <4>2. \A y \in s : y <= x
        BY <2>1, <3>1, <3>3, <4>1
      <4> QED BY <2>1, <4>2
    <3> QED BY <3>2, <3>3
  <2> QED BY <2>2, <2>3
<1>3. \A n \in Nat : n \in N
  <2> HIDE DEF N
  <2> QED BY <1>1, <1>2, SetInduction
<1>4. Cardinality(S) \in Nat
  BY FS_CardinalityType
<1>5. Greatest(S)
  BY <1>3, <1>4
<1> QED BY <1>5
=============================================================================
