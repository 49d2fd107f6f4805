----------------------------- MODULE CacheProofs ----------------------------
(***************************************************************************)
(* Cache proved: what has just been inserted is the last to be evicted,    *)
(* and no plan finds more of its tables loaded than it needs.  Neither     *)
(* depends on where the floating-point total makes removeOld stop.  Where  *)
(* it does stop, the cache is larger than shared_buffers by less than the  *)
(* distance of two neighbouring floats.                                    *)
(***************************************************************************)
EXTENDS Cache, TotalsProofs

(* Nodes are stamped with a time that only addNode advances.               *)
Stamped ==
    /\ time_idx \in Nat
    /\ nodes = [k \in DOMAIN nodes |-> nodes[k]]
    /\ \A k \in DOMAIN nodes : /\ nodes[k] \in [size : Int, time_idx : Nat]
                               /\ nodes[k].time_idx <= time_idx

(* Whatever else is there is older than what has just been inserted.       *)
NewestIsYoungest ==
    newest # None /\ newest \in DOMAIN nodes =>
        \A k \in DOMAIN nodes \ {newest} : nodes[k].time_idx < nodes[newest].time_idx

(* Nothing is in the cache but tables and indexes, and of a table never    *)
(* more than there is.                                                     *)
TablesFit ==
    /\ DOMAIN nodes \subseteq Tables \cup IndexKeys
    /\ \A t \in Tables \cap DOMAIN nodes : nodes[t].size \in 0..TableSize[t]

CacheInv == Stamped /\ NewestIsYoungest /\ NewestLeavesLast /\ TablesFit
-----------------------------------------------------------------------------
(* Arithmetic.                                                             *)

(* A part of what is not negative is no more than the whole.               *)
LEMMA PartOf ==
    ASSUME NEW n \in Nat, NEW d \in Nat \ {0}
    PROVE  n \div d \in 0..n
  OBVIOUS

(* The larger of two has the larger part.                                  *)
LEMMA PartsCompare ==
    ASSUME NEW m \in Nat, NEW n \in Nat, m <= n, NEW d \in Nat \ {0}
    PROVE  /\ m \div d \in Int /\ n \div d \in Int
           /\ m \div d <= n \div d
  OBVIOUS

LEMMA LeastIs ==
    ASSUME NEW S \in SUBSET Int, NEW m \in S, \A x \in S : m <= x
    PROVE  Min(S) = m
<1>1. \A y \in S : (\A z \in S : y <= z) => y = m
  OBVIOUS
<1>2. QED
  BY <1>1 DEF Min

(* A small integer is a float.                                             *)
LEMMA SmallIsExact ==
    ASSUME NEW x \in Nat, x < Exact
    PROVE  Float(x) = x
<1> DEFINE U == {u \in Spacings : x < u * Exact}
<1>1. Exact \in Nat
  BY CacheAssumption
<1>2. 1 \in U /\ U \in SUBSET Int /\ \A u \in U : 1 <= u
  <2>1. 1 \in Spacings /\ Spacings \subseteq Nat \ {0}
    BY RoundingAssumption
  <2>2. \A u \in Spacings : u \in Int /\ 1 <= u
    BY <2>1
  <2>3. x < 1 * Exact
    BY <1>1
  <2>4. QED
    BY <2>1, <2>2, <2>3
<1>3. Ulp(x) = 1
  <2> HIDE DEF U
  <2>1. Min(U) = 1
    BY <1>2, LeastIs
  <2>2. QED
    BY <2>1 DEF U, Ulp
<1>4. x \div 1 = x /\ x % 1 = 0
  OBVIOUS
<1>5. QED
  BY <1>3, <1>4 DEF Float

(* So a table that is large enough to be reduced has that much to give.    *)
LEMMA EnoughToReduce ==
    ASSUME NEW k \in DOMAIN nodes, nodes[k].size \in Nat, LargerThanFetch(k)
    PROVE  nodes[k].size - Fetch \in 0..nodes[k].size
<1>1. Fetch \in Nat /\ Exact \in Nat /\ Fetch <= Exact
  BY CacheAssumption
<1>2. CASE nodes[k].size < Exact
  <2>1. Float(nodes[k].size) = nodes[k].size
    BY <1>2, SmallIsExact
  <2>2. QED
    BY <1>1, <2>1 DEF LargerThanFetch
<1>3. CASE nodes[k].size >= Exact
  BY <1>1, <1>3
<1>4. QED
  BY <1>1, <1>2, <1>3
-----------------------------------------------------------------------------
(* The invariant.                                                          *)

(* As long as there is anything, something is oldest.                      *)
LEMMA OldestExists ==
    ASSUME Stamped, DOMAIN nodes # {}
    PROVE  /\ Oldest \in DOMAIN nodes
           /\ \A j \in DOMAIN nodes : nodes[Oldest].time_idx <= nodes[j].time_idx
<1> DEFINE T == {nodes[k].time_idx : k \in DOMAIN nodes}
<1>1. T \subseteq Nat /\ T # {}
  BY DEF Stamped
<1>2. PICK x \in T : \A y \in T : x <= y
  BY <1>1, LeastExists
<1>3. PICK k \in DOMAIN nodes : x = nodes[k].time_idx
  OBVIOUS
<1>4. \A j \in DOMAIN nodes : nodes[k].time_idx <= nodes[j].time_idx
  BY <1>2, <1>3
<1>5. QED
  BY <1>3, <1>4 DEF Oldest

(* A load inserts the youngest node of all, or changes no node.            *)
LEMMA LoadKeepsInv ==
    ASSUME CacheInv, NEW n, StartLoad(n),
           NEW k \in Tables \cup IndexKeys, NEW size \in Int,
           k \in Tables => size \in 0..TableSize[k],
           Insert(k, Node(size))
    PROVE  CacheInv'
<1> DEFINE node == Node(size)
<1>1. time_idx \in Nat /\ time_idx' = time_idx + 1
  BY DEF StartLoad, CacheInv, Stamped
<1>2. CASE k \in DOMAIN nodes
  <2>1. newest' = None /\ nodes' = nodes
    BY <1>2 DEF Insert
  <2>2. Stamped'
    BY <1>1, <2>1 DEF CacheInv, Stamped
  <2>3. QED
    BY <2>1, <2>2 DEF CacheInv, NewestIsYoungest, NewestLeavesLast, TablesFit
<1>3. CASE k \notin DOMAIN nodes
  <2>1. /\ newest' = k
        /\ nodes' = [j \in DOMAIN nodes \cup {k} |-> IF j = k THEN node ELSE nodes[j]]
    BY <1>3 DEF Insert
  <2>2. /\ DOMAIN nodes' = DOMAIN nodes \cup {k}
        /\ nodes'[k] = node
        /\ \A j \in DOMAIN nodes : nodes'[j] = nodes[j]
    BY <1>3, <2>1
  <2>3. /\ node \in [size : Int, time_idx : Nat]
        /\ node.time_idx = time_idx + 1 /\ node.size = size
    BY <1>1 DEF Node
  <2>4. Stamped'
    <3>1. nodes' = [j \in DOMAIN nodes' |-> nodes'[j]]
      BY <2>1
    <3>2. ASSUME NEW j \in DOMAIN nodes'
          PROVE  /\ nodes'[j] \in [size : Int, time_idx : Nat]
                 /\ nodes'[j].time_idx <= time_idx'
      BY <1>1, <2>2, <2>3 DEF CacheInv, Stamped
    <3>3. QED
      BY <1>1, <3>1, <3>2 DEF Stamped
  <2>5. NewestIsYoungest' /\ NewestLeavesLast'
    <3>1. ASSUME NEW j \in DOMAIN nodes' \ {k}
          PROVE  nodes'[j].time_idx < nodes'[k].time_idx
      BY <1>1, <2>2, <2>3 DEF CacheInv, Stamped
    <3>2. QED
      BY <2>1, <2>2, <3>1 DEF NewestIsYoungest, NewestLeavesLast
  <2>6. TablesFit'
    BY <2>2, <2>3 DEF CacheInv, TablesFit
  <2>7. QED
    BY <2>4, <2>5, <2>6 DEF CacheInv
<1>4. QED
  BY <1>2, <1>3

(* Eviction takes the oldest node, or some of a table that has it to give. *)
LEMMA EvictKeepsInv ==
    ASSUME CacheInv, Evict
    PROVE  CacheInv'
<1> DEFINE k == Oldest
<1>1. /\ k \in DOMAIN nodes
      /\ \A j \in DOMAIN nodes : nodes[k].time_idx <= nodes[j].time_idx
  BY OldestExists DEF CacheInv, Evict
<1>2. UNCHANGED <<time_idx, newest>>
  BY DEF Evict
<1> HIDE DEF k
<1>3. CASE nodes' = Reduce(k) /\ k \notin IndexKeys /\ LargerThanFetch(k)
  <2>1. k \in Tables /\ nodes[k].size \in 0..TableSize[k] /\ TableSize[k] \in Nat
    BY <1>1, <1>3, CacheAssumption DEF CacheInv, TablesFit
  <2>2. nodes[k].size - Fetch \in 0..nodes[k].size
    BY <1>1, <1>3, <2>1, EnoughToReduce
  <2>3. nodes[k] \in [size : Int, time_idx : Nat]
    BY <1>1 DEF CacheInv, Stamped
  <2>4. /\ DOMAIN nodes' = DOMAIN nodes
        /\ nodes'[k] = [nodes[k] EXCEPT !.size = @ - Fetch]
        /\ \A j \in DOMAIN nodes \ {k} : nodes'[j] = nodes[j]
        /\ nodes' = [j \in DOMAIN nodes' |-> nodes'[j]]
    BY <1>1, <1>3 DEF Reduce
  <2>5. /\ nodes'[k].size = nodes[k].size - Fetch
        /\ nodes'[k].time_idx = nodes[k].time_idx
        /\ nodes'[k] \in [size : Int, time_idx : Nat]
    BY <2>2, <2>3, <2>4
  <2>6. Stamped'
    BY <1>1, <1>2, <2>4, <2>5 DEF CacheInv, Stamped
  <2>7. \A j \in DOMAIN nodes : nodes'[j].time_idx = nodes[j].time_idx
    BY <2>4, <2>5
  <2>8. NewestIsYoungest' /\ NewestLeavesLast'
    BY <1>2, <2>4, <2>7 DEF CacheInv, NewestIsYoungest, NewestLeavesLast
  <2>9. nodes'[k].size \in 0..TableSize[k]
    BY <2>1, <2>2, <2>5
  <2>10. TablesFit'
    BY <2>4, <2>9 DEF CacheInv, TablesFit
  <2>11. QED
    BY <2>6, <2>8, <2>10 DEF CacheInv
<1>4. CASE nodes' = Drop(k)
  <2>1. /\ DOMAIN nodes' = DOMAIN nodes \ {k}
        /\ \A j \in DOMAIN nodes' : nodes'[j] = nodes[j]
        /\ nodes' = [j \in DOMAIN nodes' |-> nodes'[j]]
    BY <1>4 DEF Drop
  <2>2. Stamped'
    BY <1>2, <2>1 DEF CacheInv, Stamped
  <2>3. NewestIsYoungest'
    BY <1>2, <2>1 DEF CacheInv, NewestIsYoungest
  <2>4. NewestLeavesLast'
    <3>1. SUFFICES ASSUME newest # None, newest \in DOMAIN nodes, newest = k
                   PROVE  DOMAIN nodes = {k}
      BY <1>2, <2>1 DEF CacheInv, NewestLeavesLast
    <3>2. ASSUME NEW j \in DOMAIN nodes \ {k}
          PROVE  FALSE
      <4>1. nodes[j].time_idx < nodes[k].time_idx
        BY <3>1 DEF CacheInv, NewestIsYoungest
      <4>2. nodes[j].time_idx \in Nat /\ nodes[k].time_idx \in Nat
        BY <1>1 DEF CacheInv, Stamped
      <4>3. QED
        BY <1>1, <4>1, <4>2
    <3>3. QED
      BY <1>1, <3>2
  <2>5. TablesFit'
    BY <2>1 DEF CacheInv, TablesFit
  <2>6. QED
    BY <2>2, <2>3, <2>4, <2>5 DEF CacheInv
<1>5. QED
  BY <1>3, <1>4 DEF Evict, k

LEMMA NothingChanges ==
    ASSUME CacheInv, UNCHANGED <<nodes, time_idx, newest>>
    PROVE  CacheInv'
  BY DEF CacheInv, Stamped, NewestIsYoungest, NewestLeavesLast, TablesFit

LEMMA CacheInvHolds == Safety => []CacheInv
<1>1. Init => CacheInv
  <2> SUFFICES ASSUME Init
               PROVE  CacheInv
    OBVIOUS
  <2>1. DOMAIN nodes = {} /\ nodes = [k \in DOMAIN nodes |-> nodes[k]] /\ time_idx = 0
    BY DEF Init
  <2>2. QED
    BY <2>1 DEF Init, CacheInv, Stamped, NewestIsYoungest, NewestLeavesLast, TablesFit
<1>2. CacheInv /\ [Next]_vars => CacheInv'
  <2> SUFFICES ASSUME CacheInv, [Next]_vars
               PROVE  CacheInv'
    OBVIOUS
  <2>1. ASSUME NEW x \in Indexes, AddIndex(x)
        PROVE  CacheInv'
    <3>1. Hash[x] \in IndexKeys /\ Hash[x] \notin Tables /\ IndexSize[x] \in Int
      BY CacheAssumption DEF IndexKeys
    <3>2. StartLoad(1) /\ Insert(Hash[x], Node(IndexSize[x]))
      BY <2>1 DEF AddIndex, IndexNode
    <3>3. QED
      BY <3>1, <3>2, LoadKeepsInv
  <2>2. ASSUME NEW t \in Tables, NEW full \in BOOLEAN, AddTable(t, full)
        PROVE  CacheInv'
    <3>1. CASE StatusLoaded(t) # 0
      <4>1. newest' = None /\ UNCHANGED nodes /\ time_idx' = time_idx + 1
        BY <2>2, <3>1 DEF AddTable, IncrementTable, StartLoad
      <4>2. Stamped'
        BY <4>1 DEF CacheInv, Stamped
      <4>3. QED
        BY <4>1, <4>2 DEF CacheInv, NewestIsYoungest, NewestLeavesLast, TablesFit
    <3>2. CASE StatusLoaded(t) = 0
      <4> DEFINE size == IF full THEN TableSize[t] ELSE TableSize[t] \div Scale
      <4>1. StartLoad(2) /\ Insert(t, Node(size))
        BY <2>2, <3>2 DEF AddTable, TableNode
      <4>2. TableSize[t] \in Nat /\ Scale \in Nat \ {0}
        BY CacheAssumption
      <4>3. size \in 0..TableSize[t]
        BY <4>2, PartOf
      <4> HIDE DEF size
      <4>4. size \in Int
        BY <4>2, <4>3
      <4>5. QED
        BY <4>1, <4>3, <4>4, LoadKeepsInv
    <3>3. QED
      BY <3>1, <3>2
  <2>3. CASE Measure
    BY <2>3, NothingChanges DEF Measure
  <2>4. CASE Fits
    BY <2>4, NothingChanges DEF Fits
  <2>5. CASE Evict
    BY <2>5, EvictKeepsInv
  <2>6. CASE UNCHANGED vars
    BY <2>6, NothingChanges DEF vars
  <2>7. QED
    BY <2>1, <2>2, <2>3, <2>4, <2>5, <2>6 DEF Next, RemoveOld
<1>3. QED
  BY <1>1, <1>2, PTL DEF Safety

(* What has just been inserted is evicted after everything else            *)
(* (Cache::removeOld takes the least time_idx first).                      *)
THEOREM EvictsByAge == Spec => []NewestLeavesLast
<1>1. CacheInv => NewestLeavesLast
  BY DEF CacheInv
<1>2. QED
  BY <1>1, CacheInvHolds, PTL DEF Spec
-----------------------------------------------------------------------------
(* The estimate.                                                           *)

(* No table counts for more than it is, wherever a plan has it.            *)
LEMMA LoadedIsPart ==
    ASSUME CacheInv, NEW t \in Tables
    PROVE  /\ StatusLoaded(t) \in Nat /\ TableSize[t] \in Nat
           /\ StatusLoaded(t) <= TableSize[t]
  BY CacheAssumption DEF CacheInv, TablesFit, StatusLoaded

LEMMA LoadedIsNoMoreThanPlanned ==
    ASSUME CacheInv, NEW plan \in Plans
    PROVE  RamLoaded(plan) <= PlanSize(plan)
<1> DEFINE full == [t \in plan.full |-> StatusLoaded(t)]
           FULL == [t \in plan.full |-> TableSize[t]]
           idx == [x \in plan.idx |-> IndexSize[x]]
           retr == [t \in plan.retr |-> StatusLoaded(t) \div Scale]
           RETR == [t \in plan.retr |-> TableSize[t] \div Scale]
<1>1. /\ plan.full \subseteq Tables /\ IsFiniteSet(plan.full)
      /\ plan.idx \subseteq Indexes /\ IsFiniteSet(plan.idx)
      /\ plan.retr \subseteq Tables /\ IsFiniteSet(plan.retr)
  <2>1. /\ plan.full \subseteq Tables
        /\ plan.idx \subseteq Indexes
        /\ plan.retr \subseteq Tables
    BY CacheAssumption
  <2>2. QED
    BY <2>1, CacheAssumption, FS_Subset
<1>2. /\ full \in [plan.full -> Int] /\ FULL \in [plan.full -> Int]
      /\ \A t \in plan.full : full[t] <= FULL[t]
  BY <1>1, LoadedIsPart
<1>3. idx \in [plan.idx -> Int] /\ \A x \in plan.idx : idx[x] <= idx[x]
  BY <1>1, CacheAssumption
<1>4. /\ retr \in [plan.retr -> Int] /\ RETR \in [plan.retr -> Int]
      /\ \A t \in plan.retr : retr[t] <= RETR[t]
  <2>1. ASSUME NEW t \in plan.retr
        PROVE  /\ StatusLoaded(t) \div Scale \in Int /\ TableSize[t] \div Scale \in Int
               /\ StatusLoaded(t) \div Scale <= TableSize[t] \div Scale
    <3>1. Scale \in Nat \ {0}
      BY CacheAssumption
    <3>2. QED
      BY <1>1, <3>1, LoadedIsPart, PartsCompare
  <2>2. QED
    BY <2>1
<1> HIDE DEF full, FULL, idx, retr, RETR
<1>5. /\ SumOver(plan.full, full) \in Int /\ SumOver(plan.full, FULL) \in Int
      /\ SumOver(plan.full, full) <= SumOver(plan.full, FULL)
  BY <1>1, <1>2, SumsCompare
<1>6. SumOver(plan.idx, idx) \in Int
  BY <1>1, <1>3, SumsCompare
<1>7. /\ SumOver(plan.retr, retr) \in Int /\ SumOver(plan.retr, RETR) \in Int
      /\ SumOver(plan.retr, retr) <= SumOver(plan.retr, RETR)
  BY <1>1, <1>4, SumsCompare
<1>8. /\ RamLoaded(plan) = SumOver(plan.full, full) + SumOver(plan.idx, idx)
                           + SumOver(plan.retr, retr)
      /\ PlanSize(plan) = SumOver(plan.full, FULL) + SumOver(plan.idx, idx)
                          + SumOver(plan.retr, RETR)
  BY DEF RamLoaded, PlanSize, full, FULL, idx, retr, RETR
<1>9. QED
  BY <1>5, <1>6, <1>7, <1>8

(* A plan never finds more loaded than it needs, nor less than nothing, so *)
(* that getLoadingCost never turns a cost round (result.cpp 150-154).      *)
THEOREM LoadingNeverOvercounted == Spec => []LoadingCostInRange
<1>1. CacheInv => LoadingCostInRange
  BY LoadedIsPart, LoadedIsNoMoreThanPlanned DEF LoadingCostInRange
<1>2. QED
  BY <1>1, CacheInvHolds, PTL DEF Spec
-----------------------------------------------------------------------------
(* Rounding.  A total is rounded to a multiple of the spacing of floats    *)
(* there, Fetch is a multiple of it too, and the difference lies where     *)
(* floats are no farther apart: the subtraction of reduceRatio is exact,   *)
(* and only the sum it starts from may have been rounded.                  *)

(* A number is what it is divided by, times the part, and the remainder.   *)
LEMMA Division ==
    ASSUME NEW x \in Nat, NEW u \in Nat \ {0}
    PROVE  \E d \in Nat : \E r \in 0..(u - 1) :
              x \div u = d /\ x % u = r /\ x = u * d + r
<1> DEFINE d == x \div u
           r == x % u
<1>1. d = x \div u /\ r = x % u /\ d \in Nat /\ r \in 0..(u - 1)
  OBVIOUS
<1> HIDE DEF d, r
<1>2. x = u * d + r
  BY <1>1
<1> QED BY <1>1, <1>2, Zenon

(* No multiple of u up to a number is more than its part.                  *)
LEMMA NoLessMultiples ==
    ASSUME NEW u \in Nat \ {0}, NEW q \in Nat, NEW d \in Nat, NEW r \in 0..(u - 1),
           u * q <= u * d + r
    PROVE  q <= d
<1> SUFFICES ASSUME d + 1 <= q PROVE FALSE
  OBVIOUS
<1>1. u * (d + 1) <= u * q
  <2>1. PICK e \in Nat : q = d + 1 + e
    <3>1. q - (d + 1) \in Nat /\ q = d + 1 + (q - (d + 1))
      OBVIOUS
    <3> QED BY <3>1
  <2>2. u * q = u * (d + 1) + u * e /\ u * e >= 0
    BY <2>1
  <2> QED BY <2>2
<1>2. u * (d + 1) = u * d + u
  OBVIOUS
<1> QED BY <1>1, <1>2

(* A multiple leaves no remainder.                                         *)
LEMMA Remainder ==
    ASSUME NEW u \in Nat \ {0}, NEW q \in Nat
    PROVE  (u * q) % u = 0 /\ (u * q) \div u = q
<1> DEFINE x == u * q
<1>1. x \in Nat
  OBVIOUS
<1>2. PICK d \in Nat, r \in 0..(u - 1) :
         x \div u = d /\ x % u = r /\ x = u * d + r
  BY <1>1, Division
<1>3. x = u * q /\ d \in Nat /\ r \in 0..(u - 1) /\ x = u * d + r
  BY <1>2
<1> HIDE DEF x
<1>4. q <= d
  BY <1>3, NoLessMultiples
<1>5. u * d + r <= u * q + 0
  BY <1>3
<1>6. d <= q
  <2>1. u * d <= u * q + 0
    BY <1>3
  <2> QED BY <1>3, <2>1, NoLessMultiples
<1>7. d = q /\ r = 0
  BY <1>3, <1>4, <1>6
<1> QED BY <1>2, <1>7 DEF x

(* The spacing at a number within the range is the least at which it has   *)
(* all its digits.                                                         *)
LEMMA UlpIs ==
    ASSUME NEW x \in Int, NEW b \in Spacings, x < b * Exact
    PROVE  /\ Ulp(x) \in Spacings /\ Ulp(x) \in Nat \ {0}
           /\ x < Ulp(x) * Exact
           /\ \A v \in Spacings : x < v * Exact => Ulp(x) <= v
<1> DEFINE U == {u \in Spacings : x < u * Exact}
<1>1. b \in U /\ U \subseteq Nat
  BY RoundingAssumption
<1>2. Spacings \subseteq Nat \ {0}
  BY RoundingAssumption
<1> HIDE DEF U
<1>3. PICK m \in U : \A y \in U : m <= y
  BY <1>1, LeastExists
<1>4. Min(U) = m
  BY <1>1, <1>3, LeastIs
<1>5. Ulp(x) = m
  BY <1>4 DEF U, Ulp
<1> QED BY <1>2, <1>3, <1>5 DEF U

(* Rounding leaves a multiple of the spacing, at most half of it away.     *)
LEMMA FloatIs ==
    ASSUME NEW x \in Nat, NEW b \in Spacings, x < b * Exact
    PROVE  \E j \in Nat : /\ Float(x) = Ulp(x) * j
                          /\ 2 * x - Ulp(x) <= 2 * (Ulp(x) * j)
                          /\ 2 * (Ulp(x) * j) <= 2 * x + Ulp(x)
                          /\ \A q \in Nat : Ulp(x) * q <= x => q <= j
                          /\ x % Ulp(x) = 0 => Float(x) = x
<1> DEFINE u == Ulp(x)
           d == x \div u
           r == x % u
           up == 2 * r > u \/ (2 * r = u /\ d % 2 = 1)
           j == IF up THEN d + 1 ELSE d
<1>1. u \in Nat \ {0}
  BY UlpIs
<1> HIDE DEF u
<1>2. d \in Nat /\ r \in 0..(u - 1) /\ x = u * d + r
  BY <1>1, Division
<1>3. Float(x) = u * j
  BY DEF Float, u
<1> HIDE DEF d, r
<1>4. u * (d + 1) = u * d + u
  BY <1>1, <1>2
<1>5. u * d \in Nat
  BY <1>1, <1>2
<1>6. ASSUME up
      PROVE  2 * r >= u /\ j = d + 1
  BY <1>1, <1>2, <1>6
<1>7. ASSUME ~ up
      PROVE  2 * r <= u /\ j = d
  BY <1>1, <1>2, <1>7
<1> HIDE DEF up, j
<1>8. /\ j \in Nat /\ d <= j
      /\ 2 * x - u <= 2 * (u * j) /\ 2 * (u * j) <= 2 * x + u
      /\ r = 0 => u * j = x
  <2> DEFINE p == u * d
  <2>1. CASE up
    <3>1. u * j = p + u
      BY <1>4, <1>6, <2>1
    <3> HIDE DEF p
    <3>2. p \in Nat /\ x = p + r
      BY <1>2, <1>5 DEF p
    <3> QED BY <1>1, <1>2, <1>6, <2>1, <3>1, <3>2
  <2>2. CASE ~ up
    <3>1. u * j = p
      BY <1>7, <2>2
    <3> HIDE DEF p
    <3>2. p \in Nat /\ x = p + r
      BY <1>2, <1>5 DEF p
    <3> QED BY <1>1, <1>2, <1>7, <2>2, <3>1, <3>2
  <2> QED BY <2>1, <2>2
<1>9. ASSUME NEW q \in Nat, u * q <= x
      PROVE  q <= j
  <2>1. q <= d
    BY <1>1, <1>2, <1>9, NoLessMultiples
  <2> QED BY <1>2, <1>8, <2>1
<1>10. x % u = 0 => Float(x) = x
  BY <1>3, <1>8 DEF r
<1> QED BY <1>3, <1>8, <1>9, <1>10 DEF u

(* Fetch is a multiple of every spacing.                                   *)
LEMMA FetchIs ==
    ASSUME NEW u \in Spacings
    PROVE  \E q \in Nat \ {0} : Fetch = u * q
<1>1. u \in Nat \ {0} /\ Fetch \in Nat \ {0} /\ Fetch % u = 0
  BY RoundingAssumption, CacheAssumption
<1>2. PICK d \in Nat, r \in 0..(u - 1) :
         Fetch \div u = d /\ Fetch % u = r /\ Fetch = u * d + r
  BY <1>1, Division
<1>3. Fetch = u * d
  <2>1. u * d \in Nat /\ r = 0
    BY <1>1, <1>2
  <2> QED BY <1>2, <2>1
<1>4. d # 0
  <2> SUFFICES ASSUME d = 0 PROVE FALSE
    OBVIOUS
  <2>1. u * d = 0
    BY <1>1
  <2> QED BY <1>1, <1>3, <2>1
<1> QED BY <1>3, <1>4

(* A smaller spacing divides a larger one.                                 *)
LEMMA SpacingsDivide ==
    ASSUME NEW u \in Spacings, NEW v \in Spacings, v <= u
    PROVE  \E q \in Nat \ {0} : u = v * q
<1>1. u \in Nat \ {0} /\ v \in Nat \ {0} /\ u % v = 0
  BY RoundingAssumption
<1>2. PICK d \in Nat, r \in 0..(v - 1) :
         u \div v = d /\ u % v = r /\ u = v * d + r
  BY <1>1, Division
<1>3. u = v * d
  <2>1. v * d \in Nat /\ r = 0
    BY <1>1, <1>2
  <2> QED BY <1>2, <2>1
<1>4. d # 0
  <2> SUFFICES ASSUME d = 0 PROVE FALSE
    OBVIOUS
  <2>1. v * d = 0
    BY <1>1
  <2> QED BY <1>1, <1>3, <2>1
<1> QED BY <1>3, <1>4

(* Halfway down from one spacing there is another, as wide as any smaller. *)
LEMMA HalfSpacing ==
    ASSUME NEW u \in Spacings, NEW v \in Spacings, v < u
    PROVE  \E w \in Spacings : w \in Nat /\ u = 2 * w /\ v <= w
<1>1. u \in Nat \ {0} /\ v \in Nat \ {0}
  BY RoundingAssumption
<1>2. u # 1
  BY <1>1
<1>3. u % 2 = 0 /\ u \div 2 \in Spacings /\ u \div 2 \in Nat
  <2>1. \A x \in Spacings \ {1} : x % 2 = 0 /\ x \div 2 \in Spacings
    BY RoundingAssumption
  <2> QED BY <1>1, <1>2, <2>1
<1>4. PICK q \in Nat \ {0} : u = v * q
  BY <1>1, SpacingsDivide
<1>5. q >= 2
  <2> SUFFICES ASSUME q = 1 PROVE FALSE
    BY <1>4
  <2> QED BY <1>1, <1>4
<1>6. u >= 2 * v
  <2>1. PICK e \in Nat : q = 2 + e
    <3>1. q - 2 \in Nat /\ q = 2 + (q - 2)
      BY <1>5
    <3> QED BY <3>1
  <2>2. v * q = 2 * v + v * e /\ v * e >= 0
    BY <1>1, <2>1
  <2> QED BY <1>1, <1>4, <2>2
<1>7. u = 2 * (u \div 2)
  BY <1>1, <1>3
<1> QED BY <1>1, <1>3, <1>6, <1>7

(* What is left of a rounded total is a float itself: the subtraction is   *)
(* exact.                                                                  *)
LEMMA ReducedIsExact ==
    ASSUME NEW S \in Nat, NEW b \in Spacings, S < b * Exact, Fetch <= S
    PROVE  /\ Float(S) \in Nat /\ Float(S) - Fetch \in Nat
           /\ Float(Float(S) - Fetch) = Float(S) - Fetch
<1> DEFINE u == Ulp(S)
           Y == Float(S) - Fetch
<1>1. u \in Spacings /\ u \in Nat \ {0} /\ S < u * Exact /\ Exact \in Nat
  BY UlpIs, CacheAssumption
<1>2. PICK j \in Nat : /\ Float(S) = u * j
                       /\ 2 * S - u <= 2 * (u * j) /\ 2 * (u * j) <= 2 * S + u
                       /\ \A q \in Nat : u * q <= S => q <= j
  BY FloatIs
<1> HIDE DEF u
<1>3. PICK f \in Nat \ {0} : Fetch = u * f
  BY <1>1, FetchIs
<1>4. f <= j
  BY <1>2, <1>3
<1>5. PICK e \in Nat : j = f + e
  <2>1. j - f \in Nat /\ j = f + (j - f)
    BY <1>4
  <2> QED BY <2>1
<1>6. u * j = u * f + u * e /\ u * e \in Nat /\ u * f \in Nat /\ u * f >= u
  <2>1. PICK g \in Nat : f = 1 + g
    <3>1. f - 1 \in Nat /\ f = 1 + (f - 1)
      OBVIOUS
    <3> QED BY <3>1
  <2>2. u * f = u + u * g /\ u * g \in Nat
    BY <1>1, <2>1
  <2>3. u * f \in Nat /\ u * f >= u
    <3> DEFINE p == u * g
    <3>1. u * f = u + p /\ p \in Nat
      BY <2>2
    <3> HIDE DEF p
    <3> QED BY <1>1, <3>1
  <2>4. u * e \in Nat
    BY <1>1
  <2>5. u * j = u * f + u * e
    BY <1>1, <1>5
  <2> QED BY <2>3, <2>4, <2>5
<1>7. Float(S) \in Nat /\ Y = u * e /\ Y \in Nat /\ Y < S
  <2> DEFINE p == u * f
             q == u * e
             r == u * j
  <2>1. /\ Fetch = p /\ Float(S) = r /\ r = p + q /\ p \in Nat /\ q \in Nat /\ p >= u
        /\ 2 * r <= 2 * S + u
    BY <1>2, <1>3, <1>6
  <2> HIDE DEF p, q, r
  <2>2. Y = q /\ r \in Nat
    BY <2>1
  <2>3. q < S
    BY <1>1, <2>1
  <2> QED BY <2>1, <2>2, <2>3 DEF q
<1> HIDE DEF Y
<1>8. Y < u * Exact
  <2> DEFINE z == u * Exact
  <2>1. z \in Int
    BY <1>1
  <2>2. S < z
    BY <1>1
  <2> HIDE DEF z
  <2>3. Y < z
    BY <1>7, <2>1, <2>2
  <2> QED BY <2>3 DEF z
<1> DEFINE v == Ulp(Y)
<1>9. v \in Spacings /\ v <= u /\ v \in Nat \ {0}
  BY <1>1, <1>7, <1>8, UlpIs
<1>10. Y % v = 0 => Float(Y) = Y
  BY <1>1, <1>7, <1>8, FloatIs
<1> HIDE DEF v
<1>11. PICK q \in Nat \ {0} : u = v * q
  BY <1>1, <1>9, SpacingsDivide
<1>12. Y = v * (q * e) /\ q * e \in Nat
  <2>1. (v * q) * e = v * (q * e)
    BY <1>9
  <2> QED BY <1>7, <1>11, <2>1
<1>13. Y % v = 0
  BY <1>9, <1>12, Remainder
<1> QED BY <1>7, <1>10, <1>13 DEF Y

(* A total that is rounded to less than X is less than X and a spacing.    *)
LEMMA RoundedBelow ==
    ASSUME NEW S \in Nat, NEW b \in Spacings, S < b * Exact,
           NEW X \in Nat, NEW c \in Spacings, X < c * Exact, Float(S) < X
    PROVE  S < X + Ulp(X)
<1> DEFINE u == Ulp(S)
           v == Ulp(X)
<1>1. u \in Spacings /\ u \in Nat \ {0} /\ Exact \in Nat
      /\ \A w \in Spacings : S < w * Exact => u <= w
  BY UlpIs, CacheAssumption
<1>2. v \in Spacings /\ v \in Nat \ {0} /\ X < v * Exact
  BY UlpIs
<1>3. PICK j \in Nat : /\ Float(S) = u * j
                       /\ 2 * S - u <= 2 * (u * j)
                       /\ \A q \in Nat : u * q <= S => q <= j
  BY FloatIs
<1> HIDE DEF u, v
<1>4. CASE u <= v
  <2> DEFINE p == u * j
  <2>1. p < X /\ 2 * S - u <= 2 * p /\ p \in Nat
    BY <1>1, <1>3
  <2> HIDE DEF p
  <2>2. S < X + v
    BY <1>1, <1>2, <1>4, <2>1
  <2> QED BY <2>2 DEF v
<1>5. CASE ~ (u <= v)
  <2>1. PICK w \in Spacings : w \in Nat /\ u = 2 * w /\ v <= w
    BY <1>1, <1>2, <1>5, HalfSpacing
  <2>2. w \in Nat \ {0} /\ ~ (S < w * Exact)
    BY <1>1, <2>1
  <2>3. PICK e \in Nat : Exact = 2 * e
    <3>1. Exact % 2 = 0
      BY RoundingAssumption
    <3> QED BY <1>1, <3>1
  <2>4. w * Exact = u * e /\ w * Exact \in Nat
    BY <1>1, <2>1, <2>3
  <2>5. e <= j
    BY <1>3, <2>2, <2>4
  <2>6. u * e <= u * j /\ u * j \in Nat
    <3>1. PICK d \in Nat : j = e + d
      <4>1. j - e \in Nat /\ j = e + (j - e)
        BY <2>5
      <4> QED BY <4>1
    <3>2. u * j = u * e + u * d /\ u * d \in Nat /\ u * e \in Nat
      BY <1>1, <3>1
    <3> DEFINE p == u * e
               q == u * d
    <3>3. u * j = p + q /\ p \in Nat /\ q \in Nat
      BY <3>2
    <3> HIDE DEF p, q
    <3>4. p <= u * j /\ u * j \in Nat
      BY <3>3
    <3> QED BY <3>4 DEF p
  <2>7. v * Exact <= w * Exact
    <3>1. PICK d \in Nat : w = v + d
      <4>1. w - v \in Nat /\ w = v + (w - v)
        BY <1>2, <2>1
      <4> QED BY <4>1
    <3>2. w * Exact = v * Exact + d * Exact /\ d * Exact \in Nat /\ v * Exact \in Nat
      BY <1>1, <1>2, <3>1
    <3> DEFINE p == v * Exact
               q == d * Exact
    <3>3. w * Exact = p + q /\ p \in Nat /\ q \in Nat
      BY <3>2
    <3> HIDE DEF p, q
    <3>4. p <= w * Exact
      BY <3>3
    <3> QED BY <3>4 DEF p
  <2>8. FALSE
    <3> DEFINE p == v * Exact
               q == u * e
               r == u * j
    <3>1. X < p /\ p <= q /\ q <= r /\ r < X /\ p \in Nat /\ q \in Nat /\ r \in Nat
      BY <1>1, <1>2, <1>3, <2>4, <2>6, <2>7
    <3> HIDE DEF p, q, r
    <3> QED BY <3>1
  <2> QED BY <2>8
<1> QED BY <1>4, <1>5
-----------------------------------------------------------------------------
(* The budget.                                                             *)

(* An index is in the cache whole, or an index of the same hash is.        *)
IndexesFit ==
    \A k \in DOMAIN nodes \cap IndexKeys :
        \E x \in Indexes : Hash[x] = k /\ nodes[k].size = IndexSize[x]

(* What WithinBudget says, from the moment removeOld finds room.           *)
RoomFound ==
    pc = "check" /\ max_size > 0 /\ ~ TooFull =>
        Sum(nodes) < max_size + Ulp(max_size + Fetch)

BudgetInv == max_size \in MaxSizes /\ IndexesFit /\ RoomFound /\ WithinBudget

Keys == Tables \cup IndexKeys

LEMMA KeysFinite == IsFiniteSet(Keys)
<1>1. IsFiniteSet(Tables) /\ IsFiniteSet(Indexes)
  BY CacheAssumption
<1> DEFINE h == [x \in Indexes |-> Hash[x]]
<1>2. h \in Surjection(Indexes, IndexKeys)
  BY DEF Surjection, IndexKeys
<1> HIDE DEF h
<1>3. IsFiniteSet(IndexKeys)
  BY <1>1, <1>2, FS_Surjection
<1> QED BY <1>1, <1>3, FS_Union DEF Keys

(* Of the indexes of one hash one is the largest.                          *)
LEMMA LargestIs ==
    ASSUME NEW k \in Keys
    PROVE  /\ LargestAt(k) \in Int
           /\ k \in Tables => LargestAt(k) = TableSize[k] /\ TableSize[k] \in Nat
           /\ k \notin Tables =>
                 \A x \in Indexes : Hash[x] = k => IndexSize[x] <= LargestAt(k)
<1>1. CASE k \in Tables
  <2>1. LargestAt(k) = TableSize[k]
    BY <1>1 DEF LargestAt
  <2> QED BY <1>1, <2>1, CacheAssumption
<1>2. CASE k \notin Tables
  <2> DEFINE X == {y \in Indexes : Hash[y] = k}
             T == {IndexSize[x] : x \in X}
             f == [x \in X |-> IndexSize[x]]
  <2>1. IsFiniteSet(X)
    BY CacheAssumption, FS_Subset
  <2>2. f \in Surjection(X, T)
    BY DEF Surjection
  <2>3. T \subseteq Int /\ T # {}
    <3>1. \E x \in Indexes : Hash[x] = k
      BY <1>2 DEF Keys, IndexKeys
    <3> QED BY <3>1, CacheAssumption
  <2>4. IsFiniteSet(T)
    <3> HIDE DEF X, T, f
    <3> QED BY <2>1, <2>2, FS_Surjection
  <2>5. LargestAt(k) = Max(T)
    BY <1>2 DEF LargestAt
  <2>6. ASSUME NEW x \in Indexes, Hash[x] = k
        PROVE  IndexSize[x] \in T
    BY <2>6
  <2> HIDE DEF T
  <2>7. PICK m \in T : \A y \in T : y <= m
    BY <2>3, <2>4, GreatestExists
  <2>8. \A y \in T : m >= y
    BY <2>3, <2>7
  <2>9. Max(T) \in T /\ \A y \in T : Max(T) >= y
    BY <2>7, <2>8 DEF Max
  <2>10. \A y \in T : y <= Max(T)
    BY <2>3, <2>9
  <2> QED BY <1>2, <2>3, <2>5, <2>6, <2>9, <2>10
<1> QED BY <1>1, <1>2

(* What is in the cache is no more than there is, and its sum is in range. *)
LEMMA SizesFit ==
    ASSUME CacheInv, IndexesFit
    PROVE  /\ DOMAIN nodes \subseteq Keys /\ IsFiniteSet(DOMAIN nodes)
           /\ \A k \in DOMAIN nodes : /\ nodes[k].size \in Nat
                                      /\ nodes[k].size <= LargestAt(k)
<1>1. DOMAIN nodes \subseteq Keys
  BY DEF CacheInv, TablesFit, Keys
<1>2. IsFiniteSet(DOMAIN nodes)
  BY <1>1, KeysFinite, FS_Subset
<1>3. ASSUME NEW k \in DOMAIN nodes
      PROVE  nodes[k].size \in Nat /\ nodes[k].size <= LargestAt(k)
  <2>1. CASE k \in Tables
    <3>1. nodes[k].size \in 0..TableSize[k] /\ TableSize[k] \in Nat
      BY <2>1, CacheAssumption DEF CacheInv, TablesFit
    <3> QED BY <1>1, <2>1, <3>1, LargestIs
  <2>2. CASE k \notin Tables
    <3>1. k \in IndexKeys
      BY <1>1, <2>2 DEF Keys
    <3>2. PICK x \in Indexes : Hash[x] = k /\ nodes[k].size = IndexSize[x]
      BY <3>1 DEF IndexesFit
    <3>3. IndexSize[x] \in Nat
      BY CacheAssumption
    <3> QED BY <1>1, <2>2, <3>2, <3>3, LargestIs
  <2> QED BY <2>1, <2>2
<1> QED BY <1>1, <1>2, <1>3

(* Of nothing is there less than nothing; stated once more, to be primed.  *)
SizesNatural == \A k \in DOMAIN nodes : nodes[k].size \in Nat

LEMMA SizesAreNatural == CacheInv /\ IndexesFit => SizesNatural
  BY SizesFit DEF SizesNatural

LEMMA SumInRange ==
    ASSUME CacheInv, IndexesFit
    PROVE  Sum(nodes) \in Nat /\ \E b \in Spacings : Sum(nodes) < b * Exact
<1> DEFINE S == DOMAIN nodes
           f == [k \in S |-> nodes[k].size]
           g == [k \in S |-> LargestAt(k)]
<1>1. S \subseteq Keys /\ IsFiniteSet(S)
  BY SizesFit
<1>2. f \in [S -> Nat] /\ f \in [S -> Int] /\ g \in [S -> Int] /\ \A x \in S : f[x] <= g[x]
  BY <1>1, SizesFit, LargestIs
<1>3. Sum(nodes) = SumOver(S, f)
  BY DEF Sum
<1>4. PICK b \in Spacings : SumOver(S, g) < b * Exact
  BY <1>1, RoundingAssumption DEF Keys
<1> HIDE DEF S, f, g
<1>5. SumOver(S, f) \in Nat
  BY <1>1, <1>2, SumNotNegative
<1>6. SumOver(S, g) \in Int /\ SumOver(S, f) <= SumOver(S, g)
  BY <1>1, <1>2, SumsCompare
<1>7. b * Exact \in Int
  BY CacheAssumption, RoundingAssumption
<1>8. SumOver(S, f) < b * Exact
  <2> DEFINE p == b * Exact
  <2> HIDE DEF p
  <2>1. p \in Int /\ SumOver(S, g) < p
    BY <1>4, <1>7 DEF p
  <2>2. SumOver(S, f) < p
    BY <1>5, <1>6, <2>1
  <2> QED BY <2>2 DEF p
<1> QED BY <1>3, <1>5, <1>8

LEMMA SumNatural == CacheInv /\ IndexesFit => Sum(nodes) \in Nat
  BY SumInRange

(* Of what fits there is less than the spacing more than fits.             *)
LEMMA SpacingPositive ==
    ASSUME max_size \in MaxSizes, max_size > 0
    PROVE  /\ max_size + Fetch \in Nat
           /\ Ulp(max_size + Fetch) \in Nat \ {0}
           /\ \E c \in Spacings : max_size + Fetch < c * Exact
<1>1. max_size \in Nat /\ max_size + Fetch \in Nat
  BY CacheAssumption
<1>2. PICK c \in Spacings : max_size + Fetch < c * Exact
  BY RoundingAssumption
<1> QED BY <1>1, <1>2, UlpIs

(* Reducing a table reduces the sum by as much, and what is found to fit   *)
(* after that is over by less than a spacing.                              *)
LEMMA ReduceFindsRoom ==
    ASSUME CacheInv, CacheInv', IndexesFit, IndexesFit', max_size \in MaxSizes,
           NEW k \in DOMAIN nodes, nodes' = Reduce(k),
           max_size > 0, ~ (Float(Float(Sum(nodes)) - Fetch) >= max_size)
    PROVE  Sum(nodes') < max_size + Ulp(max_size + Fetch)
<1> DEFINE D == DOMAIN nodes
           f == [j \in D |-> nodes[j].size]
           g == [j \in D |-> nodes'[j].size]
           S == Sum(nodes)
           X == max_size + Fetch
<1>1. Fetch \in Nat \ {0}
  BY CacheAssumption
<1>2. DOMAIN nodes' = D
  BY DEF Reduce
<1>3. /\ nodes'[k].size = nodes[k].size - Fetch
      /\ \A j \in D \ {k} : nodes'[j].size = nodes[j].size
  <2>1. nodes[k] \in [size : Int, time_idx : Nat]
    BY DEF CacheInv, Stamped
  <2>2. /\ nodes'[k] = [nodes[k] EXCEPT !.size = @ - Fetch]
        /\ \A j \in D \ {k} : nodes'[j] = nodes[j]
    BY DEF Reduce
  <2> QED BY <2>1, <2>2
<1>4. IsFiniteSet(D) /\ f \in [D -> Nat] /\ f \in [D -> Int]
  BY SizesFit
<1>5. g \in [D -> Nat] /\ g \in [D -> Int]
  <2>1. SizesNatural'
    <3>1. (CacheInv /\ IndexesFit => SizesNatural)'
      BY SizesAreNatural, PTL
    <3> QED BY <3>1
  <2> QED BY <1>2, <2>1 DEF SizesNatural
<1>6. S = SumOver(D, f) /\ Sum(nodes') = SumOver(D, g)
  BY <1>2 DEF Sum
<1>7. g[k] = f[k] - Fetch /\ \A j \in D \ {k} : g[j] = f[j]
  BY <1>3
<1>8. S \in Nat /\ \E b \in Spacings : S < b * Exact
  BY SumInRange
<1> HIDE DEF D, f, g, S, X
<1>9. k \in D
  BY DEF D
<1>10. SumOver(D, g) = SumOver(D, f) - Fetch
  BY <1>1, <1>4, <1>5, <1>7, <1>9, ReducedSum
<1>11. SumOver(D, g) \in Nat
  BY <1>4, <1>5, SumNotNegative
<1>12. Fetch <= S
  BY <1>1, <1>6, <1>8, <1>10, <1>11
<1>13. /\ Float(S) \in Nat /\ Float(S) - Fetch \in Nat
       /\ Float(Float(S) - Fetch) = Float(S) - Fetch
  BY <1>8, <1>12, ReducedIsExact
<1>14. Float(S) < X
  <2>1. ~ (Float(S) - Fetch >= max_size)
    BY <1>13 DEF S
  <2>2. max_size \in Int
    BY CacheAssumption
  <2> QED BY <1>1, <1>13, <2>1, <2>2 DEF X
<1>15. X \in Nat /\ Ulp(X) \in Nat \ {0} /\ \E c \in Spacings : X < c * Exact
  BY SpacingPositive DEF X
<1>16. S < X + Ulp(X)
  BY <1>8, <1>14, <1>15, RoundedBelow
<1>17. max_size \in Int
  BY CacheAssumption
<1>18. Sum(nodes') < max_size + Ulp(X)
  <2>1. Sum(nodes') = S - Fetch /\ X = max_size + Fetch
    BY <1>6, <1>10 DEF X
  <2> QED BY <1>1, <1>8, <1>15, <1>16, <1>17, <2>1
<1> QED BY <1>18 DEF X

(* RoomFound is what the steps keep: a total is computed when the nodes are *)
(* counted, dropped or reduced, and removeOld stops by the last of them.   *)
LEMMA BudgetInvHolds == Safety => []BudgetInv
<1>1. Init => BudgetInv
  <2> SUFFICES ASSUME Init PROVE BudgetInv
    OBVIOUS
  <2>1. max_size \in MaxSizes /\ DOMAIN nodes = {} /\ pc = "idle"
    BY DEF Init
  <2>2. Sum(nodes) = 0
    <3> DEFINE f == [k \in {} |-> nodes[k].size]
    <3>1. Sum(nodes) = SumOver({}, f)
      BY <2>1 DEF Sum
    <3>2. SumOver({}, f) = Added(SumsOver({}, f), f, {})
      BY FS_EmptySet, SumsOverSumsUp DEF SumOver
    <3> QED BY <3>1, <3>2 DEF Added
  <2>3. WithinBudget
    <3> SUFFICES ASSUME max_size > 0
                 PROVE  Sum(nodes) < max_size + Ulp(max_size + Fetch)
      BY DEF WithinBudget
    <3>1. max_size \in Int /\ Ulp(max_size + Fetch) \in Nat \ {0}
      BY <2>1, SpacingPositive, CacheAssumption
    <3> QED BY <2>2, <3>1
  <2> QED BY <2>1, <2>3 DEF BudgetInv, IndexesFit, RoomFound
<1>2. CacheInv /\ CacheInv' /\ BudgetInv /\ [Next]_vars => BudgetInv'
  <2> SUFFICES ASSUME CacheInv, CacheInv', BudgetInv, [Next]_vars
               PROVE  BudgetInv'
    OBVIOUS
  <2> USE DEF BudgetInv
  <2>1. UNCHANGED max_size
    BY DEF Next, RemoveOld, AddIndex, AddTable, StartLoad, Measure, Fits, Evict, vars
  <2>2. ASSUME nodes' = nodes
        PROVE  IndexesFit'
    BY <2>2 DEF IndexesFit
  <2>3. ASSUME pc' = "measure"
        PROVE  RoomFound' /\ WithinBudget'
    BY <2>3 DEF RoomFound, WithinBudget
  <2>4. ASSUME NEW x \in Indexes, AddIndex(x)
        PROVE  BudgetInv'
    <3>1. pc' = "measure" /\ Insert(Hash[x], Node(IndexSize[x]))
      BY <2>4 DEF AddIndex, StartLoad, IndexNode
    <3>2. ASSUME NEW k \in DOMAIN nodes' \cap IndexKeys
          PROVE  \E y \in Indexes : Hash[y] = k /\ nodes'[k].size = IndexSize[y]
      <4>1. CASE k \in DOMAIN nodes
        <5>1. nodes'[k] = nodes[k]
          BY <3>1, <4>1 DEF Insert
        <5> QED BY <4>1, <5>1 DEF IndexesFit
      <4>2. CASE k \notin DOMAIN nodes
        <5>1. k = Hash[x] /\ nodes'[k] = Node(IndexSize[x])
          BY <3>1, <3>2, <4>2 DEF Insert
        <5> QED BY <5>1 DEF Node
      <4> QED BY <4>1, <4>2
    <3>3. IndexesFit'
      BY <3>2 DEF IndexesFit
    <3> QED BY <2>1, <2>3, <3>1, <3>3
  <2>5. ASSUME NEW t \in Tables, NEW full \in BOOLEAN, AddTable(t, full)
        PROVE  BudgetInv'
    <3>1. pc' = "measure"
      BY <2>5 DEF AddTable, StartLoad
    <3>2. t \notin IndexKeys
      BY CacheAssumption DEF IndexKeys
    <3>3. \A k \in DOMAIN nodes' \cap IndexKeys : k \in DOMAIN nodes /\ nodes'[k] = nodes[k]
      BY <2>5, <3>2 DEF AddTable, Insert, IncrementTable
    <3>4. IndexesFit'
      BY <3>3 DEF IndexesFit
    <3> QED BY <2>1, <2>3, <3>1, <3>4
  <2>6. CASE Measure
    <3>1. nodes' = nodes /\ total' = Sum(nodes') /\ pc' = "check"
      BY <2>6 DEF Measure, Sum
    <3>2. IndexesFit'
      BY <2>2, <3>1
    <3>3. RoomFound'
      <4> SUFFICES ASSUME max_size' > 0, ~ TooFull'
                   PROVE  Sum(nodes') < max_size' + Ulp(max_size' + Fetch)
        BY DEF RoomFound
      <4>1. Sum(nodes') \in Int /\ max_size \in Int /\ Ulp(max_size + Fetch) \in Nat \ {0}
        BY <2>1, <3>1, SumInRange, SpacingPositive, CacheAssumption
      <4>2. Sum(nodes') < max_size
        BY <2>1, <3>1, <4>1 DEF TooFull
      <4> QED BY <2>1, <4>1, <4>2
    <3> QED BY <2>1, <3>1, <3>2, <3>3 DEF WithinBudget
  <2>7. CASE Fits
    <3>1. nodes' = nodes /\ pc = "check" /\ ~ TooFull /\ pc' \in {"measure", "idle"}
      BY <2>7 DEF Fits
    <3>2. IndexesFit'
      BY <2>2, <3>1
    <3>3. RoomFound' /\ WithinBudget'
      BY <2>1, <3>1 DEF RoomFound, WithinBudget
    <3> QED BY <2>1, <3>2, <3>3
  <2>8. CASE Evict
    <3>1. Oldest \in DOMAIN nodes /\ pc' = "check"
      BY <2>8, OldestExists DEF Evict, CacheInv
    <3>2. WithinBudget'
      BY <3>1 DEF WithinBudget
    <3> DEFINE k == Oldest
    <3>3. CASE /\ k \notin IndexKeys
               /\ nodes' = Reduce(k) /\ total' = Float(Float(Sum(nodes)) - Fetch)
      <4>1. \A j \in DOMAIN nodes' \cap IndexKeys : j \in DOMAIN nodes /\ nodes'[j] = nodes[j]
        BY <3>1, <3>3 DEF Reduce
      <4>2. IndexesFit'
        BY <4>1 DEF IndexesFit
      <4>3. RoomFound'
        <5> SUFFICES ASSUME max_size' > 0, ~ TooFull'
                     PROVE  Sum(nodes') < max_size' + Ulp(max_size' + Fetch)
          BY DEF RoomFound
        <5>1. max_size > 0 /\ ~ (Float(Float(Sum(nodes)) - Fetch) >= max_size)
          BY <2>1, <3>3 DEF TooFull
        <5>2. Sum(nodes') < max_size + Ulp(max_size + Fetch)
          BY <3>1, <3>3, <4>2, <5>1, ReduceFindsRoom
        <5> QED BY <2>1, <5>2
      <4> QED BY <2>1, <3>2, <4>2, <4>3
    <3>4. CASE nodes' = Drop(k) /\ total' = Sum(nodes')
      <4>1. \A j \in DOMAIN nodes' : j \in DOMAIN nodes /\ nodes'[j] = nodes[j]
        BY <3>4 DEF Drop
      <4>2. IndexesFit'
        BY <4>1 DEF IndexesFit
      <4>3. RoomFound'
        <5> SUFFICES ASSUME max_size' > 0, ~ TooFull'
                     PROVE  Sum(nodes') < max_size' + Ulp(max_size' + Fetch)
          BY DEF RoomFound
        <5>1. (CacheInv /\ IndexesFit => Sum(nodes) \in Nat)'
          BY SumNatural, PTL
        <5>2. Sum(nodes') \in Int /\ max_size \in Int /\ Ulp(max_size + Fetch) \in Nat \ {0}
          BY <2>1, <4>2, <5>1, SpacingPositive, CacheAssumption
        <5>3. Sum(nodes') < max_size
          BY <2>1, <3>4, <5>2 DEF TooFull
        <5> QED BY <2>1, <5>2, <5>3
      <4> QED BY <2>1, <3>2, <4>2, <4>3
    <3> QED BY <2>8, <3>3, <3>4 DEF Evict
  <2>9. CASE UNCHANGED vars
    <3>1. UNCHANGED <<nodes, pc, total, max_size>>
      BY <2>9 DEF vars
    <3> QED BY <2>2, <3>1 DEF RoomFound, WithinBudget, TooFull, Sum
  <2> QED BY <2>4, <2>5, <2>6, <2>7, <2>8, <2>9 DEF Next, RemoveOld
<1> QED BY <1>1, <1>2, CacheInvHolds, PTL DEF Safety

(* When main leaves removeOld (cache.cpp 60-88) the cache is smaller than   *)
(* shared_buffers and one float's spacing, for any schema and any floats   *)
(* of which Fetch is a multiple.                                           *)
THEOREM EndsWithinBudget == Spec => []WithinBudget
<1>1. BudgetInv => WithinBudget
  BY DEF BudgetInv
<1> QED BY <1>1, BudgetInvHolds, PTL DEF Spec
=============================================================================
