---------------------------- MODULE PlannerProofs ---------------------------
(***************************************************************************)
(* Planner proved, with the condition, the areas and the networks it rests *)
(* on, for any schema and query that PlannerAssumption admits.             *)
(*                                                                         *)
(* The functions these modules define over the nodes of a tree, or one     *)
(* element of a sequence after the other, are first shown to exist, so     *)
(* that they are what their definitions say.  Then, in this order:         *)
(*   de_morgan   the tree it makes has no NOT and means the same;          *)
(*   getAreas    some area of a condition that holds is satisfied;         *)
(*   Prepared    the first inductive invariant: what pc and the condition  *)
(*               are while a query is prepared, and that a planning starts *)
(*               from the areas and the tables of that condition;          *)
(*   plans       which tables are below an operation, and which filters;   *)
(*   Kept        what each operation of the planning of joins keeps: which *)
(*               tables have got into which operation, and which of the    *)
(*               comparisons are filters already;                          *)
(*   Loops       what each loop over the joins knows when it turns;        *)
(*   PlanningJoins  the second inductive invariant, made from these two;   *)
(*   Network     what a search for indexes finds is what the reference     *)
(*               definition of IndexSelection says.                        *)
(***************************************************************************)
EXTENDS Planner, TotalsProofs, SequenceTheorems

-----------------------------------------------------------------------------
(* Conditions.                                                             *)
NoNot(t) == \A k \in DOMAIN t : t[k].name # "NOT"

(* What a node of a tree may be: children come before it.                  *)
LEMMA TreeNodes ==
    ASSUME NEW t, IsTree(t)
    PROVE  /\ Len(t) \in Nat /\ DOMAIN t = 1..Len(t)
           /\ t # NoCondition => Len(t) > 0 /\ Len(t) \in DOMAIN t
           /\ \A k \in DOMAIN t :
                 \/ IsExp(t[k])
                 \/ t[k].name = "NOT" /\ t[k].left \in 1..(k - 1)
                 \/ /\ t[k].name \in {"AND", "OR"}
                    /\ t[k].left \in 1..(k - 1) /\ t[k].right \in 1..(k - 1)
<1>1. Len(t) \in Nat /\ DOMAIN t = 1..Len(t)
  BY DEF IsTree, IsList
<1>2. t # NoCondition => Len(t) > 0 /\ Len(t) \in DOMAIN t
  BY <1>1 DEF IsTree, IsList, NoCondition
<1>3. ASSUME NEW k \in DOMAIN t
      PROVE  \/ IsExp(t[k])
             \/ t[k].name = "NOT" /\ t[k].left \in 1..(k - 1)
             \/ /\ t[k].name \in {"AND", "OR"}
                /\ t[k].left \in 1..(k - 1) /\ t[k].right \in 1..(k - 1)
  BY DEF IsTree
<1> QED BY <1>1, <1>2, <1>3

(* What holds at a place if it holds at all before holds everywhere.       *)
LEMMA FromTheFirst ==
    ASSUME NEW S, NEW n \in Nat,
           \A k \in 1..n : (\A j \in 1..(k - 1) : j \in S) => k \in S
    PROVE  \A k \in 1..n : k \in S
<1> DEFINE R == {m \in Nat : m <= n => \A k \in 1..m : k \in S}
<1>1. 0 \in R
  OBVIOUS
<1>2. ASSUME NEW m \in Nat, m \in R PROVE m + 1 \in R
  <2> SUFFICES ASSUME m + 1 <= n PROVE \A k \in 1..(m + 1) : k \in S
    OBVIOUS
  <2>1. \A k \in 1..m : k \in S
    BY <1>2
  <2>2. m + 1 \in S
    <3>1. (m + 1) - 1 = m /\ m + 1 \in 1..n
      OBVIOUS
    <3> QED BY <2>1, <3>1
  <2> QED BY <2>1, <2>2
<1>3. n \in R
  <2> HIDE DEF R
  <2> QED BY <1>1, <1>2, SetInduction
<1> QED BY <1>3

(* A node in terms of what is made of the nodes before it.                 *)
GatherAt(f, n) == CASE n.name = "exp" -> <<n>>
                    [] n.name = "NOT" -> f[n.left]
                    [] OTHER          -> f[n.left] \o f[n.right]

OrsAt(f, n) == CASE n.name = "exp" -> 0
                 [] n.name = "AND" -> f[n.left] + f[n.right]
                 [] OTHER          -> f[n.left] + f[n.right] + 1

ByAnd(l, r) == Front(l) \o Front(r) \o AtAnd(Last(l), Last(r))
ByOr(l, r)  == Front(l) \o Front(r) \o AtOr(Last(l), Last(r))

AreasAt(f, n) == IF n.name = "exp" THEN <<<<n>>>>
                 ELSE IF n.name = "AND" THEN ByAnd(f[n.left], f[n.right])
                                        ELSE ByOr(f[n.left], f[n.right])

ValueAt(f, n, v) ==
    CASE n.name = "exp" -> IF n.equal = 0 THEN 1
                           ELSE IF n.equal = 1 THEN v[n.id] ELSE 2 - v[n.id]
      [] n.name = "NOT" -> 2 - f[n.left]
      [] n.name = "AND" -> Min({f[n.left], f[n.right]})
      [] OTHER          -> Max({f[n.left], f[n.right]})

HoldsAt(f, n, sat) == CASE n.name = "exp" -> n.id \in sat
                        [] n.name = "AND" -> f[n.left] /\ f[n.right]
                        [] OTHER          -> f[n.left] \/ f[n.right]

(* The functions over the nodes of a tree that ConditionTree defines by    *)
(* what they are for the children exist, one after the other; first the    *)
(* comparisons below each node.                                            *)
LEMMA GatheringExists ==
    ASSUME NEW t, IsTree(t)
    PROVE  \E f : f = [k \in DOMAIN t |-> GatherAt(f, t[k])]
<1> DEFINE Step(f, m) == f = [k \in 1..m |-> GatherAt(f, t[k])]
           S == {m \in Nat : m <= Len(t) => \E f : Step(f, m)}
<1>0. Len(t) \in Nat /\ DOMAIN t = 1..Len(t)
  BY TreeNodes
<1>1. 0 \in S
  <2>1. Step(<<>>, 0)
    OBVIOUS
  <2> HIDE DEF Step
  <2> QED BY <2>1
<1>2. ASSUME NEW m \in Nat, m \in S PROVE m + 1 \in S
  <2> SUFFICES ASSUME m + 1 <= Len(t) PROVE \E f : Step(f, m + 1)
    <3> HIDE DEF Step
    <3> QED OBVIOUS
  <2>1. PICK g : Step(g, m)
    <3> HIDE DEF Step
    <3> QED BY <1>0, <1>2
  <2> DEFINE h == [k \in 1..(m + 1) |-> GatherAt(g, t[k])]
  <2>a. \A k \in 1..m : g[k] = GatherAt(g, t[k])
    <3> HIDE DEF h
    <3> QED BY <2>1
  <2>b. \A k \in 1..m : k \in 1..(m + 1)
    OBVIOUS
  <2>2. \A k \in 1..m : g[k] = GatherAt(g, t[k]) /\ h[k] = GatherAt(g, t[k])
    BY <2>a, <2>b
  <2>3. \A k \in 1..m : h[k] = g[k]
    <3> HIDE DEF h
    <3> QED BY <2>2
  <2>4. ASSUME NEW k \in 1..(m + 1) PROVE GatherAt(h, t[k]) = GatherAt(g, t[k])
    <3> HIDE DEF h
    <3>1. k \in DOMAIN t
      BY <1>0
    <3>2. \A j \in 1..(k - 1) : h[j] = g[j]
      BY <2>3
    <3>3. \/ IsExp(t[k])
          \/ t[k].name = "NOT" /\ h[t[k].left] = g[t[k].left]
          \/ t[k].name \in {"AND", "OR"} /\ h[t[k].left] = g[t[k].left]
                                         /\ h[t[k].right] = g[t[k].right]
      BY <3>1, <3>2, TreeNodes
    <3>4. \/ t[k].name = "exp"
          \/ t[k].name = "NOT" /\ h[t[k].left] = g[t[k].left]
          \/ t[k].name \in {"AND", "OR"} /\ h[t[k].left] = g[t[k].left]
                                         /\ h[t[k].right] = g[t[k].right]
      BY <3>3 DEF IsExp
    <3> QED BY <3>1, <3>4, Zenon DEF GatherAt
  <2>5. \A k \in 1..(m + 1) : h[k] = GatherAt(h, t[k])
    BY <2>4
  <2>6. Step(h, m + 1)
    <3>1. h = [k \in 1..(m + 1) |-> h[k]]
      OBVIOUS
    <3> HIDE DEF h
    <3> QED BY <2>5, <3>1
  <2> HIDE DEF Step
  <2> QED BY <2>6
<1>3. Len(t) \in S
  <2> HIDE DEF S
  <2> QED BY <1>0, <1>1, <1>2, SetInduction
<1>4. \E f : Step(f, Len(t))
  <2> HIDE DEF Step
  <2> QED BY <1>0, <1>3
<1> QED BY <1>0, <1>4

(* The number of ORs at and below each node.                               *)
LEMMA OrsExist ==
    ASSUME NEW t, IsTree(t), NoNot(t)
    PROVE  \E f : f = [k \in DOMAIN t |-> OrsAt(f, t[k])]
<1> DEFINE Step(f, m) == f = [k \in 1..m |-> OrsAt(f, t[k])]
           S == {m \in Nat : m <= Len(t) => \E f : Step(f, m)}
<1>0. Len(t) \in Nat /\ DOMAIN t = 1..Len(t)
  BY TreeNodes
<1>1. 0 \in S
  <2>1. Step(<<>>, 0)
    OBVIOUS
  <2> HIDE DEF Step
  <2> QED BY <2>1
<1>2. ASSUME NEW m \in Nat, m \in S PROVE m + 1 \in S
  <2> SUFFICES ASSUME m + 1 <= Len(t) PROVE \E f : Step(f, m + 1)
    <3> HIDE DEF Step
    <3> QED OBVIOUS
  <2>1. PICK g : Step(g, m)
    <3> HIDE DEF Step
    <3> QED BY <1>0, <1>2
  <2> DEFINE h == [k \in 1..(m + 1) |-> OrsAt(g, t[k])]
  <2>a. \A k \in 1..m : g[k] = OrsAt(g, t[k])
    <3> HIDE DEF h
    <3> QED BY <2>1
  <2>b. \A k \in 1..m : k \in 1..(m + 1)
    OBVIOUS
  <2>2. \A k \in 1..m : g[k] = OrsAt(g, t[k]) /\ h[k] = OrsAt(g, t[k])
    BY <2>a, <2>b
  <2>3. \A k \in 1..m : h[k] = g[k]
    <3> HIDE DEF h
    <3> QED BY <2>2
  <2>4. ASSUME NEW k \in 1..(m + 1) PROVE OrsAt(h, t[k]) = OrsAt(g, t[k])
    <3> HIDE DEF h
    <3>1. k \in DOMAIN t
      BY <1>0
    <3>2. \A j \in 1..(k - 1) : h[j] = g[j]
      BY <2>3
    <3>3. \/ IsExp(t[k])
          \/ t[k].name = "NOT" /\ h[t[k].left] = g[t[k].left]
          \/ t[k].name \in {"AND", "OR"} /\ h[t[k].left] = g[t[k].left]
                                         /\ h[t[k].right] = g[t[k].right]
      BY <3>1, <3>2, TreeNodes
    <3>4. \/ t[k].name = "exp"
          \/ t[k].name = "NOT" /\ h[t[k].left] = g[t[k].left]
          \/ t[k].name \in {"AND", "OR"} /\ h[t[k].left] = g[t[k].left]
                                         /\ h[t[k].right] = g[t[k].right]
      BY <3>3 DEF IsExp
    <3> QED BY <3>1, <3>4, Zenon DEF OrsAt, NoNot
  <2>5. \A k \in 1..(m + 1) : h[k] = OrsAt(h, t[k])
    BY <2>4
  <2>6. Step(h, m + 1)
    <3>1. h = [k \in 1..(m + 1) |-> h[k]]
      OBVIOUS
    <3> HIDE DEF h
    <3> QED BY <2>5, <3>1
  <2> HIDE DEF Step
  <2> QED BY <2>6
<1>3. Len(t) \in S
  <2> HIDE DEF S
  <2> QED BY <1>0, <1>1, <1>2, SetInduction
<1>4. \E f : Step(f, Len(t))
  <2> HIDE DEF Step
  <2> QED BY <1>0, <1>3
<1> QED BY <1>0, <1>4

(* The areas of each node.                                                 *)
LEMMA AreasExist ==
    ASSUME NEW t, IsTree(t), NoNot(t)
    PROVE  \E f : f = [k \in DOMAIN t |-> AreasAt(f, t[k])]
<1> DEFINE Step(f, m) == f = [k \in 1..m |-> AreasAt(f, t[k])]
           S == {m \in Nat : m <= Len(t) => \E f : Step(f, m)}
<1>0. Len(t) \in Nat /\ DOMAIN t = 1..Len(t)
  BY TreeNodes
<1>1. 0 \in S
  <2>1. Step(<<>>, 0)
    OBVIOUS
  <2> HIDE DEF Step
  <2> QED BY <2>1
<1>2. ASSUME NEW m \in Nat, m \in S PROVE m + 1 \in S
  <2> SUFFICES ASSUME m + 1 <= Len(t) PROVE \E f : Step(f, m + 1)
    <3> HIDE DEF Step
    <3> QED OBVIOUS
  <2>1. PICK g : Step(g, m)
    <3> HIDE DEF Step
    <3> QED BY <1>0, <1>2
  <2> DEFINE h == [k \in 1..(m + 1) |-> AreasAt(g, t[k])]
  <2>a. \A k \in 1..m : g[k] = AreasAt(g, t[k])
    <3> HIDE DEF h
    <3> QED BY <2>1
  <2>b. \A k \in 1..m : k \in 1..(m + 1)
    OBVIOUS
  <2>2. \A k \in 1..m : g[k] = AreasAt(g, t[k]) /\ h[k] = AreasAt(g, t[k])
    BY <2>a, <2>b
  <2>3. \A k \in 1..m : h[k] = g[k]
    <3> HIDE DEF h
    <3> QED BY <2>2
  <2>4. ASSUME NEW k \in 1..(m + 1) PROVE AreasAt(h, t[k]) = AreasAt(g, t[k])
    <3> HIDE DEF h
    <3>1. k \in DOMAIN t
      BY <1>0
    <3>2. \A j \in 1..(k - 1) : h[j] = g[j]
      BY <2>3
    <3>3. \/ IsExp(t[k])
          \/ t[k].name = "NOT" /\ h[t[k].left] = g[t[k].left]
          \/ t[k].name \in {"AND", "OR"} /\ h[t[k].left] = g[t[k].left]
                                         /\ h[t[k].right] = g[t[k].right]
      BY <3>1, <3>2, TreeNodes
    <3>4. \/ t[k].name = "exp"
          \/ t[k].name = "NOT" /\ h[t[k].left] = g[t[k].left]
          \/ t[k].name \in {"AND", "OR"} /\ h[t[k].left] = g[t[k].left]
                                         /\ h[t[k].right] = g[t[k].right]
      BY <3>3 DEF IsExp
    <3> QED BY <3>1, <3>4, Zenon DEF AreasAt, NoNot
  <2>5. \A k \in 1..(m + 1) : h[k] = AreasAt(h, t[k])
    BY <2>4
  <2>6. Step(h, m + 1)
    <3>1. h = [k \in 1..(m + 1) |-> h[k]]
      OBVIOUS
    <3> HIDE DEF h
    <3> QED BY <2>5, <3>1
  <2> HIDE DEF Step
  <2> QED BY <2>6
<1>3. Len(t) \in S
  <2> HIDE DEF S
  <2> QED BY <1>0, <1>1, <1>2, SetInduction
<1>4. \E f : Step(f, Len(t))
  <2> HIDE DEF Step
  <2> QED BY <1>0, <1>3
<1> QED BY <1>0, <1>4

(* The value of each node, unknown included.                               *)
LEMMA ValuesExist ==
    ASSUME NEW t, IsTree(t), NEW v
    PROVE  \E f : f = [k \in DOMAIN t |-> ValueAt(f, t[k], v)]
<1> DEFINE Step(f, m) == f = [k \in 1..m |-> ValueAt(f, t[k], v)]
           S == {m \in Nat : m <= Len(t) => \E f : Step(f, m)}
<1>0. Len(t) \in Nat /\ DOMAIN t = 1..Len(t)
  BY TreeNodes
<1>1. 0 \in S
  <2>1. Step(<<>>, 0)
    OBVIOUS
  <2> HIDE DEF Step
  <2> QED BY <2>1
<1>2. ASSUME NEW m \in Nat, m \in S PROVE m + 1 \in S
  <2> SUFFICES ASSUME m + 1 <= Len(t) PROVE \E f : Step(f, m + 1)
    <3> HIDE DEF Step
    <3> QED OBVIOUS
  <2>1. PICK g : Step(g, m)
    <3> HIDE DEF Step
    <3> QED BY <1>0, <1>2
  <2> DEFINE h == [k \in 1..(m + 1) |-> ValueAt(g, t[k], v)]
  <2>a. \A k \in 1..m : g[k] = ValueAt(g, t[k], v)
    <3> HIDE DEF h
    <3> QED BY <2>1
  <2>b. \A k \in 1..m : k \in 1..(m + 1)
    OBVIOUS
  <2>2. \A k \in 1..m : g[k] = ValueAt(g, t[k], v) /\ h[k] = ValueAt(g, t[k], v)
    BY <2>a, <2>b
  <2>3. \A k \in 1..m : h[k] = g[k]
    <3> HIDE DEF h
    <3> QED BY <2>2
  <2>4. ASSUME NEW k \in 1..(m + 1) PROVE ValueAt(h, t[k], v) = ValueAt(g, t[k], v)
    <3> HIDE DEF h
    <3>1. k \in DOMAIN t
      BY <1>0
    <3>2. \A j \in 1..(k - 1) : h[j] = g[j]
      BY <2>3
    <3>3. \/ IsExp(t[k])
          \/ t[k].name = "NOT" /\ h[t[k].left] = g[t[k].left]
          \/ t[k].name \in {"AND", "OR"} /\ h[t[k].left] = g[t[k].left]
                                         /\ h[t[k].right] = g[t[k].right]
      BY <3>1, <3>2, TreeNodes
    <3>4. \/ t[k].name = "exp"
          \/ t[k].name = "NOT" /\ h[t[k].left] = g[t[k].left]
          \/ t[k].name \in {"AND", "OR"} /\ h[t[k].left] = g[t[k].left]
                                         /\ h[t[k].right] = g[t[k].right]
      BY <3>3 DEF IsExp
    <3> QED BY <3>1, <3>4, Zenon DEF ValueAt
  <2>5. \A k \in 1..(m + 1) : h[k] = ValueAt(h, t[k], v)
    BY <2>4
  <2>6. Step(h, m + 1)
    <3>1. h = [k \in 1..(m + 1) |-> h[k]]
      OBVIOUS
    <3> HIDE DEF h
    <3> QED BY <2>5, <3>1
  <2> HIDE DEF Step
  <2> QED BY <2>6
<1>3. Len(t) \in S
  <2> HIDE DEF S
  <2> QED BY <1>0, <1>1, <1>2, SetInduction
<1>4. \E f : Step(f, Len(t))
  <2> HIDE DEF Step
  <2> QED BY <1>0, <1>3
<1> QED BY <1>0, <1>4

(* Whether each node holds when the comparisons of sat do.                 *)
LEMMA HoldingExist ==
    ASSUME NEW t, IsTree(t), NoNot(t), NEW sat
    PROVE  \E f : f = [k \in DOMAIN t |-> HoldsAt(f, t[k], sat)]
<1> DEFINE Step(f, m) == f = [k \in 1..m |-> HoldsAt(f, t[k], sat)]
           S == {m \in Nat : m <= Len(t) => \E f : Step(f, m)}
<1>0. Len(t) \in Nat /\ DOMAIN t = 1..Len(t)
  BY TreeNodes
<1>1. 0 \in S
  <2>1. Step(<<>>, 0)
    OBVIOUS
  <2> HIDE DEF Step
  <2> QED BY <2>1
<1>2. ASSUME NEW m \in Nat, m \in S PROVE m + 1 \in S
  <2> SUFFICES ASSUME m + 1 <= Len(t) PROVE \E f : Step(f, m + 1)
    <3> HIDE DEF Step
    <3> QED OBVIOUS
  <2>1. PICK g : Step(g, m)
    <3> HIDE DEF Step
    <3> QED BY <1>0, <1>2
  <2> DEFINE h == [k \in 1..(m + 1) |-> HoldsAt(g, t[k], sat)]
  <2>a. \A k \in 1..m : g[k] = HoldsAt(g, t[k], sat)
    <3> HIDE DEF h
    <3> QED BY <2>1
  <2>b. \A k \in 1..m : k \in 1..(m + 1)
    OBVIOUS
  <2>2. \A k \in 1..m : g[k] = HoldsAt(g, t[k], sat) /\ h[k] = HoldsAt(g, t[k], sat)
    BY <2>a, <2>b
  <2>3. \A k \in 1..m : h[k] = g[k]
    <3> HIDE DEF h
    <3> QED BY <2>2
  <2>4. ASSUME NEW k \in 1..(m + 1) PROVE HoldsAt(h, t[k], sat) = HoldsAt(g, t[k], sat)
    <3> HIDE DEF h
    <3>1. k \in DOMAIN t
      BY <1>0
    <3>2. \A j \in 1..(k - 1) : h[j] = g[j]
      BY <2>3
    <3>3. \/ IsExp(t[k])
          \/ t[k].name = "NOT" /\ h[t[k].left] = g[t[k].left]
          \/ t[k].name \in {"AND", "OR"} /\ h[t[k].left] = g[t[k].left]
                                         /\ h[t[k].right] = g[t[k].right]
      BY <3>1, <3>2, TreeNodes
    <3>4. \/ t[k].name = "exp"
          \/ t[k].name = "NOT" /\ h[t[k].left] = g[t[k].left]
          \/ t[k].name \in {"AND", "OR"} /\ h[t[k].left] = g[t[k].left]
                                         /\ h[t[k].right] = g[t[k].right]
      BY <3>3 DEF IsExp
    <3> QED BY <3>1, <3>4, Zenon DEF HoldsAt, NoNot
  <2>5. \A k \in 1..(m + 1) : h[k] = HoldsAt(h, t[k], sat)
    BY <2>4
  <2>6. Step(h, m + 1)
    <3>1. h = [k \in 1..(m + 1) |-> h[k]]
      OBVIOUS
    <3> HIDE DEF h
    <3> QED BY <2>5, <3>1
  <2> HIDE DEF Step
  <2> QED BY <2>6
<1>3. Len(t) \in S
  <2> HIDE DEF S
  <2> QED BY <1>0, <1>1, <1>2, SetInduction
<1>4. \E f : Step(f, Len(t))
  <2> HIDE DEF Step
  <2> QED BY <1>0, <1>3
<1> QED BY <1>0, <1>4

(* What the recursive functions are.                                       *)
Gather(f, t)         == \A k \in DOMAIN t : f[k] = GatherAt(f, t[k])
CountsOrs(f, t)      == \A k \in DOMAIN t : f[k] = OrsAt(f, t[k])
Collects(f, t)       == \A k \in DOMAIN t : f[k] = AreasAt(f, t[k])
Evaluates(f, t, v)   == \A k \in DOMAIN t : f[k] = ValueAt(f, t[k], v)
Satisfies(f, t, sat) == \A k \in DOMAIN t : f[k] = HoldsAt(f, t[k], sat)

(* So each of these functions is what its definition says.                 *)
LEMMA LeavesGathered ==
    ASSUME NEW t, IsTree(t)
    PROVE  Gather(LeavesOf(t), t)
<1> DEFINE c == CHOOSE f : f = [k \in DOMAIN t |-> GatherAt(f, t[k])]
<1>1. LeavesOf(t) = c
  BY DEF LeavesOf, GatherAt
<1>2. c = [k \in DOMAIN t |-> GatherAt(c, t[k])]
  BY GatheringExists
<1> HIDE DEF c
<1>3. \A k \in DOMAIN t : c[k] = GatherAt(c, t[k])
  BY <1>2
<1> QED BY <1>1, <1>3 DEF Gather

(* The number of ORs is the last node's.                                   *)
LEMMA OrNodesCounted ==
    ASSUME NEW t, IsTree(t), NoNot(t), t # NoCondition
    PROVE  \E f : OrNodes(t) = f[Len(t)] /\ CountsOrs(f, t)
<1> DEFINE c == CHOOSE f : f = [k \in DOMAIN t |-> OrsAt(f, t[k])]
<1>1. OrNodes(t) = c[Len(t)]
  BY Zenon DEF OrNodes, OrsAt
<1>2. c = [k \in DOMAIN t |-> OrsAt(c, t[k])]
  BY OrsExist
<1> HIDE DEF c
<1>3. \A k \in DOMAIN t : c[k] = OrsAt(c, t[k])
  BY <1>2
<1> QED BY <1>1, <1>3 DEF CountsOrs

(* The areas are the last node's.                                          *)
LEMMA AreasCollected ==
    ASSUME NEW t, IsTree(t), NoNot(t), t # NoCondition
    PROVE  \E f : Areas(t) = f[Len(t)] /\ Collects(f, t)
<1> DEFINE G(f) == [k \in DOMAIN t |->
             IF t[k].name = "exp" THEN <<<<t[k]>>>>
             ELSE Front(f[t[k].left]) \o Front(f[t[k].right])
                  \o (IF t[k].name = "AND" THEN AtAnd(Last(f[t[k].left]), Last(f[t[k].right]))
                                           ELSE AtOr(Last(f[t[k].left]), Last(f[t[k].right])))]
           c == CHOOSE f : f = G(f)
           H(f) == [k \in DOMAIN t |-> AreasAt(f, t[k])]
<1>1. Areas(t) = c[Len(t)]
  BY Zenon DEF Areas
<1>2. ASSUME NEW f PROVE G(f) = H(f)
  BY DEF AreasAt, ByAnd, ByOr
<1>3. \E f : f = H(f)
  BY AreasExist
<1>4. c = H(c)
  <2> HIDE DEF G, H
  <2> QED BY <1>2, <1>3
<1> HIDE DEF c
<1>5. \A k \in DOMAIN t : c[k] = AreasAt(c, t[k])
  BY <1>4
<1> QED BY <1>1, <1>5 DEF Collects

(* The value is the last node's.                                           *)
LEMMA ValueEvaluated ==
    ASSUME NEW t, IsTree(t), NEW v
    PROVE  \E f : Value(t, v) = f[Len(t)] /\ Evaluates(f, t, v)
<1> DEFINE c == CHOOSE f : f = [k \in DOMAIN t |-> ValueAt(f, t[k], v)]
<1>1. Value(t, v) = c[Len(t)]
  BY Zenon DEF Value, ValueAt
<1>2. c = [k \in DOMAIN t |-> ValueAt(c, t[k], v)]
  BY ValuesExist
<1> HIDE DEF c
<1>3. \A k \in DOMAIN t : c[k] = ValueAt(c, t[k], v)
  BY <1>2
<1> QED BY <1>1, <1>3 DEF Evaluates

(* And the last node tells whether the tree holds.                         *)
LEMMA HoldsSatisfied ==
    ASSUME NEW t, IsTree(t), NoNot(t), NEW sat
    PROVE  \E f : (Holds(t, sat) <=> f[Len(t)]) /\ Satisfies(f, t, sat)
<1> DEFINE c == CHOOSE f : f = [k \in DOMAIN t |-> HoldsAt(f, t[k], sat)]
<1>1. Holds(t, sat) = c[Len(t)]
  BY Zenon DEF Holds, HoldsAt
<1>2. c = [k \in DOMAIN t |-> HoldsAt(c, t[k], sat)]
  BY HoldingExist
<1> HIDE DEF c
<1>3. \A k \in DOMAIN t : c[k] = HoldsAt(c, t[k], sat)
  BY <1>2
<1> QED BY <1>1, <1>3 DEF Satisfies

-----------------------------------------------------------------------------
(* An even number and the odd one before it are made from one node.        *)
LEMMA Halved ==
    ASSUME NEW n \in Nat, NEW j \in 1..(2 * n), NEW k, k = (j + 1) \div 2
    PROVE  k \in 1..n /\ (j = 2 * k \/ j = 2 * k - 1)
  OBVIOUS

(* What is made at place j of t, as DeMorgan makes it.                     *)
MakeAt(f, t, j) ==
    LET k == (j + 1) \div 2
        negated == j # 2 * k
        of(m) == IF negated THEN 2 * m - 1 ELSE 2 * m
    IN CASE t[k].name = "exp" -> IF negated THEN Negated(t[k]) ELSE t[k]
         [] t[k].name = "NOT" -> f[IF negated THEN 2 * t[k].left
                                              ELSE 2 * t[k].left - 1]
         [] OTHER -> [name  |-> IF negated THEN Dual(t[k].name) ELSE t[k].name,
                      left  |-> of(t[k].left),
                      right |-> of(t[k].right)]

(* De Morgan's tree has for each node it and its negation.                 *)
LEMMA MakingExists ==
    ASSUME NEW t, IsTree(t)
    PROVE  \E f : f = [j \in 1..(2 * Len(t)) |-> MakeAt(f, t, j)]
<1> DEFINE Step(f, m) == f = [j \in 1..m |-> MakeAt(f, t, j)]
           S == {m \in Nat : m <= 2 * Len(t) => \E f : Step(f, m)}
<1>0. Len(t) \in Nat /\ DOMAIN t = 1..Len(t)
  BY TreeNodes
<1>1. 0 \in S
  <2>1. Step(<<>>, 0)
    OBVIOUS
  <2> HIDE DEF Step
  <2> QED BY <2>1
<1>2. ASSUME NEW m \in Nat, m \in S PROVE m + 1 \in S
  <2> SUFFICES ASSUME m + 1 <= 2 * Len(t) PROVE \E f : Step(f, m + 1)
    <3> HIDE DEF Step
    <3> QED OBVIOUS
  <2>1. PICK g : Step(g, m)
    <3> HIDE DEF Step
    <3> QED BY <1>0, <1>2
  <2> DEFINE h == [j \in 1..(m + 1) |-> MakeAt(g, t, j)]
  <2>a. \A j \in 1..m : g[j] = MakeAt(g, t, j)
    <3> HIDE DEF h
    <3> QED BY <2>1
  <2>b. \A j \in 1..m : j \in 1..(m + 1)
    OBVIOUS
  <2>2. \A j \in 1..m : g[j] = MakeAt(g, t, j) /\ h[j] = MakeAt(g, t, j)
    BY <2>a, <2>b
  <2>3. \A j \in 1..m : h[j] = g[j]
    <3> HIDE DEF h
    <3> QED BY <2>2
  <2>4. ASSUME NEW j \in 1..(m + 1) PROVE MakeAt(h, t, j) = MakeAt(g, t, j)
    <3> HIDE DEF h
    <3> DEFINE k == (j + 1) \div 2
    <3>0. j \in 1..(2 * Len(t))
      BY <1>0
    <3>1. k \in 1..Len(t) /\ (j = 2 * k \/ j = 2 * k - 1)
      BY <1>0, <3>0, Halved
    <3>2. CASE t[k].name = "NOT"
      <4>1. t[k].left \in 1..(k - 1)
        <5> HIDE DEF k
        <5>1. ~ IsExp(t[k]) /\ t[k].name \notin {"AND", "OR"}
          BY <3>2 DEF IsExp
        <5> QED BY <1>0, <3>1, <5>1, TreeNodes
      <4>2. 2 * t[k].left \in 1..m /\ 2 * t[k].left - 1 \in 1..m
        <5> DEFINE l == t[k].left
        <5>1. l \in 1..(k - 1)
          BY <4>1
        <5> HIDE DEF k, l
        <5>2. 2 * l \in 1..m /\ 2 * l - 1 \in 1..m
          BY <1>0, <3>1, <5>1
        <5> QED BY <5>2 DEF l
      <4>3. h[2 * t[k].left] = g[2 * t[k].left] /\ h[2 * t[k].left - 1] = g[2 * t[k].left - 1]
        <5> HIDE DEF k
        <5> QED BY <2>3, <4>2
      <4> QED BY <3>2, <4>3, Zenon DEF MakeAt
    <3>3. CASE t[k].name # "NOT"
      BY <3>3, Zenon DEF MakeAt
    <3> QED BY <3>2, <3>3
  <2>5. \A j \in 1..(m + 1) : h[j] = MakeAt(h, t, j)
    BY <2>4
  <2>6. Step(h, m + 1)
    <3>1. h = [j \in 1..(m + 1) |-> h[j]]
      OBVIOUS
    <3> HIDE DEF h
    <3> QED BY <2>5, <3>1
  <2> HIDE DEF Step
  <2> QED BY <2>6
<1>3. 2 * Len(t) \in S
  <2>1. 2 * Len(t) \in Nat
    BY <1>0
  <2> HIDE DEF S
  <2> QED BY <1>1, <1>2, <2>1, SetInduction
<1>4. \E f : Step(f, 2 * Len(t))
  <2> HIDE DEF Step
  <2> QED BY <1>0, <1>3
<1> QED BY <1>4

(* So DeMorgan is what its definition says.                                *)
LEMMA DeMorganMakes ==
    ASSUME NEW t, IsTree(t)
    PROVE  DeMorgan(t) = [j \in 1..(2 * Len(t)) |-> MakeAt(DeMorgan(t), t, j)]
  BY MakingExists DEF DeMorgan, MakeAt

(* Node by node: NOT swaps the two, a comparison is reversed, AND and OR   *)
(* are exchanged.                                                          *)
LEMMA NodesMade ==
    ASSUME NEW t, IsTree(t), NEW d, d = DeMorgan(t)
    PROVE  /\ Len(t) \in Nat /\ DOMAIN d = 1..(2 * Len(t))
           /\ \A k \in 1..Len(t) :
                 t[k].name = "exp" => d[2 * k] = t[k] /\ d[2 * k - 1] = Negated(t[k])
           /\ \A k \in 1..Len(t) :
                 t[k].name = "NOT" => /\ d[2 * k] = d[2 * t[k].left - 1]
                                      /\ d[2 * k - 1] = d[2 * t[k].left]
           /\ \A k \in 1..Len(t) :
                 t[k].name \in {"AND", "OR"} =>
                       /\ d[2 * k] = [name |-> t[k].name, left |-> 2 * t[k].left,
                                      right |-> 2 * t[k].right]
                       /\ d[2 * k - 1] = [name |-> Dual(t[k].name), left |-> 2 * t[k].left - 1,
                                          right |-> 2 * t[k].right - 1]
<1>0. Len(t) \in Nat
  BY TreeNodes
<1>2. d = [j \in 1..(2 * Len(t)) |-> MakeAt(d, t, j)]
  BY DeMorganMakes, Zenon
<1>3. DOMAIN d = 1..(2 * Len(t)) /\ \A j \in 1..(2 * Len(t)) : d[j] = MakeAt(d, t, j)
  BY <1>2
<1>4. ASSUME NEW k \in 1..Len(t)
      PROVE  /\ t[k].name = "exp" => d[2 * k] = t[k] /\ d[2 * k - 1] = Negated(t[k])
             /\ t[k].name = "NOT" => /\ d[2 * k] = d[2 * t[k].left - 1]
                                     /\ d[2 * k - 1] = d[2 * t[k].left]
             /\ t[k].name \in {"AND", "OR"} =>
                       /\ d[2 * k] = [name |-> t[k].name, left |-> 2 * t[k].left,
                                      right |-> 2 * t[k].right]
                       /\ d[2 * k - 1] = [name |-> Dual(t[k].name), left |-> 2 * t[k].left - 1,
                                          right |-> 2 * t[k].right - 1]
  <2>1. 2 * k \in 1..(2 * Len(t)) /\ 2 * k - 1 \in 1..(2 * Len(t))
    BY <1>0
  <2>2. (2 * k + 1) \div 2 = k /\ ((2 * k - 1) + 1) \div 2 = k /\ 2 * k - 1 # 2 * k
    BY <1>0
  <2>3. d[2 * k] = CASE t[k].name = "exp" -> t[k]
                     [] t[k].name = "NOT" -> d[2 * t[k].left - 1]
                     [] OTHER -> [name |-> t[k].name, left |-> 2 * t[k].left,
                                  right |-> 2 * t[k].right]
    <3>1. d[2 * k] = MakeAt(d, t, 2 * k)
      BY <1>3, <2>1
    <3> QED BY <2>2, <3>1 DEF MakeAt
  <2>4. d[2 * k - 1] = CASE t[k].name = "exp" -> Negated(t[k])
                         [] t[k].name = "NOT" -> d[2 * t[k].left]
                         [] OTHER -> [name |-> Dual(t[k].name), left |-> 2 * t[k].left - 1,
                                      right |-> 2 * t[k].right - 1]
    <3>1. d[2 * k - 1] = MakeAt(d, t, 2 * k - 1)
      BY <1>3, <2>1
    <3> QED BY <2>2, <3>1 DEF MakeAt
  <2> QED BY <2>3, <2>4
<1> QED BY <1>0, <1>3, <1>4

ExpOf(t, n) == \E k \in DOMAIN t : /\ t[k].name = "exp" /\ t[k].id = n.id
                                   /\ t[k].variables = n.variables

(* A node at place j of what is made of t.                                 *)
IsMade(t, n, j) ==
    \/ IsExp(n) /\ ExpOf(t, n)
    \/ n.name \in {"AND", "OR"} /\ n.left \in 1..(j - 1) /\ n.right \in 1..(j - 1)

(* Reversing a comparison leaves its tables, columns and id.               *)
LEMMA NegatedIs ==
    ASSUME NEW t, NEW n, IsExp(n), ExpOf(t, n)
    PROVE  IsExp(Negated(n)) /\ ExpOf(t, Negated(n))
<1>1. /\ Negated(n).name = n.name /\ Negated(n).id = n.id /\ Negated(n).variables = n.variables
      /\ Negated(n).equal \in {0, 1, 2}
  BY DEF IsExp, Negated
<1> QED BY <1>1 DEF IsExp, ExpOf

(* De Morgan makes a tree without NOT of the same comparisons.             *)
LEMMA TreeMade ==
    ASSUME NEW t, IsTree(t), NEW d, d = DeMorgan(t)
    PROVE  /\ IsTree(d) /\ NoNot(d)
           /\ t # NoCondition => Len(d) = 2 * Len(t) /\ d # NoCondition
           /\ t = NoCondition => d = NoCondition
           /\ \A j \in DOMAIN d : d[j].name = "exp" => ExpOf(t, d[j])
<1>0. Len(t) \in Nat /\ DOMAIN t = 1..Len(t) /\ DOMAIN d = 1..(2 * Len(t))
  BY TreeNodes, NodesMade
<1> DEFINE S == {k \in 1..Len(t) : IsMade(t, d[2 * k], 2 * k) /\ IsMade(t, d[2 * k - 1], 2 * k - 1)}
<1>1. ASSUME NEW k \in 1..Len(t), \A j \in 1..(k - 1) : j \in S PROVE k \in S
  <2>1. CASE IsExp(t[k])
    <3>1. ExpOf(t, t[k]) /\ t[k].name = "exp"
      BY <1>0, <2>1 DEF ExpOf, IsExp
    <3>2. d[2 * k] = t[k] /\ d[2 * k - 1] = Negated(t[k])
      BY <3>1, NodesMade
    <3>3. IsExp(Negated(t[k])) /\ ExpOf(t, Negated(t[k]))
      BY <2>1, <3>1, NegatedIs
    <3> QED BY <2>1, <3>1, <3>2, <3>3 DEF IsMade
  <2>2. CASE t[k].name = "NOT" /\ t[k].left \in 1..(k - 1)
    <3> DEFINE l == t[k].left
    <3>1. d[2 * k] = d[2 * l - 1] /\ d[2 * k - 1] = d[2 * l]
      BY <2>2, NodesMade
    <3>2. l \in S /\ l \in 1..(k - 1)
      BY <1>1, <2>2
    <3> HIDE DEF l
    <3>3. IsMade(t, d[2 * l], 2 * l) /\ IsMade(t, d[2 * l - 1], 2 * l - 1)
      BY <3>2
    <3>4. 2 * l <= 2 * k - 2 /\ 2 * l \in Nat
      BY <3>2
    <3>5. IsMade(t, d[2 * l - 1], 2 * k) /\ IsMade(t, d[2 * l], 2 * k - 1)
      BY <3>3, <3>4 DEF IsMade
    <3> QED BY <3>1, <3>5
  <2>3. CASE /\ t[k].name \in {"AND", "OR"}
             /\ t[k].left \in 1..(k - 1) /\ t[k].right \in 1..(k - 1)
    <3> DEFINE l == t[k].left
               r == t[k].right
    <3>1. /\ d[2 * k] = [name |-> t[k].name, left |-> 2 * l, right |-> 2 * r]
          /\ d[2 * k - 1] = [name |-> Dual(t[k].name), left |-> 2 * l - 1, right |-> 2 * r - 1]
      BY <2>3, NodesMade
    <3>2. l \in 1..(k - 1) /\ r \in 1..(k - 1)
      BY <2>3
    <3> HIDE DEF l, r
    <3>3. /\ 2 * l \in 1..(2 * k - 1) /\ 2 * r \in 1..(2 * k - 1)
          /\ 2 * l - 1 \in 1..(2 * k - 1 - 1) /\ 2 * r - 1 \in 1..(2 * k - 1 - 1)
      BY <3>2
    <3>4. Dual(t[k].name) \in {"AND", "OR"}
      BY <2>3 DEF Dual
    <3>5. IsMade(t, d[2 * k], 2 * k)
      BY <2>3, <3>1, <3>3 DEF IsMade
    <3>6. IsMade(t, d[2 * k - 1], 2 * k - 1)
      BY <3>1, <3>3, <3>4 DEF IsMade
    <3> QED BY <3>5, <3>6
  <2> HIDE DEF S
  <2> QED BY <1>0, <2>1, <2>2, <2>3, TreeNodes
<1>2. \A k \in 1..Len(t) : k \in S
  <2> HIDE DEF S
  <2> QED BY <1>0, <1>1, FromTheFirst
<1>3. ASSUME NEW j \in DOMAIN d PROVE IsMade(t, d[j], j)
  <2> DEFINE k == (j + 1) \div 2
  <2>0. j \in 1..(2 * Len(t))
    BY <1>0
  <2>1. k \in 1..Len(t) /\ (j = 2 * k \/ j = 2 * k - 1)
    <3>1. Len(t) \in Nat
      BY <1>0
    <3> DEFINE n == Len(t)
    <3> HIDE DEF n
    <3>2. n \in Nat /\ j \in 1..(2 * n)
      BY <3>1, <2>0 DEF n
    <3>3. k \in 1..n /\ (j = 2 * k \/ j = 2 * k - 1)
      BY <3>2, Halved
    <3> QED BY <3>3 DEF n
  <2> HIDE DEF k
  <2> QED BY <1>2, <2>1
<1>4. IsList(d)
  <2>1. 2 * Len(t) \in Nat
    BY <1>0
  <2>2. d = [j \in 1..(2 * Len(t)) |-> d[j]]
    <3>1. d = [j \in 1..(2 * Len(t)) |-> MakeAt(d, t, j)]
      BY DeMorganMakes, Zenon
    <3> QED BY <3>1
  <2> DEFINE n == 2 * Len(t)
             X == {d[i] : i \in DOMAIN d}
  <2>3. d \in [1..n -> X]
    BY <1>0, <2>2
  <2> HIDE DEF n, X
  <2>4. n \in Nat => d \in Seq(X)
    BY <2>3
  <2> QED BY <2>1, <2>4 DEF IsList, n, X
<1>5. Len(d) = 2 * Len(t)
  BY <1>0, <1>4 DEF IsList
<1>6. NoNot(d) /\ \A j \in DOMAIN d : d[j].name = "exp" => ExpOf(t, d[j])
  BY <1>3 DEF NoNot, IsMade, IsExp
<1>7. IsTree(d)
  BY <1>3, <1>4 DEF IsTree, IsMade
<1>8. (t # NoCondition => d # NoCondition) /\ (t = NoCondition => d = NoCondition)
  <2>1. t # NoCondition => Len(t) > 0
    BY TreeNodes
  <2>2. t = NoCondition => Len(t) = 0
    BY DEF NoCondition
  <2>3. Len(<<>>) = 0
    OBVIOUS
  <2>4. Len(d) = 0 => d = <<>>
    BY <1>4 DEF IsList
  <2> QED BY <1>0, <1>5, <2>1, <2>2, <2>3, <2>4 DEF NoCondition
<1> QED BY <1>5, <1>6, <1>7, <1>8

-----------------------------------------------------------------------------
(* A sequence of elements of X has a length, and elements of X.            *)
LEMMA SeqFacts ==
    ASSUME NEW X, NEW s \in Seq(X)
    PROVE  Len(s) \in Nat /\ DOMAIN s = 1..Len(s) /\ \A i \in 1..Len(s) : s[i] \in X
  OBVIOUS

(* A list is a sequence of its own elements.                               *)
LEMMA ListFacts ==
    ASSUME NEW s, IsList(s)
    PROVE  /\ Len(s) \in Nat /\ DOMAIN s = 1..Len(s) /\ s \in Seq(ToSet(s))
           /\ ToSet(s) = {s[k] : k \in 1..Len(s)}
           /\ s # <<>> => Len(s) > 0 /\ Head(s) = s[1] /\ s[1] \in ToSet(s)
  BY DEF IsList, ToSet

(* A sequence of elements of X is a list.                                  *)
LEMMA SeqIsList ==
    ASSUME NEW X, NEW s \in Seq(X)
    PROVE  IsList(s) /\ ToSet(s) \subseteq X
<1>1. Len(s) \in Nat /\ s = [k \in 1..Len(s) |-> s[k]] /\ DOMAIN s = 1..Len(s)
  OBVIOUS
<1>2. s \in Seq({s[k] : k \in DOMAIN s})
  BY <1>1
<1> QED BY <1>2 DEF IsList, ToSet

(* A sequence of one element has that one.                                 *)
LEMMA SetOfOne == ASSUME NEW x PROVE ToSet(<<x>>) = {x}
<1>1. ToSet(<<x>>) = {<<x>>[j] : j \in {1}}
  BY DEF ToSet
<1> QED BY <1>1

(* The empty sequence has none.                                            *)
LEMMA SetOfNone == ToSet(<<>>) = {}
  BY DEF ToSet

(* Two sequences one after the other have the elements of both.            *)
LEMMA BothSets ==
    ASSUME NEW E, NEW a \in Seq(E), NEW b \in Seq(E)
    PROVE  ToSet(a \o b) = ToSet(a) \cup ToSet(b)
<1>1. /\ DOMAIN a = 1..Len(a) /\ DOMAIN b = 1..Len(b) /\ DOMAIN (a \o b) = 1..(Len(a) + Len(b))
      /\ Len(a) \in Nat /\ Len(b) \in Nat
  OBVIOUS
<1>2. \A i \in 1..Len(a) : (a \o b)[i] = a[i] /\ i \in 1..(Len(a) + Len(b))
  BY <1>1
<1>3. \A i \in 1..Len(b) : (a \o b)[Len(a) + i] = b[i] /\ Len(a) + i \in 1..(Len(a) + Len(b))
  <2>1. ASSUME NEW i \in 1..Len(b) PROVE (a \o b)[Len(a) + i] = b[i] /\ Len(a) + i \in 1..(Len(a) + Len(b))
    <3>1. Len(a) + i \in 1..(Len(a) + Len(b)) /\ Len(a) + i > Len(a) /\ (Len(a) + i) - Len(a) = i
      BY <1>1
    <3> QED BY <3>1
  <2> QED BY <2>1
<1>4. \A i \in 1..(Len(a) + Len(b)) :
         i \notin 1..Len(a) => i - Len(a) \in 1..Len(b) /\ (a \o b)[i] = b[i - Len(a)]
  <2> SUFFICES ASSUME NEW i \in 1..(Len(a) + Len(b)), i \notin 1..Len(a)
               PROVE  i - Len(a) \in 1..Len(b) /\ (a \o b)[i] = b[i - Len(a)]
    OBVIOUS
  <2>1. i - Len(a) \in 1..Len(b) /\ i > Len(a)
    BY <1>1
  <2> QED BY <2>1
<1>5. ToSet(a) \cup ToSet(b) \subseteq ToSet(a \o b)
  BY <1>1, <1>2, <1>3 DEF ToSet
<1>6. ToSet(a \o b) \subseteq ToSet(a) \cup ToSet(b)
  BY <1>1, <1>2, <1>4 DEF ToSet
<1> QED BY <1>5, <1>6

(* A sequence is all but its last element, and that.                       *)
LEMMA FrontAndLast ==
    ASSUME NEW E, NEW s \in Seq(E), s # <<>>
    PROVE  /\ Front(s) \in Seq(E) /\ Last(s) \in E
           /\ ToSet(s) = ToSet(Front(s)) \cup {Last(s)}
           /\ Len(Front(s)) = Len(s) - 1
<1> DEFINE n == Len(s)
<1>1. n \in Nat /\ n > 0 /\ DOMAIN s = 1..n /\ \A i \in 1..n : s[i] \in E
  OBVIOUS
<1>2. Front(s) = [i \in 1..(n - 1) |-> s[i]]
  BY <1>1 DEF Front
<1>3. Front(s) \in Seq(E) /\ Len(Front(s)) = n - 1 /\ DOMAIN Front(s) = 1..(n - 1)
  BY <1>1, <1>2
<1>4. Last(s) = s[n]
  BY DEF Last
<1>5. 1..n = 1..(n - 1) \cup {n}
  BY <1>1
<1>6. ToSet(s) = {s[i] : i \in 1..(n - 1)} \cup {s[n]}
  BY <1>1, <1>5 DEF ToSet
<1>7. ToSet(Front(s)) = {s[i] : i \in 1..(n - 1)}
  BY <1>2, <1>3 DEF ToSet
<1> QED BY <1>1, <1>3, <1>4, <1>6, <1>7

(* The less and the greater of two numbers.                                *)
LEMMA MinMaxOfTwo ==
    ASSUME NEW a \in Int, NEW b \in Int
    PROVE  /\ Min({a, b}) = IF a <= b THEN a ELSE b
           /\ Max({a, b}) = IF a <= b THEN b ELSE a
  BY DEF Min, Max

ExpsOf(t) == {t[j] : j \in {i \in DOMAIN t : t[i].name = "exp"}}

(* The comparisons under a node, as a set.                                 *)
LeavesAt(L, n) == CASE n.name = "exp" -> {n}
                    [] n.name = "NOT" -> ToSet(L[n.left])
                    [] OTHER          -> ToSet(L[n.left]) \cup ToSet(L[n.right])

(* The comparisons below a node: its own, or its children's.               *)
LEMMA LeavesAreNodes ==
    ASSUME NEW t, IsTree(t), NEW L, Gather(L, t)
    PROVE  \A k \in DOMAIN t :
              /\ L[k] \in Seq(ExpsOf(t))
              /\ L[k] # <<>>
              /\ ToSet(L[k]) = LeavesAt(L, t[k])
<1> DEFINE E == ExpsOf(t)
           S == {k \in 1..Len(t) : L[k] \in Seq(E) /\ L[k] # <<>> /\ ToSet(L[k]) = LeavesAt(L, t[k])}
<1>0. Len(t) \in Nat /\ DOMAIN t = 1..Len(t)
  BY TreeNodes
<1>1. ASSUME NEW k \in 1..Len(t), \A j \in 1..(k - 1) : j \in S PROVE k \in S
  <2>0. k \in DOMAIN t /\ L[k] = GatherAt(L, t[k])
    BY <1>0 DEF Gather
  <2>1. CASE IsExp(t[k])
    <3>1. t[k].name = "exp" /\ t[k] \in E
      BY <1>0, <2>1 DEF IsExp, ExpsOf
    <3>2. L[k] = <<t[k]>> /\ LeavesAt(L, t[k]) = {t[k]}
      BY <2>0, <3>1 DEF GatherAt, LeavesAt
    <3> HIDE DEF E
    <3> DEFINE x == t[k]
    <3>3. x \in E /\ L[k] = <<x>> /\ LeavesAt(L, x) = {x}
      BY <3>1, <3>2
    <3> HIDE DEF x
    <3>4. <<x>> \in Seq(E) /\ <<x>> # <<>> /\ ToSet(<<x>>) = {x}
      BY <3>3, SetOfOne
    <3>5. L[k] \in Seq(E) /\ L[k] # <<>> /\ ToSet(L[k]) = LeavesAt(L, x)
      BY <3>3, <3>4, Zenon
    <3> QED BY <3>5 DEF E, x
  <2>2. CASE t[k].name = "NOT" /\ t[k].left \in 1..(k - 1)
    <3>1. L[k] = L[t[k].left] /\ LeavesAt(L, t[k]) = ToSet(L[t[k].left])
      BY <2>0, <2>2 DEF GatherAt, LeavesAt
    <3> HIDE DEF E
    <3> QED BY <1>1, <2>2, <3>1
  <2>3. CASE /\ t[k].name \in {"AND", "OR"}
             /\ t[k].left \in 1..(k - 1) /\ t[k].right \in 1..(k - 1)
    <3> DEFINE a == L[t[k].left]
               b == L[t[k].right]
    <3>1. L[k] = a \o b /\ LeavesAt(L, t[k]) = ToSet(a) \cup ToSet(b)
      BY <2>0, <2>3 DEF GatherAt, LeavesAt
    <3> HIDE DEF E
    <3>2. a \in Seq(E) /\ a # <<>> /\ b \in Seq(E)
      BY <1>1, <2>3
    <3> HIDE DEF a, b
    <3>3. a \o b \in Seq(E) /\ a \o b # <<>>
      BY <3>2
    <3>4. ToSet(a \o b) = ToSet(a) \cup ToSet(b)
      BY <3>2, BothSets
    <3> QED BY <3>1, <3>3, <3>4
  <2> HIDE DEF S
  <2> QED BY <1>0, <2>0, <2>1, <2>2, <2>3, TreeNodes
<1>2. \A k \in 1..Len(t) : k \in S
  <2> HIDE DEF S
  <2> QED BY <1>0, <1>1, FromTheFirst
<1> QED BY <1>0, <1>2

IdsIn(s) == {e.id : e \in ToSet(s)}

(* De Morgan.                                                              *)
LEMMA MadeEvaluates ==
    ASSUME NEW t, IsTree(t), NEW d, d = DeMorgan(t),
           NEW L, Gather(L, t),
           NEW I, NEW v \in [I -> {0, 2}],
           NEW Ft, Evaluates(Ft, t, v),
           NEW Fd, Evaluates(Fd, d, v)
    PROVE  \A k \in 1..Len(t) :
              IdsIn(L[k]) \subseteq I =>
                 Ft[k] \in {0, 1, 2} /\ Fd[2 * k] = Ft[k] /\ Fd[2 * k - 1] = 2 - Ft[k]
<1> DEFINE Under(k) == IdsIn(L[k]) \subseteq I
           Good(k) == Ft[k] \in {0, 1, 2} /\ Fd[2 * k] = Ft[k] /\ Fd[2 * k - 1] = 2 - Ft[k]
           S == {k \in 1..Len(t) : Under(k) => Good(k)}
<1>0. Len(t) \in Nat /\ DOMAIN t = 1..Len(t) /\ DOMAIN d = 1..(2 * Len(t))
  BY TreeNodes, NodesMade
<1>l. \A k \in DOMAIN t : ToSet(L[k]) = LeavesAt(L, t[k])
  BY LeavesAreNodes
<1>1. ASSUME NEW k \in 1..Len(t), \A j \in 1..(k - 1) : j \in S PROVE k \in S
  <2> SUFFICES ASSUME Under(k) PROVE Good(k)
    OBVIOUS
  <2>0. k \in DOMAIN t /\ 2 * k \in DOMAIN d /\ 2 * k - 1 \in DOMAIN d
    BY <1>0
  <2>a. /\ Ft[k] = ValueAt(Ft, t[k], v) /\ Fd[2 * k] = ValueAt(Fd, d[2 * k], v)
        /\ Fd[2 * k - 1] = ValueAt(Fd, d[2 * k - 1], v)
    BY <2>0 DEF Evaluates
  <2>1. CASE IsExp(t[k])
    <3>0. t[k].name = "exp" /\ t[k].equal \in {0, 1, 2}
      BY <2>1 DEF IsExp
    <3>1. d[2 * k] = t[k] /\ d[2 * k - 1] = Negated(t[k])
      BY <3>0, NodesMade
    <3>2. v[t[k].id] \in {0, 2}
      <4>1. ToSet(L[k]) = {t[k]}
        BY <1>l, <2>0, <3>0 DEF LeavesAt
      <4>2. t[k].id \in I
        BY <4>1 DEF IdsIn
      <4> QED BY <4>2
    <3> DEFINE m == Negated(t[k])
    <3>3. /\ m.name = "exp" /\ m.id = t[k].id
          /\ m.equal = IF t[k].equal # 0 THEN 3 - t[k].equal ELSE t[k].equal
      BY <3>0 DEF Negated
    <3> HIDE DEF m
    <3>4. ValueAt(Fd, m, v) = 2 - ValueAt(Ft, t[k], v) /\ ValueAt(Ft, t[k], v) \in {0, 1, 2}
      BY <3>0, <3>2, <3>3 DEF ValueAt
    <3>5. ValueAt(Fd, t[k], v) = ValueAt(Ft, t[k], v)
      BY <3>0 DEF ValueAt
    <3> QED BY <2>a, <3>1, <3>4, <3>5 DEF m
  <2>2. CASE t[k].name = "NOT" /\ t[k].left \in 1..(k - 1)
    <3> DEFINE l == t[k].left
    <3>1. d[2 * k] = d[2 * l - 1] /\ d[2 * k - 1] = d[2 * l]
      BY <2>2, NodesMade
    <3>2. Ft[k] = 2 - Ft[l]
      BY <2>2, <2>a DEF ValueAt
    <3>3. ToSet(L[k]) = ToSet(L[l])
      BY <1>l, <2>0, <2>2 DEF LeavesAt
    <3>4. l \in S /\ l \in 1..Len(t)
      BY <1>1, <2>2
    <3> HIDE DEF l
    <3>5. Ft[l] \in {0, 1, 2} /\ Fd[2 * l] = Ft[l] /\ Fd[2 * l - 1] = 2 - Ft[l]
      BY <3>3, <3>4 DEF IdsIn
    <3>6. 2 * l \in DOMAIN d /\ 2 * l - 1 \in DOMAIN d
      BY <1>0, <3>4
    <3>7. Fd[2 * l] = ValueAt(Fd, d[2 * l], v) /\ Fd[2 * l - 1] = ValueAt(Fd, d[2 * l - 1], v)
      BY <3>6 DEF Evaluates
    <3>8. Fd[2 * k] = Fd[2 * l - 1] /\ Fd[2 * k - 1] = Fd[2 * l]
      BY <2>a, <3>1, <3>7
    <3> QED BY <3>2, <3>5, <3>8
  <2>3. CASE /\ t[k].name \in {"AND", "OR"}
             /\ t[k].left \in 1..(k - 1) /\ t[k].right \in 1..(k - 1)
    <3> DEFINE l == t[k].left
               r == t[k].right
    <3>1. /\ d[2 * k] = [name |-> t[k].name, left |-> 2 * l, right |-> 2 * r]
          /\ d[2 * k - 1] = [name |-> Dual(t[k].name), left |-> 2 * l - 1, right |-> 2 * r - 1]
      BY <2>3, NodesMade
    <3>3. ToSet(L[k]) = ToSet(L[l]) \cup ToSet(L[r])
      BY <1>l, <2>0, <2>3 DEF LeavesAt
    <3>4. l \in S /\ r \in S
      BY <1>1, <2>3
    <3>n. t[k].name \in {"AND", "OR"}
      BY <2>3
    <3>f. Ft[k] = IF t[k].name = "AND" THEN Min({Ft[l], Ft[r]}) ELSE Max({Ft[l], Ft[r]})
      BY <2>a, <3>n DEF ValueAt
    <3> HIDE DEF l, r
    <3>5. Good(l) /\ Good(r)
      BY <3>3, <3>4 DEF IdsIn
    <3>6. Fd[2 * k] = IF t[k].name = "AND" THEN Min({Fd[2 * l], Fd[2 * r]})
                                           ELSE Max({Fd[2 * l], Fd[2 * r]})
      BY <2>a, <3>1, <3>n DEF ValueAt
    <3>7. Fd[2 * k - 1] = IF t[k].name = "OR" THEN Min({Fd[2 * l - 1], Fd[2 * r - 1]})
                                              ELSE Max({Fd[2 * l - 1], Fd[2 * r - 1]})
      <4>1. t[k].name = "OR" => Dual(t[k].name) = "AND"
        BY DEF Dual
      <4>2. t[k].name # "OR" => Dual(t[k].name) = "OR"
        BY DEF Dual
      <4> QED BY <2>a, <3>1, <4>1, <4>2 DEF ValueAt
    <3> DEFINE x == Ft[l]
               y == Ft[r]
    <3>8. /\ x \in Int /\ y \in Int /\ Fd[2 * l - 1] = 2 - x /\ Fd[2 * r - 1] = 2 - y
          /\ Fd[2 * l] = x /\ Fd[2 * r] = y /\ x \in {0, 1, 2} /\ y \in {0, 1, 2}
      BY <3>5
    <3> HIDE DEF x, y
    <3>9. /\ Min({x, y}) = IF x <= y THEN x ELSE y
          /\ Max({x, y}) = IF x <= y THEN y ELSE x
          /\ Min({2 - x, 2 - y}) = IF 2 - x <= 2 - y THEN 2 - x ELSE 2 - y
          /\ Max({2 - x, 2 - y}) = IF 2 - x <= 2 - y THEN 2 - y ELSE 2 - x
      <4>1. 2 - x \in Int /\ 2 - y \in Int
        BY <3>8
      <4> QED BY <3>8, <4>1, MinMaxOfTwo
    <3>10. Ft[k] = IF t[k].name = "AND" THEN Min({x, y}) ELSE Max({x, y})
      BY <3>f DEF x, y
    <3>11. Fd[2 * k] = IF t[k].name = "AND" THEN Min({x, y}) ELSE Max({x, y})
      BY <3>6, <3>8
    <3>12. Fd[2 * k - 1] = IF t[k].name = "OR" THEN Min({2 - x, 2 - y}) ELSE Max({2 - x, 2 - y})
      BY <3>7, <3>8
    <3> QED BY <3>n, <3>8, <3>9, <3>10, <3>11, <3>12
  <2> HIDE DEF S, Good
  <2> QED BY <2>0, <2>1, <2>2, <2>3, TreeNodes
<1>2. \A k \in 1..Len(t) : k \in S
  <2> HIDE DEF S
  <2> QED BY <1>0, <1>1, FromTheFirst
<1> QED BY <1>2

(* De Morgan's tree has the value of the tree it is made from, whatever    *)
(* its comparisons are.                                                    *)
LEMMA MeaningKept ==
    ASSUME NEW t, IsTree(t), t # NoCondition,
           NEW I, I = {e.id : e \in ToSet(Leaves(t))}, NEW v \in [I -> {0, 2}]
    PROVE  Value(DeMorgan(t), v) = Value(t, v)
<1> DEFINE d == DeMorgan(t)
           L == LeavesOf(t)
<1>1. IsTree(d) /\ d # NoCondition /\ Len(d) = 2 * Len(t)
  BY TreeMade
<1>2. PICK Ft : Value(t, v) = Ft[Len(t)] /\ Evaluates(Ft, t, v)
  BY ValueEvaluated
<1>3. PICK Fd : Value(d, v) = Fd[Len(d)] /\ Evaluates(Fd, d, v)
  BY <1>1, ValueEvaluated
<1>4. Gather(L, t)
  BY LeavesGathered
<1>5. Leaves(t) = L[Len(t)]
  BY DEF Leaves
<1>6. Len(t) \in 1..Len(t)
  BY TreeNodes
<1>7. d = DeMorgan(t)
  OBVIOUS
<1> HIDE DEF d, L
<1>9. I = IdsIn(L[Len(t)])
  BY <1>5 DEF IdsIn
<1>8. IdsIn(L[Len(t)]) \subseteq I => Fd[2 * Len(t)] = Ft[Len(t)]
  BY <1>2, <1>3, <1>4, <1>6, <1>7, MadeEvaluates
<1> QED BY <1>1, <1>2, <1>3, <1>8, <1>9 DEF d

-----------------------------------------------------------------------------
(* Areas.                                                                  *)
AreAreas(a, E) == a \in Seq(Seq(E)) /\ a # <<>> /\ <<>> \notin ToSet(a)

(* What goes on being collected.                                           *)
Together(l, r) == Last(l) \o Last(r)

(* Areas are never empty, and nor is the last of them.                     *)
LEMMA AreaParts ==
    ASSUME NEW E, NEW l, AreAreas(l, E)
    PROVE  /\ Front(l) \in Seq(Seq(E)) /\ Last(l) \in Seq(E) /\ Last(l) # <<>>
           /\ ToSet(l) = ToSet(Front(l)) \cup {Last(l)}
           /\ <<>> \notin ToSet(Front(l))
           /\ Len(l) \in Nat /\ Len(Front(l)) = Len(l) - 1
           /\ Len(l) = 1 => Front(l) = <<>> /\ l = <<Last(l)>>
<1> DEFINE Q == Seq(E)
<1>1. l \in Seq(Q) /\ l # <<>> /\ <<>> \notin ToSet(l)
  BY DEF AreAreas
<1> HIDE DEF Q
<1>2. /\ Front(l) \in Seq(Q) /\ Last(l) \in Q
      /\ ToSet(l) = ToSet(Front(l)) \cup {Last(l)}
      /\ Len(Front(l)) = Len(l) - 1
  BY <1>1, FrontAndLast
<1>3. Len(l) \in Nat
  BY <1>1
<1>4. Len(l) = 1 => Front(l) = <<>> /\ l = <<Last(l)>>
  <2>1. Last(l) = l[Len(l)]
    BY DEF Last
  <2> QED BY <1>1, <1>2, <2>1
<1> QED BY <1>1, <1>2, <1>3, <1>4 DEF Q

(* OR puts areas side by side, AND unites the last ones.                   *)
LEMMA AreasUnited ==
    ASSUME NEW E, NEW l, AreAreas(l, E), NEW r, AreAreas(r, E)
    PROVE  /\ ToSet(ByOr(l, r)) = ToSet(l) \cup ToSet(r)
           /\ ToSet(ByAnd(l, r)) = (ToSet(Front(l)) \cup ToSet(Front(r))) \cup {Together(l, r)}
           /\ ByOr(l, r) \in Seq(Seq(E)) /\ ByAnd(l, r) \in Seq(Seq(E))
           /\ Together(l, r) \in Seq(E) /\ Together(l, r) # <<>>
<1> DEFINE Q == Seq(E)
           x == Last(l)
           y == Last(r)
           f == Front(l)
           g == Front(r)
           z == Together(l, r)
           o == AtOr(x, y)
           n == AtAnd(x, y)
<1>1. /\ f \in Seq(Q) /\ g \in Seq(Q) /\ x \in Q /\ y \in Q /\ x # <<>> /\ y # <<>>
      /\ ToSet(l) = ToSet(f) \cup {x} /\ ToSet(r) = ToSet(g) \cup {y}
  BY AreaParts
<1>2. z \in Q /\ z # <<>>
  <2>1. z = x \o y
    BY DEF Together
  <2> HIDE DEF x, y, z
  <2> QED BY <1>1, <2>1
<1>3. o = <<x, y>> /\ n = <<z>>
  BY <1>1 DEF AtOr, AtAnd, Together
<1>4. ByOr(l, r) = (f \o g) \o o /\ ByAnd(l, r) = (f \o g) \o n
  BY DEF ByOr, ByAnd
<1> HIDE DEF Q, x, y, f, g, z, o, n
<1>5. o \in Seq(Q) /\ n \in Seq(Q)
  BY <1>1, <1>2, <1>3
<1>6. ToSet(n) = {z}
  BY <1>3, SetOfOne
<1>7. ToSet(o) = {x, y}
  <2>1. DOMAIN o = {1, 2} /\ o[1] = x /\ o[2] = y
    BY <1>3
  <2> QED BY <2>1 DEF ToSet
<1>8. f \o g \in Seq(Q) /\ ToSet(f \o g) = ToSet(f) \cup ToSet(g)
  BY <1>1, BothSets
<1> DEFINE h == f \o g
<1>9. h \in Seq(Q) /\ ToSet(h) = ToSet(f) \cup ToSet(g)
  BY <1>8
<1> HIDE DEF h
<1>10. /\ ToSet(h \o o) = ToSet(h) \cup ToSet(o) /\ ToSet(h \o n) = ToSet(h) \cup ToSet(n)
       /\ h \o o \in Seq(Q) /\ h \o n \in Seq(Q)
  BY <1>5, <1>9, BothSets
<1>11. ByOr(l, r) = h \o o /\ ByAnd(l, r) = h \o n
  BY <1>4 DEF h
<1>12. ToSet(ByOr(l, r)) = ToSet(l) \cup ToSet(r)
  BY <1>1, <1>7, <1>9, <1>10, <1>11
<1>13. ToSet(ByAnd(l, r)) = (ToSet(f) \cup ToSet(g)) \cup {z}
  BY <1>6, <1>9, <1>10, <1>11
<1> QED BY <1>2, <1>10, <1>11, <1>12, <1>13 DEF Q, f, g, z

(* Both make areas again.                                                  *)
LEMMA AreasStay ==
    ASSUME NEW E, NEW l, AreAreas(l, E), NEW r, AreAreas(r, E)
    PROVE  AreAreas(ByOr(l, r), E) /\ AreAreas(ByAnd(l, r), E)
<1>1. /\ ToSet(ByOr(l, r)) = ToSet(l) \cup ToSet(r)
      /\ ToSet(ByAnd(l, r)) = (ToSet(Front(l)) \cup ToSet(Front(r))) \cup {Together(l, r)}
      /\ ByOr(l, r) \in Seq(Seq(E)) /\ ByAnd(l, r) \in Seq(Seq(E))
      /\ Together(l, r) # <<>>
  BY AreasUnited
<1>2. <<>> \notin ToSet(l) /\ <<>> \notin ToSet(r)
  BY DEF AreAreas
<1>3. <<>> \notin ToSet(Front(l)) /\ <<>> \notin ToSet(Front(r)) /\ Last(l) \in ToSet(l)
  BY AreaParts, Zenon
<1>4. <<>> \notin ToSet(ByOr(l, r)) /\ <<>> \notin ToSet(ByAnd(l, r))
  BY <1>1, <1>2, <1>3
<1>5. ByOr(l, r) # <<>> /\ ByAnd(l, r) # <<>>
  BY <1>1, <1>3, SetOfNone
<1> QED BY <1>1, <1>4, <1>5 DEF AreAreas

(* By AND one area and one area make one.                                  *)
LEMMA AreaExtended ==
    ASSUME NEW E, NEW l, AreAreas(l, E), NEW r, AreAreas(r, E), Len(l) = 1, Len(r) = 1
    PROVE  ByAnd(l, r) = <<Together(l, r)>>
<1>1. Front(l) = <<>> /\ Front(r) = <<>> /\ Last(l) \in Seq(E) /\ Last(r) \in Seq(E)
  BY AreaParts
<1> DEFINE x == Last(l)
           y == Last(r)
           z == Together(l, r)
<1>2. z = x \o y /\ x \in Seq(E) /\ y \in Seq(E)
  BY <1>1 DEF Together
<1>3. ByAnd(l, r) = (<<>> \o <<>>) \o <<z>>
  BY <1>1 DEF ByAnd, AtAnd, Together
<1> HIDE DEF x, y, z
<1> QED BY <1>3 DEF z

(* A comparison is an area.                                                *)
LEMMA OneArea ==
    ASSUME NEW E, NEW x \in E, NEW y, y = <<x>>
    PROVE  AreAreas(<<y>>, E) /\ y \in Seq(E)
<1>1. y \in Seq(E) /\ y # <<>>
  OBVIOUS
<1> DEFINE Q == Seq(E)
<1>2. y \in Q
  BY <1>1
<1> HIDE DEF Q
<1>3. ToSet(<<y>>) = {y} /\ <<y>> \in Seq(Q) /\ <<y>> # <<>>
  BY <1>2, SetOfOne
<1> QED BY <1>1, <1>3 DEF AreAreas, Q

(* Every node has areas, and without OR one: all the comparisons.          *)
LEMMA AreasOfNodes ==
    ASSUME NEW t, IsTree(t), NoNot(t), NEW A, Collects(A, t), NEW L, Gather(L, t),
           NEW F, CountsOrs(F, t)
    PROVE  \A k \in 1..Len(t) : /\ AreAreas(A[k], ExpsOf(t))
                                /\ F[k] \in Nat
                                /\ F[k] = 0 => A[k] = <<L[k]>>
<1> DEFINE E == ExpsOf(t)
           Good(k) == AreAreas(A[k], E) /\ F[k] \in Nat /\ (F[k] = 0 => A[k] = <<L[k]>>)
           S == {k \in 1..Len(t) : Good(k)}
<1>0. Len(t) \in Nat /\ DOMAIN t = 1..Len(t)
  BY TreeNodes
<1>1. ASSUME NEW k \in 1..Len(t), \A j \in 1..(k - 1) : j \in S PROVE k \in S
  <2> SUFFICES Good(k)
    OBVIOUS
  <2>0. /\ k \in DOMAIN t /\ L[k] = GatherAt(L, t[k]) /\ A[k] = AreasAt(A, t[k])
        /\ F[k] = OrsAt(F, t[k])
    BY <1>0 DEF Gather, Collects, CountsOrs
  <2>1. CASE IsExp(t[k])
    <3>1. t[k].name = "exp" /\ t[k] \in E
      BY <1>0, <2>1 DEF IsExp, ExpsOf
    <3> DEFINE x == t[k]
               y == <<x>>
    <3>2. L[k] = y /\ A[k] = <<y>> /\ F[k] = 0
      BY <2>0, <3>1 DEF GatherAt, AreasAt, OrsAt
    <3>3. x \in E /\ y = <<x>>
      BY <3>1
    <3> HIDE DEF x, y, E
    <3>4. AreAreas(<<y>>, E)
      BY <3>3, OneArea
    <3> QED BY <3>2, <3>4
  <2>2. CASE /\ t[k].name \in {"AND", "OR"}
             /\ t[k].left \in 1..(k - 1) /\ t[k].right \in 1..(k - 1)
    <3> DEFINE i == t[k].left
               j == t[k].right
    <3>1. i \in S /\ j \in S
      BY <1>1, <2>2
    <3>2. t[k].name = "AND" => /\ A[k] = ByAnd(A[i], A[j]) /\ L[k] = L[i] \o L[j]
                               /\ F[k] = F[i] + F[j]
      BY <2>0 DEF GatherAt, AreasAt, OrsAt
    <3>3. t[k].name = "OR" => A[k] = ByOr(A[i], A[j]) /\ F[k] = F[i] + F[j] + 1
      BY <2>0 DEF AreasAt, OrsAt
    <3>4. t[k].name \in {"AND", "OR"}
      BY <2>2
    <3> HIDE DEF i, j
    <3>5. Good(i) /\ Good(j)
      BY <3>1
    <3> DEFINE l == A[i]
               r == A[j]
    <3>6. /\ AreAreas(l, E) /\ AreAreas(r, E)
          /\ F[i] = 0 => l = <<L[i]>>
          /\ F[j] = 0 => r = <<L[j]>>
      BY <3>5
    <3> HIDE DEF l, r, E
    <3>7. AreAreas(ByAnd(l, r), E) /\ AreAreas(ByOr(l, r), E)
      BY <3>6, AreasStay
    <3>8. ASSUME F[i] = 0, F[j] = 0 PROVE ByAnd(l, r) = <<L[i] \o L[j]>>
      <4> DEFINE a == L[i]
                 b == L[j]
      <4>1. l = <<a>> /\ r = <<b>>
        BY <3>6, <3>8
      <4> HIDE DEF a, b
      <4>2. Len(l) = 1 /\ Len(r) = 1 /\ Last(l) = a /\ Last(r) = b
        BY <4>1 DEF Last
      <4>3. ByAnd(l, r) = <<Together(l, r)>>
        BY <3>6, <4>2, AreaExtended
      <4>4. Together(l, r) = a \o b
        BY <4>2 DEF Together
      <4> QED BY <4>3, <4>4 DEF a, b
    <3> DEFINE c == L[i] \o L[j]
    <3>9. F[i] = 0 /\ F[j] = 0 => ByAnd(l, r) = <<c>>
      BY <3>8
    <3>10. F[i] \in Nat /\ F[j] \in Nat
      BY <3>5
    <3>11. CASE t[k].name = "AND"
      <4>1. A[k] = ByAnd(l, r) /\ L[k] = c /\ F[k] = F[i] + F[j]
        BY <3>2, <3>11 DEF l, r
      <4> HIDE DEF c
      <4> QED BY <3>7, <3>9, <3>10, <4>1
    <3>12. CASE t[k].name = "OR"
      <4>1. A[k] = ByOr(l, r) /\ F[k] = F[i] + F[j] + 1
        BY <3>3, <3>12 DEF l, r
      <4> QED BY <3>7, <3>10, <4>1
    <3> QED BY <3>4, <3>11, <3>12
  <2> HIDE DEF Good
  <2> QED BY <2>0, <2>1, <2>2, TreeNodes DEF NoNot
<1>2. \A k \in 1..Len(t) : k \in S
  <2> HIDE DEF S
  <2> QED BY <1>0, <1>1, FromTheFirst
<1> QED BY <1>2

(* A row satisfies all of an area.                                         *)
AllIn(a, sat) == \A e \in ToSet(a) : e.id \in sat

(* What holds in two areas holds when they are united.                     *)
LEMMA AllInTogether ==
    ASSUME NEW E, NEW l, AreAreas(l, E), NEW r, AreAreas(r, E), NEW sat,
           AllIn(Last(l), sat), AllIn(Last(r), sat)
    PROVE  AllIn(Together(l, r), sat)
<1>1. Last(l) \in Seq(E) /\ Last(r) \in Seq(E)
  BY AreaParts
<1>2. ToSet(Together(l, r)) = ToSet(Last(l)) \cup ToSet(Last(r))
  BY <1>1, BothSets DEF Together
<1> QED BY <1>2 DEF AllIn

(* When a node holds, so does the whole of one of its areas.               *)
LEMMA AreasCoverNodes ==
    ASSUME NEW t, IsTree(t), NoNot(t), NEW A, Collects(A, t), NEW sat,
           NEW H, Satisfies(H, t, sat), NEW E, \A k \in 1..Len(t) : AreAreas(A[k], E)
    PROVE  \A k \in 1..Len(t) : H[k] => \E a \in ToSet(A[k]) : AllIn(a, sat)
<1> DEFINE Covers(s) == \E a \in ToSet(s) : AllIn(a, sat)
           S == {k \in 1..Len(t) : H[k] => Covers(A[k])}
<1>0. Len(t) \in Nat /\ DOMAIN t = 1..Len(t)
  BY TreeNodes
<1>1. ASSUME NEW k \in 1..Len(t), \A j \in 1..(k - 1) : j \in S PROVE k \in S
  <2> SUFFICES ASSUME H[k] PROVE Covers(A[k])
    OBVIOUS
  <2>0. k \in DOMAIN t /\ A[k] = AreasAt(A, t[k]) /\ H[k] = HoldsAt(H, t[k], sat)
    BY <1>0 DEF Collects, Satisfies
  <2>1. CASE IsExp(t[k])
    <3> DEFINE x == t[k]
               y == <<x>>
    <3>1. x.name = "exp"
      BY <2>1 DEF IsExp
    <3>2. A[k] = <<y>> /\ x.id \in sat
      BY <2>0, <3>1 DEF AreasAt, HoldsAt
    <3>3. ToSet(y) = {x}
      <4> HIDE DEF x
      <4> QED BY SetOfOne
    <3>4. AllIn(y, sat)
      BY <3>2, <3>3 DEF AllIn
    <3> HIDE DEF y, x
    <3>5. ToSet(<<y>>) = {y}
      BY SetOfOne
    <3> QED BY <3>2, <3>4, <3>5
  <2>2. CASE /\ t[k].name \in {"AND", "OR"}
             /\ t[k].left \in 1..(k - 1) /\ t[k].right \in 1..(k - 1)
    <3> DEFINE i == t[k].left
               j == t[k].right
    <3>1. i \in S /\ j \in S
      BY <1>1, <2>2
    <3>2. t[k].name = "AND" => A[k] = ByAnd(A[i], A[j]) /\ H[i] /\ H[j]
      BY <2>0 DEF AreasAt, HoldsAt
    <3>3. t[k].name = "OR" => A[k] = ByOr(A[i], A[j]) /\ (H[i] \/ H[j])
      BY <2>0 DEF AreasAt, HoldsAt
    <3>4. t[k].name \in {"AND", "OR"}
      BY <2>2
    <3> HIDE DEF i, j
    <3> DEFINE l == A[i]
               r == A[j]
    <3>5. (H[i] => Covers(l)) /\ (H[j] => Covers(r)) /\ AreAreas(l, E) /\ AreAreas(r, E)
      BY <3>1
    <3>6. t[k].name = "AND" => A[k] = ByAnd(l, r)
      BY <3>2
    <3>7. t[k].name = "OR" => A[k] = ByOr(l, r)
      BY <3>3
    <3> HIDE DEF l, r
    <3>8. /\ ToSet(ByOr(l, r)) = ToSet(l) \cup ToSet(r)
          /\ ToSet(ByAnd(l, r)) = (ToSet(Front(l)) \cup ToSet(Front(r))) \cup {Together(l, r)}
      <4>1. AreAreas(l, E) /\ AreAreas(r, E)
        BY <3>5
      <4> HIDE DEF Covers, S
      <4>2. ToSet(ByOr(l, r)) = ToSet(l) \cup ToSet(r)
        BY <4>1, AreasUnited, SMTT(30)
      <4>3. ToSet(ByAnd(l, r)) = (ToSet(Front(l)) \cup ToSet(Front(r))) \cup {Together(l, r)}
        BY <4>1, AreasUnited, SMTT(30)
      <4> QED BY <4>2, <4>3
    <3>9. ToSet(l) = ToSet(Front(l)) \cup {Last(l)} /\ ToSet(r) = ToSet(Front(r)) \cup {Last(r)}
      BY <3>5, AreaParts
    <3>10. CASE t[k].name = "OR"
      BY <3>3, <3>5, <3>7, <3>8, <3>10
    <3>11. CASE t[k].name = "AND"
      <4>1. PICK a \in ToSet(l) : AllIn(a, sat)
        BY <3>2, <3>5, <3>11
      <4>2. PICK b \in ToSet(r) : AllIn(b, sat)
        BY <3>2, <3>5, <3>11
      <4>3. CASE a = Last(l) /\ b = Last(r)
        <5>1. AllIn(Together(l, r), sat)
          BY <3>5, <4>1, <4>2, <4>3, AllInTogether
        <5> QED BY <3>6, <3>8, <3>11, <5>1
      <4>4. CASE a # Last(l)
        BY <3>6, <3>8, <3>9, <3>11, <4>1, <4>4
      <4>5. CASE b # Last(r)
        BY <3>6, <3>8, <3>9, <3>11, <4>2, <4>5
      <4> QED BY <4>3, <4>4, <4>5
    <3> QED BY <3>4, <3>10, <3>11
  <2> HIDE DEF S, Covers
  <2> QED BY <2>0, <2>1, <2>2, TreeNodes DEF NoNot
<1>2. \A k \in 1..Len(t) : k \in S
  <2> HIDE DEF S
  <2> QED BY <1>0, <1>1, FromTheFirst
<1> QED BY <1>2

(* The same for the tree.                                                  *)
LEMMA AreasOfTree ==
    ASSUME NEW t, IsTree(t), NoNot(t), t # NoCondition
    PROVE  /\ AreAreas(Areas(t), ExpsOf(t))
           /\ OrNodes(t) \in Nat
           /\ OrNodes(t) = 0 => Areas(t) = <<Leaves(t)>>
           /\ \A sat : Holds(t, sat) => \E a \in ToSet(Areas(t)) : AllIn(a, sat)
<1> DEFINE L == LeavesOf(t)
<1>1. PICK A : Areas(t) = A[Len(t)] /\ Collects(A, t)
  BY AreasCollected
<1>2. PICK F : OrNodes(t) = F[Len(t)] /\ CountsOrs(F, t)
  BY OrNodesCounted
<1>3. Gather(L, t) /\ Leaves(t) = L[Len(t)]
  BY LeavesGathered DEF Leaves
<1>4. Len(t) \in 1..Len(t)
  BY TreeNodes
<1> HIDE DEF L
<1>5. \A k \in 1..Len(t) : /\ AreAreas(A[k], ExpsOf(t))
                           /\ F[k] \in Nat
                           /\ F[k] = 0 => A[k] = <<L[k]>>
  BY <1>1, <1>2, <1>3, AreasOfNodes
<1>6. ASSUME NEW sat, Holds(t, sat) PROVE \E a \in ToSet(A[Len(t)]) : AllIn(a, sat)
  <2>1. PICK H : (Holds(t, sat) <=> H[Len(t)]) /\ Satisfies(H, t, sat)
    BY HoldsSatisfied
  <2>2. \A k \in 1..Len(t) : H[k] => \E a \in ToSet(A[k]) : AllIn(a, sat)
    BY <1>1, <1>5, <2>1, AreasCoverNodes
  <2> QED BY <1>4, <1>6, <2>1, <2>2
<1> QED BY <1>1, <1>2, <1>3, <1>4, <1>5, <1>6

-----------------------------------------------------------------------------
(* What the planning starts from.                                          *)
JoinLoops == {"joins", "unmentioned", "nesting", "constants", "foreign keys", "networks",
              "hash joins", "merge joins", "rest", "uniting"}

Counted == pc \notin {"parsed", "counting", "derived"} /\ query.derived = Null

TablesUnder(t) == UNION {TablesOf(e) : e \in ToSet(Leaves(t))}

Prepared ==
    /\ query \in Queries
    /\ schema \in Schemas(query)
    /\ parsed = query.condition
    /\ condition = IF pc = "parsed" THEN parsed ELSE DeMorgan(parsed)
    /\ pc \in {"counting", "collecting"} \cup Planning \cup JoinLoops => query.derived = Null
    /\ pc = "derived" => query.derived # Null
    /\ Counted => or_node = OrNodes(condition) /\ tables_set = TablesUnder(condition)
    /\ Collected => areas = Areas(condition)
    /\ pc \in Planning => pc = Branch
    /\ pc \in JoinLoops => Branch = "joins"

PlanMove ==
    /\ UNCHANGED <<query, schema, conditionVars>>
    /\ \/ pc \in JoinLoops /\ pc' \in (JoinLoops \ {"joins"}) \cup {"resources"}
       \/ pc \in Planning \cup {"derived"} /\ pc' = "resources"
       \/ pc = "resources" /\ pc' = "planned"

(* A step prepares the condition, plans, or does nothing.                  *)
LEMMA PlanningStep ==
    ASSUME [Next]_vars
    PROVE  PrepareCondition \/ UNCHANGED vars \/ PlanMove
<1>2. CASE Onwards
  BY <1>2 DEF Onwards, NextLoop, PlanMove, JoinLoops
<1>3. CASE ScanUnmentioned
  BY <1>3 DEF ScanUnmentioned, Turn, PlanMove, JoinLoops
<1>4. CASE NestUnmentioned
  BY <1>4 DEF NestUnmentioned, Turn, PlanMove, JoinLoops
<1>5. CASE LookUpAllConstants
  BY <1>5 DEF LookUpAllConstants, Turn, PlanMove, JoinLoops
<1>6. CASE JoinForeignKeys
  BY <1>6 DEF JoinForeignKeys, Turn, PlanMove, JoinLoops
<1>7. CASE SearchTables
  BY <1>7 DEF SearchTables, Turn, PlanMove, JoinLoops
<1>8. CASE JoinByHash
  BY <1>8 DEF JoinByHash, Turn, PlanMove, JoinLoops
<1>9. CASE JoinByMerge
  BY <1>9 DEF JoinByMerge, Turn, PlanMove, JoinLoops
<1>10. CASE ScanRest
  BY <1>10 DEF ScanRest, Turn, PlanMove, JoinLoops
<1>11. CASE Unite
  BY <1>11 DEF Unite, PlanMove, JoinLoops
<1>12. CASE ScanOnly
  BY <1>12 DEF ScanOnly, PlanMove, Planning
<1>13. CASE SearchAreas
  BY <1>13 DEF SearchAreas, PlanMove, Planning
<1>14. CASE TakeDerived
  BY <1>14 DEF TakeDerived, PlanMove
<1>15. CASE InitResources
  BY <1>15 DEF InitResources, PlanMove
<1> QED
  BY <1>2, <1>3, <1>4, <1>5, <1>6, <1>7, <1>8, <1>9, <1>10, <1>11, <1>12, <1>13, <1>14, <1>15,
     Zenon DEF Next

(* The planning goes one of the ways there are.                            *)
LEMMA BranchPlans == Branch \in Planning
  BY DEF Branch, Planning

(* Prepared is inductive: it holds at first.                               *)
LEMMA PreparedInit == Init => Prepared
<1> SUFFICES ASSUME Init PROVE Prepared
  OBVIOUS
<1>1. /\ query \in Queries /\ schema \in Schemas(query) /\ parsed = query.condition
      /\ condition = query.condition /\ pc = "parsed"
  BY DEF Init, ConditionInit
<1> QED BY <1>1 DEF Prepared, Planning, JoinLoops, Counted, Collected

(* And every step keeps it.                                                *)
LEMMA PreparedStep == Prepared /\ [Next]_vars => Prepared'
<1> SUFFICES ASSUME Prepared, [Next]_vars PROVE Prepared'
  OBVIOUS
<1>1. CASE UNCHANGED vars
  <2>1. UNCHANGED <<query, schema, parsed, condition, or_node, tables_set, areas, pc>>
    BY <1>1 DEF vars, conditionVars
  <2>2. Branch' = Branch /\ Counted' = Counted /\ Collected' = Collected
    BY <2>1 DEF Branch, Counted, Collected
  <2> QED BY <2>1, <2>2 DEF Prepared, TablesUnder
<1>2. CASE PlanMove
  <2>1. UNCHANGED <<query, schema, parsed, condition, or_node, tables_set, areas>>
    BY <1>2 DEF PlanMove, conditionVars
  <2>2. Branch' = Branch
    BY <2>1 DEF Branch
  <2>3. CASE pc \in JoinLoops /\ pc' \in (JoinLoops \ {"joins"}) \cup {"resources"}
    <3>1. /\ pc # "parsed" /\ pc' # "parsed" /\ query.derived = Null /\ Branch = "joins"
          /\ pc' \notin Planning /\ pc' # "derived"
      BY <2>3 DEF Prepared, JoinLoops, Planning
    <3>2. Counted /\ Collected
      BY <2>3, <3>1 DEF JoinLoops, Counted, Collected
    <3> QED BY <2>1, <2>2, <3>1, <3>2 DEF Prepared, TablesUnder
  <2>4. CASE pc \in Planning \cup {"derived"} /\ pc' = "resources"
    <3>1. /\ pc # "parsed" /\ pc' # "parsed" /\ pc' \notin Planning /\ pc' \notin JoinLoops
          /\ pc' \notin {"counting", "collecting", "derived"}
      BY <2>4 DEF JoinLoops, Planning
    <3>2. (Counted' => Counted) /\ (Collected' => Collected)
      BY <2>1, <2>4 DEF Prepared, Counted, Collected, Planning
    <3> QED BY <2>1, <2>2, <3>1, <3>2 DEF Prepared, TablesUnder
  <2>5. CASE pc = "resources" /\ pc' = "planned"
    <3>1. /\ pc # "parsed" /\ pc' # "parsed" /\ pc' \notin Planning /\ pc' \notin JoinLoops
          /\ pc' \notin {"counting", "collecting", "derived"}
      BY <2>5 DEF JoinLoops, Planning
    <3>2. (Counted' => Counted) /\ (Collected' => Collected)
      BY <2>1, <2>5 DEF Counted, Collected
    <3> QED BY <2>1, <2>2, <3>1, <3>2 DEF Prepared, TablesUnder
  <2> QED BY <1>2, <2>3, <2>4, <2>5 DEF PlanMove
<1>3. CASE PrepareCondition
  <2>1. query' = query /\ schema' = schema
    BY <1>3 DEF PrepareCondition
  <2>2. CASE RemoveNot(query.derived # Null)
    <3>1. /\ pc = "parsed" /\ condition' = DeMorgan(condition) /\ parsed' = parsed
          /\ pc' = IF query.derived # Null THEN "derived" ELSE "counting"
      BY <2>2 DEF RemoveNot
    <3>2. ~ Counted' /\ ~ Collected'
      BY <2>1, <3>1 DEF Counted, Collected
    <3> QED BY <2>1, <3>1, <3>2 DEF Prepared, Planning, JoinLoops
  <2>3. CASE Count
    <3>1. /\ pc = "counting" /\ pc' = "collecting" /\ parsed' = parsed /\ condition' = condition
          /\ or_node' = OrNodes(condition) /\ tables_set' = TablesUnder(condition)
      BY <2>3 DEF Count, TablesUnder
    <3>2. ~ Collected'
      BY <3>1 DEF Collected
    <3> QED BY <2>1, <3>1, <3>2 DEF Prepared, Planning, JoinLoops, TablesUnder
  <2>4. CASE Collect
    <3>1. /\ pc = "collecting" /\ pc' = Branch /\ areas' = Areas(condition)
          /\ UNCHANGED <<parsed, condition, or_node, tables_set>>
      BY <2>4 DEF Collect
    <3>2. Branch' = Branch
      BY <3>1 DEF Branch
    <3>3. pc' \in Planning /\ query.derived = Null /\ Counted
      BY <2>1, <3>1, BranchPlans DEF Prepared, Counted
    <3>4. /\ pc' \in JoinLoops => Branch = "joins"
          /\ pc' # "parsed" /\ pc # "parsed" /\ pc' # "derived"
      BY <3>1, <3>3 DEF JoinLoops, Planning
    <3>5. or_node = OrNodes(condition) /\ tables_set = TablesUnder(condition)
      BY <3>3 DEF Prepared
    <3> QED BY <2>1, <3>1, <3>2, <3>3, <3>4, <3>5 DEF Prepared, TablesUnder
  <2> QED BY <1>3, <2>2, <2>3, <2>4 DEF PrepareCondition
<1> QED BY <1>1, <1>2, <1>3, PlanningStep

(* Planning starts from the condition without its NOTs, its number of ORs, *)
(* its tables and its areas, and these stay what they are while it goes on. *)
THEOREM PlanningPrepared == Spec => []Prepared
  BY PreparedInit, PreparedStep, PTL DEF Spec

(* The condition is a tree, as parsed and as prepared.                     *)
LEMMA QueriesAreTrees ==
    ASSUME Prepared
    PROVE  /\ IsTree(parsed) /\ IdsDiffer(parsed)
           /\ pc # "parsed" => condition = DeMorgan(parsed) /\ IsTree(condition) /\ NoNot(condition)
<1>1. IsTree(parsed) /\ IdsDiffer(parsed)
  BY PlannerAssumption DEF Prepared, IsQuery
<1>2. IsTree(DeMorgan(parsed)) /\ NoNot(DeMorgan(parsed))
  BY <1>1, TreeMade
<1> QED BY <1>1, <1>2 DEF Prepared

(* Pushing NOT down to the comparisons leaves the meaning of every         *)
(* condition as it was (de_morgan).                                        *)
THEOREM MeaningStays == Spec => []SameMeaning
<1>1. Prepared => SameMeaning
  <2> SUFFICES ASSUME Prepared, pc \in {"counting", "derived"}, condition # NoCondition,
                      NEW v \in [Ids -> {0, 2}]
               PROVE  Value(condition, v) = Value(parsed, v)
    BY DEF SameMeaning
  <2>1. IsTree(parsed) /\ condition = DeMorgan(parsed)
    BY QueriesAreTrees
  <2>2. parsed # NoCondition
    BY <2>1, TreeMade
  <2>3. Ids = {e.id : e \in ToSet(Leaves(parsed))}
    BY DEF Ids
  <2> QED BY <2>1, <2>2, <2>3, MeaningKept
<1> QED BY <1>1, PlanningPrepared, PTL

(* Whatever a row satisfies, if it satisfies the condition it satisfies    *)
(* all of some area; no area is empty; and where joins are planned the     *)
(* first area is the whole condition (getAreas).                           *)
THEOREM AreasAlwaysCover == Spec => []AreasCoverCondition
<1>1. Prepared => AreasCoverCondition
  <2> SUFFICES ASSUME Prepared, pc \in Planning, condition # NoCondition
               PROVE  /\ <<>> \notin ToSet(areas)
                      /\ pc = "joins" => areas = <<Leaves(condition)>>
                      /\ \A sat \in SUBSET Ids :
                            Holds(condition, sat) =>
                               \E a \in ToSet(areas) : \A e \in ToSet(a) : e.id \in sat
    BY DEF AreasCoverCondition
  <2>1. pc # "parsed" /\ query.derived = Null /\ Counted /\ Collected /\ pc = Branch
    BY DEF Prepared, Planning, Counted, Collected
  <2>2. areas = Areas(condition) /\ or_node = OrNodes(condition)
    BY <2>1 DEF Prepared
  <2>3. IsTree(condition) /\ NoNot(condition)
    BY <2>1, QueriesAreTrees
  <2>4. /\ AreAreas(areas, ExpsOf(condition))
        /\ or_node \in Nat
        /\ or_node = 0 => areas = <<Leaves(condition)>>
        /\ \A sat : Holds(condition, sat) => \E a \in ToSet(areas) : AllIn(a, sat)
    BY <2>2, <2>3, AreasOfTree
  <2>5. Branch = "joins" => or_node = 0
    BY DEF Branch
  <2> QED BY <2>1, <2>4, <2>5 DEF AllIn, AreAreas
<1> QED BY <1>1, PlanningPrepared, PTL

-----------------------------------------------------------------------------
(* What is gone over place by place.                                       *)
AmongAt(p, x, S) == IF x \in S THEN Append(p, x) ELSE p

(* The functions over the elements of a sequence that the modules define   *)
(* one element after the other exist, and are what their definitions say.  *)
(* First those of the first k that are in S.                               *)
LEMMA AmongExist ==
    ASSUME NEW s, NEW S, Len(s) \in Nat
    PROVE  \E f : f = [k \in 0..Len(s) |-> IF k = 0 THEN <<>> ELSE AmongAt(f[k - 1], s[k], S)]
<1> DEFINE n == Len(s)
           Step(f, m) == f = [k \in 0..m |-> IF k = 0 THEN <<>> ELSE AmongAt(f[k - 1], s[k], S)]
           Q == {m \in Nat : \E f : Step(f, m)}
<1>1. 0 \in Q
  <2>1. Step([k \in 0..0 |-> <<>>], 0)
    OBVIOUS
  <2> HIDE DEF Step
  <2> QED BY <2>1
<1>2. ASSUME NEW m \in Nat, m \in Q PROVE m + 1 \in Q
  <2>1. PICK g : Step(g, m)
    <3> HIDE DEF Step
    <3> QED BY <1>2
  <2> DEFINE h == [k \in 0..(m + 1) |-> IF k = 0 THEN <<>> ELSE AmongAt(g[k - 1], s[k], S)]
  <2>2. \A k \in 0..m : g[k] = IF k = 0 THEN <<>> ELSE AmongAt(g[k - 1], s[k], S)
    <3> HIDE DEF h
    <3> QED BY <2>1
  <2>3. \A k \in 0..m : h[k] = IF k = 0 THEN <<>> ELSE AmongAt(g[k - 1], s[k], S)
    <3>1. \A k \in 0..m : k \in 0..(m + 1)
      OBVIOUS
    <3> QED BY <3>1
  <2>4. \A k \in 0..m : h[k] = g[k]
    <3> HIDE DEF h
    <3> QED BY <2>2, <2>3
  <2>5. \A k \in 0..(m + 1) : k # 0 => k - 1 \in 0..m
    OBVIOUS
  <2>6. h = [k \in 0..(m + 1) |-> IF k = 0 THEN <<>> ELSE AmongAt(h[k - 1], s[k], S)]
    <3>1. \A k \in 0..(m + 1) : k # 0 => h[k - 1] = g[k - 1]
      <4> HIDE DEF h
      <4> QED BY <2>4, <2>5
    <3>2. \A k \in 0..(m + 1) : h[k] = IF k = 0 THEN <<>> ELSE AmongAt(g[k - 1], s[k], S)
      OBVIOUS
    <3>3. h = [k \in 0..(m + 1) |-> h[k]]
      OBVIOUS
    <3> HIDE DEF h
    <3>4. \A k \in 0..(m + 1) : h[k] = IF k = 0 THEN <<>> ELSE AmongAt(h[k - 1], s[k], S)
      BY <3>1, <3>2
    <3> QED BY <3>3, <3>4
  <2>7. Step(h, m + 1)
    <3> HIDE DEF h
    <3> QED BY <2>6
  <2> HIDE DEF Step, h
  <2> QED BY <2>7
<1>3. n \in Q
  <2> HIDE DEF Q
  <2> QED BY <1>1, <1>2, SetInduction
<1>4. \E f : Step(f, n)
  <2> HIDE DEF Step
  <2> QED BY <1>3
<1> QED BY <1>4

(* AmongFirst, element by element.                                         *)
LEMMA AmongSteps ==
    ASSUME NEW s, NEW S, Len(s) \in Nat
    PROVE  /\ AmongFirst(s, S)[0] = <<>>
           /\ \A k \in 1..Len(s) : AmongFirst(s, S)[k] = AmongAt(AmongFirst(s, S)[k - 1], s[k], S)
<1> DEFINE c == CHOOSE f : f = [k \in 0..Len(s) |-> IF k = 0 THEN <<>> ELSE AmongAt(f[k - 1], s[k], S)]
<1>1. AmongFirst(s, S) = c
  BY Zenon DEF AmongFirst, AmongAt
<1>2. c = [k \in 0..Len(s) |-> IF k = 0 THEN <<>> ELSE AmongAt(c[k - 1], s[k], S)]
  BY AmongExist
<1> HIDE DEF c
<1>3. \A k \in 0..Len(s) : c[k] = IF k = 0 THEN <<>> ELSE AmongAt(c[k - 1], s[k], S)
  BY <1>2
<1>4. 0 \in 0..Len(s) /\ \A k \in 1..Len(s) : k \in 0..Len(s) /\ k # 0
  OBVIOUS
<1>5. c[0] = <<>> /\ \A k \in 1..Len(s) : c[k] = AmongAt(c[k - 1], s[k], S)
  BY <1>3, <1>4
<1> QED BY <1>1, <1>5

(* The operation under the first k filters.                                *)
LEMMA FiltersExist ==
    ASSUME NEW first, NEW exps, Len(exps) \in Nat
    PROVE  \E f : f = [k \in 0..Len(exps) |-> IF k = 0 THEN first ELSE Filter(f[k - 1], exps[k].id)]
<1> DEFINE n == Len(exps)
           Step(f, m) == f = [k \in 0..m |-> IF k = 0 THEN first ELSE Filter(f[k - 1], exps[k].id)]
           Q == {m \in Nat : \E f : Step(f, m)}
<1>1. 0 \in Q
  <2>1. Step([k \in 0..0 |-> first], 0)
    OBVIOUS
  <2> HIDE DEF Step
  <2> QED BY <2>1
<1>2. ASSUME NEW m \in Nat, m \in Q PROVE m + 1 \in Q
  <2>1. PICK g : Step(g, m)
    <3> HIDE DEF Step
    <3> QED BY <1>2
  <2> DEFINE h == [k \in 0..(m + 1) |-> IF k = 0 THEN first ELSE Filter(g[k - 1], exps[k].id)]
  <2>2. \A k \in 0..m : g[k] = IF k = 0 THEN first ELSE Filter(g[k - 1], exps[k].id)
    <3> HIDE DEF h
    <3> QED BY <2>1
  <2>3. \A k \in 0..m : h[k] = IF k = 0 THEN first ELSE Filter(g[k - 1], exps[k].id)
    <3>1. \A k \in 0..m : k \in 0..(m + 1)
      OBVIOUS
    <3> QED BY <3>1
  <2>4. \A k \in 0..m : h[k] = g[k]
    <3> HIDE DEF h
    <3> QED BY <2>2, <2>3
  <2>5. \A k \in 0..(m + 1) : k # 0 => k - 1 \in 0..m
    OBVIOUS
  <2>6. h = [k \in 0..(m + 1) |-> IF k = 0 THEN first ELSE Filter(h[k - 1], exps[k].id)]
    <3>1. \A k \in 0..(m + 1) : k # 0 => h[k - 1] = g[k - 1]
      <4> HIDE DEF h
      <4> QED BY <2>4, <2>5
    <3>2. \A k \in 0..(m + 1) : h[k] = IF k = 0 THEN first ELSE Filter(g[k - 1], exps[k].id)
      OBVIOUS
    <3>3. h = [k \in 0..(m + 1) |-> h[k]]
      OBVIOUS
    <3> HIDE DEF h
    <3>4. \A k \in 0..(m + 1) : h[k] = IF k = 0 THEN first ELSE Filter(h[k - 1], exps[k].id)
      BY <3>1, <3>2
    <3> QED BY <3>3, <3>4
  <2>7. Step(h, m + 1)
    <3> HIDE DEF h
    <3> QED BY <2>6
  <2> HIDE DEF Step, h
  <2> QED BY <2>7
<1>3. n \in Q
  <2> HIDE DEF Q
  <2> QED BY <1>1, <1>2, SetInduction
<1>4. \E f : Step(f, n)
  <2> HIDE DEF Step
  <2> QED BY <1>3
<1> QED BY <1>4

(* FiltersOver, filter by filter.                                          *)
LEMMA FiltersSteps ==
    ASSUME NEW first, NEW exps, Len(exps) \in Nat
    PROVE  /\ FiltersOver(first, exps)[0] = first
           /\ \A k \in 1..Len(exps) : FiltersOver(first, exps)[k] = Filter(FiltersOver(first, exps)[k - 1], exps[k].id)
<1> DEFINE c == CHOOSE f : f = [k \in 0..Len(exps) |-> IF k = 0 THEN first ELSE Filter(f[k - 1], exps[k].id)]
<1>1. FiltersOver(first, exps) = c
  BY Zenon DEF FiltersOver
<1>2. c = [k \in 0..Len(exps) |-> IF k = 0 THEN first ELSE Filter(c[k - 1], exps[k].id)]
  BY FiltersExist
<1> HIDE DEF c
<1>3. \A k \in 0..Len(exps) : c[k] = IF k = 0 THEN first ELSE Filter(c[k - 1], exps[k].id)
  BY <1>2
<1>4. 0 \in 0..Len(exps) /\ \A k \in 1..Len(exps) : k \in 0..Len(exps) /\ k # 0
  OBVIOUS
<1>5. c[0] = first /\ \A k \in 1..Len(exps) : c[k] = Filter(c[k - 1], exps[k].id)
  BY <1>3, <1>4
<1> QED BY <1>1, <1>5

(* What the first k constants make of an operation.                        *)
LEMMA ConstantsExist ==
    ASSUME NEW op, NEW xs, Len(xs) \in Nat
    PROVE  \E f : f = [k \in 0..Len(xs) |-> IF k = 0 THEN op ELSE ConstantAdded(f[k - 1], xs[k])]
<1> DEFINE n == Len(xs)
           Step(f, m) == f = [k \in 0..m |-> IF k = 0 THEN op ELSE ConstantAdded(f[k - 1], xs[k])]
           Q == {m \in Nat : \E f : Step(f, m)}
<1>1. 0 \in Q
  <2>1. Step([k \in 0..0 |-> op], 0)
    OBVIOUS
  <2> HIDE DEF Step
  <2> QED BY <2>1
<1>2. ASSUME NEW m \in Nat, m \in Q PROVE m + 1 \in Q
  <2>1. PICK g : Step(g, m)
    <3> HIDE DEF Step
    <3> QED BY <1>2
  <2> DEFINE h == [k \in 0..(m + 1) |-> IF k = 0 THEN op ELSE ConstantAdded(g[k - 1], xs[k])]
  <2>2. \A k \in 0..m : g[k] = IF k = 0 THEN op ELSE ConstantAdded(g[k - 1], xs[k])
    <3> HIDE DEF h
    <3> QED BY <2>1
  <2>3. \A k \in 0..m : h[k] = IF k = 0 THEN op ELSE ConstantAdded(g[k - 1], xs[k])
    <3>1. \A k \in 0..m : k \in 0..(m + 1)
      OBVIOUS
    <3> QED BY <3>1
  <2>4. \A k \in 0..m : h[k] = g[k]
    <3> HIDE DEF h
    <3> QED BY <2>2, <2>3
  <2>5. \A k \in 0..(m + 1) : k # 0 => k - 1 \in 0..m
    OBVIOUS
  <2>6. h = [k \in 0..(m + 1) |-> IF k = 0 THEN op ELSE ConstantAdded(h[k - 1], xs[k])]
    <3>1. \A k \in 0..(m + 1) : k # 0 => h[k - 1] = g[k - 1]
      <4> HIDE DEF h
      <4> QED BY <2>4, <2>5
    <3>2. \A k \in 0..(m + 1) : h[k] = IF k = 0 THEN op ELSE ConstantAdded(g[k - 1], xs[k])
      OBVIOUS
    <3>3. h = [k \in 0..(m + 1) |-> h[k]]
      OBVIOUS
    <3> HIDE DEF h
    <3>4. \A k \in 0..(m + 1) : h[k] = IF k = 0 THEN op ELSE ConstantAdded(h[k - 1], xs[k])
      BY <3>1, <3>2
    <3> QED BY <3>3, <3>4
  <2>7. Step(h, m + 1)
    <3> HIDE DEF h
    <3> QED BY <2>6
  <2> HIDE DEF Step, h
  <2> QED BY <2>7
<1>3. n \in Q
  <2> HIDE DEF Q
  <2> QED BY <1>1, <1>2, SetInduction
<1>4. \E f : Step(f, n)
  <2> HIDE DEF Step
  <2> QED BY <1>3
<1> QED BY <1>4

(* ConstantsAdded, constant by constant.                                   *)
LEMMA ConstantsSteps ==
    ASSUME NEW op, NEW xs, Len(xs) \in Nat
    PROVE  /\ ConstantsAdded(op, xs)[0] = op
           /\ \A k \in 1..Len(xs) : ConstantsAdded(op, xs)[k] = ConstantAdded(ConstantsAdded(op, xs)[k - 1], xs[k])
<1> DEFINE c == CHOOSE f : f = [k \in 0..Len(xs) |-> IF k = 0 THEN op ELSE ConstantAdded(f[k - 1], xs[k])]
<1>1. ConstantsAdded(op, xs) = c
  BY Zenon DEF ConstantsAdded
<1>2. c = [k \in 0..Len(xs) |-> IF k = 0 THEN op ELSE ConstantAdded(c[k - 1], xs[k])]
  BY ConstantsExist
<1> HIDE DEF c
<1>3. \A k \in 0..Len(xs) : c[k] = IF k = 0 THEN op ELSE ConstantAdded(c[k - 1], xs[k])
  BY <1>2
<1>4. 0 \in 0..Len(xs) /\ \A k \in 1..Len(xs) : k \in 0..Len(xs) /\ k # 0
  OBVIOUS
<1>5. c[0] = op /\ \A k \in 1..Len(xs) : c[k] = ConstantAdded(c[k - 1], xs[k])
  BY <1>3, <1>4
<1> QED BY <1>1, <1>5

(* The operations when the first k tables have their scans.                *)
LEMMA ScansExist ==
    ASSUME NEW s, NEW ts, Len(ts) \in Nat
    PROVE  \E f : f = [k \in 0..Len(ts) |-> IF k = 0 THEN s ELSE GiveScan(f[k - 1], ts[k])]
<1> DEFINE n == Len(ts)
           Step(f, m) == f = [k \in 0..m |-> IF k = 0 THEN s ELSE GiveScan(f[k - 1], ts[k])]
           Q == {m \in Nat : \E f : Step(f, m)}
<1>1. 0 \in Q
  <2>1. Step([k \in 0..0 |-> s], 0)
    OBVIOUS
  <2> HIDE DEF Step
  <2> QED BY <2>1
<1>2. ASSUME NEW m \in Nat, m \in Q PROVE m + 1 \in Q
  <2>1. PICK g : Step(g, m)
    <3> HIDE DEF Step
    <3> QED BY <1>2
  <2> DEFINE h == [k \in 0..(m + 1) |-> IF k = 0 THEN s ELSE GiveScan(g[k - 1], ts[k])]
  <2>2. \A k \in 0..m : g[k] = IF k = 0 THEN s ELSE GiveScan(g[k - 1], ts[k])
    <3> HIDE DEF h
    <3> QED BY <2>1
  <2>3. \A k \in 0..m : h[k] = IF k = 0 THEN s ELSE GiveScan(g[k - 1], ts[k])
    <3>1. \A k \in 0..m : k \in 0..(m + 1)
      OBVIOUS
    <3> QED BY <3>1
  <2>4. \A k \in 0..m : h[k] = g[k]
    <3> HIDE DEF h
    <3> QED BY <2>2, <2>3
  <2>5. \A k \in 0..(m + 1) : k # 0 => k - 1 \in 0..m
    OBVIOUS
  <2>6. h = [k \in 0..(m + 1) |-> IF k = 0 THEN s ELSE GiveScan(h[k - 1], ts[k])]
    <3>1. \A k \in 0..(m + 1) : k # 0 => h[k - 1] = g[k - 1]
      <4> HIDE DEF h
      <4> QED BY <2>4, <2>5
    <3>2. \A k \in 0..(m + 1) : h[k] = IF k = 0 THEN s ELSE GiveScan(g[k - 1], ts[k])
      OBVIOUS
    <3>3. h = [k \in 0..(m + 1) |-> h[k]]
      OBVIOUS
    <3> HIDE DEF h
    <3>4. \A k \in 0..(m + 1) : h[k] = IF k = 0 THEN s ELSE GiveScan(h[k - 1], ts[k])
      BY <3>1, <3>2
    <3> QED BY <3>3, <3>4
  <2>7. Step(h, m + 1)
    <3> HIDE DEF h
    <3> QED BY <2>6
  <2> HIDE DEF Step, h
  <2> QED BY <2>7
<1>3. n \in Q
  <2> HIDE DEF Q
  <2> QED BY <1>1, <1>2, SetInduction
<1>4. \E f : Step(f, n)
  <2> HIDE DEF Step
  <2> QED BY <1>3
<1> QED BY <1>4

(* Scanned, table by table.                                                *)
LEMMA ScansSteps ==
    ASSUME NEW s, NEW ts, Len(ts) \in Nat
    PROVE  /\ Scanned(s, ts)[0] = s
           /\ \A k \in 1..Len(ts) : Scanned(s, ts)[k] = GiveScan(Scanned(s, ts)[k - 1], ts[k])
<1> DEFINE c == CHOOSE f : f = [k \in 0..Len(ts) |-> IF k = 0 THEN s ELSE GiveScan(f[k - 1], ts[k])]
<1>1. Scanned(s, ts) = c
  BY Zenon DEF Scanned
<1>2. c = [k \in 0..Len(ts) |-> IF k = 0 THEN s ELSE GiveScan(c[k - 1], ts[k])]
  BY ScansExist
<1> HIDE DEF c
<1>3. \A k \in 0..Len(ts) : c[k] = IF k = 0 THEN s ELSE GiveScan(c[k - 1], ts[k])
  BY <1>2
<1>4. 0 \in 0..Len(ts) /\ \A k \in 1..Len(ts) : k \in 0..Len(ts) /\ k # 0
  OBVIOUS
<1>5. c[0] = s /\ \A k \in 1..Len(ts) : c[k] = GiveScan(c[k - 1], ts[k])
  BY <1>3, <1>4
<1> QED BY <1>1, <1>5

(* The searches by the first k indexes of a network.                       *)
LEMMA SearchesExist ==
    ASSUME NEW net, Len(net.used) \in Nat
    PROVE  \E f : f = [k \in 0..Len(net.used) |-> IF k = 0 THEN Null ELSE WithIndex(f[k - 1], SearchOp(net, net.used[k]))]
<1> DEFINE n == Len(net.used)
           Step(f, m) == f = [k \in 0..m |-> IF k = 0 THEN Null ELSE WithIndex(f[k - 1], SearchOp(net, net.used[k]))]
           Q == {m \in Nat : \E f : Step(f, m)}
<1>1. 0 \in Q
  <2>1. Step([k \in 0..0 |-> Null], 0)
    OBVIOUS
  <2> HIDE DEF Step
  <2> QED BY <2>1
<1>2. ASSUME NEW m \in Nat, m \in Q PROVE m + 1 \in Q
  <2>1. PICK g : Step(g, m)
    <3> HIDE DEF Step
    <3> QED BY <1>2
  <2> DEFINE h == [k \in 0..(m + 1) |-> IF k = 0 THEN Null ELSE WithIndex(g[k - 1], SearchOp(net, net.used[k]))]
  <2>2. \A k \in 0..m : g[k] = IF k = 0 THEN Null ELSE WithIndex(g[k - 1], SearchOp(net, net.used[k]))
    <3> HIDE DEF h
    <3> QED BY <2>1
  <2>3. \A k \in 0..m : h[k] = IF k = 0 THEN Null ELSE WithIndex(g[k - 1], SearchOp(net, net.used[k]))
    <3>1. \A k \in 0..m : k \in 0..(m + 1)
      OBVIOUS
    <3> QED BY <3>1
  <2>4. \A k \in 0..m : h[k] = g[k]
    <3> HIDE DEF h
    <3> QED BY <2>2, <2>3
  <2>5. \A k \in 0..(m + 1) : k # 0 => k - 1 \in 0..m
    OBVIOUS
  <2>6. h = [k \in 0..(m + 1) |-> IF k = 0 THEN Null ELSE WithIndex(h[k - 1], SearchOp(net, net.used[k]))]
    <3>1. \A k \in 0..(m + 1) : k # 0 => h[k - 1] = g[k - 1]
      <4> HIDE DEF h
      <4> QED BY <2>4, <2>5
    <3>2. \A k \in 0..(m + 1) : h[k] = IF k = 0 THEN Null ELSE WithIndex(g[k - 1], SearchOp(net, net.used[k]))
      OBVIOUS
    <3>3. h = [k \in 0..(m + 1) |-> h[k]]
      OBVIOUS
    <3> HIDE DEF h
    <3>4. \A k \in 0..(m + 1) : h[k] = IF k = 0 THEN Null ELSE WithIndex(h[k - 1], SearchOp(net, net.used[k]))
      BY <3>1, <3>2
    <3> QED BY <3>3, <3>4
  <2>7. Step(h, m + 1)
    <3> HIDE DEF h
    <3> QED BY <2>6
  <2> HIDE DEF Step, h
  <2> QED BY <2>7
<1>3. n \in Q
  <2> HIDE DEF Q
  <2> QED BY <1>1, <1>2, SetInduction
<1>4. \E f : Step(f, n)
  <2> HIDE DEF Step
  <2> QED BY <1>3
<1> QED BY <1>4

(* Searched, index by index.                                               *)
LEMMA SearchesSteps ==
    ASSUME NEW net, Len(net.used) \in Nat
    PROVE  /\ Searched(net)[0] = Null
           /\ \A k \in 1..Len(net.used) : Searched(net)[k] = WithIndex(Searched(net)[k - 1], SearchOp(net, net.used[k]))
<1> DEFINE c == CHOOSE f : f = [k \in 0..Len(net.used) |-> IF k = 0 THEN Null ELSE WithIndex(f[k - 1], SearchOp(net, net.used[k]))]
<1>1. Searched(net) = c
  BY Zenon DEF Searched
<1>2. c = [k \in 0..Len(net.used) |-> IF k = 0 THEN Null ELSE WithIndex(c[k - 1], SearchOp(net, net.used[k]))]
  BY SearchesExist
<1> HIDE DEF c
<1>3. \A k \in 0..Len(net.used) : c[k] = IF k = 0 THEN Null ELSE WithIndex(c[k - 1], SearchOp(net, net.used[k]))
  BY <1>2
<1>4. 0 \in 0..Len(net.used) /\ \A k \in 1..Len(net.used) : k \in 0..Len(net.used) /\ k # 0
  OBVIOUS
<1>5. c[0] = Null /\ \A k \in 1..Len(net.used) : c[k] = WithIndex(c[k - 1], SearchOp(net, net.used[k]))
  BY <1>3, <1>4
<1> QED BY <1>1, <1>5

(* What trying the first k indexes has found.                              *)
LEMMA TriesExist ==
    ASSUME NEW indexes, NEW a, NEW selected, Len(indexes) \in Nat
    PROVE  \E f : f = [k \in 0..Len(indexes) |-> IF k = 0 THEN Nothing ELSE TryUntilDone(f[k - 1], indexes[k], a, selected)]
<1> DEFINE n == Len(indexes)
           Step(f, m) == f = [k \in 0..m |-> IF k = 0 THEN Nothing ELSE TryUntilDone(f[k - 1], indexes[k], a, selected)]
           Q == {m \in Nat : \E f : Step(f, m)}
<1>1. 0 \in Q
  <2>1. Step([k \in 0..0 |-> Nothing], 0)
    OBVIOUS
  <2> HIDE DEF Step
  <2> QED BY <2>1
<1>2. ASSUME NEW m \in Nat, m \in Q PROVE m + 1 \in Q
  <2>1. PICK g : Step(g, m)
    <3> HIDE DEF Step
    <3> QED BY <1>2
  <2> DEFINE h == [k \in 0..(m + 1) |-> IF k = 0 THEN Nothing ELSE TryUntilDone(g[k - 1], indexes[k], a, selected)]
  <2>2. \A k \in 0..m : g[k] = IF k = 0 THEN Nothing ELSE TryUntilDone(g[k - 1], indexes[k], a, selected)
    <3> HIDE DEF h
    <3> QED BY <2>1
  <2>3. \A k \in 0..m : h[k] = IF k = 0 THEN Nothing ELSE TryUntilDone(g[k - 1], indexes[k], a, selected)
    <3>1. \A k \in 0..m : k \in 0..(m + 1)
      OBVIOUS
    <3> QED BY <3>1
  <2>4. \A k \in 0..m : h[k] = g[k]
    <3> HIDE DEF h
    <3> QED BY <2>2, <2>3
  <2>5. \A k \in 0..(m + 1) : k # 0 => k - 1 \in 0..m
    OBVIOUS
  <2>6. h = [k \in 0..(m + 1) |-> IF k = 0 THEN Nothing ELSE TryUntilDone(h[k - 1], indexes[k], a, selected)]
    <3>1. \A k \in 0..(m + 1) : k # 0 => h[k - 1] = g[k - 1]
      <4> HIDE DEF h
      <4> QED BY <2>4, <2>5
    <3>2. \A k \in 0..(m + 1) : h[k] = IF k = 0 THEN Nothing ELSE TryUntilDone(g[k - 1], indexes[k], a, selected)
      OBVIOUS
    <3>3. h = [k \in 0..(m + 1) |-> h[k]]
      OBVIOUS
    <3> HIDE DEF h
    <3>4. \A k \in 0..(m + 1) : h[k] = IF k = 0 THEN Nothing ELSE TryUntilDone(h[k - 1], indexes[k], a, selected)
      BY <3>1, <3>2
    <3> QED BY <3>3, <3>4
  <2>7. Step(h, m + 1)
    <3> HIDE DEF h
    <3> QED BY <2>6
  <2> HIDE DEF Step, h
  <2> QED BY <2>7
<1>3. n \in Q
  <2> HIDE DEF Q
  <2> QED BY <1>1, <1>2, SetInduction
<1>4. \E f : Step(f, n)
  <2> HIDE DEF Step
  <2> QED BY <1>3
<1> QED BY <1>4

(* Tried, index by index.                                                  *)
LEMMA TriesSteps ==
    ASSUME NEW indexes, NEW a, NEW selected, Len(indexes) \in Nat
    PROVE  /\ Tried(indexes, a, selected)[0] = Nothing
           /\ \A k \in 1..Len(indexes) : Tried(indexes, a, selected)[k] = TryUntilDone(Tried(indexes, a, selected)[k - 1], indexes[k], a, selected)
<1> DEFINE c == CHOOSE f : f = [k \in 0..Len(indexes) |-> IF k = 0 THEN Nothing ELSE TryUntilDone(f[k - 1], indexes[k], a, selected)]
<1>1. Tried(indexes, a, selected) = c
  BY Zenon DEF Tried
<1>2. c = [k \in 0..Len(indexes) |-> IF k = 0 THEN Nothing ELSE TryUntilDone(c[k - 1], indexes[k], a, selected)]
  BY TriesExist
<1> HIDE DEF c
<1>3. \A k \in 0..Len(indexes) : c[k] = IF k = 0 THEN Nothing ELSE TryUntilDone(c[k - 1], indexes[k], a, selected)
  BY <1>2
<1>4. 0 \in 0..Len(indexes) /\ \A k \in 1..Len(indexes) : k \in 0..Len(indexes) /\ k # 0
  OBVIOUS
<1>5. c[0] = Nothing /\ \A k \in 1..Len(indexes) : c[k] = TryUntilDone(c[k - 1], indexes[k], a, selected)
  BY <1>3, <1>4
<1> QED BY <1>1, <1>5

-----------------------------------------------------------------------------
(* The elements of a sequence that are in a set.                           *)
FirstOf(s, k) == {s[j] : j \in 1..k}

(* The first k elements that are in S.                                     *)
LEMMA AmongFirstIs ==
    ASSUME NEW s, IsList(s), NEW S, NEW X, X = ToSet(s) \cap S
    PROVE  \A k \in 0..Len(s) : /\ AmongFirst(s, S)[k] \in Seq(X)
                                /\ ToSet(AmongFirst(s, S)[k]) = FirstOf(s, k) \cap S
<1> DEFINE n == Len(s)
           f == AmongFirst(s, S)
           Good(k) == f[k] \in Seq(X) /\ ToSet(f[k]) = FirstOf(s, k) \cap S
           Q == {k \in Nat : k <= n => Good(k)}
<1>0. n \in Nat /\ DOMAIN s = 1..n /\ \A k \in 1..n : s[k] \in ToSet(s)
  BY ListFacts DEF ToSet
<1>1. f[0] = <<>> /\ \A k \in 1..n : f[k] = AmongAt(f[k - 1], s[k], S)
  BY <1>0, AmongSteps
<1> HIDE DEF f
<1>2. 0 \in Q
  <2>1. FirstOf(s, 0) = {}
    BY DEF FirstOf
  <2>2. f[0] \in Seq(X) /\ ToSet(f[0]) = {}
    BY <1>1, SetOfNone
  <2>3. ToSet(f[0]) = FirstOf(s, 0) \cap S
    BY <2>1, <2>2
  <2> QED BY <2>2, <2>3
<1>3. ASSUME NEW k \in Nat, k \in Q PROVE k + 1 \in Q
  <2> SUFFICES ASSUME k + 1 <= n PROVE Good(k + 1)
    OBVIOUS
  <2> DEFINE p == f[k]
             x == s[k + 1]
             q == f[k + 1]
  <2>1. p \in Seq(X) /\ ToSet(p) = FirstOf(s, k) \cap S
    BY <1>3
  <2>2. q = AmongAt(p, x, S) /\ x \in ToSet(s)
    <3>1. k + 1 \in 1..n /\ (k + 1) - 1 = k
      OBVIOUS
    <3> QED BY <1>0, <1>1, <3>1
  <2>3. FirstOf(s, k + 1) = FirstOf(s, k) \cup {x}
    <3>1. 1..(k + 1) = 1..k \cup {k + 1}
      OBVIOUS
    <3> QED BY <3>1 DEF FirstOf
  <2> HIDE DEF p, x, q
  <2>4. CASE x \in S
    <3>1. q = Append(p, x) /\ x \in X
      BY <2>2, <2>4 DEF AmongAt
    <3>2. <<x>> \in Seq(X) /\ q = p \o <<x>> /\ q \in Seq(X)
      BY <2>1, <3>1
    <3> DEFINE y == <<x>>
    <3>3. y \in Seq(X) /\ q = p \o y /\ ToSet(y) = {x}
      BY <3>2, SetOfOne
    <3> HIDE DEF y
    <3>4. ToSet(q) = ToSet(p) \cup {x}
      BY <2>1, <3>3, BothSets
    <3>5. q \in Seq(X) /\ ToSet(q) = FirstOf(s, k + 1) \cap S
      BY <2>1, <2>3, <2>4, <3>2, <3>4
    <3> QED BY <3>5 DEF q
  <2>5. CASE x \notin S
    <3>1. q = p
      BY <2>2, <2>5 DEF AmongAt
    <3>2. q \in Seq(X) /\ ToSet(q) = FirstOf(s, k + 1) \cap S
      BY <2>1, <2>3, <2>5, <3>1
    <3> QED BY <3>2 DEF q
  <2> QED BY <2>4, <2>5
<1>4. \A k \in Nat : k \in Q
  <2> HIDE DEF Q
  <2> QED BY <1>2, <1>3, SetInduction
<1> HIDE DEF Good
<1>5. \A k \in 0..n : k \in Nat /\ k <= n
  BY <1>0
<1>6. \A k \in 0..n : Good(k)
  BY <1>4, <1>5
<1> QED BY <1>6 DEF Good, f

(* All of them.                                                            *)
LEMMA AmongIs ==
    ASSUME NEW s, IsList(s), NEW S
    PROVE  /\ IsList(Among(s, S)) /\ Among(s, S) \in Seq(ToSet(s))
           /\ ToSet(Among(s, S)) = ToSet(s) \cap S
           /\ Among(s, S) = <<>> <=> ToSet(s) \cap S = {}
<1> DEFINE a == Among(s, S)
           X == ToSet(s) \cap S
<1>1. Len(s) \in Nat /\ ToSet(s) = FirstOf(s, Len(s))
  BY ListFacts DEF FirstOf
<1>2. a \in Seq(X) /\ ToSet(a) = FirstOf(s, Len(s)) \cap S
  <2>1. Len(s) \in 0..Len(s)
    BY <1>1
  <2> QED BY <2>1, AmongFirstIs DEF Among
<1>3. ToSet(a) = X
  BY <1>1, <1>2
<1> HIDE DEF a
<1>4. IsList(a)
  BY <1>2, SeqIsList
<1>5. a \in Seq(ToSet(s))
  BY <1>2
<1>6. a = <<>> <=> X = {}
  BY <1>3, <1>4, ListFacts, SetOfNone
<1> QED BY <1>3, <1>4, <1>5, <1>6 DEF a

(* States of planning.                                                     *)
IsState(s) == s = [ops |-> s.ops, used |-> s.used]

(* The operations and comparisons used so far are a state.                 *)
LEMMA PlannedIs == /\ IsState(Planned)
                   /\ Planned.ops = tables_operations /\ Planned.used = used_exp
  BY DEF IsState, Planned

(* Whatever table had the old operation has the new one.                   *)
LEMMA ReplaceIs ==
    ASSUME NEW s, IsState(s), NEW old, NEW new
    PROVE  /\ IsState(Replace(s, old, new))
           /\ Replace(s, old, new).ops = [t \in Tables |-> IF s.ops[t] = old THEN new ELSE s.ops[t]]
           /\ Replace(s, old, new).used = s.used
<1>1. PICK f, u : s = [ops |-> f, used |-> u]
  BY DEF IsState
<1>2. s.ops = f /\ s.used = u
  BY <1>1
<1>3. Replace(s, old, new) = [ops |-> [t \in Tables |-> IF f[t] = old THEN new ELSE f[t]], used |-> u]
  BY <1>1 DEF Replace
<1> QED BY <1>2, <1>3 DEF IsState

(* The operations stay, the comparisons are used.                          *)
LEMMA UseIs ==
    ASSUME NEW s, IsState(s), NEW exps
    PROVE  /\ IsState(Use(s, exps))
           /\ Use(s, exps).ops = s.ops
           /\ Use(s, exps).used = s.used \cup IdsIn(exps)
<1>1. PICK f, u : s = [ops |-> f, used |-> u]
  BY DEF IsState
<1>2. s.ops = f /\ s.used = u
  BY <1>1
<1>3. Use(s, exps) = [ops |-> f, used |-> u \cup IdsIn(exps)]
  <2>1. Use(s, exps) = [s EXCEPT !.used = @ \cup IdsIn(exps)]
    BY DEF Use, IdsIn
  <2> QED BY <1>1, <2>1
<1> QED BY <1>2, <1>3 DEF IsState

JoinExps(s, t1, t2) == NumOfFilter(s, TablesWith(s, s.ops[t1]), TablesWith(s, s.ops[t2]))

(* A join becomes the operation of every table that had one of the two it  *)
(* joins.                                                                  *)
LEMMA JoinBothIs ==
    ASSUME NEW s, IsState(s), NEW t1, NEW t2, NEW join,
           NEW node, node = Filtered(join, JoinExps(s, t1, t2)),
           NEW s1, s1 = JoinBoth(s, t1, t2, join)
    PROVE  /\ IsState(s1)
           /\ s1.ops = [t \in Tables |-> IF s.ops[t] \in {s.ops[t1], s.ops[t2]} THEN node
                                         ELSE s.ops[t]]
           /\ s1.used = s.used \cup IdsIn(JoinExps(s, t1, t2))
<1> DEFINE a == Replace(s, s.ops[t1], node)
           b == Replace(a, s.ops[t2], node)
           exps == JoinExps(s, t1, t2)
<1>1. s1 = Use(b, exps)
  BY DEF JoinBoth, JoinExps
<1>2. /\ IsState(a) /\ a.used = s.used
      /\ a.ops = [t \in Tables |-> IF s.ops[t] = s.ops[t1] THEN node ELSE s.ops[t]]
  BY ReplaceIs
<1> HIDE DEF a
<1>3. /\ IsState(b) /\ b.used = a.used
      /\ b.ops = [t \in Tables |-> IF a.ops[t] = s.ops[t2] THEN node ELSE a.ops[t]]
  BY <1>2, ReplaceIs
<1> HIDE DEF b, exps
<1>4. IsState(s1) /\ s1.ops = b.ops /\ s1.used = b.used \cup IdsIn(exps)
  BY <1>1, <1>3, UseIs
<1>5. \A t \in Tables : b.ops[t] = IF s.ops[t] \in {s.ops[t1], s.ops[t2]} THEN node ELSE s.ops[t]
  BY <1>2, <1>3
<1>6. b.ops = [t \in Tables |-> IF s.ops[t] \in {s.ops[t1], s.ops[t2]} THEN node ELSE s.ops[t]]
  <2>1. b.ops = [t \in Tables |-> b.ops[t]]
    BY <1>3
  <2> QED BY <1>5, <2>1
<1> QED BY <1>2, <1>3, <1>4, <1>6 DEF exps

(* The operations of some tables.                                          *)
OpsOf(f, F) == {f[t] : t \in F}

(* Joining two of the operations of the tables F leaves fewer: the two     *)
(* have gone, the join is one.                                             *)
LEMMA FewerOperations ==
    ASSUME NEW F, IsFiniteSet(F), NEW f, NEW g, NEW node, NEW a \in F, NEW b \in F, f[a] # f[b],
           \A t \in F : g[t] = IF f[t] \in {f[a], f[b]} THEN node ELSE f[t]
    PROVE  Cardinality(OpsOf(g, F)) < Cardinality(OpsOf(f, F))
<1> DEFINE X == OpsOf(f, F)
           Y == OpsOf(g, F)
           Z == (X \ {f[a]}) \ {f[b]}
<1>1. IsFiniteSet(X)
  <2>1. [t \in F |-> f[t]] \in Surjection(F, X)
    BY DEF Surjection, OpsOf
  <2> QED BY <2>1, FS_Surjection
<1>2. f[a] \in X /\ f[b] \in X
  BY DEF OpsOf
<1>3. Y \subseteq Z \cup {node}
  <2>1. ASSUME NEW t \in F PROVE g[t] \in Z \cup {node}
    <3>1. f[t] \in X
      BY DEF OpsOf
    <3> HIDE DEF X
    <3> QED BY <3>1
  <2> HIDE DEF Z
  <2> QED BY <2>1 DEF OpsOf
<1> HIDE DEF X, Y
<1>4. /\ IsFiniteSet(X \ {f[a]}) /\ Cardinality(X \ {f[a]}) = Cardinality(X) - 1
  BY <1>1, <1>2, FS_RemoveElement
<1>5. IsFiniteSet(Z) /\ Cardinality(Z) = Cardinality(X \ {f[a]}) - 1
  <2>1. f[b] \in X \ {f[a]}
    BY <1>2
  <2> QED BY <1>4, <2>1, FS_RemoveElement
<1> HIDE DEF Z
<1>6. IsFiniteSet(Z \cup {node}) /\ Cardinality(Z \cup {node}) <= Cardinality(Z) + 1
  <2>1. Cardinality(Z) \in Nat
    BY <1>5, FS_CardinalityType
  <2>2. IsFiniteSet(Z \cup {node}) /\ (Cardinality(Z \cup {node}) = Cardinality(Z)
                                       \/ Cardinality(Z \cup {node}) = Cardinality(Z) + 1)
    BY <1>5, FS_AddElement
  <2> QED BY <2>1, <2>2
<1>7. Cardinality(Y) <= Cardinality(Z \cup {node}) /\ IsFiniteSet(Y)
  BY <1>3, <1>6, FS_Subset
<1>8. Cardinality(X) \in Nat /\ Cardinality(Y) \in Nat /\ Cardinality(Z) \in Nat
      /\ Cardinality(Z \cup {node}) \in Nat
  BY <1>1, <1>5, <1>6, <1>7, FS_CardinalityType
<1>9. Cardinality(Y) < Cardinality(X)
  BY <1>4, <1>5, <1>6, <1>7, <1>8
<1> QED BY <1>9 DEF X, Y

(* The tables of the query, each once and at least one.                    *)
LEMMA FromIs ==
    ASSUME Prepared
    PROVE  /\ IsList(from) /\ from # <<>> /\ from \in Seq(Tables) /\ IsInjective(from)
           /\ ToSet(from) \subseteq Tables /\ Head(from) \in ToSet(from)
           /\ IsFiniteSet(ToSet(from))
<1>1. from \in Seq(Tables) /\ from # <<>> /\ IsInjective(from)
  BY PlannerAssumption DEF Prepared, IsQuery, from
<1> HIDE DEF from
<1>2. IsList(from) /\ ToSet(from) \subseteq Tables
  BY <1>1, SeqIsList
<1>3. Head(from) \in ToSet(from)
  BY <1>1, <1>2, ListFacts
<1>4. IsFiniteSet(Tables)
  <2>1. Len(RowOrder) \in Nat
    BY PlannerAssumption, ListFacts
  <2> QED BY <2>1, FS_Interval DEF Tables
<1>5. IsFiniteSet(ToSet(from))
  BY <1>2, <1>4, FS_Subset
<1> QED BY <1>1, <1>2, <1>3, <1>5

(* The tables whose operation is not the first one's.                      *)
LEMMA ApartIs ==
    ASSUME Prepared, NEW f, NEW r, r = Apart(f)
    PROVE  /\ ToSet(r) = {t \in ToSet(from) : f[t] # f[Head(from)]}
           /\ r # <<>> => Head(r) \in ToSet(from) /\ f[Head(r)] # f[Head(from)]
           /\ r = <<>> <=> \A t \in ToSet(from) : f[t] = f[Head(from)]
<1> DEFINE S == {t \in ToSet(from) : f[t] # f[Head(from)]}
<1>1. r = Among(from, S) /\ IsList(from)
  BY FromIs DEF Apart
<1> HIDE DEF from
<1>2. S \subseteq ToSet(from) /\ S = {t \in ToSet(from) : f[t] # f[Head(from)]}
  OBVIOUS
<1> HIDE DEF S
<1>3. IsList(r) /\ ToSet(r) = S /\ (r = <<>> <=> S = {})
  BY <1>1, <1>2, AmongIs
<1>4. r # <<>> => Head(r) \in S
  BY <1>3, ListFacts
<1> QED BY <1>2, <1>3, <1>4

(* When pc is at uniting, nothing else can happen.                         *)
LEMMA OnlyUniting == ASSUME pc = "uniting", [Next]_vars PROVE Unite \/ UNCHANGED vars
<1>1. ~ Onwards
  BY DEF Onwards, NextLoop
<1>2. ~ (ScanUnmentioned \/ NestUnmentioned \/ LookUpAllConstants \/ JoinForeignKeys \/ SearchTables)
  BY DEF ScanUnmentioned, NestUnmentioned, LookUpAllConstants, JoinForeignKeys, SearchTables, Turn
<1>3. ~ (JoinByHash \/ JoinByMerge \/ ScanRest \/ ScanOnly \/ SearchAreas \/ TakeDerived)
  BY DEF JoinByHash, JoinByMerge, ScanRest, Turn, ScanOnly, SearchAreas, TakeDerived
<1>4. ~ (InitResources \/ PrepareCondition)
  BY DEF InitResources, PrepareCondition, RemoveNot, Count, Collect
<1> QED BY <1>1, <1>2, <1>3, <1>4, Zenon DEF Next

(* while(true) of the joins ends: each turn but the last leaves fewer      *)
(* operations to unite (result.cpp).                                       *)
THEOREM UnitingGoesOn == Spec => UnitesMore
<1>1. ASSUME Prepared, [Next]_vars
      PROVE  [pc = "uniting" /\ pc' = "uniting" =>
                OperationsLeft(tables_operations') < OperationsLeft(tables_operations)]_vars
  <2> SUFFICES ASSUME pc = "uniting", pc' = "uniting", ~ UNCHANGED vars
               PROVE  OperationsLeft(tables_operations') < OperationsLeft(tables_operations)
    OBVIOUS
  <2> DEFINE f == tables_operations
             g == tables_operations'
             r == Apart(f)
             first == Head(from)
             t2 == Head(r)
             join == NestedJoin(f[first], f[t2])
             node == Filtered(join, JoinExps(Planned, first, t2))
             s1 == JoinBoth(Planned, first, t2, join)
  <2>1. Unite
    BY <1>1, OnlyUniting
  <2>2. query' = query /\ Apart(g) # <<>>
    BY <2>1 DEF Unite
  <2>3. r # <<>>
    <3> SUFFICES ASSUME r = <<>> PROVE FALSE
      OBVIOUS
    <3>1. g = f
      BY <2>1, PlannedIs DEF Unite, Set
    <3> QED BY <2>2, <3>1
  <2>4. g = s1.ops
    BY <2>1, <2>3 DEF Unite, Set
  <2>5. first \in ToSet(from) /\ ToSet(from) \subseteq Tables /\ IsFiniteSet(ToSet(from))
    BY <1>1, FromIs
  <2>6. t2 \in ToSet(from) /\ f[t2] # f[first]
    BY <1>1, <2>3, ApartIs
  <2>7. IsState(Planned) /\ Planned.ops = f
    BY PlannedIs
  <2> HIDE DEF f, g, r, first, t2, join, node, s1, from
  <2>8. s1.ops = [t \in Tables |-> IF Planned.ops[t] \in {Planned.ops[first], Planned.ops[t2]}
                                   THEN node ELSE Planned.ops[t]]
    BY <2>7, JoinBothIs DEF node, s1
  <2>9. \A t \in ToSet(from) : g[t] = IF f[t] \in {f[first], f[t2]} THEN node ELSE f[t]
    BY <2>4, <2>5, <2>7, <2>8
  <2>10. Cardinality(OpsOf(g, ToSet(from))) < Cardinality(OpsOf(f, ToSet(from)))
    BY <2>5, <2>6, <2>9, FewerOperations
  <2>11. from' = from
    BY <2>2 DEF from
  <2>12. OperationsLeft(f) = Cardinality(OpsOf(f, ToSet(from)))
    BY DEF OperationsLeft, OpsOf
  <2>13. OperationsLeft(tables_operations') = Cardinality(OpsOf(g, ToSet(from)))
    BY <2>11 DEF OperationsLeft, OpsOf, g
  <2> QED BY <2>10, <2>12, <2>13 DEF f
<1>2. Prepared /\ [Next]_vars =>
         [pc = "uniting" /\ pc' = "uniting" =>
            OperationsLeft(tables_operations') < OperationsLeft(tables_operations)]_vars
  BY <1>1
<1> QED BY <1>2, PlanningPrepared, PTL DEF UnitesMore, Spec

-----------------------------------------------------------------------------
(* Plans.                                                                  *)
KidsOf(S) == UNION {ToSet(k.kids) : k \in S}

(* The nodes of a plan k levels below its top.                             *)
LEMMA DeepeningExist ==
    ASSUME NEW top, NEW n \in Nat
    PROVE  \E f : f = [k \in 0..n |-> IF k = 0 THEN {top} ELSE KidsOf(f[k - 1])]
<1> DEFINE Step(f, m) == f = [k \in 0..m |-> IF k = 0 THEN {top} ELSE KidsOf(f[k - 1])]
           Q == {m \in Nat : \E f : Step(f, m)}
<1>1. 0 \in Q
  <2>1. Step([k \in 0..0 |-> {top}], 0)
    OBVIOUS
  <2> HIDE DEF Step
  <2> QED BY <2>1
<1>2. ASSUME NEW m \in Nat, m \in Q PROVE m + 1 \in Q
  <2>1. PICK g : Step(g, m)
    <3> HIDE DEF Step
    <3> QED BY <1>2
  <2> DEFINE h == [k \in 0..(m + 1) |-> IF k = 0 THEN {top} ELSE KidsOf(g[k - 1])]
  <2>2. \A k \in 0..m : g[k] = IF k = 0 THEN {top} ELSE KidsOf(g[k - 1])
    <3> HIDE DEF h
    <3> QED BY <2>1
  <2>3. \A k \in 0..m : h[k] = IF k = 0 THEN {top} ELSE KidsOf(g[k - 1])
    <3>1. \A k \in 0..m : k \in 0..(m + 1)
      OBVIOUS
    <3> QED BY <3>1
  <2>4. \A k \in 0..m : h[k] = g[k]
    <3> HIDE DEF h
    <3> QED BY <2>2, <2>3
  <2>5. \A k \in 0..(m + 1) : k # 0 => k - 1 \in 0..m
    OBVIOUS
  <2>6. h = [k \in 0..(m + 1) |-> IF k = 0 THEN {top} ELSE KidsOf(h[k - 1])]
    <3>1. \A k \in 0..(m + 1) : k # 0 => h[k - 1] = g[k - 1]
      <4> HIDE DEF h
      <4> QED BY <2>4, <2>5
    <3>2. \A k \in 0..(m + 1) : h[k] = IF k = 0 THEN {top} ELSE KidsOf(g[k - 1])
      OBVIOUS
    <3>3. h = [k \in 0..(m + 1) |-> h[k]]
      OBVIOUS
    <3> HIDE DEF h
    <3>4. \A k \in 0..(m + 1) : h[k] = IF k = 0 THEN {top} ELSE KidsOf(h[k - 1])
      BY <3>1, <3>2
    <3> QED BY <3>3, <3>4
  <2>7. Step(h, m + 1)
    <3> HIDE DEF h
    <3> QED BY <2>6
  <2> HIDE DEF Step, h
  <2> QED BY <2>7
<1>3. n \in Q
  <2> HIDE DEF Q
  <2> QED BY <1>1, <1>2, SetInduction
<1>4. \E f : Step(f, n)
  <2> HIDE DEF Step
  <2> QED BY <1>3
<1> QED BY <1>4


(* Each level is the kids of the level above.                              *)
LEMMA LevelsAre ==
    ASSUME NEW top
    PROVE  /\ Levels(top)[0] = {top}
           /\ \A i \in Nat : Levels(top)[i + 1] = KidsOf(Levels(top)[i])
<1> DEFINE At(f, k) == IF k = 0 THEN {top} ELSE KidsOf(f[k - 1])
           G(m) == CHOOSE f : f = [k \in 0..m |-> At(f, k)]
           w == [i \in Nat |-> G(i)[i]]
           c == CHOOSE f : f = [k \in Nat |-> At(f, k)]
<1>1. ASSUME NEW m \in Nat PROVE G(m) = [k \in 0..m |-> At(G(m), k)]
  <2>1. \E f : f = [k \in 0..m |-> At(f, k)]
    BY DeepeningExist
  <2> HIDE DEF At
  <2> QED BY <2>1
<1>2. \A m \in Nat : \A k \in 0..m : G(m)[k] = At(G(m), k)
  <2> SUFFICES ASSUME NEW m \in Nat PROVE \A k \in 0..m : G(m)[k] = At(G(m), k)
    OBVIOUS
  <2> DEFINE g == G(m)
  <2>1. g = [k \in 0..m |-> At(g, k)]
    BY <1>1
  <2> HIDE DEF g, At
  <2>2. \A k \in 0..m : g[k] = At(g, k)
    BY <2>1
  <2> QED BY <2>2 DEF g
<1> HIDE DEF G
<1>3. \A m \in Nat : G(m)[0] = {top} /\ \A k \in 0..m : k # 0 => G(m)[k] = KidsOf(G(m)[k - 1])
  BY <1>2
<1>4. \A m \in Nat : G(m + 1)[m] = G(m)[m]
  <2> SUFFICES ASSUME NEW m \in Nat PROVE G(m + 1)[m] = G(m)[m]
    OBVIOUS
  <2> DEFINE Q == {k \in Nat : k <= m => G(m + 1)[k] = G(m)[k]}
  <2>1. 0 \in Q
    <3>1. m + 1 \in Nat
      OBVIOUS
    <3> QED BY <1>3, <3>1
  <2>2. ASSUME NEW k \in Nat, k \in Q PROVE k + 1 \in Q
    <3> SUFFICES ASSUME k + 1 <= m PROVE G(m + 1)[k + 1] = G(m)[k + 1]
      OBVIOUS
    <3>1. k + 1 \in 0..m /\ k + 1 \in 0..(m + 1) /\ k + 1 # 0 /\ (k + 1) - 1 = k /\ m + 1 \in Nat
      OBVIOUS
    <3>2. G(m + 1)[k + 1] = KidsOf(G(m + 1)[k]) /\ G(m)[k + 1] = KidsOf(G(m)[k])
      BY <1>3, <3>1
    <3> QED BY <2>2, <3>2
  <2>3. m \in Q
    <3> HIDE DEF Q
    <3> QED BY <2>1, <2>2, SetInduction
  <2> QED BY <2>3
<1>5. ASSUME NEW k \in Nat PROVE w[k] = At(w, k)
  <2>1. w[k] = G(k)[k] /\ k \in 0..k
    OBVIOUS
  <2>2. CASE k = 0
    BY <1>3, <2>1, <2>2
  <2>3. CASE k # 0
    <3>1. k - 1 \in Nat /\ (k - 1) + 1 = k
      BY <2>3
    <3>2. w[k - 1] = G(k - 1)[k - 1] /\ G(k)[k - 1] = G(k - 1)[k - 1]
      BY <1>4, <3>1
    <3>3. G(k)[k] = KidsOf(G(k)[k - 1])
      BY <1>3, <2>1, <2>3
    <3> HIDE DEF w
    <3> QED BY <2>1, <2>3, <3>2, <3>3
  <2> QED BY <2>2, <2>3
<1>6. w = [k \in Nat |-> At(w, k)]
  <2>1. w = [k \in Nat |-> w[k]]
    OBVIOUS
  <2> HIDE DEF w, At
  <2> QED BY <1>5, <2>1
<1>7. c = [k \in Nat |-> At(c, k)]
  <2> HIDE DEF w, At
  <2> QED BY <1>6
<1>8. Levels(top) = c
  BY Zenon DEF Levels, KidsOf
<1> HIDE DEF c
<1>9. \A k \in Nat : c[k] = At(c, k)
  <2> HIDE DEF At
  <2> QED BY <1>7
<1>10. \A i \in Nat : i + 1 \in Nat /\ i + 1 # 0 /\ (i + 1) - 1 = i
  OBVIOUS
<1>11. c[0] = {top} /\ \A i \in Nat : c[i + 1] = KidsOf(c[i])
  BY <1>9, <1>10
<1> QED BY <1>8, <1>11

(* It has no level far enough down.                                        *)
IsPlan(top) == \E h \in Nat : Levels(top)[h] = {}

(* Below an empty level there is nothing.                                  *)
LEMMA EmptyBelow ==
    ASSUME NEW top, NEW h \in Nat, Levels(top)[h] = {}
    PROVE  \A j \in Nat : j >= h => Levels(top)[j] = {}
<1> DEFINE Q == {d \in Nat : Levels(top)[h + d] = {}}
<1>1. 0 \in Q
  OBVIOUS
<1>2. ASSUME NEW d \in Nat, d \in Q PROVE d + 1 \in Q
  <2>1. h + d \in Nat /\ h + (d + 1) = (h + d) + 1
    OBVIOUS
  <2>2. Levels(top)[h + (d + 1)] = KidsOf(Levels(top)[h + d])
    BY <2>1, LevelsAre
  <2>3. Levels(top)[h + d] = {}
    BY <1>2
  <2>4. KidsOf(Levels(top)[h + d]) = {}
    BY <2>3 DEF KidsOf
  <2> QED BY <2>2, <2>4
<1>3. \A d \in Nat : d \in Q
  <2> HIDE DEF Q
  <2> QED BY <1>1, <1>2, SetInduction
<1> QED
  <2> SUFFICES ASSUME NEW j \in Nat, j >= h PROVE Levels(top)[j] = {}
    OBVIOUS
  <2>1. j - h \in Nat /\ h + (j - h) = j
    OBVIOUS
  <2>2. j - h \in Q
    BY <1>3, <2>1
  <2>3. Levels(top)[h + (j - h)] = {}
    BY <2>2
  <2> QED BY <2>1, <2>3

LevelsFrom(top, i) == UNION {Levels(top)[j] : j \in {k \in Nat : k >= i}}

(* The nodes from a level on: the level's, and those from the next on.     *)
LEMMA FromLevel ==
    ASSUME NEW top, NEW i \in Nat
    PROVE  /\ LevelsFrom(top, i) = Levels(top)[i] \cup LevelsFrom(top, i + 1)
           /\ Levels(top)[i] = {} => LevelsFrom(top, i) = {}
<1>1. {k \in Nat : k >= i} = {i} \cup {k \in Nat : k >= i + 1}
  OBVIOUS
<1>2. LevelsFrom(top, i) = Levels(top)[i] \cup LevelsFrom(top, i + 1)
  BY <1>1 DEF LevelsFrom
<1>3. ASSUME Levels(top)[i] = {} PROVE LevelsFrom(top, i) = {}
  BY <1>3, EmptyBelow DEF LevelsFrom
<1> QED BY <1>2, <1>3

(* The nodes of a plan are those of all levels.                            *)
LEMMA NodesAre ==
    ASSUME NEW top, IsPlan(top)
    PROVE  Nodes(top) = LevelsFrom(top, 0)
<1> DEFINE L == Levels(top)
           At(f, i) == IF L[i] = {} THEN {} ELSE L[i] \cup f[i + 1]
           w == [i \in Nat |-> LevelsFrom(top, i)]
           c == CHOOSE f : f = [i \in Nat |-> At(f, i)]
<1>1. Nodes(top) = c[0]
  BY Zenon DEF Nodes
<1>2. \A i \in Nat : w[i] = At(w, i)
  <2> SUFFICES ASSUME NEW i \in Nat PROVE w[i] = At(w, i)
    OBVIOUS
  <2>1. w[i] = LevelsFrom(top, i) /\ w[i + 1] = LevelsFrom(top, i + 1)
    OBVIOUS
  <2> HIDE DEF w
  <2> QED BY <2>1, FromLevel
<1>3. w = [i \in Nat |-> At(w, i)]
  <2>1. w = [k \in Nat |-> w[k]]
    OBVIOUS
  <2> HIDE DEF w, At
  <2> QED BY <1>2, <2>1
<1>4. c = [i \in Nat |-> At(c, i)]
  <2> HIDE DEF w, At
  <2> QED BY <1>3
<1> HIDE DEF c
<1>5. \A i \in Nat : c[i] = At(c, i)
  <2> HIDE DEF At
  <2> QED BY <1>4
<1>6. PICK h \in Nat : L[h] = {}
  BY DEF IsPlan
<1> HIDE DEF L, w
<1> DEFINE Q == {d \in Nat : d <= h => c[h - d] = w[h - d]}
<1>7. 0 \in Q
  <2>1. c[h] = At(c, h) /\ w[h] = At(w, h)
    <3> HIDE DEF At
    <3> QED BY <1>2, <1>5
  <2>2. h - 0 = h /\ c[h] = {} /\ w[h] = {}
    BY <1>6, <2>1
  <2> QED BY <2>2
<1>8. ASSUME NEW d \in Nat, d \in Q PROVE d + 1 \in Q
  <2> SUFFICES ASSUME d + 1 <= h PROVE c[h - (d + 1)] = w[h - (d + 1)]
    OBVIOUS
  <2> DEFINE i == h - (d + 1)
  <2>1. i \in Nat /\ i + 1 = h - d /\ d <= h
    OBVIOUS
  <2>2. c[h - d] = w[h - d]
    BY <1>8, <2>1
  <2> HIDE DEF i
  <2>3. c[i] = At(c, i) /\ w[i] = At(w, i)
    BY <1>2, <1>5, <2>1
  <2>4. c[i] = w[i]
    BY <2>1, <2>2, <2>3
  <2> QED BY <2>4 DEF i
<1>9. h \in Q
  <2> HIDE DEF Q
  <2> QED BY <1>7, <1>8, SetInduction
<1>10. h - h = 0
  OBVIOUS
<1>11. c[0] = w[0]
  BY <1>9, <1>10
<1>12. w[0] = LevelsFrom(top, 0)
  BY DEF w
<1> QED BY <1>1, <1>11, <1>12

(* Each of them is of some level.                                          *)
LEMMA NodeOfLevel ==
    ASSUME NEW top, NEW x
    PROVE  x \in LevelsFrom(top, 0) <=> \E j \in Nat : x \in Levels(top)[j]
<1>1. {k \in Nat : k >= 0} = Nat
  OBVIOUS
<1> QED BY <1>1 DEF LevelsFrom

(* The kids of two sets are those of each.                                 *)
LEMMA KidsOfUnion ==
    ASSUME NEW S, NEW A, NEW B, S = A \cup B
    PROVE  KidsOf(S) = KidsOf(A) \cup KidsOf(B)
  BY DEF KidsOf

(* Below an operation are its children, and what is below them.            *)
LEMMA LevelsOfTwo ==
    ASSUME NEW top, NEW l, NEW r, ToSet(top.kids) = {l, r}
    PROVE  \A i \in Nat : Levels(top)[i + 1] = Levels(l)[i] \cup Levels(r)[i]
<1> DEFINE Q == {i \in Nat : Levels(top)[i + 1] = Levels(l)[i] \cup Levels(r)[i]}
<1>1. 0 \in Q
  <2>1. Levels(top)[0] = {top} /\ Levels(top)[0 + 1] = KidsOf(Levels(top)[0])
    BY LevelsAre
  <2>2. KidsOf({top}) = {l, r}
    BY DEF KidsOf
  <2>3. Levels(l)[0] = {l} /\ Levels(r)[0] = {r}
    BY LevelsAre
  <2> QED BY <2>1, <2>2, <2>3
<1>2. ASSUME NEW i \in Nat, i \in Q PROVE i + 1 \in Q
  <2>1. /\ Levels(top)[(i + 1) + 1] = KidsOf(Levels(top)[i + 1])
        /\ Levels(l)[i + 1] = KidsOf(Levels(l)[i])
        /\ Levels(r)[i + 1] = KidsOf(Levels(r)[i])
    BY LevelsAre
  <2>2. Levels(top)[i + 1] = Levels(l)[i] \cup Levels(r)[i]
    BY <1>2
  <2>3. KidsOf(Levels(top)[i + 1]) = KidsOf(Levels(l)[i]) \cup KidsOf(Levels(r)[i])
    BY <2>2, KidsOfUnion
  <2> QED BY <2>1, <2>3
<1>3. \A i \in Nat : i \in Q
  <2> HIDE DEF Q
  <2> QED BY <1>1, <1>2, SetInduction
<1> QED BY <1>3

(* The nodes of an operation with two kids.                                *)
LEMMA NodesOfTwo ==
    ASSUME NEW top, NEW l, NEW r, ToSet(top.kids) = {l, r}, IsPlan(l), IsPlan(r)
    PROVE  IsPlan(top) /\ Nodes(top) = {top} \cup Nodes(l) \cup Nodes(r)
<1>1. \A i \in Nat : Levels(top)[i + 1] = Levels(l)[i] \cup Levels(r)[i]
  BY LevelsOfTwo
<1>2. PICK h1 \in Nat : Levels(l)[h1] = {}
  BY DEF IsPlan
<1>3. PICK h2 \in Nat : Levels(r)[h2] = {}
  BY DEF IsPlan
<1>4. PICK h \in Nat : h >= h1 /\ h >= h2
  <2>1. h1 + h2 \in Nat /\ h1 + h2 >= h1 /\ h1 + h2 >= h2
    OBVIOUS
  <2> QED BY <2>1
<1>5. Levels(l)[h] = {} /\ Levels(r)[h] = {}
  BY <1>2, <1>3, <1>4, EmptyBelow
<1>6. IsPlan(top)
  <2>1. h + 1 \in Nat /\ Levels(top)[h + 1] = {}
    BY <1>1, <1>5
  <2> QED BY <2>1 DEF IsPlan
<1>7. ASSUME NEW x PROVE x \in LevelsFrom(top, 0) <=> x = top \/ x \in LevelsFrom(l, 0) \/ x \in LevelsFrom(r, 0)
  <2>1. ASSUME x \in LevelsFrom(top, 0) PROVE x = top \/ x \in LevelsFrom(l, 0) \/ x \in LevelsFrom(r, 0)
    <3>1. PICK j \in Nat : x \in Levels(top)[j]
      BY <2>1, NodeOfLevel
    <3>2. CASE j = 0
      BY <3>1, <3>2, LevelsAre
    <3>3. CASE j # 0
      <4>1. j - 1 \in Nat /\ (j - 1) + 1 = j
        BY <3>3
      <4>2. x \in Levels(l)[j - 1] \/ x \in Levels(r)[j - 1]
        BY <1>1, <3>1, <4>1
      <4> QED BY <4>1, <4>2, NodeOfLevel
    <3> QED BY <3>2, <3>3
  <2>2. x = top => x \in LevelsFrom(top, 0)
    BY LevelsAre, NodeOfLevel
  <2>3. ASSUME NEW j \in Nat, x \in Levels(l)[j] \/ x \in Levels(r)[j] PROVE x \in LevelsFrom(top, 0)
    <3>1. j + 1 \in Nat /\ x \in Levels(top)[j + 1]
      BY <1>1, <2>3
    <3> QED BY <3>1, NodeOfLevel
  <2> QED BY <2>1, <2>2, <2>3, NodeOfLevel
<1>8. Nodes(top) = LevelsFrom(top, 0) /\ Nodes(l) = LevelsFrom(l, 0) /\ Nodes(r) = LevelsFrom(r, 0)
  BY <1>6, NodesAre
<1>9. \A x : x \in Nodes(top) <=> x = top \/ x \in Nodes(l) \/ x \in Nodes(r)
  BY <1>7, <1>8
<1>10. Nodes(top) = {top} \cup Nodes(l) \cup Nodes(r)
  BY <1>9
<1> QED BY <1>6, <1>10

(* The nodes of an operation without kids.                                 *)
LEMMA NodesOfNone ==
    ASSUME NEW top, ToSet(top.kids) = {}
    PROVE  IsPlan(top) /\ Nodes(top) = {top}
<1>1. Levels(top)[0] = {top} /\ Levels(top)[0 + 1] = KidsOf({top})
  BY LevelsAre
<1>2. KidsOf({top}) = {}
  BY DEF KidsOf
<1>3. Levels(top)[1] = {}
  BY <1>1, <1>2
<1>4. IsPlan(top)
  BY <1>3 DEF IsPlan
<1>5. LevelsFrom(top, 0) = Levels(top)[0] \cup LevelsFrom(top, 0 + 1)
  BY FromLevel
<1>6. LevelsFrom(top, 1) = {}
  BY <1>3, FromLevel
<1> QED BY <1>1, <1>4, <1>5, <1>6, NodesAre

-----------------------------------------------------------------------------
(* The operations.                                                         *)
IsJoin(n) == n.op \in {"NestedJoin", "HashJoin", "MergeJoin"}

(* It reads one table and no other operation.                              *)
IsLeaf(n, t) == /\ n.kids = <<>> /\ n.table = t
                /\ n.op \in {"SeqScan", "IndexCon", "IndexScan"}

(* It makes one of two, of any kind.                                       *)
IsPair(n, l, r) == n.kids = <<l, r>> /\ n.table = 0 /\ n.op # "null"

(* No operation: nothing is below it.                                      *)
LEMMA NullIs == /\ Null.op = "null" /\ ~ IsJoin(Null)
                /\ IsPlan(Null) /\ Nodes(Null) = {Null} /\ Below(Null) = {}
<1>1. Null.op = "null" /\ Null.kids = <<>> /\ Null.table = 0
  BY DEF Null, Node
<1> DEFINE n == Null
<1>2. n.op = "null" /\ n.kids = <<>> /\ n.table = 0
  BY <1>1
<1> HIDE DEF n
<1>3. IsPlan(n) /\ Nodes(n) = {n}
  BY <1>2, NodesOfNone, SetOfNone
<1>4. Below(n) = {}
  BY <1>2, <1>3 DEF Below
<1> QED BY <1>2, <1>3, <1>4 DEF n, IsJoin

(* A leaf reads one table.                                                 *)
LEMMA LeafIs ==
    ASSUME NEW t \in Tables, NEW n, IsLeaf(n, t)
    PROVE  /\ IsPlan(n) /\ Nodes(n) = {n} /\ Below(n) = {t}
           /\ n # Null /\ ~ IsJoin(n)
<1>1. IsPlan(n) /\ Nodes(n) = {n}
  BY NodesOfNone, SetOfNone DEF IsLeaf
<1>2. t # 0
  BY PlannerAssumption DEF Tables, IsList
<1>3. Below(n) = {t}
  BY <1>1, <1>2 DEF Below, IsLeaf
<1>4. n.op # "null" /\ ~ IsJoin(n)
  BY DEF IsLeaf, IsJoin
<1> QED BY <1>1, <1>3, <1>4, NullIs

(* Scans, and searches by an index, are leaves.                            *)
LEMMA LeavesMade ==
    /\ \A t : IsLeaf(SeqScan(t), t) /\ IsLeaf(FullIndexScan(t), t)
    /\ \A index, len, retr :
          /\ IsLeaf(IndexCon(index, len, retr), index.table)
          /\ IsLeaf(IndexScan(index, len, retr), index.table)
          /\ IsLeaf([IndexScan(index, len, retr) EXCEPT !.full = TRUE], index.table)
<1>1. ASSUME NEW index, NEW len, NEW retr
      PROVE  /\ IsLeaf(IndexCon(index, len, retr), index.table)
             /\ IsLeaf(IndexScan(index, len, retr), index.table)
             /\ IsLeaf([IndexScan(index, len, retr) EXCEPT !.full = TRUE], index.table)
  BY DEF IsLeaf, IndexScan, IndexCon, Node
<1>2. ASSUME NEW t PROVE IsLeaf(SeqScan(t), t) /\ IsLeaf(FullIndexScan(t), t)
  <2>1. IsLeaf(SeqScan(t), t)
    BY DEF IsLeaf, SeqScan, Node
  <2>2. IsLeaf(FullIndexScan(t), t)
    BY DEF IsLeaf, FullIndexScan, IndexScan, IndexCon, Node
  <2> QED BY <2>1, <2>2
<1> QED BY <1>1, <1>2

(* A sequence of two elements has these.                                   *)
LEMMA SetOfTwo == ASSUME NEW l, NEW r PROVE ToSet(<<l, r>>) = {l, r}
<1> DEFINE s == <<l, r>>
<1>1. DOMAIN s = {1, 2} /\ s[1] = l /\ s[2] = r
  OBVIOUS
<1> HIDE DEF s
<1>2. ToSet(s) = {l, r}
  BY <1>1 DEF ToSet
<1> QED BY <1>2 DEF s

(* An operation over two reads the tables of both.                         *)
LEMMA PairIs ==
    ASSUME NEW l, NEW r, IsPlan(l), IsPlan(r), NEW n, IsPair(n, l, r)
    PROVE  /\ IsPlan(n) /\ Nodes(n) = {n} \cup Nodes(l) \cup Nodes(r)
           /\ Below(n) = Below(l) \cup Below(r)
           /\ n # Null /\ n.kids[1] = l /\ n.kids[2] = r
<1>1. ToSet(n.kids) = {l, r}
  BY SetOfTwo DEF IsPair
<1>2. IsPlan(n) /\ Nodes(n) = {n} \cup Nodes(l) \cup Nodes(r)
  BY <1>1, NodesOfTwo
<1>3. Below(n) = Below(l) \cup Below(r)
  BY <1>2 DEF Below, IsPair
<1>4. n # Null
  BY NullIs DEF IsPair
<1>5. n.kids[1] = l /\ n.kids[2] = r
  BY DEF IsPair
<1> QED BY <1>2, <1>3, <1>4, <1>5

(* Joins are operations over two, and so is the union of an OR.            *)
LEMMA PairsMade ==
    \A l, r : /\ IsPair(NestedJoin(l, r), l, r) /\ IsJoin(NestedJoin(l, r))
              /\ IsPair(HashJoin(l, r), l, r) /\ IsJoin(HashJoin(l, r))
              /\ IsPair(MergeJoin(l, r), l, r) /\ IsJoin(MergeJoin(l, r))
              /\ IsPair(HashOnKey(l, r), l, r) /\ IsJoin(HashOnKey(l, r))
              /\ IsPair(OrUnion(l, r), l, r) /\ ~ IsJoin(OrUnion(l, r))
<1> SUFFICES ASSUME NEW l, NEW r
             PROVE  /\ IsPair(NestedJoin(l, r), l, r) /\ IsJoin(NestedJoin(l, r))
                    /\ IsPair(HashJoin(l, r), l, r) /\ IsJoin(HashJoin(l, r))
                    /\ IsPair(MergeJoin(l, r), l, r) /\ IsJoin(MergeJoin(l, r))
                    /\ IsPair(HashOnKey(l, r), l, r) /\ IsJoin(HashOnKey(l, r))
                    /\ IsPair(OrUnion(l, r), l, r) /\ ~ IsJoin(OrUnion(l, r))
  OBVIOUS
<1>1. IsPair(NestedJoin(l, r), l, r) /\ IsJoin(NestedJoin(l, r))
  BY DEF IsPair, IsJoin, NestedJoin, Node
<1>2. IsPair(HashJoin(l, r), l, r) /\ IsJoin(HashJoin(l, r))
  BY DEF IsPair, IsJoin, HashJoin, Node
<1>3. IsPair(MergeJoin(l, r), l, r) /\ IsJoin(MergeJoin(l, r))
  BY DEF IsPair, IsJoin, MergeJoin, Node
<1>4. IsPair(HashOnKey(l, r), l, r) /\ IsJoin(HashOnKey(l, r))
  BY DEF IsPair, IsJoin, HashOnKey, HashJoin, Node
<1>5. IsPair(OrUnion(l, r), l, r) /\ ~ IsJoin(OrUnion(l, r))
  BY DEF IsPair, IsJoin, OrUnion, Node
<1> QED BY <1>1, <1>2, <1>3, <1>4, <1>5

(* A filter reads what the operation under it reads.                       *)
LEMMA FilterIs ==
    ASSUME NEW k, IsPlan(k), NEW id, NEW n, n = Filter(k, id)
    PROVE  /\ IsPlan(n) /\ Nodes(n) = {n} \cup Nodes(k)
           /\ Below(n) = Below(k) /\ n # Null /\ ~ IsJoin(n) /\ n.exp = id
<1>1. n.kids = <<k>> /\ n.table = 0 /\ n.op = "Filter" /\ n.exp = id
  BY DEF Filter, Node
<1>2. ToSet(n.kids) = {k, k}
  BY <1>1, SetOfOne
<1>3. IsPlan(n) /\ Nodes(n) = {n} \cup Nodes(k)
  BY <1>2, NodesOfTwo
<1>4. Below(n) = Below(k)
  BY <1>1, <1>3 DEF Below
<1> QED BY <1>1, <1>3, <1>4, NullIs DEF IsJoin

(* An operation of a plan is over tables of the plan, and is in it.        *)
LEMMA TopIsNode == ASSUME NEW n, IsPlan(n) PROVE n \in Nodes(n)
  BY NodesAre, NodeOfLevel, LevelsAre

(* Every comparison has a filter over that much.                           *)
HasFilters(n, exps, tables) ==
    \A e \in ToSet(exps) : \E k \in Nodes(n) : k.exp = e.id /\ Below(k) = tables

(* So do filters over filters, and all are there.                          *)
LEMMA FilteredIs ==
    ASSUME NEW n, IsPlan(n), NEW exps, IsList(exps), NEW g, g = Filtered(n, exps)
    PROVE  /\ IsPlan(g) /\ Nodes(n) \subseteq Nodes(g) /\ Below(g) = Below(n)
           /\ \A k \in Nodes(g) : k \in Nodes(n) \/ ~ IsJoin(k)
           /\ HasFilters(g, exps, Below(n))
           /\ n # Null => g # Null
<1> DEFINE f == FiltersOver(n, exps)
           Fine(k) == /\ IsPlan(f[k]) /\ Nodes(n) \subseteq Nodes(f[k]) /\ Below(f[k]) = Below(n)
                      /\ \A x \in Nodes(f[k]) : x \in Nodes(n) \/ ~ IsJoin(x)
                      /\ \A j \in 1..k : \E x \in Nodes(f[k]) : x.exp = exps[j].id /\ Below(x) = Below(n)
                      /\ n # Null => f[k] # Null
           Q == {k \in Nat : k <= Len(exps) => Fine(k)}
<1>0. Len(exps) \in Nat /\ ToSet(exps) = {exps[j] : j \in 1..Len(exps)}
  BY ListFacts
<1>1. f[0] = n /\ \A k \in 1..Len(exps) : f[k] = Filter(f[k - 1], exps[k].id)
  BY <1>0, FiltersSteps
<1> HIDE DEF f
<1>2. 0 \in Q
  BY <1>1
<1>3. ASSUME NEW k \in Nat, k \in Q PROVE k + 1 \in Q
  <2> SUFFICES ASSUME k + 1 <= Len(exps) PROVE Fine(k + 1)
    OBVIOUS
  <2>1. Fine(k) /\ f[k + 1] = Filter(f[k], exps[k + 1].id)
    <3>1. k + 1 \in 1..Len(exps) /\ (k + 1) - 1 = k
      OBVIOUS
    <3> QED BY <1>1, <1>3, <3>1
  <2> DEFINE p == f[k]
             q == f[k + 1]
             id == exps[k + 1].id
  <2>2. /\ IsPlan(p) /\ Nodes(n) \subseteq Nodes(p) /\ Below(p) = Below(n)
        /\ \A x \in Nodes(p) : x \in Nodes(n) \/ ~ IsJoin(x)
        /\ \A j \in 1..k : \E x \in Nodes(p) : x.exp = exps[j].id /\ Below(x) = Below(n)
    BY <2>1
  <2>3. q = Filter(p, id)
    BY <2>1
  <2>i. id = exps[k + 1].id
    OBVIOUS
  <2> HIDE DEF p, q, id
  <2>4. /\ IsPlan(q) /\ Nodes(q) = {q} \cup Nodes(p)
        /\ Below(q) = Below(p) /\ q # Null /\ ~ IsJoin(q) /\ q.exp = id
    BY <2>2, <2>3, FilterIs
  <2>5. \A j \in 1..(k + 1) : \E x \in Nodes(q) : x.exp = exps[j].id /\ Below(x) = Below(n)
    <3> SUFFICES ASSUME NEW j \in 1..(k + 1)
                 PROVE  \E x \in Nodes(q) : x.exp = exps[j].id /\ Below(x) = Below(n)
      OBVIOUS
    <3>1. CASE j \in 1..k
      BY <2>2, <2>4, <3>1
    <3>2. CASE j = k + 1
      BY <2>2, <2>4, <2>i, <3>2
    <3> QED BY <3>1, <3>2
  <2>6. \A x \in Nodes(q) : x \in Nodes(n) \/ ~ IsJoin(x)
    BY <2>2, <2>4
  <2>7. IsPlan(q) /\ Nodes(n) \subseteq Nodes(q) /\ Below(q) = Below(n) /\ q # Null
    BY <2>2, <2>4
  <2> QED BY <2>5, <2>6, <2>7 DEF q
<1>4. Len(exps) \in Q
  <2> HIDE DEF Q
  <2> QED BY <1>0, <1>2, <1>3, SetInduction
<1>5. Fine(Len(exps))
  BY <1>0, <1>4
<1>6. g = f[Len(exps)]
  BY DEF Filtered, f
<1>7. HasFilters(g, exps, Below(n))
  BY <1>0, <1>5, <1>6 DEF HasFilters
<1> QED BY <1>5, <1>6, <1>7

-----------------------------------------------------------------------------
(* The comparisons a plan is made for.                                     *)
AllOf(as) == UNION {ToSet(a) : a \in ToSet(as)}

(* The comparisons of areas side by side.                                  *)
LEMMA AllOfTwo ==
    ASSUME NEW s, NEW r, NEW q, ToSet(q) = ToSet(s) \cup ToSet(r)
    PROVE  AllOf(q) = AllOf(s) \cup AllOf(r)
  BY DEF AllOf

(* The comparisons of one area.                                            *)
LEMMA AllOfOne == ASSUME NEW a PROVE AllOf(<<a>>) = ToSet(a)
<1> DEFINE s == <<a>>
<1>1. ToSet(s) = {a}
  BY SetOfOne
<1> HIDE DEF s
<1>2. AllOf(s) = ToSet(a)
  BY <1>1 DEF AllOf
<1> QED BY <1>2 DEF s

(* No comparison is lost in areas.                                         *)
LEMMA AreasKeepLeaves ==
    ASSUME NEW t, IsTree(t), NoNot(t), NEW A, Collects(A, t), NEW L, Gather(L, t),
           NEW E, E = ExpsOf(t), \A k \in 1..Len(t) : AreAreas(A[k], E)
    PROVE  \A k \in 1..Len(t) : AllOf(A[k]) = ToSet(L[k])
<1> DEFINE S == {k \in 1..Len(t) : AllOf(A[k]) = ToSet(L[k])}
<1>0. Len(t) \in Nat /\ DOMAIN t = 1..Len(t)
  BY TreeNodes
<1>l. \A k \in DOMAIN t : ToSet(L[k]) = LeavesAt(L, t[k])
  BY LeavesAreNodes
<1>1. ASSUME NEW k \in 1..Len(t), \A j \in 1..(k - 1) : j \in S PROVE k \in S
  <2> SUFFICES AllOf(A[k]) = ToSet(L[k])
    OBVIOUS
  <2>0. k \in DOMAIN t /\ A[k] = AreasAt(A, t[k]) /\ ToSet(L[k]) = LeavesAt(L, t[k])
    BY <1>0, <1>l DEF Collects
  <2>1. CASE IsExp(t[k])
    <3> DEFINE x == t[k]
               y == <<x>>
    <3>1. x.name = "exp"
      BY <2>1 DEF IsExp
    <3>2. A[k] = <<y>> /\ ToSet(L[k]) = {x}
      BY <2>0, <3>1 DEF AreasAt, LeavesAt
    <3>3. ToSet(y) = {x}
      <4> HIDE DEF x
      <4> QED BY SetOfOne
    <3> HIDE DEF y, x
    <3> QED BY <3>2, <3>3, AllOfOne
  <2>2. CASE /\ t[k].name \in {"AND", "OR"}
             /\ t[k].left \in 1..(k - 1) /\ t[k].right \in 1..(k - 1)
    <3> DEFINE i == t[k].left
               j == t[k].right
    <3>1. i \in S /\ j \in S
      BY <1>1, <2>2
    <3>2. t[k].name = "AND" => A[k] = ByAnd(A[i], A[j])
      BY <2>0 DEF AreasAt
    <3>3. t[k].name = "OR" => A[k] = ByOr(A[i], A[j])
      BY <2>0 DEF AreasAt
    <3>4. ToSet(L[k]) = ToSet(L[i]) \cup ToSet(L[j]) /\ t[k].name \in {"AND", "OR"}
      BY <2>0, <2>2 DEF LeavesAt
    <3> HIDE DEF i, j
    <3> DEFINE l == A[i]
               r == A[j]
               and == ByAnd(l, r)
               or == ByOr(l, r)
               z == Together(l, r)
    <3>5. AreAreas(l, E) /\ AreAreas(r, E) /\ AllOf(l) = ToSet(L[i]) /\ AllOf(r) = ToSet(L[j])
      BY <3>1
    <3>6. (A[k] = and \/ A[k] = or)
      BY <3>2, <3>3, <3>4
    <3>z. z = Last(l) \o Last(r)
      BY DEF Together
    <3>a. AreAreas(l, E) /\ AreAreas(r, E)
      BY <3>5
    <3> HIDE DEF l, r, S, and, or, z
    <3>7. ToSet(or) = ToSet(l) \cup ToSet(r)
      BY <3>a, AreasUnited DEF or
    <3>8. ToSet(and) = (ToSet(Front(l)) \cup ToSet(Front(r))) \cup {z}
      BY <3>a, AreasUnited DEF and, z
    <3>9. /\ ToSet(l) = ToSet(Front(l)) \cup {Last(l)} /\ ToSet(r) = ToSet(Front(r)) \cup {Last(r)}
          /\ Last(l) \in Seq(E) /\ Last(r) \in Seq(E)
      BY <3>a, AreaParts
    <3>10. ToSet(z) = ToSet(Last(l)) \cup ToSet(Last(r))
      BY <3>9, <3>z, BothSets
    <3>11. AllOf(or) = AllOf(l) \cup AllOf(r)
      BY <3>7 DEF AllOf
    <3>12. AllOf(and) = AllOf(l) \cup AllOf(r)
      BY <3>8, <3>9, <3>10 DEF AllOf
    <3> QED BY <3>4, <3>5, <3>6, <3>11, <3>12
  <2> HIDE DEF S
  <2> QED BY <2>0, <2>1, <2>2, TreeNodes DEF NoNot
<1>2. \A k \in 1..Len(t) : k \in S
  <2> HIDE DEF S
  <2> QED BY <1>0, <1>1, FromTheFirst
<1> QED BY <1>2

(* The areas of the condition have the comparisons of the condition.       *)
LEMMA LeavesOfAreas ==
    ASSUME NEW t, IsTree(t), NoNot(t), t # NoCondition
    PROVE  AllOf(Areas(t)) = ToSet(Leaves(t)) /\ Leaves(t) \in Seq(ExpsOf(t))
<1> DEFINE L == LeavesOf(t)
<1>1. PICK A : Areas(t) = A[Len(t)] /\ Collects(A, t)
  BY AreasCollected
<1>2. PICK F : OrNodes(t) = F[Len(t)] /\ CountsOrs(F, t)
  BY OrNodesCounted
<1>3. Gather(L, t) /\ Leaves(t) = L[Len(t)]
  BY LeavesGathered DEF Leaves
<1>4. Len(t) \in 1..Len(t) /\ Len(t) \in DOMAIN t
  BY TreeNodes
<1> HIDE DEF L
<1>5. \A k \in 1..Len(t) : AreAreas(A[k], ExpsOf(t))
  BY <1>1, <1>2, <1>3, AreasOfNodes
<1>6. \A k \in 1..Len(t) : AllOf(A[k]) = ToSet(L[k])
  BY <1>1, <1>3, <1>5, AreasKeepLeaves
<1>7. L[Len(t)] \in Seq(ExpsOf(t))
  BY <1>3, <1>4, LeavesAreNodes
<1> QED BY <1>1, <1>3, <1>4, <1>6, <1>7

(* FlattenSeq, sequence by sequence.                                       *)
LEMMA FlattenSteps ==
    ASSUME NEW E, NEW as, as \in Seq(Seq(E)), as # <<>>
    PROVE  \E c : /\ FlattenSeq(as) = c[Len(as)] /\ c[1] = as[1]
                  /\ \A i \in 1..Len(as) : i # 1 => c[i] = c[i - 1] \o as[i]
<1> DEFINE n == Len(as)
           At(f, i) == IF i = 1 THEN as[i] ELSE f[i - 1] \o as[i]
           Step(f, m) == f = [i \in 1..m |-> At(f, i)]
           Q == {m \in Nat : \E f : Step(f, m)}
           c == CHOOSE f : Step(f, n)
<1>0. n \in Nat /\ n # 0
  BY EmptySeq
<1>1. FlattenSeq(as) = c[n]
  BY <1>0 DEF FlattenSeq
<1>2. 0 \in Q
  <2>1. Step(<<>>, 0)
    OBVIOUS
  <2> HIDE DEF Step
  <2> QED BY <2>1
<1>3. ASSUME NEW m \in Nat, m \in Q PROVE m + 1 \in Q
  <2>1. PICK g : Step(g, m)
    <3> HIDE DEF Step
    <3> QED BY <1>3
  <2> DEFINE h == [i \in 1..(m + 1) |-> At(g, i)]
  <2>2. \A i \in 1..m : g[i] = At(g, i)
    <3> HIDE DEF h, At
    <3> QED BY <2>1
  <2>3. \A i \in 1..m : h[i] = At(g, i)
    <3>1. \A i \in 1..m : i \in 1..(m + 1)
      OBVIOUS
    <3> HIDE DEF At
    <3> QED BY <3>1
  <2>4. \A i \in 1..m : h[i] = g[i]
    <3> HIDE DEF h, At
    <3> QED BY <2>2, <2>3
  <2>5. \A i \in 1..(m + 1) : i # 1 => i - 1 \in 1..m
    OBVIOUS
  <2>6. \A i \in 1..(m + 1) : At(h, i) = At(g, i)
    <3> HIDE DEF h
    <3> QED BY <2>4, <2>5
  <2>7. h = [i \in 1..(m + 1) |-> At(h, i)]
    <3>1. \A i \in 1..(m + 1) : h[i] = At(g, i)
      <4> HIDE DEF At
      <4> QED OBVIOUS
    <3>2. h = [i \in 1..(m + 1) |-> h[i]]
      OBVIOUS
    <3> HIDE DEF h, At
    <3> QED BY <2>6, <3>1, <3>2
  <2>8. Step(h, m + 1)
    <3> HIDE DEF h, At
    <3> QED BY <2>7
  <2> HIDE DEF Step
  <2> QED BY <2>8
<1>4. n \in Q
  <2> HIDE DEF Q, n
  <2> QED BY <1>0, <1>2, <1>3, SetInduction
<1>5. Step(c, n)
  <2> HIDE DEF Step, n
  <2> QED BY <1>4
<1> HIDE DEF c, n
<1>6. \A i \in 1..n : c[i] = At(c, i)
  <2> HIDE DEF At
  <2> QED BY <1>5
<1>7. c[1] = as[1] /\ \A i \in 1..n : i # 1 => c[i] = c[i - 1] \o as[i]
  <2>1. 1 \in 1..n
    BY <1>0
  <2> QED BY <1>6, <2>1
<1> QED BY <1>1, <1>7 DEF n

(* It has what all of them have.                                           *)
LEMMA FlattenIs ==
    ASSUME NEW E, NEW as, as \in Seq(Seq(E)), as # <<>>
    PROVE  FlattenSeq(as) \in Seq(E) /\ ToSet(FlattenSeq(as)) = AllOf(as)
<1> DEFINE P == Seq(E)
           n == Len(as)
<1>0. n \in Nat /\ n # 0 /\ DOMAIN as = 1..n /\ \A i \in 1..n : as[i] \in P
  <2>1. as \in Seq(P)
    OBVIOUS
  <2> HIDE DEF P
  <2>2. n \in Nat /\ DOMAIN as = 1..n /\ \A i \in 1..n : as[i] \in P
    BY <2>1, SeqFacts
  <2>3. n # 0
    BY <2>1, EmptySeq
  <2> QED BY <2>2, <2>3
<1>1. PICK c : /\ FlattenSeq(as) = c[Len(as)] /\ c[1] = as[1]
               /\ \A i \in 1..Len(as) : i # 1 => c[i] = c[i - 1] \o as[i]
  BY FlattenSteps
<1> DEFINE Upto(k) == UNION {ToSet(as[i]) : i \in 1..k}
           Good(k) == c[k] \in P /\ ToSet(c[k]) = Upto(k)
           Q == {k \in 1..n : Good(k)}
<1>2. ASSUME NEW k \in 1..n, \A j \in 1..(k - 1) : j \in Q PROVE k \in Q
  <2>1. CASE k = 1
    <3>1. Upto(1) = ToSet(as[1])
      <4>1. 1..1 = {1}
        OBVIOUS
      <4> QED BY <4>1
    <3> HIDE DEF Upto, P
    <3> QED BY <1>0, <1>1, <2>1, <3>1
  <2>2. CASE k # 1
    <3> DEFINE p == c[k - 1]
               x == as[k]
               q == c[k]
               j == k - 1
    <3>1. j \in 1..(k - 1) /\ j \in 1..n /\ k = j + 1
      <4> HIDE DEF n, P, p, x, q
      <4> QED BY <1>0, <2>2
    <3>2. q = p \o x /\ x \in P /\ Good(j)
      BY <1>0, <1>1, <1>2, <2>2, <3>1
    <3>3. p \in Seq(E) /\ ToSet(p) = Upto(j) /\ x \in Seq(E)
      BY <3>2
    <3>4. Upto(k) = Upto(j) \cup ToSet(x)
      <4>1. 1..k = 1..j \cup {k}
        BY <3>1
      <4> QED BY <4>1
    <3> HIDE DEF p, x, q, j, Upto
    <3>5. q \in Seq(E)
      BY <3>2, <3>3
    <3>6. ToSet(q) = ToSet(p) \cup ToSet(x)
      BY <3>2, <3>3, BothSets
    <3>7. Good(k)
      BY <3>3, <3>4, <3>5, <3>6 DEF q
    <3> QED BY <3>7
  <2> QED BY <2>1, <2>2
<1>3. \A k \in 1..n : k \in Q
  <2> HIDE DEF Q
  <2> QED BY <1>0, <1>2, FromTheFirst
<1>4. Good(n)
  <2>1. n \in 1..n
    <3> HIDE DEF n, P
    <3> QED BY <1>0
  <2> HIDE DEF Good
  <2> QED BY <1>3, <2>1
<1>5. Upto(n) = AllOf(as)
  <2>1. ToSet(as) = {as[i] : i \in 1..n}
    BY <1>0 DEF ToSet
  <2> QED BY <2>1 DEF AllOf
<1> QED BY <1>1, <1>4, <1>5

-----------------------------------------------------------------------------
(* Comparisons of the database's columns, known by their ids.              *)
AreComparisons(E) ==
    /\ \A e \in E : IsExp(e) /\ TablesOf(e) \subseteq Tables
    /\ \A e, x \in E : e.id = x.id => TablesOf(e) = TablesOf(x)

(* The comparisons of the condition are of the database's columns, known   *)
(* by their ids.                                                           *)
LEMMA ConditionsComparisons ==
    ASSUME Prepared, pc # "parsed"
    PROVE  AreComparisons(ExpsOf(condition))
<1> DEFINE t == parsed
           d == condition
<1>1. IsTree(t) /\ IdsDiffer(t) /\ d = DeMorgan(t) /\ IsTree(d)
  BY QueriesAreTrees
<1>2. \A k \in DOMAIN t : t[k].name = "exp" => TablesOf(t[k]) \subseteq Tables
  BY PlannerAssumption DEF Prepared, IsQuery
<1>3. \A j \in DOMAIN d : d[j].name = "exp" => ExpOf(t, d[j])
  BY <1>1, TreeMade
<1>4. \A j \in DOMAIN d : d[j].name = "exp" => IsExp(d[j])
  BY <1>1, TreeNodes DEF IsExp
<1> HIDE DEF t, d
<1>5. ASSUME NEW e \in ExpsOf(d) PROVE IsExp(e) /\ ExpOf(t, e)
  BY <1>3, <1>4 DEF ExpsOf
<1>6. ASSUME NEW e \in ExpsOf(d) PROVE TablesOf(e) \subseteq Tables
  <2>1. PICK k \in DOMAIN t : t[k].name = "exp" /\ t[k].variables = e.variables
    BY <1>5 DEF ExpOf
  <2>2. TablesOf(e) = TablesOf(t[k])
    BY <2>1 DEF TablesOf
  <2> QED BY <1>2, <2>1, <2>2
<1>7. ASSUME NEW e \in ExpsOf(d), NEW x \in ExpsOf(d), e.id = x.id PROVE TablesOf(e) = TablesOf(x)
  <2>1. PICK k \in DOMAIN t : t[k].name = "exp" /\ t[k].id = e.id /\ t[k].variables = e.variables
    BY <1>5 DEF ExpOf
  <2>2. PICK j \in DOMAIN t : t[j].name = "exp" /\ t[j].id = x.id /\ t[j].variables = x.variables
    BY <1>5 DEF ExpOf
  <2>3. j = k
    BY <1>1, <1>7, <2>1, <2>2 DEF IdsDiffer
  <2> QED BY <2>1, <2>2, <2>3 DEF TablesOf
<1> QED BY <1>5, <1>6, <1>7 DEF AreComparisons, d

(* Of no sequences nothing is made.                                        *)
LEMMA NothingFlat == FlattenSeq(<<>>) = <<>>
  BY DEF FlattenSeq

TablesIn(E) == UNION {TablesOf(e) : e \in E}

(* What area, tables_set and areas are, once they have been collected.     *)
LEMMA AreaFacts ==
    ASSUME Prepared, Collected, NEW E, E = ToSet(area)
    PROVE  /\ IsList(area) /\ AreComparisons(E)
           /\ Compared = TablesIn(E) /\ tables_set = Compared
           /\ Compared \subseteq Tables
           /\ \A a \in ToSet(areas) : IsList(a) /\ ToSet(a) \subseteq E
           /\ Branch = "joins" => condition # NoCondition /\ area = Leaves(condition)
<1> DEFINE X == ExpsOf(condition)
           w == Leaves(condition)
<1>1. pc # "parsed" /\ Counted
  BY DEF Collected, Counted
<1>2. IsTree(condition) /\ NoNot(condition)
  BY <1>1, QueriesAreTrees
<1>3. areas = Areas(condition) /\ or_node = OrNodes(condition) /\ tables_set = TablesUnder(condition)
  BY <1>1 DEF Prepared
<1>4. AreComparisons(X)
  BY <1>1, ConditionsComparisons
<1>5. ASSUME condition = NoCondition
      PROVE  area = <<>> /\ areas = <<>> /\ w = <<>> /\ area \in Seq(X)
  <2>1. areas = <<>>
    BY <1>3, <1>5, Zenon DEF Areas
  <2>2. w = <<>>
    BY <1>5, Zenon DEF Leaves
  <2>3. area = <<>>
    BY <2>1, NothingFlat, Zenon DEF area
  <2> HIDE DEF w, X
  <2> QED BY <2>1, <2>2, <2>3
<1>6. ASSUME condition # NoCondition
      PROVE  /\ AreAreas(areas, X) /\ AllOf(areas) = ToSet(w)
             /\ area \in Seq(X) /\ ToSet(area) = ToSet(w) /\ ToSet(area) = AllOf(areas)
  <2>1. AreAreas(areas, X)
    BY <1>2, <1>3, <1>6, AreasOfTree
  <2>2. AllOf(areas) = ToSet(w)
    BY <1>2, <1>3, <1>6, LeavesOfAreas
  <2>3. areas \in Seq(Seq(X)) /\ areas # <<>>
    BY <2>1 DEF AreAreas
  <2>4. area \in Seq(X) /\ ToSet(area) = AllOf(areas)
    BY <2>3, FlattenIs DEF area
  <2> QED BY <2>1, <2>2, <2>4
<1>7. area \in Seq(X) /\ E = ToSet(w)
  BY <1>5, <1>6
<1> HIDE DEF X, w
<1>8. IsList(area) /\ E \subseteq X
  BY <1>7, SeqIsList
<1>9. AreComparisons(E)
  BY <1>4, <1>8 DEF AreComparisons
<1>10. Compared = TablesIn(E) /\ tables_set = Compared
  BY <1>3, <1>7 DEF Compared, TablesIn, TablesUnder, w
<1>11. Compared \subseteq Tables
  BY <1>9, <1>10 DEF AreComparisons, TablesIn
<1>12. ASSUME NEW a \in ToSet(areas) PROVE IsList(a) /\ ToSet(a) \subseteq E
  <2>1. condition # NoCondition
    BY <1>5, SetOfNone
  <2>2. AreAreas(areas, X) /\ E = AllOf(areas)
    BY <1>6, <2>1
  <2>3. a \in Seq(X)
    <3> DEFINE Y == Seq(X)
    <3>1. areas \in Seq(Y)
      BY <2>2 DEF AreAreas
    <3> HIDE DEF Y
    <3>2. ToSet(areas) \subseteq Y
      BY <3>1, SeqIsList
    <3> QED BY <3>2 DEF Y
  <2>4. IsList(a)
    BY <2>3, SeqIsList
  <2>5. ToSet(a) \subseteq E
    BY <2>2 DEF AllOf
  <2> QED BY <2>4, <2>5
<1>13. ASSUME Branch = "joins" PROVE condition # NoCondition /\ area = w
  <2>1. condition # NoCondition /\ or_node = 0
    BY <1>13 DEF Branch
  <2>2. areas = <<w>>
    BY <1>2, <1>3, <2>1, AreasOfTree DEF w
  <2>3. areas \in Seq(Seq(X)) /\ areas # <<>>
    BY <1>6, <2>1 DEF AreAreas
  <2>4. PICK c : FlattenSeq(areas) = c[Len(areas)] /\ c[1] = areas[1]
    BY <2>3, FlattenSteps
  <2>5. Len(areas) = 1 /\ areas[1] = w
    BY <2>2
  <2> QED BY <2>1, <2>4, <2>5 DEF area
<1> QED BY <1>8, <1>9, <1>10, <1>11, <1>12, <1>13 DEF w

-----------------------------------------------------------------------------
(* A list is its head and its tail.                                        *)
LEMMA TailFacts ==
    ASSUME NEW s, IsList(s), s # <<>>
    PROVE  /\ IsList(Tail(s)) /\ Head(s) \in ToSet(s)
           /\ ToSet(s) = {Head(s)} \cup ToSet(Tail(s))
           /\ IsInjective(s) => IsInjective(Tail(s)) /\ Head(s) \notin ToSet(Tail(s))
<1> DEFINE n == Len(s)
           r == Tail(s)
           X == ToSet(s)
<1>1. /\ n \in Nat /\ n > 0 /\ DOMAIN s = 1..n /\ s \in Seq(X) /\ X = {s[k] : k \in 1..n}
      /\ Head(s) = s[1] /\ s[1] \in X
  BY ListFacts
<1>2. r \in Seq(X) /\ Len(r) = n - 1 /\ DOMAIN r = 1..(n - 1) /\ \A k \in 1..(n - 1) : r[k] = s[k + 1]
  <2> HIDE DEF X
  <2> QED BY <1>1
<1>3. IsList(r)
  BY <1>2, SeqIsList
<1>4. ToSet(r) = {s[k + 1] : k \in 1..(n - 1)}
  BY <1>2 DEF ToSet
<1>5. X = {Head(s)} \cup ToSet(r)
  <2>1. \A k \in 1..n : k = 1 \/ (k - 1 \in 1..(n - 1) /\ (k - 1) + 1 = k)
    BY <1>1
  <2>2. \A k \in 1..(n - 1) : k + 1 \in 1..n
    BY <1>1
  <2> SUFFICES ASSUME NEW x PROVE x \in X <=> x = s[1] \/ x \in ToSet(r)
    BY <1>1
  <2>3. x \in X => x = s[1] \/ x \in ToSet(r)
    <3> SUFFICES ASSUME NEW k \in 1..n, x = s[k] PROVE x = s[1] \/ x \in ToSet(r)
      BY <1>1
    <3> HIDE DEF n, r
    <3>1. CASE k = 1
      BY <3>1
    <3>2. CASE k - 1 \in 1..(n - 1) /\ (k - 1) + 1 = k
      BY <1>4, <3>2
    <3> QED BY <2>1, <3>1, <3>2
  <2>4. x \in ToSet(r) => x \in X
    <3> SUFFICES ASSUME NEW k \in 1..(n - 1), x = s[k + 1] PROVE x \in X
      BY <1>4
    <3> HIDE DEF n, r
    <3> QED BY <1>1, <2>2
  <2>5. s[1] \in X
    BY <1>1
  <2> QED BY <2>3, <2>4, <2>5
<1>6. ASSUME IsInjective(s) PROVE IsInjective(r) /\ Head(s) \notin ToSet(r)
  <2>1. \A a, b \in 1..n : s[a] = s[b] => a = b
    BY <1>1, <1>6 DEF IsInjective
  <2>2. \A k \in 1..(n - 1) : k + 1 \in 1..n /\ k + 1 # 1
    BY <1>1
  <2>3. IsInjective(r)
    <3> SUFFICES ASSUME NEW a \in 1..(n - 1), NEW b \in 1..(n - 1), r[a] = r[b] PROVE a = b
      BY <1>2 DEF IsInjective
    <3>1. a + 1 = b + 1
      BY <1>2, <2>1, <2>2
    <3> QED BY <3>1
  <2>4. s[1] \notin ToSet(r)
    <3>1. 1 \in 1..n
      BY <1>1
    <3> HIDE DEF n, r
    <3> QED BY <1>4, <2>1, <2>2, <3>1
  <2> QED BY <1>1, <2>3, <2>4
<1> QED BY <1>1, <1>3, <1>5, <1>6

(* Appending what is not there repeats nothing.                            *)
LEMMA InjectiveAppend ==
    ASSUME NEW X, NEW p \in Seq(X), NEW x \in X, IsInjective(p), x \notin ToSet(p),
           NEW q, q = Append(p, x)
    PROVE  IsInjective(q)
<1> DEFINE n == Len(p)
<1>1. /\ n \in Nat /\ DOMAIN p = 1..n /\ DOMAIN q = 1..(n + 1) /\ q[n + 1] = x
      /\ \A k \in 1..n : q[k] = p[k]
  OBVIOUS
<1>2. \A a, b \in 1..n : p[a] = p[b] => a = b
  BY <1>1 DEF IsInjective
<1>3. \A a \in 1..n : p[a] # x
  BY <1>1 DEF ToSet
<1> HIDE DEF n
<1>4. ASSUME NEW a \in 1..(n + 1), NEW b \in 1..(n + 1), q[a] = q[b] PROVE a = b
  <2>1. (a \in 1..n \/ a = n + 1) /\ (b \in 1..n \/ b = n + 1)
    BY <1>1
  <2>2. CASE a \in 1..n /\ b \in 1..n
    <3>1. q[a] = p[a] /\ q[b] = p[b]
      BY <1>1, <2>2
    <3> QED BY <1>2, <1>4, <2>2, <3>1
  <2>3. CASE a \in 1..n /\ b = n + 1
    <3>1. q[a] = p[a] /\ q[b] = x
      BY <1>1, <2>3
    <3> QED BY <1>3, <1>4, <2>3, <3>1
  <2>4. CASE a = n + 1 /\ b \in 1..n
    <3>1. q[a] = x /\ q[b] = p[b]
      BY <1>1, <2>4
    <3> QED BY <1>3, <1>4, <2>4, <3>1
  <2>5. CASE a = n + 1 /\ b = n + 1
    BY <2>5
  <2> QED BY <2>1, <2>2, <2>3, <2>4, <2>5
<1>5. DOMAIN q = 1..(n + 1)
  BY <1>1
<1>6. \A a, b \in DOMAIN q : q[a] = q[b] => a = b
  BY <1>4, <1>5
<1> QED BY <1>6, Zenon DEF IsInjective

(* Leaving some out repeats nothing.                                       *)
LEMMA AmongInjective ==
    ASSUME NEW s, IsList(s), IsInjective(s), NEW S
    PROVE  IsInjective(Among(s, S))
<1> DEFINE n == Len(s)
           f == AmongFirst(s, S)
           X == ToSet(s) \cap S
           Q == {k \in Nat : k <= n => IsInjective(f[k])}
<1>0. n \in Nat /\ DOMAIN s = 1..n /\ \A k \in 1..n : s[k] \in ToSet(s)
  BY ListFacts DEF ToSet
<1>1. f[0] = <<>> /\ \A k \in 1..n : f[k] = AmongAt(f[k - 1], s[k], S)
  BY <1>0, AmongSteps
<1>2. \A k \in 0..n : f[k] \in Seq(X) /\ ToSet(f[k]) = FirstOf(s, k) \cap S
  BY AmongFirstIs
<1> HIDE DEF f, X
<1>3. 0 \in Q
  <2>1. IsInjective(<<>>)
    BY DEF IsInjective
  <2> QED BY <1>1, <2>1
<1>4. ASSUME NEW k \in Nat, k \in Q PROVE k + 1 \in Q
  <2> SUFFICES ASSUME k + 1 <= n PROVE IsInjective(f[k + 1])
    OBVIOUS
  <2> DEFINE p == f[k]
             x == s[k + 1]
  <2>1. IsInjective(p) /\ p \in Seq(X) /\ ToSet(p) = FirstOf(s, k) \cap S
    <3>1. k \in 0..n
      BY <1>0
    <3> QED BY <1>2, <1>4, <3>1
  <2>2. k + 1 \in 1..n /\ (k + 1) - 1 = k
    OBVIOUS
  <2>3. f[k + 1] = AmongAt(p, x, S) /\ x \in ToSet(s)
    BY <1>0, <1>1, <2>2
  <2>4. x \notin FirstOf(s, k)
    <3> SUFFICES ASSUME NEW j \in 1..k, s[j] = s[k + 1] PROVE FALSE
      BY DEF FirstOf
    <3>1. j \in 1..n /\ j # k + 1
      BY <1>0
    <3> QED BY <1>0, <2>2, <3>1 DEF IsInjective
  <2> HIDE DEF p, x
  <2>5. ASSUME x \in S PROVE IsInjective(Append(p, x))
    <3> DEFINE q == Append(p, x)
    <3>1. x \in X /\ x \notin ToSet(p)
      BY <2>1, <2>3, <2>4, <2>5 DEF X, x
    <3>2. q = Append(p, x)
      OBVIOUS
    <3> HIDE DEF q, Q, n
    <3>3. IsInjective(q)
      BY <2>1, <3>1, <3>2, InjectiveAppend
    <3> QED BY <3>2, <3>3
  <2> QED BY <2>1, <2>3, <2>5 DEF AmongAt
<1>5. n \in Q
  <2> HIDE DEF Q
  <2> QED BY <1>0, <1>3, <1>4, SetInduction
<1> QED BY <1>0, <1>5 DEF Among, f

-----------------------------------------------------------------------------
(* What the operations of the tables of a query are, while joins are       *)
(* planned: of each of the tables F the operation f[t], or Null.           *)

(* What a table has got into reads it, and only tables of the query.       *)
Reads(f, F) ==
    \A t \in F : f[t] # Null => IsPlan(f[t]) /\ t \in Below(f[t]) /\ Below(f[t]) \subseteq F

(* A table of D is read by no operation but its own.                       *)
Owns(f, F, D) ==
    \A v \in F : \A c \in D : f[v] # Null /\ c \in Below(f[v]) => f[c] = f[v]

(* The sides of each join read different tables.                           *)
SidesApart(k) == IsJoin(k) => Below(k.kids[1]) \cap Below(k.kids[2]) = {}

JoinsApart(f, F) == \A v \in F : f[v] # Null => \A k \in Nodes(f[v]) : SidesApart(k)

FilteredBy(k, e) == k.exp = e.id /\ Below(k) \cap TablesOf(e) # {}

(* There is a filter for each comparison that counts as used, ...          *)
Applied(f, used, F, E) ==
    \A e \in E : e.id \in used => \E u \in F : \E k \in Nodes(f[u]) : FilteredBy(k, e)

(* ... and the tables of the others are not all in one operation.          *)
Several(e) == Cardinality(TablesOf(e)) > 1

Apply(f, used, F, E) ==
    \A e \in E : Several(e) /\ e.id \notin used =>
       \A v \in F : f[v] # Null => \E t \in TablesOf(e) : f[t] # f[v]

(* The tables M get node.                                                  *)
Move(f, g, F, M, node) ==
    /\ M \subseteq F /\ M # {} /\ IsPlan(node) /\ node # Null
    /\ M \subseteq Below(node) /\ Below(node) \subseteq F
    /\ \A t \in F : g[t] = IF t \in M THEN node ELSE f[t]

(* All tables of D that it reads get it, and no other operation reads them. *)
Closed(f, F, D, M, node) ==
    /\ Below(node) \cap D \subseteq M
    /\ \A v \in F \ M : f[v] # Null => Below(f[v]) \cap D \cap M = {}

(* When the tables M get node instead of what they had, each table still   *)
(* is below its operation.                                                 *)
LEMMA MoveReads ==
    ASSUME NEW F, NEW f, NEW g, NEW M, NEW node, Move(f, g, F, M, node), Reads(f, F)
    PROVE  Reads(g, F)
  BY DEF Move, Reads

(* And an operation still is that of every table below it, if M is all the *)
(* tables below node.                                                      *)
LEMMA MoveOwns ==
    ASSUME NEW F, NEW f, NEW g, NEW M, NEW node, Move(f, g, F, M, node),
           NEW D, D \subseteq F, Owns(f, F, D), Closed(f, F, D, M, node)
    PROVE  Owns(g, F, D)
<1> SUFFICES ASSUME NEW v \in F, NEW c \in D, g[v] # Null, c \in Below(g[v])
             PROVE  g[c] = g[v]
  BY DEF Owns
<1>1. c \in F
  OBVIOUS
<1>2. CASE v \in M
  <2>1. g[v] = node /\ c \in M
    BY <1>2 DEF Move, Closed
  <2> QED BY <1>1, <2>1 DEF Move
<1>3. CASE v \notin M
  <2>1. g[v] = f[v]
    BY <1>3 DEF Move
  <2>2. c \notin M
    BY <1>3, <2>1 DEF Closed
  <2>3. g[c] = f[c]
    BY <1>1, <2>2 DEF Move
  <2> QED BY <2>1, <2>3 DEF Owns
<1> QED BY <1>2, <1>3

(* No join has one table on both sides, if none in node has.               *)
LEMMA MoveApart ==
    ASSUME NEW F, NEW f, NEW g, NEW M, NEW node, Move(f, g, F, M, node),
           JoinsApart(f, F), \A k \in Nodes(node) : SidesApart(k)
    PROVE  JoinsApart(g, F)
  BY DEF Move, JoinsApart

(* Comparisons that have been used still are filters somewhere, if node    *)
(* has under it what M had.                                                *)
LEMMA MoveApplied ==
    ASSUME NEW F, NEW f, NEW g, NEW M, NEW node, Move(f, g, F, M, node),
           NEW E, AreComparisons(E), NEW used, Applied(f, used, F, E),
           \A u \in M : f[u] # Null => Nodes(f[u]) \subseteq Nodes(node),
           NEW exps, ToSet(exps) \subseteq E,
           \A e \in ToSet(exps) : \E k \in Nodes(node) : FilteredBy(k, e),
           NEW used1, used1 = used \cup IdsIn(exps)
    PROVE  Applied(g, used1, F, E)
<1> SUFFICES ASSUME NEW e \in E, e.id \in used1
             PROVE  \E u \in F : \E k \in Nodes(g[u]) : FilteredBy(k, e)
  BY DEF Applied
<1>1. PICK m : m \in M /\ m \in F /\ g[m] = node
  BY DEF Move
<1>2. CASE e.id \in used
  <2>1. PICK u \in F : \E k \in Nodes(f[u]) : FilteredBy(k, e)
    BY <1>2 DEF Applied
  <2>2. PICK k \in Nodes(f[u]) : FilteredBy(k, e)
    BY <2>1
  <2>3. f[u] # Null
    BY <2>2, NullIs DEF FilteredBy
  <2>4. CASE u \in M
    BY <1>1, <2>2, <2>3, <2>4
  <2>5. CASE u \notin M
    BY <2>2, <2>5 DEF Move
  <2> QED BY <2>4, <2>5
<1>3. CASE e.id \in IdsIn(exps)
  <2>1. PICK x \in ToSet(exps) : x.id = e.id
    BY <1>3 DEF IdsIn
  <2>2. TablesOf(x) = TablesOf(e)
    BY <2>1 DEF AreComparisons
  <2>3. PICK k \in Nodes(node) : FilteredBy(k, x)
    BY <2>1
  <2>4. FilteredBy(k, e)
    BY <2>1, <2>2, <2>3 DEF FilteredBy
  <2> QED BY <1>1, <2>3, <2>4
<1> QED BY <1>2, <1>3

(* Comparisons not used are of tables of several operations, if those of   *)
(* M's tables only have been used.                                         *)
LEMMA MoveApply ==
    ASSUME NEW F, NEW f, NEW g, NEW M, NEW node, Move(f, g, F, M, node), Reads(f, F),
           NEW C, NEW E, C = TablesIn(E), C \subseteq F, Below(node) \cap C \subseteq M,
           NEW used, NEW used1, used \subseteq used1, Apply(f, used, F, E),
           \A e \in E : Several(e) /\ e.id \notin used1 => ~ (TablesOf(e) \subseteq M)
    PROVE  Apply(g, used1, F, E)
<1> SUFFICES ASSUME NEW e \in E, Several(e), e.id \notin used1, NEW v \in F, g[v] # Null
             PROVE  \E t \in TablesOf(e) : g[t] # g[v]
  BY DEF Apply
<1>0. TablesOf(e) \subseteq C
  BY DEF TablesIn
<1>1. CASE g[v] = node
  <2>1. PICK t \in TablesOf(e) : t \notin M
    OBVIOUS
  <2>2. t \in F /\ t \notin Below(node)
    BY <1>0, <2>1
  <2>3. Reads(g, F)
    BY MoveReads
  <2>4. g[t] # node
    BY <2>2, <2>3 DEF Reads, Move
  <2> QED BY <1>1, <2>1, <2>4
<1>2. CASE g[v] # node
  <2>1. v \notin M /\ g[v] = f[v]
    BY <1>2 DEF Move
  <2>2. PICK t \in TablesOf(e) : f[t] # f[v]
    BY <2>1 DEF Apply
  <2>3. t \in F
    BY <1>0
  <2>4. g[t] # g[v]
    BY <1>2, <2>1, <2>2, <2>3 DEF Move
  <2> QED BY <2>4
<1> QED BY <1>1, <1>2

-----------------------------------------------------------------------------
IsOps(f) == f = [t \in Tables |-> f[t]]

(* Every comparison of a list has a filter.                                *)
AllFiltered(node, exps) == \A e \in ToSet(exps) : \E x \in Nodes(node) : FilteredBy(x, e)

NoJoins(node) == \A x \in Nodes(node) : ~ IsJoin(x)

(* From s to s1 table t gets node, and the list is used.                   *)
Gets(s, s1, t, node, exps) ==
    /\ IsState(s1) /\ s1.ops = [s.ops EXCEPT ![t] = node]
    /\ s1.used = s.used \cup IdsIn(exps)

(* The tables of the query, and the comparisons of its condition.          *)
Asked == ToSet(from)
Exps == ToSet(area)

Context == /\ IsSchema(schema) /\ IsList(area) /\ AreComparisons(Exps) /\ Compared = TablesIn(Exps)
           /\ Compared \subseteq Asked /\ Asked \subseteq Tables

(* What every operation of the planning keeps: always; if no index is      *)
(* looked up for another table; if no foreign keys make a cycle, besides;  *)
(* and if no table is compared with itself.                                *)
Kept(s) ==
    /\ IsState(s) /\ IsOps(s.ops) /\ Reads(s.ops, Asked) /\ Owns(s.ops, Asked, Compared)
    /\ Unambiguous => Owns(s.ops, Asked, Asked)
    /\ Unambiguous /\ NoKeyCycle => JoinsApart(s.ops, Asked)
    /\ NoSelfComparison => /\ Applied(s.ops, s.used, Asked, Exps)
                           /\ Apply(s.ops, s.used, Asked, Exps)

(* So what is kept while joins are planned stays.                          *)
LEMMA KeptMove ==
    ASSUME Context,
           NEW s, Kept(s), NEW s1, IsState(s1), IsOps(s1.ops),
           NEW M, NEW node, Move(s.ops, s1.ops, Asked, M, node), Closed(s.ops, Asked, Compared, M, node),
           Unambiguous => Closed(s.ops, Asked, Asked, M, node),
           Unambiguous /\ NoKeyCycle => \A x \in Nodes(node) : SidesApart(x),
           \A v \in M : s.ops[v] # Null => Nodes(s.ops[v]) \subseteq Nodes(node),
           NEW exps, ToSet(exps) \subseteq Exps, s1.used = s.used \cup IdsIn(exps),
           AllFiltered(node, exps),
           NoSelfComparison =>
              \A e \in Exps : Several(e) /\ e.id \notin s1.used => ~ (TablesOf(e) \subseteq M)
    PROVE  Kept(s1)
<1>1. Compared \subseteq Asked /\ Compared = TablesIn(Exps) /\ AreComparisons(Exps)
  BY DEF Context
<1>2. Reads(s1.ops, Asked)
  BY MoveReads DEF Kept
<1>3. Owns(s1.ops, Asked, Compared)
  BY <1>1, MoveOwns DEF Kept
<1>4. Unambiguous => Owns(s1.ops, Asked, Asked)
  <2>1. Asked \subseteq Asked
    OBVIOUS
  <2> QED BY <2>1, MoveOwns DEF Kept
<1>5. Unambiguous /\ NoKeyCycle => JoinsApart(s1.ops, Asked)
  BY MoveApart DEF Kept
<1>6. NoSelfComparison => Applied(s1.ops, s1.used, Asked, Exps)
  BY <1>1, MoveApplied DEF Kept, AllFiltered
<1>7. NoSelfComparison => Apply(s1.ops, s1.used, Asked, Exps)
  <2>1. s.used \subseteq s1.used
    OBVIOUS
  <2>2. Below(node) \cap Compared \subseteq M
    BY DEF Closed
  <2> QED BY <1>1, <2>1, <2>2, MoveApply DEF Kept
<1> QED BY <1>2, <1>3, <1>4, <1>5, <1>6, <1>7 DEF Kept

(* The comparisons not used yet that are of both sets of tables.           *)
LEMMA NumOfFilterIs ==
    ASSUME Context, NEW s, NEW T1, NEW T2,
           NEW exps, exps = NumOfFilter(s, T1, T2)
    PROVE  /\ IsList(exps) /\ ToSet(exps) \subseteq Exps
           /\ \A e \in Exps : e \in ToSet(exps) <=> /\ e.id \notin s.used
                                                /\ HasFromTables(e, T1) /\ HasFromTables(e, T2)
<1> DEFINE S == {e \in ToSet(area) : /\ e.id \notin s.used
                                     /\ HasFromTables(e, T1) /\ HasFromTables(e, T2)}
<1>1. IsList(area) /\ Exps = ToSet(area)
  BY DEF Context, Exps
<1>2. exps = Among(area, S)
  BY DEF NumOfFilter
<1> HIDE DEF S
<1>3. IsList(exps) /\ ToSet(exps) = Exps \cap S
  BY <1>1, <1>2, AmongIs
<1> QED BY <1>1, <1>3 DEF S

(* A comparison of several tables is not of one.                           *)
LEMMA NotOfOne ==
    ASSUME NEW e, Several(e)
    PROVE  TablesOf(e) # {} /\ \A t : ~ (TablesOf(e) \subseteq {t})
<1>1. Cardinality({}) = 0 /\ \A t : Cardinality({t}) = 1
  BY FS_EmptySet, FS_Singleton
<1>2. TablesOf(e) # {}
  BY <1>1 DEF Several
<1>3. ASSUME NEW t, TablesOf(e) \subseteq {t} PROVE FALSE
  <2>1. TablesOf(e) = {t}
    BY <1>2, <1>3
  <2> QED BY <1>1, <2>1 DEF Several
<1> QED BY <1>2, <1>3

(* A table gets an operation of its own, or more over the one it has.      *)
LEMMA AloneKept ==
    ASSUME Context,
           NEW s, Kept(s), NEW s1, NEW t \in Asked, NEW node, NEW exps, Gets(s, s1, t, node, exps),
           IsPlan(node), node # Null, t \in Below(node),
           Below(node) \subseteq Below(s.ops[t]) \cup {t},
           Closed(s.ops, Asked, Compared, {t}, node), Unambiguous => Closed(s.ops, Asked, Asked, {t}, node),
           s.ops[t] # Null => Nodes(s.ops[t]) \subseteq Nodes(node),
           \A x \in Nodes(node) : x \in Nodes(s.ops[t]) \/ ~ IsJoin(x),
           ToSet(exps) \subseteq Exps, AllFiltered(node, exps)
    PROVE  Kept(s1)
<1> DEFINE M == {t}
<1>1. Asked \subseteq Tables
  BY DEF Context
<1>2. IsOps(s1.ops) /\ \A v \in Asked : s1.ops[v] = IF v \in M THEN node ELSE s.ops[v]
  BY <1>1 DEF Kept, IsOps, Gets
<1>3. Below(node) \subseteq Asked
  <2>1. s.ops[t] = Null => Below(s.ops[t]) = {}
    BY NullIs
  <2>2. s.ops[t] # Null => Below(s.ops[t]) \subseteq Asked
    BY DEF Kept, Reads
  <2> QED BY <2>1, <2>2
<1>4. Move(s.ops, s1.ops, Asked, M, node)
  BY <1>2, <1>3 DEF Move
<1>5. ASSUME Unambiguous, NoKeyCycle PROVE \A x \in Nodes(node) : SidesApart(x)
  <2>1. \A x \in Nodes(s.ops[t]) : SidesApart(x)
    BY <1>5, NullIs DEF Kept, JoinsApart, SidesApart
  <2> QED BY <2>1 DEF SidesApart
<1>6. \A e \in Exps : Several(e) /\ e.id \notin s1.used => ~ (TablesOf(e) \subseteq M)
  BY NotOfOne
<1>7. \A v \in M : s.ops[v] # Null => Nodes(s.ops[v]) \subseteq Nodes(node)
  OBVIOUS
<1> HIDE DEF M
<1>8. Closed(s.ops, Asked, Compared, M, node) /\ (Unambiguous => Closed(s.ops, Asked, Asked, M, node))
  BY DEF M
<1>9. IsState(s1) /\ s1.used = s.used \cup IdsIn(exps)
  BY DEF Gets
<1> QED BY <1>2, <1>4, <1>5, <1>6, <1>7, <1>8, <1>9, KeptMove

(* It had none.                                                            *)
LEMMA FirstKept ==
    ASSUME Context,
           NEW s, Kept(s), NEW s1, NEW t \in Asked, s.ops[t] = Null,
           NEW node, NEW exps, Gets(s, s1, t, node, exps),
           IsPlan(node), node # Null, Below(node) = {t},
           NoJoins(node), ToSet(exps) \subseteq Exps, AllFiltered(node, exps)
    PROVE  /\ Kept(s1)
           /\ s1.ops[t] = node /\ \A v \in Tables \ {t} : s1.ops[v] = s.ops[v]
<1>0. Compared \subseteq Asked /\ Asked \subseteq Tables
  BY DEF Context
<1>1. ASSUME NEW D, D \subseteq Asked, Owns(s.ops, Asked, D) PROVE Closed(s.ops, Asked, D, {t}, node)
  BY <1>1 DEF Closed, Owns
<1>2. Closed(s.ops, Asked, Compared, {t}, node)
  BY <1>0, <1>1 DEF Kept
<1>3. Unambiguous => Closed(s.ops, Asked, Asked, {t}, node)
  BY <1>1 DEF Kept
<1>4. Kept(s1)
  BY <1>2, <1>3, AloneKept DEF NoJoins
<1>5. s1.ops[t] = node /\ \A v \in Tables \ {t} : s1.ops[v] = s.ops[v]
  BY <1>0 DEF Kept, IsOps, Gets
<1> QED BY <1>4, <1>5

(* What Give does to the operations.                                       *)
LEMMA GiveIs ==
    ASSUME NEW s, IsState(s), NEW t, NEW op, NEW T1, NEW T2
    PROVE  Gets(s, Give(s, t, op, T1, T2), t, Filtered(op, NumOfFilter(s, T1, T2)),
                NumOfFilter(s, T1, T2))
<1> DEFINE exps == NumOfFilter(s, T1, T2)
           s1 == Give(s, t, op, T1, T2)
           a == Use(s, exps)
           node == Filtered(op, exps)
<1>1. s1 = [a EXCEPT !.ops[t] = node]
  BY DEF Give
<1>2. IsState(a) /\ a.ops = s.ops /\ a.used = s.used \cup IdsIn(exps)
  BY UseIs
<1> HIDE DEF a, node
<1>3. PICK f, w : a = [ops |-> f, used |-> w]
  BY <1>2 DEF IsState
<1>4. a.ops = f /\ a.used = w
  BY <1>3
<1>5. s1 = [ops |-> [f EXCEPT ![t] = node], used |-> w]
  BY <1>1, <1>3
<1> QED BY <1>2, <1>4, <1>5 DEF IsState, node, Gets

(* Giving a leaf to a table that has none keeps Kept.                      *)
LEMMA GiveKept ==
    ASSUME Context,
           NEW s, Kept(s), NEW t \in Asked, s.ops[t] = Null,
           NEW op, IsLeaf(op, t), NEW T1, NEW T2, T1 = {t} \/ T2 = {t},
           NEW s1, s1 = Give(s, t, op, T1, T2)
    PROVE  /\ Kept(s1)
           /\ s1.ops[t] # Null /\ IsPlan(s1.ops[t]) /\ Below(s1.ops[t]) = {t}
           /\ \A v \in Tables \ {t} : s1.ops[v] = s.ops[v]
           /\ T1 = {t} /\ T2 = {} => \A e \in Exps : t \in TablesOf(e) => e.id \in s1.used
<1> DEFINE exps == NumOfFilter(s, T1, T2)
           node == Filtered(op, exps)
<1>0. t \in Tables
  BY DEF Context
<1>1. Gets(s, s1, t, node, exps)
  <2>1. IsState(s)
    BY DEF Kept
  <2> QED BY <2>1, GiveIs
<1>2. /\ IsList(exps) /\ ToSet(exps) \subseteq Exps
      /\ \A e \in Exps : e \in ToSet(exps) <=> /\ e.id \notin s.used
                                           /\ HasFromTables(e, T1) /\ HasFromTables(e, T2)
  BY NumOfFilterIs
<1>3. IsPlan(op) /\ Nodes(op) = {op} /\ Below(op) = {t} /\ op # Null /\ ~ IsJoin(op)
  BY <1>0, LeafIs
<1> HIDE DEF exps
<1>4. /\ IsPlan(node) /\ Below(node) = {t} /\ HasFilters(node, exps, {t}) /\ node # Null
      /\ NoJoins(node)
  BY <1>2, <1>3, FilteredIs DEF NoJoins
<1> HIDE DEF node
<1>5. ASSUME NEW e \in ToSet(exps) PROVE \E x \in Nodes(node) : FilteredBy(x, e)
  <2>1. t \in TablesOf(e)
    BY <1>2 DEF HasFromTables
  <2>2. PICK x \in Nodes(node) : x.exp = e.id /\ Below(x) = {t}
    BY <1>4 DEF HasFilters
  <2> QED BY <2>1, <2>2 DEF FilteredBy
<1>6. /\ Kept(s1)
      /\ s1.ops[t] = node /\ \A v \in Tables \ {t} : s1.ops[v] = s.ops[v]
  <2>1. AllFiltered(node, exps)
    BY <1>5 DEF AllFiltered
  <2>2. ToSet(exps) \subseteq Exps
    BY <1>2
  <2> QED BY <1>1, <1>4, <2>1, <2>2, FirstKept
<1>7. ASSUME T1 = {t}, T2 = {}, NEW e \in Exps, t \in TablesOf(e) PROVE e.id \in s1.used
  <2>1. e.id \in s.used \/ e \in ToSet(exps)
    BY <1>2, <1>7 DEF HasFromTables
  <2> QED BY <1>1, <2>1 DEF IdsIn, Gets
<1> QED BY <1>4, <1>6, <1>7

-----------------------------------------------------------------------------
(* From s to s1 the tables with one of two operations get node.            *)
Joined(s, s1, o1, o2, node, exps) ==
    /\ IsState(s1)
    /\ s1.ops = [t \in Tables |-> IF s.ops[t] \in {o1, o2} THEN node ELSE s.ops[t]]
    /\ s1.used = s.used \cup IdsIn(exps)

(* What is known of them afterwards.                                       *)
JoinedWell(s, s1, o1, o2, node) ==
    /\ node # Null /\ IsPlan(node) /\ Below(node) = Below(o1) \cup Below(o2)
    /\ \A v \in Tables : s1.ops[v] = IF s.ops[v] \in {o1, o2} THEN node ELSE s.ops[v]

(* No comparison of several tables of these operations is left unused.     *)
NoneLeft(s, used, o1, o2) ==
    \A e \in Exps : Several(e) /\ e.id \notin used =>
       \E t \in TablesOf(e) : s.ops[t] \notin {o1, o2}

Mention(s, exps, o1, o2) ==
    \A e \in ToSet(exps) : \E t \in TablesOf(e) \cap Asked : s.ops[t] \in {o1, o2}

(* And so does joining two operations on comparisons of both.              *)
LEMMA JoinKept ==
    ASSUME Context, NEW s, Kept(s), NEW s1, NEW t1 \in Asked, NEW t2 \in Asked,
           s.ops[t1] # Null, s.ops[t2] # Null,
           NEW join, IsPair(join, s.ops[t1], s.ops[t2]),
           NEW exps, IsList(exps), ToSet(exps) \subseteq Exps,
           NEW node, node = Filtered(join, exps), Joined(s, s1, s.ops[t1], s.ops[t2], node, exps),
           Mention(s, exps, s.ops[t1], s.ops[t2]),
           NoSelfComparison => NoneLeft(s, s1.used, s.ops[t1], s.ops[t2]),
           Unambiguous /\ NoKeyCycle => s.ops[t1] # s.ops[t2]
    PROVE  Kept(s1) /\ JoinedWell(s, s1, s.ops[t1], s.ops[t2], node)
<1> DEFINE o1 == s.ops[t1]
           o2 == s.ops[t2]
           M == {t \in Asked : s.ops[t] \in {o1, o2}}
<1>0. Asked \subseteq Tables /\ Compared \subseteq Asked
  BY DEF Context
<1>1. /\ IsPlan(o1) /\ t1 \in Below(o1) /\ Below(o1) \subseteq Asked
      /\ IsPlan(o2) /\ t2 \in Below(o2) /\ Below(o2) \subseteq Asked
  BY DEF Kept, Reads
<1>2. \A t \in M : t \in Below(o1) \cup Below(o2)
  BY DEF Kept, Reads
<1>3. t1 \in M /\ t2 \in M
  OBVIOUS
<1>4. IsPair(join, o1, o2)
  OBVIOUS
<1> HIDE DEF o1, o2
<1>5. /\ IsPlan(join) /\ Nodes(join) = {join} \cup Nodes(o1) \cup Nodes(o2)
      /\ Below(join) = Below(o1) \cup Below(o2)
      /\ join # Null /\ join.kids[1] = o1 /\ join.kids[2] = o2
  BY <1>1, <1>4, PairIs
<1>6. /\ IsPlan(node) /\ Nodes(join) \subseteq Nodes(node) /\ Below(node) = Below(join)
      /\ \A x \in Nodes(node) : x \in Nodes(join) \/ ~ IsJoin(x)
      /\ HasFilters(node, exps, Below(join)) /\ node # Null
  BY <1>5, FilteredIs
<1>7. IsState(s1) /\ s1.used = s.used \cup IdsIn(exps) /\ IsOps(s1.ops)
  BY DEF Joined, IsOps
<1>8. \A v \in Tables : s1.ops[v] = IF s.ops[v] \in {o1, o2} THEN node ELSE s.ops[v]
  BY DEF Joined, o1, o2
<1>9. Move(s.ops, s1.ops, Asked, M, node)
  BY <1>0, <1>1, <1>2, <1>3, <1>5, <1>6, <1>8 DEF Move
<1>10. ASSUME NEW D, D \subseteq Asked, Owns(s.ops, Asked, D) PROVE Closed(s.ops, Asked, D, M, node)
  <2>1. \A c \in D : c \in Below(o1) => s.ops[c] = o1
    BY <1>10 DEF Owns, o1
  <2>2. \A c \in D : c \in Below(o2) => s.ops[c] = o2
    BY <1>10 DEF Owns, o2
  <2>3. Below(node) \cap D \subseteq M
    BY <1>5, <1>6, <1>10, <2>1, <2>2
  <2>4. ASSUME NEW v \in Asked \ M, s.ops[v] # Null, NEW c \in Below(s.ops[v]) \cap D \cap M
        PROVE FALSE
    <3>1. s.ops[c] = s.ops[v]
      BY <1>10, <2>4 DEF Owns
    <3> QED BY <2>4, <3>1
  <2> HIDE DEF M
  <2> QED BY <2>3, <2>4 DEF Closed
<1>11. Closed(s.ops, Asked, Compared, M, node)
  BY <1>0, <1>10 DEF Kept
<1>12. Unambiguous => Closed(s.ops, Asked, Asked, M, node)
  BY <1>10 DEF Kept
<1>13. ASSUME Unambiguous, NoKeyCycle PROVE \A x \in Nodes(node) : SidesApart(x)
  <2>1. JoinsApart(s.ops, Asked) /\ Owns(s.ops, Asked, Asked) /\ o1 # o2
    BY <1>13 DEF Kept, o1, o2
  <2>2. \A x \in Nodes(o1) \cup Nodes(o2) : SidesApart(x)
    BY <2>1 DEF JoinsApart, o1, o2
  <2>3. Below(o1) \cap Below(o2) = {}
    <3>1. \A c \in Asked : c \in Below(o1) => s.ops[c] = o1
      BY <2>1 DEF Owns, o1
    <3>2. \A c \in Asked : c \in Below(o2) => s.ops[c] = o2
      BY <2>1 DEF Owns, o2
    <3> QED BY <1>1, <2>1, <3>1, <3>2
  <2>4. SidesApart(join)
    BY <1>5, <2>3 DEF SidesApart
  <2>5. \A x \in Nodes(node) : ~ IsJoin(x) => SidesApart(x)
    BY DEF SidesApart
  <2> QED BY <1>5, <1>6, <2>2, <2>4, <2>5
<1>14. \A v \in M : s.ops[v] # Null => Nodes(s.ops[v]) \subseteq Nodes(node)
  BY <1>5, <1>6
<1>15. AllFiltered(node, exps)
  <2>1. ASSUME NEW e \in ToSet(exps) PROVE \E x \in Nodes(node) : FilteredBy(x, e)
    <3>1. PICK t \in TablesOf(e) \cap Asked : s.ops[t] \in {o1, o2}
      BY DEF Mention, o1, o2
    <3>2. t \in Below(join)
      BY <1>2, <1>5, <3>1
    <3>3. PICK x \in Nodes(node) : x.exp = e.id /\ Below(x) = Below(join)
      BY <1>6 DEF HasFilters
    <3> QED BY <3>1, <3>2, <3>3 DEF FilteredBy
  <2> QED BY <2>1 DEF AllFiltered
<1>16. NoSelfComparison =>
         \A e \in Exps : Several(e) /\ e.id \notin s1.used => ~ (TablesOf(e) \subseteq M)
  BY DEF NoneLeft, o1, o2
<1> HIDE DEF M
<1>17. Kept(s1)
  BY <1>7, <1>9, <1>11, <1>12, <1>13, <1>14, <1>15, <1>16, KeptMove
<1>18. JoinedWell(s, s1, o1, o2, node)
  BY <1>5, <1>6, <1>8 DEF JoinedWell
<1> QED BY <1>17, <1>18 DEF o1, o2

(* In particular with all of these, as JoinBoth does.                      *)
LEMMA JoinBothKept ==
    ASSUME Context, NEW s, Kept(s), NEW t1 \in Asked, NEW t2 \in Asked,
           s.ops[t1] # Null, s.ops[t2] # Null,
           NEW join, IsPair(join, s.ops[t1], s.ops[t2]),
           Unambiguous /\ NoKeyCycle => s.ops[t1] # s.ops[t2],
           NEW s1, s1 = JoinBoth(s, t1, t2, join)
    PROVE  Kept(s1) /\ \E node : JoinedWell(s, s1, s.ops[t1], s.ops[t2], node)
<1> DEFINE o1 == s.ops[t1]
           o2 == s.ops[t2]
           exps == JoinExps(s, t1, t2)
           node == Filtered(join, exps)
<1>1. Joined(s, s1, o1, o2, node, exps)
  BY JoinBothIs DEF Kept, Joined
<1>2. /\ IsList(exps) /\ ToSet(exps) \subseteq Exps
      /\ \A e \in Exps : e \in ToSet(exps) <=> /\ e.id \notin s.used
                                              /\ HasFromTables(e, TablesWith(s, o1))
                                              /\ HasFromTables(e, TablesWith(s, o2))
  BY NumOfFilterIs DEF JoinExps
<1>3. /\ t1 \in TablesWith(s, o1) /\ \A t \in TablesWith(s, o1) : t \in Asked /\ s.ops[t] = o1
      /\ t2 \in TablesWith(s, o2) /\ \A t \in TablesWith(s, o2) : t \in Asked /\ s.ops[t] = o2
      /\ \A t \in Asked : (s.ops[t] = o1 => t \in TablesWith(s, o1))
                          /\ (s.ops[t] = o2 => t \in TablesWith(s, o2))
  BY DEF TablesWith, Asked
<1> HIDE DEF exps
<1>4. Mention(s, exps, o1, o2)
  <2>1. ASSUME NEW e \in ToSet(exps) PROVE \E t \in TablesOf(e) \cap Asked : s.ops[t] \in {o1, o2}
    <3>1. HasFromTables(e, TablesWith(s, o1))
      BY <1>2
    <3>2. PICK t \in TablesOf(e) : t \in TablesWith(s, o1)
      BY <1>3, <3>1 DEF HasFromTables
    <3> QED BY <1>3, <3>2
  <2> QED BY <2>1 DEF Mention
<1>5. s1.used = s.used \cup IdsIn(exps)
  BY <1>1 DEF Joined
<1>6. ASSUME NoSelfComparison PROVE NoneLeft(s, s1.used, o1, o2)
  <2> SUFFICES ASSUME NEW e \in Exps, Several(e), e.id \notin s1.used,
                      \A t \in TablesOf(e) : s.ops[t] \in {o1, o2}
               PROVE  FALSE
    BY DEF NoneLeft
  <2>1. e \notin ToSet(exps) /\ e.id \notin s.used
    BY <1>5 DEF IdsIn
  <2>2. ~ HasFromTables(e, TablesWith(s, o1)) \/ ~ HasFromTables(e, TablesWith(s, o2))
    BY <1>2, <2>1
  <2>3. TablesOf(e) \subseteq Asked
    BY DEF Context, TablesIn
  <2>4. (\A t \in TablesOf(e) : s.ops[t] = o2) \/ (\A t \in TablesOf(e) : s.ops[t] = o1)
    BY <1>3, <2>2, <2>3 DEF HasFromTables
  <2>5. (\E t \in TablesOf(e) : s.ops[t] # o2) /\ (\E t \in TablesOf(e) : s.ops[t] # o1)
    BY <1>6, <2>1 DEF Kept, Apply
  <2> QED BY <2>4, <2>5
<1>7. IsState(s1) /\ o1 # Null /\ o2 # Null /\ IsPair(join, o1, o2)
  BY <1>1 DEF Joined
<1> HIDE DEF node
<1>8. node = Filtered(join, exps)
  BY DEF node
<1>9. Kept(s1) /\ JoinedWell(s, s1, o1, o2, node)
  BY <1>1, <1>2, <1>4, <1>6, <1>8, JoinKept
<1> QED BY <1>9

(* Nothing to filter.                                                      *)
LEMMA FilteredNone == ASSUME NEW n PROVE Filtered(n, <<>>) = n
<1>1. Len(<<>>) = 0 /\ Len(<<>>) \in Nat
  OBVIOUS
<1>2. FiltersOver(n, <<>>)[0] = n
  BY <1>1, FiltersSteps
<1> QED BY <1>1, <1>2 DEF Filtered

(* No comparisons, no ids.                                                 *)
LEMMA NoIds == IsList(<<>>) /\ IdsIn(<<>>) = {} /\ ToSet(<<>>) = {}
  BY SetOfNone DEF IsList, IdsIn

(* Replacing two operations one after the other is joining them.           *)
LEMMA ReplaceBothIs ==
    ASSUME NEW s, IsState(s), NEW o1, NEW o2, NEW node,
           NEW s1, s1 = Replace(Replace(s, o1, node), o2, node)
    PROVE  Joined(s, s1, o1, o2, node, <<>>)
<1> DEFINE a == Replace(s, o1, node)
<1>1. /\ IsState(a) /\ a.used = s.used
      /\ a.ops = [t \in Tables |-> IF s.ops[t] = o1 THEN node ELSE s.ops[t]]
  BY ReplaceIs
<1>2. s1 = Replace(a, o2, node)
  OBVIOUS
<1> HIDE DEF a
<1>3. /\ IsState(s1) /\ s1.used = a.used
      /\ s1.ops = [t \in Tables |-> IF a.ops[t] = o2 THEN node ELSE a.ops[t]]
  BY <1>1, <1>2, ReplaceIs
<1>4. \A t \in Tables : s1.ops[t] = IF s.ops[t] \in {o1, o2} THEN node ELSE s.ops[t]
  BY <1>1, <1>3
<1>5. s1.ops = [t \in Tables |-> IF s.ops[t] \in {o1, o2} THEN node ELSE s.ops[t]]
  <2>1. s1.ops = [t \in Tables |-> s1.ops[t]]
    BY <1>3
  <2> QED BY <1>4, <2>1
<1>6. s1.used = s.used \cup IdsIn(<<>>)
  BY <1>1, <1>3, NoIds
<1> QED BY <1>3, <1>5, <1>6 DEF Joined

(* Two operations are joined without filters.                              *)
LEMMA BareJoinKept ==
    ASSUME Context, NEW s, Kept(s), NEW t1 \in Asked, NEW t2 \in Asked,
           s.ops[t1] # Null, s.ops[t2] # Null,
           NEW join, IsPair(join, s.ops[t1], s.ops[t2]),
           Unambiguous /\ NoKeyCycle => s.ops[t1] # s.ops[t2],
           NoSelfComparison => NoneLeft(s, s.used, s.ops[t1], s.ops[t2]),
           NEW s1, s1 = Replace(Replace(s, s.ops[t1], join), s.ops[t2], join)
    PROVE  Kept(s1) /\ JoinedWell(s, s1, s.ops[t1], s.ops[t2], join)
<1> DEFINE exps == <<>>
<1>1. Joined(s, s1, s.ops[t1], s.ops[t2], join, exps)
  BY ReplaceBothIs DEF Kept
<1>2. IsList(exps) /\ ToSet(exps) = {} /\ IdsIn(exps) = {} /\ join = Filtered(join, exps)
  BY NoIds, FilteredNone
<1> HIDE DEF exps
<1>3. ToSet(exps) \subseteq Exps /\ s1.used = s.used
  BY <1>1, <1>2 DEF Joined
<1>4. Mention(s, exps, s.ops[t1], s.ops[t2])
  BY <1>2 DEF Mention
<1>5. NoSelfComparison => NoneLeft(s, s1.used, s.ops[t1], s.ops[t2])
  BY <1>3
<1> QED BY <1>1, <1>2, <1>3, <1>4, <1>5, JoinKept

-----------------------------------------------------------------------------
(* A table that has an operation keeps having one.                         *)
Grows(s, s1) == \A v \in Tables : s.ops[v] # Null => s1.ops[v] # Null

(* After a join the tables still have operations.                          *)
LEMMA JoinedGrows ==
    ASSUME NEW s, NEW s1, NEW o1, NEW o2, NEW node, JoinedWell(s, s1, o1, o2, node)
    PROVE  Grows(s, s1)
  BY DEF JoinedWell, Grows

(* The tables of a comparison are compared.                                *)
LEMMA ComparedTables ==
    ASSUME Context, NEW e \in Exps
    PROVE  /\ TablesOf(e) \subseteq Compared
           /\ IsEquiJoin(e) => e.variables[1].table \in Compared /\ e.variables[2].table \in Compared
<1>1. TablesOf(e) \subseteq Compared
  BY DEF Context, TablesIn
<1>2. ASSUME IsEquiJoin(e) PROVE {e.variables[1].table, e.variables[2].table} \subseteq TablesOf(e)
  <2>1. IsList(e.variables) /\ Len(e.variables) = 2
    BY <1>2 DEF Context, AreComparisons, IsExp, IsEquiJoin
  <2>2. DOMAIN e.variables = 1..2
    BY <2>1, ListFacts
  <2>3. e.variables[1] \in ToSet(e.variables) /\ e.variables[2] \in ToSet(e.variables)
    BY <2>2 DEF ToSet
  <2> QED BY <2>3 DEF TablesOf
<1> QED BY <1>1, <1>2

(* A table that is not mentioned is joined with the first such one.        *)
LEMMA NestKept ==
    ASSUME Context, NEW s, Kept(s), NEW h, h = Head(Unmentioned), h \in Asked, NEW t \in Asked,
           s.ops[h] # Null, s.ops[t] # Null, s.ops[h] # s.ops[t],
           \A c \in Compared : s.ops[c] = Null
    PROVE  /\ Kept(NestWithFirst(s, t))
           /\ \E node : JoinedWell(s, NestWithFirst(s, t), s.ops[h], s.ops[t], node)
<1> DEFINE o1 == s.ops[h]
           o2 == s.ops[t]
           join == NestedJoin(o1, o2)
           s1 == NestWithFirst(s, t)
<1>1. s1 = Replace(Replace(s, o1, join), o2, join)
  BY DEF NestWithFirst
<1>2. IsPair(join, o1, o2)
  BY PairsMade
<1>3. NoneLeft(s, s.used, o1, o2)
  <2> SUFFICES ASSUME NEW e \in Exps, Several(e) PROVE \E v \in TablesOf(e) : s.ops[v] \notin {o1, o2}
    BY DEF NoneLeft
  <2>1. TablesOf(e) # {} /\ TablesOf(e) \subseteq Compared
    BY NotOfOne, ComparedTables
  <2> QED BY <2>1
<1> HIDE DEF join, s1
<1>4. Kept(s1) /\ JoinedWell(s, s1, o1, o2, join)
  BY <1>1, <1>2, <1>3, BareJoinKept
<1> QED BY <1>4 DEF s1

(* Two operations that are left over are joined.                           *)
LEMMA UniteKept ==
    ASSUME Context, NEW s, Kept(s), NEW t1 \in Asked, NEW t2 \in Asked,
           s.ops[t1] # Null, s.ops[t2] # Null, s.ops[t1] # s.ops[t2],
           NEW s1, s1 = JoinBoth(s, t1, t2, NestedJoin(s.ops[t1], s.ops[t2]))
    PROVE  Kept(s1) /\ Grows(s, s1)
<1> DEFINE join == NestedJoin(s.ops[t1], s.ops[t2])
<1>1. IsPair(join, s.ops[t1], s.ops[t2]) /\ s1 = JoinBoth(s, t1, t2, join)
  BY PairsMade
<1> HIDE DEF join
<1>2. Kept(s1) /\ \E node : JoinedWell(s, s1, s.ops[t1], s.ops[t2], node)
  BY <1>1, JoinBothKept
<1> QED BY <1>2, JoinedGrows

(* A turn of JoinByHash.                                                   *)
LEMMA HashIndexedKept ==
    ASSUME Context, NEW s, Kept(s), NEW e \in Exps
    PROVE  Kept(HashIndexed(s, e))
<1> DEFINE t1 == e.variables[1].table
           t2 == e.variables[2].table
           join == HashJoin(s.ops[t1], s.ops[t2])
           s1 == JoinBoth(s, t1, t2, join)
<1>1. HashIndexed(s, e) = s \/ (HashIndexed(s, e) = s1 /\ IsEquiJoin(e) /\ CanHash(s, t1, t2))
  BY DEF HashIndexed
<1>2. CASE HashIndexed(s, e) = s1 /\ IsEquiJoin(e) /\ CanHash(s, t1, t2)
  <2>1. t1 \in Asked /\ t2 \in Asked
    BY <1>2, ComparedTables DEF Context
  <2>2. s.ops[t1] # Null /\ s.ops[t2] # Null /\ s.ops[t1] # s.ops[t2]
    BY <1>2 DEF CanHash
  <2>3. IsPair(join, s.ops[t1], s.ops[t2]) /\ s1 = JoinBoth(s, t1, t2, join)
    BY PairsMade
  <2> HIDE DEF t1, t2, join, s1
  <2>4. Kept(s1)
    BY <2>1, <2>2, <2>3, JoinBothKept
  <2> QED BY <1>2, <2>4
<1> QED BY <1>1, <1>2

(* A scan, for a table that has no operation.                              *)
LEMMA GiveScanKept ==
    ASSUME Context, NEW s, Kept(s), NEW t \in Asked, s.ops[t] = Null
    PROVE  /\ Kept(GiveScan(s, t)) /\ GiveScan(s, t).ops[t] # Null
           /\ Below(GiveScan(s, t).ops[t]) = {t}
           /\ \A v \in Tables \ {t} : GiveScan(s, t).ops[v] = s.ops[v]
<1> DEFINE op == SeqScan(t)
           T1 == {t}
           T2 == {}
           s1 == GiveScan(s, t)
<1>1. s1 = Give(s, t, op, T1, T2) /\ IsLeaf(op, t) /\ T1 = {t}
  BY LeavesMade DEF GiveScan
<1> HIDE DEF op, T1, T2, s1
<1>2. Kept(s1) /\ s1.ops[t] # Null /\ Below(s1.ops[t]) = {t} /\ \A v \in Tables \ {t} : s1.ops[v] = s.ops[v]
  BY <1>1, GiveKept
<1> QED BY <1>2 DEF s1

(* A turn of ScanRest.                                                     *)
LEMMA ScanIfNoneKept ==
    ASSUME Context, NEW s, Kept(s), NEW t \in Asked
    PROVE  Kept(ScanIfNone(s, t)) /\ Grows(s, ScanIfNone(s, t)) /\ ScanIfNone(s, t).ops[t] # Null
<1>1. CASE s.ops[t] # Null
  <2>1. ScanIfNone(s, t) = s
    BY <1>1 DEF ScanIfNone
  <2> QED BY <1>1, <2>1 DEF Grows
<1>2. CASE s.ops[t] = Null
  <2>1. ScanIfNone(s, t) = GiveScan(s, t)
    BY <1>2 DEF ScanIfNone
  <2> QED BY <1>2, <2>1, GiveScanKept DEF Grows
<1> QED BY <1>1, <1>2

-----------------------------------------------------------------------------
(* The index found for a table is the table's.                             *)
LEMMA IndexOfTable ==
    ASSUME Context, NEW t \in Tables, NEW columns, HasIndexByCol(t, columns)
    PROVE  IndexByCol(t, columns).table = t
<1> DEFINE xs == schema.indexes[t]
           S == {j \in DOMAIN xs : xs[j].columns = columns}
<1>1. IsList(xs) /\ \A j \in DOMAIN xs : xs[j].table = t
  BY DEF Context, IsSchema
<1>2. DOMAIN xs = 1..Len(xs) /\ Len(xs) \in Nat /\ ToSet(xs) = {xs[j] : j \in 1..Len(xs)}
  BY <1>1, ListFacts
<1>3. S \subseteq Nat /\ S # {}
  <2>1. PICK x \in ToSet(xs) : x.columns = columns
    BY DEF HasIndexByCol
  <2> QED BY <1>2, <2>1
<1>4. Min(S) \in S
  <2>1. PICK x \in S : \A y \in S : x <= y
    BY <1>3, LeastExists
  <2> HIDE DEF S
  <2> QED BY <2>1 DEF Min
<1>5. IndexByCol(t, columns) = xs[Min(S)]
  BY DEF IndexByCol
<1> QED BY <1>1, <1>4, <1>5

(* Table t2, which has no operation, gets into that of t1.                 *)
Merged(s, both, s1, t1, t2, o, join, exps, node) ==
    /\ IsState(s1)
    /\ both.used = s.used /\ both.ops = [t \in Tables |-> IF t = t2 \/ s.ops[t] = o THEN join
                                                          ELSE s.ops[t]]
    /\ exps = NumOfFilter(both, TablesWith(both, join), {t2})
    /\ node = Filtered(join, exps)
    /\ s1.ops = [t \in Tables |-> IF both.ops[t] = join THEN node ELSE both.ops[t]]
    /\ s1.used = s.used \cup IdsIn(exps)

(* What MergeInto does to the operations.                                  *)
LEMMA MergeIntoIs ==
    ASSUME Context, NEW s, IsState(s), NEW old, NEW new, new.table \in Tables
    PROVE  \E join, both, exps, node :
             /\ join = MergeJoin(s.ops[old.table],
                                 [IndexScan(IndexByCol(new.table, <<new.name>>), 1, FALSE)
                                    EXCEPT !.full = TRUE])
             /\ Merged(s, both, MergeInto(s, old, new), old.table, new.table,
                       s.ops[old.table], join, exps, node)
<1> DEFINE o == s.ops[old.table]
           t2 == new.table
           join == MergeJoin(o, [IndexScan(IndexByCol(new.table, <<new.name>>), 1, FALSE)
                                   EXCEPT !.full = TRUE])
           a == Replace(s, o, join)
           both == [a EXCEPT !.ops[t2] = join]
           exps == NumOfFilter(both, TablesWith(both, join), {t2})
           node == Filtered(join, exps)
           b == Replace(both, join, node)
           s1 == MergeInto(s, old, new)
<1>1. s1 = Use(b, exps)
  BY DEF MergeInto
<1>2. /\ IsState(a) /\ a.used = s.used
      /\ a.ops = [t \in Tables |-> IF s.ops[t] = o THEN join ELSE s.ops[t]]
  <2> HIDE DEF join
  <2> QED BY ReplaceIs
<1>3. both = [a EXCEPT !.ops[t2] = join]
  OBVIOUS
<1> HIDE DEF a, join, both
<1>4. /\ IsState(both) /\ both.used = a.used /\ both.ops = [a.ops EXCEPT ![t2] = join]
  <2>1. PICK f, w : a = [ops |-> f, used |-> w]
    BY <1>2 DEF IsState
  <2>2. a.ops = f /\ a.used = w
    BY <2>1
  <2>3. both = [ops |-> [f EXCEPT ![t2] = join], used |-> w]
    BY <1>3, <2>1
  <2> QED BY <2>2, <2>3 DEF IsState
<1>5. both.ops = [t \in Tables |-> IF t = t2 \/ s.ops[t] = o THEN join ELSE s.ops[t]]
  BY <1>2, <1>4
<1> HIDE DEF exps, node
<1>6. /\ IsState(b) /\ b.used = both.used
      /\ b.ops = [t \in Tables |-> IF both.ops[t] = join THEN node ELSE both.ops[t]]
  <2>1. IsState(both) /\ b = Replace(both, join, node)
    BY <1>4
  <2> HIDE DEF b
  <2> QED BY <2>1, ReplaceIs
<1> HIDE DEF b
<1>7. IsState(s1) /\ s1.ops = b.ops /\ s1.used = b.used \cup IdsIn(exps)
  BY <1>1, <1>6, UseIs
<1> HIDE DEF s1
<1>8. /\ exps = NumOfFilter(both, TablesWith(both, join), {t2})
      /\ node = Filtered(join, exps)
  BY DEF exps, node
<1>9. Merged(s, both, s1, old.table, t2, o, join, exps, node)
  BY <1>2, <1>4, <1>5, <1>6, <1>7, <1>8 DEF Merged
<1> QED BY <1>9 DEF join, s1

(* Of the table that is merged in nothing was planned, so the join is of   *)
(* two operations.                                                         *)
LEMMA MergedKept ==
    ASSUME Context, NEW s, Kept(s), NEW t1 \in Compared, NEW t2 \in Compared,
           NEW o, o = s.ops[t1], o # Null, s.ops[t2] = Null,
           NEW leaf, IsLeaf(leaf, t2), NEW join, join = MergeJoin(o, leaf),
           NEW both, NEW exps, NEW node, NEW s1,
           Merged(s, both, s1, t1, t2, o, join, exps, node)
    PROVE  Kept(s1)
<1> DEFINE M == {t \in Asked : t = t2 \/ s.ops[t] = o}
<1>0. Asked \subseteq Tables /\ Compared \subseteq Asked /\ t1 \in Asked /\ t2 \in Asked /\ t2 \in Tables
  BY DEF Context
<1>1. IsPlan(o) /\ t1 \in Below(o) /\ Below(o) \subseteq Asked
  BY <1>0 DEF Kept, Reads
<1>2. IsPlan(leaf) /\ Nodes(leaf) = {leaf} /\ Below(leaf) = {t2} /\ leaf # Null /\ ~ IsJoin(leaf)
  BY <1>0, LeafIs
<1>3. /\ IsPlan(join) /\ Nodes(join) = {join} \cup Nodes(o) \cup Nodes(leaf)
      /\ Below(join) = Below(o) \cup {t2}
      /\ join # Null /\ join.kids[1] = o /\ join.kids[2] = leaf
  BY <1>1, <1>2, PairIs, PairsMade
<1>4. \A t \in Asked : s.ops[t] # join
  <2> SUFFICES ASSUME NEW t \in Asked, s.ops[t] = join PROVE FALSE
    OBVIOUS
  <2>1. s.ops[t2] = s.ops[t]
    BY <1>3 DEF Kept, Owns
  <2> QED BY <1>3, <2>1
<1>5. \A t \in Asked : both.ops[t] = join <=> t \in M
  BY <1>0, <1>4 DEF Merged
<1>6. \A t \in Asked : s1.ops[t] = IF t \in M THEN node ELSE s.ops[t]
  BY <1>0, <1>5 DEF Merged
<1>7. IsState(s1) /\ IsOps(s1.ops) /\ s1.used = s.used \cup IdsIn(exps)
  BY DEF Merged, IsOps
<1>8. t1 \in M /\ t2 \in M
  BY <1>0
<1>9. TablesWith(both, join) = M
  BY <1>5 DEF TablesWith, Asked
<1>10. /\ IsList(exps) /\ ToSet(exps) \subseteq Exps
       /\ \A e \in Exps : e \in ToSet(exps) <=> /\ e.id \notin s.used
                                               /\ HasFromTables(e, M) /\ HasFromTables(e, {t2})
  <2>1. exps = NumOfFilter(both, TablesWith(both, join), {t2}) /\ both.used = s.used
    BY DEF Merged
  <2> HIDE DEF M
  <2> QED BY <1>9, <2>1, NumOfFilterIs
<1>11. /\ IsPlan(node) /\ Nodes(join) \subseteq Nodes(node) /\ Below(node) = Below(join)
       /\ \A x \in Nodes(node) : x \in Nodes(join) \/ ~ IsJoin(x)
       /\ HasFilters(node, exps, Below(join)) /\ node # Null
  <2>1. node = Filtered(join, exps)
    BY DEF Merged
  <2>2. IsPlan(join) /\ join # Null /\ IsList(exps)
    BY <1>3, <1>10
  <2> HIDE DEF M
  <2> QED BY <2>1, <2>2, FilteredIs
<1>12. Move(s.ops, s1.ops, Asked, M, node)
  <2>1. \A t \in M : t \in Below(o) \/ t = t2
    BY <1>1 DEF Kept, Reads
  <2> QED BY <1>0, <1>1, <1>3, <1>6, <1>8, <1>11, <2>1 DEF Move
<1>13. ASSUME NEW D, D \subseteq Asked, Owns(s.ops, Asked, D) PROVE Closed(s.ops, Asked, D, M, node)
  <2>1. \A c \in D : c \in Below(o) => s.ops[c] = o
    BY <1>0, <1>13 DEF Owns
  <2>2. Below(node) \cap D \subseteq M
    BY <1>3, <1>11, <1>13, <2>1
  <2>3. ASSUME NEW v \in Asked \ M, s.ops[v] # Null, NEW c \in Below(s.ops[v]) \cap D \cap M
        PROVE FALSE
    <3>1. s.ops[c] = s.ops[v]
      BY <1>13, <2>3 DEF Owns
    <3> QED BY <2>3, <3>1
  <2> HIDE DEF M
  <2> QED BY <2>2, <2>3 DEF Closed
<1>14. Closed(s.ops, Asked, Compared, M, node)
  BY <1>0, <1>13 DEF Kept
<1>15. Unambiguous => Closed(s.ops, Asked, Asked, M, node)
  BY <1>13 DEF Kept
<1>16. ASSUME Unambiguous, NoKeyCycle PROVE \A x \in Nodes(node) : SidesApart(x)
  <2>1. \A x \in Nodes(o) : SidesApart(x)
    BY <1>0, <1>16 DEF Kept, JoinsApart
  <2>2. t2 \notin Below(o)
    BY <1>0 DEF Kept, Owns
  <2>3. SidesApart(join)
    BY <1>2, <1>3, <2>2 DEF SidesApart
  <2>4. \A x \in Nodes(node) : ~ IsJoin(x) => SidesApart(x)
    BY DEF SidesApart
  <2> QED BY <1>2, <1>3, <1>11, <2>1, <2>3, <2>4
<1>17. \A v \in M : s.ops[v] # Null => Nodes(s.ops[v]) \subseteq Nodes(node)
  BY <1>3, <1>11
<1>18. AllFiltered(node, exps)
  <2>1. ASSUME NEW e \in ToSet(exps) PROVE \E x \in Nodes(node) : FilteredBy(x, e)
    <3>1. t2 \in TablesOf(e)
      BY <1>10 DEF HasFromTables
    <3>2. PICK x \in Nodes(node) : x.exp = e.id /\ Below(x) = Below(join)
      BY <1>11 DEF HasFilters
    <3> QED BY <1>3, <3>1, <3>2 DEF FilteredBy
  <2> QED BY <2>1 DEF AllFiltered
<1>19. ASSUME NoSelfComparison, NEW e \in Exps, Several(e), e.id \notin s1.used, TablesOf(e) \subseteq M
       PROVE  FALSE
  <2>1. e \notin ToSet(exps) /\ e.id \notin s.used
    BY <1>7, <1>19 DEF IdsIn
  <2>2. HasFromTables(e, M)
    BY <1>19, NotOfOne DEF HasFromTables
  <2>3. t2 \notin TablesOf(e)
    BY <1>10, <2>1, <2>2 DEF HasFromTables
  <2>4. \A t \in TablesOf(e) : s.ops[t] = o
    BY <1>19, <2>3
  <2>5. \E t \in TablesOf(e) : s.ops[t] # o
    BY <1>0, <1>19, <2>1 DEF Kept, Apply
  <2> QED BY <2>4, <2>5
<1> HIDE DEF M
<1> QED BY <1>7, <1>10, <1>12, <1>14, <1>15, <1>16, <1>17, <1>18, <1>19, KeptMove

(* It has an index of this one column.                                     *)
IsIndexed(v) == HasIndexByCol(v.table, <<v.name>>)

(* So MergeInto keeps Kept.                                                *)
LEMMA MergeIntoKept ==
    ASSUME Context, NEW s, Kept(s), NEW old, NEW new, old.table \in Compared, new.table \in Compared,
           s.ops[old.table] # Null, s.ops[new.table] = Null,
           IsIndexed(new)
    PROVE  Kept(MergeInto(s, old, new))
<1> DEFINE x == IndexByCol(new.table, <<new.name>>)
           leaf == [IndexScan(x, 1, FALSE) EXCEPT !.full = TRUE]
           o == s.ops[old.table]
           t1 == old.table
           t2 == new.table
           s1 == MergeInto(s, old, new)
<1>1. t2 \in Tables /\ IsState(s)
  BY DEF Context, Kept
<1>2. x.table = t2
  BY <1>1, IndexOfTable DEF IsIndexed
<1>3. IsLeaf(leaf, t2)
  <2> HIDE DEF x
  <2> QED BY <1>2, LeavesMade
<1>4. PICK join, both, exps, node : /\ join = MergeJoin(o, leaf)
                                    /\ Merged(s, both, s1, t1, t2, o, join, exps, node)
  BY <1>1, MergeIntoIs
<1>5. t1 \in Compared /\ t2 \in Compared /\ o = s.ops[t1] /\ o # Null /\ s.ops[t2] = Null
  OBVIOUS
<1> HIDE DEF leaf, o, t1, t2, s1
<1>6. Kept(s1)
  BY <1>3, <1>4, <1>5, MergedKept
<1> QED BY <1>6 DEF s1

(* A turn of JoinByMerge.                                                  *)
LEMMA MergeIndexedKept ==
    ASSUME Context, NEW s, Kept(s), NEW e \in Exps
    PROVE  Kept(MergeIndexed(s, e))
<1> DEFINE v1 == e.variables[1]
           v2 == e.variables[2]
           s1 == MergeIndexed(s, e)
           Indexed == IsEquiJoin(e) /\ IsIndexed(v1) /\ IsIndexed(v2)
<1>1. \/ s1 = s
      \/ Indexed /\ s1 = MergeInto(s, v2, v1) /\ s.ops[v1.table] = Null /\ s.ops[v2.table] # Null
      \/ Indexed /\ s1 = MergeInto(s, v1, v2) /\ s.ops[v2.table] = Null /\ s.ops[v1.table] # Null
  BY DEF MergeIndexed, IsIndexed
<1>2. IsEquiJoin(e) => v1.table \in Compared /\ v2.table \in Compared
  BY ComparedTables
<1> SUFFICES Kept(s1)
  OBVIOUS
<1> HIDE DEF v1, v2, s1
<1>3. CASE Indexed /\ s1 = MergeInto(s, v2, v1) /\ s.ops[v1.table] = Null /\ s.ops[v2.table] # Null
  BY <1>2, <1>3, MergeIntoKept
<1>4. CASE Indexed /\ s1 = MergeInto(s, v1, v2) /\ s.ops[v2.table] = Null /\ s.ops[v1.table] # Null
  BY <1>2, <1>4, MergeIntoKept
<1> QED BY <1>1, <1>3, <1>4

-----------------------------------------------------------------------------
(* Operation q is p with more about table t over it, or p itself.          *)
MoreOf(q, p, t) ==
    /\ IsPlan(q) /\ Below(q) \subseteq Below(p) \cup {t}
    /\ p # Null => Nodes(p) \subseteq Nodes(q)
    /\ \A x \in Nodes(q) : x \in Nodes(p) \/ ~ IsJoin(x)
    /\ q = p \/ (q # Null /\ t \in Below(q))

(* An operation has itself.                                                *)
LEMMA SameIsMore == ASSUME NEW p, IsPlan(p), NEW t PROVE MoreOf(p, p, t)
  BY DEF MoreOf

(* What is over what is over p is over p.                                  *)
LEMMA MoreOfMore ==
    ASSUME NEW p, NEW q, NEW r, NEW t, MoreOf(q, p, t), MoreOf(r, q, t)
    PROVE  MoreOf(r, p, t)
<1>1. p # Null => q # Null
  BY DEF MoreOf
<1>2. CASE r = q
  BY <1>2
<1>3. CASE r # q
  <2>1. IsPlan(r) /\ r # Null /\ t \in Below(r) /\ Below(r) \subseteq Below(p) \cup {t}
    BY <1>3 DEF MoreOf
  <2>2. p # Null => Nodes(p) \subseteq Nodes(r)
    BY <1>1 DEF MoreOf
  <2>3. \A x \in Nodes(r) : x \in Nodes(p) \/ ~ IsJoin(x)
    BY DEF MoreOf
  <2> QED BY <2>1, <2>2, <2>3 DEF MoreOf
<1> QED BY <1>2, <1>3

(* A leaf united with an operation is over it.                             *)
LEMMA LeafOver ==
    ASSUME NEW t \in Tables, NEW leaf, IsLeaf(leaf, t), NEW p, IsPlan(p),
           NEW q, q = IF p = Null THEN leaf ELSE OrUnion(leaf, p)
    PROVE  MoreOf(q, p, t)
<1>1. IsPlan(leaf) /\ Nodes(leaf) = {leaf} /\ Below(leaf) = {t} /\ leaf # Null /\ ~ IsJoin(leaf)
  BY LeafIs
<1>2. CASE p = Null
  BY <1>1, <1>2 DEF MoreOf
<1>3. CASE p # Null
  <2>1. IsPair(q, leaf, p) /\ ~ IsJoin(q)
    BY <1>3, PairsMade
  <2>2. /\ IsPlan(q) /\ Nodes(q) = {q} \cup Nodes(leaf) \cup Nodes(p)
        /\ Below(q) = Below(leaf) \cup Below(p) /\ q # Null
    BY <1>1, <2>1, PairIs
  <2> QED BY <1>1, <2>1, <2>2 DEF MoreOf
<1> QED BY <1>2, <1>3

(* Looking up constants of a table puts more about that table over what it *)
(* had.                                                                    *)
LEMMA ConstantsAre ==
    ASSUME NEW t \in Tables, NEW xs, IsList(xs), \A j \in DOMAIN xs : xs[j].table = t,
           NEW p, IsPlan(p), NEW q, q = ConstantsAdded(p, xs)[Len(xs)]
    PROVE  /\ MoreOf(q, p, t)
           /\ (\A j \in DOMAIN xs : ~ Found(xs[j])) => q = p
<1> DEFINE n == Len(xs)
           f == ConstantsAdded(p, xs)
           Unfound == \A j \in DOMAIN xs : ~ Found(xs[j])
           Fine(k) == MoreOf(f[k], p, t) /\ (Unfound => f[k] = p)
           Q == {k \in Nat : k <= n => Fine(k)}
<1>0. n \in Nat /\ DOMAIN xs = 1..n
  BY ListFacts
<1>1. f[0] = p /\ \A k \in 1..n : f[k] = ConstantAdded(f[k - 1], xs[k])
  BY <1>0, ConstantsSteps
<1> HIDE DEF f
<1>2. 0 \in Q
  BY <1>1, SameIsMore
<1>3. ASSUME NEW k \in Nat, k \in Q PROVE k + 1 \in Q
  <2> SUFFICES ASSUME k + 1 <= n PROVE Fine(k + 1)
    OBVIOUS
  <2> DEFINE a == f[k]
             x == xs[k + 1]
             b == f[k + 1]
             leaf == IndexCon(x, LengthFound(x), TRUE)
  <2>1. MoreOf(a, p, t) /\ (Unfound => a = p)
    BY <1>3
  <2>2. b = ConstantAdded(a, x) /\ x.table = t /\ (Unfound => ~ Found(x))
    <3>1. k + 1 \in 1..n /\ (k + 1) - 1 = k
      OBVIOUS
    <3> QED BY <1>0, <1>1, <3>1
  <2>3. IsLeaf(leaf, t)
    <3> HIDE DEF x
    <3> QED BY <2>2, LeavesMade
  <2>4. b = IF Found(x) THEN (IF a = Null THEN leaf ELSE OrUnion(leaf, a)) ELSE a
    BY <2>2 DEF ConstantAdded, WithConstant
  <2> HIDE DEF a, b, x, leaf, Unfound
  <2>5. IsPlan(a)
    BY <2>1 DEF MoreOf
  <2>6. MoreOf(b, a, t)
    BY <2>3, <2>4, <2>5, LeafOver, SameIsMore
  <2>7. MoreOf(b, p, t)
    BY <2>1, <2>6, MoreOfMore
  <2>8. Unfound => b = p
    BY <2>1, <2>2, <2>4
  <2> QED BY <2>7, <2>8 DEF b
<1>4. n \in Q
  <2> HIDE DEF Q
  <2> QED BY <1>0, <1>2, <1>3, SetInduction
<1> HIDE DEF Fine
<1>5. Fine(n)
  BY <1>0, <1>4
<1> QED BY <1>5 DEF Fine, f

(* An index is found by its first column.                                  *)
LEMMA FoundByFirst ==
    ASSUME Context, Unambiguous, NEW t \in Asked, NEW x \in ToSet(schema.indexes[t]), Found(x)
    PROVE  t \in Compared
<1> DEFINE S == {k \in DOMAIN x.columns : ~ EqualToConstant(x.columns[k])}
<1>1. IsList(x.columns) /\ x.columns # <<>>
  <2>1. t \in Tables /\ \E j \in DOMAIN schema.indexes[t] : x = schema.indexes[t][j]
    BY DEF Context, ToSet
  <2> QED BY <2>1 DEF Context, IsSchema
<1>2. DOMAIN x.columns = 1..Len(x.columns) /\ 1 \in DOMAIN x.columns /\ Head(x.columns) = x.columns[1]
  BY <1>1, ListFacts
<1>3. EqualToConstant(x.columns[1])
  <2> SUFFICES ASSUME ~ EqualToConstant(x.columns[1]) PROVE FALSE
    OBVIOUS
  <2>1. 1 \in S /\ S # {} /\ \A y \in S : 1 <= y /\ y \in Nat
    BY <1>2
  <2>2. Min(S) = 1
    <3> HIDE DEF S
    <3>1. \E z \in S : \A y \in S : z <= y
      BY <2>1
    <3>2. Min(S) \in S /\ \A y \in S : Min(S) <= y
      BY <3>1 DEF Min
    <3>3. Min(S) <= 1 /\ 1 <= Min(S) /\ Min(S) \in Nat
      BY <2>1, <3>2
    <3> QED BY <3>3
  <2>3. LengthFound(x) = Min(S) - 1
    BY <2>1 DEF LengthFound
  <2> HIDE DEF S
  <2> QED BY <2>2, <2>3 DEF Found
<1>4. PICK e \in ToSet(area) : /\ e.equal = 1 /\ Len(e.variables) = 1
                               /\ e.variables[1].name = x.columns[1]
  BY <1>3 DEF EqualToConstant
<1>5. e.variables[1].table = t
  BY <1>2, <1>4 DEF Unambiguous, Asked
<1>6. e \in Exps /\ IsList(e.variables)
  BY <1>4 DEF Exps, Context, AreComparisons, IsExp
<1>7. e.variables[1] \in ToSet(e.variables)
  <2>1. e.variables # <<>>
    BY <1>4
  <2> QED BY <1>6, <2>1, ListFacts
<1>8. t \in TablesOf(e)
  BY <1>5, <1>7 DEF TablesOf
<1> QED BY <1>6, <1>8, ComparedTables

(* A table compared is so far alone in its operation.                      *)
Lone(s) == \A c \in Compared : s.ops[c] # Null => Below(s.ops[c]) = {c}

(* A turn of LookUpAllConstants.                                           *)
LEMMA LookUpKept ==
    ASSUME Context, NEW s, Kept(s), Lone(s), NEW t \in Asked
    PROVE  Kept(LookUpConstants(s, t)) /\ Lone(LookUpConstants(s, t))
<1> DEFINE xs == schema.indexes[t]
           p == s.ops[t]
           q == ConstantsAdded(p, xs)[Len(xs)]
           s1 == LookUpConstants(s, t)
           exps == <<>>
<1>0. /\ t \in Tables /\ Compared \subseteq Asked
      /\ IsList(xs) /\ \A j \in DOMAIN xs : xs[j].table = t
  BY DEF Context, IsSchema
<1>1. IsPlan(p) /\ (p # Null => t \in Below(p)) /\ (p = Null => Below(p) = {})
  BY NullIs DEF Kept, Reads
<1>2. IdsIn(exps) = {} /\ ToSet(exps) = {}
  BY NoIds
<1>3. Gets(s, s1, t, q, exps) /\ (q = p => s1 = s) /\ \A v \in Tables \ {t} : s1.ops[v] = s.ops[v]
  <2>1. s1 = [s EXCEPT !.ops[t] = q]
    BY DEF LookUpConstants
  <2>2. PICK g, w : s = [ops |-> g, used |-> w]
    BY DEF Kept, IsState
  <2>3. s.ops = g /\ s.used = w
    BY <2>2
  <2> HIDE DEF q
  <2>4. s1 = [ops |-> [g EXCEPT ![t] = q], used |-> w]
    BY <2>1, <2>2
  <2>5. g = [v \in Tables |-> g[v]]
    BY <2>3 DEF Kept, IsOps
  <2>6. Gets(s, s1, t, q, exps)
    BY <1>2, <2>3, <2>4 DEF Gets, IsState
  <2>7. ASSUME q = p PROVE s1 = s
    <3>1. [g EXCEPT ![t] = q] = g
      BY <1>0, <2>3, <2>5, <2>7
    <3> QED BY <2>2, <2>4, <3>1
  <2>8. \A v \in Tables \ {t} : s1.ops[v] = s.ops[v]
    BY <2>3, <2>4, <2>5
  <2> QED BY <2>6, <2>7, <2>8
<1>4. MoreOf(q, p, t) /\ ((\A j \in DOMAIN xs : ~ Found(xs[j])) => q = p)
  <2> HIDE DEF xs, p
  <2> QED BY <1>0, <1>1, ConstantsAre
<1>5. ASSUME Unambiguous, t \notin Compared PROVE q = p
  <2>1. \A j \in DOMAIN xs : ~ Found(xs[j])
    BY <1>5, FoundByFirst DEF ToSet
  <2> QED BY <1>4, <2>1
<1> SUFFICES Kept(s1) /\ Lone(s1)
  OBVIOUS
<1> HIDE DEF s1, q, exps
<1>6. CASE q = p
  BY <1>3, <1>6
<1>7. CASE q # p
  <2>1. /\ IsPlan(q) /\ q # Null /\ t \in Below(q) /\ Below(q) \subseteq Below(s.ops[t]) \cup {t}
        /\ (s.ops[t] # Null => Nodes(s.ops[t]) \subseteq Nodes(q))
        /\ \A x \in Nodes(q) : x \in Nodes(s.ops[t]) \/ ~ IsJoin(x)
    BY <1>4, <1>7 DEF MoreOf
  <2>2. t \in Compared => Below(q) = {t} /\ (s.ops[t] # Null => Below(s.ops[t]) = {t})
    BY <1>1, <2>1 DEF Lone
  <2>3. ASSUME NEW D, D \subseteq Asked, Owns(s.ops, Asked, D), t \in Compared
        PROVE  Closed(s.ops, Asked, D, {t}, q)
    <3> SUFFICES ASSUME NEW v \in Asked \ {t}, s.ops[v] # Null, t \in Below(s.ops[v]), t \in D PROVE FALSE
      BY <2>2, <2>3 DEF Closed
    <3>1. s.ops[t] = s.ops[v]
      BY <2>3 DEF Owns
    <3>2. v \in Below(s.ops[v])
      BY DEF Kept, Reads
    <3> QED BY <2>2, <2>3, <3>1, <3>2
  <2>4. ASSUME t \notin Compared PROVE Closed(s.ops, Asked, Compared, {t}, q)
    <3> SUFFICES ASSUME NEW c \in Below(q) \cap Compared PROVE FALSE
      BY <2>4 DEF Closed
    <3>1. c \in Below(s.ops[t]) /\ s.ops[t] # Null
      BY <1>1, <2>1, <2>4
    <3>2. s.ops[c] = s.ops[t]
      BY <3>1 DEF Kept, Owns
    <3> QED BY <1>1, <2>4, <3>1, <3>2 DEF Lone
  <2>5. Closed(s.ops, Asked, Compared, {t}, q)
    BY <1>0, <2>3, <2>4 DEF Kept
  <2>6. Unambiguous => Closed(s.ops, Asked, Asked, {t}, q)
    BY <1>5, <1>7, <2>3 DEF Kept
  <2>7. ToSet(exps) \subseteq Exps /\ AllFiltered(q, exps)
    BY <1>2 DEF AllFiltered
  <2>8. Kept(s1)
    BY <1>3, <2>1, <2>5, <2>6, <2>7, AloneKept
  <2>9. Lone(s1)
    <3>1. s1.ops[t] = q
      BY <1>0, <1>3 DEF Gets, Kept, IsOps
    <3>2. Compared \subseteq Tables
      BY DEF Context
    <3> QED BY <1>3, <2>2, <3>1, <3>2 DEF Lone
  <2> QED BY <2>8, <2>9
<1> QED BY <1>6, <1>7

-----------------------------------------------------------------------------
(* There are finitely many tables, and pairs of them.                      *)
LEMMA TablesFinite ==
    /\ \A S : S \subseteq Tables => IsFiniteSet(S)
    /\ IsFiniteSet(Tables \X Tables)
<1>1. Len(RowOrder) \in Nat
  BY PlannerAssumption, ListFacts
<1>2. IsFiniteSet(Tables)
  BY <1>1, FS_Interval DEF Tables
<1>3. \A S : S \subseteq Tables => IsFiniteSet(S)
  BY <1>2, FS_Subset
<1>4. IsFiniteSet(Tables \X Tables)
  BY <1>2, FS_Product
<1> QED BY <1>3, <1>4

(* Only compared tables are joined on keys.                                *)
LEMMA CandidatesCompared == ASSUME Context PROVE Candidates \subseteq Compared
<1> SUFFICES ASSUME NEW e \in ToSet(area) PROVE TablesOf(e) \subseteq Compared
  BY DEF Candidates
<1>1. e \in Exps
  BY DEF Exps
<1> QED BY <1>1, ComparedTables

(* Of some keys those between tables of S.                                 *)
KeysIn(P, S) == P \cap (S \X S)

(* Keys can be counted.                                                    *)
LEMMA KeysInFinite ==
    ASSUME Context, NEW P, P \subseteq KeyPairs, NEW S
    PROVE  IsFiniteSet(KeysIn(P, S)) /\ Cardinality(KeysIn(P, S)) \in Nat
<1>1. Candidates \subseteq Tables
  BY CandidatesCompared DEF Context
<1>2. KeysIn(P, S) \subseteq Tables \X Tables
  <2>1. KeyPairs \subseteq Candidates \X Candidates
    BY DEF KeyPairs
  <2>2. Candidates \X Candidates \subseteq Tables \X Tables
    BY <1>1
  <2> QED BY <2>1, <2>2 DEF KeysIn
<1> QED BY <1>2, TablesFinite, FS_Subset, FS_CardinalityType

(* Of more keys more are among some tables.                                *)
LEMMA MoreKeys ==
    ASSUME Context, NEW P1, P1 \subseteq KeyPairs, NEW P, P \subseteq P1, NEW S
    PROVE  Cardinality(KeysIn(P, S)) <= Cardinality(KeysIn(P1, S))
<1>1. IsFiniteSet(KeysIn(P1, S))
  BY KeysInFinite
<1>2. KeysIn(P, S) \subseteq KeysIn(P1, S)
  BY DEF KeysIn
<1> QED BY <1>1, <1>2, FS_Subset

(* The keys P that have been joined on: between the tables of each         *)
(* operation there are enough of them to connect them all.                 *)
Linked(s, P) ==
    \A t \in Compared : s.ops[t] # Null =>
       Cardinality(KeysIn(P, Below(s.ops[t]))) >= Cardinality(Below(s.ops[t])) - 1

(* Without a cycle of keys, a key that has not been joined on is of two    *)
(* operations: the tables of one are connected by as many keys as there    *)
(* can be.                                                                 *)
LEMMA KeysApart ==
    ASSUME Context, NEW s, Kept(s), NEW P, P \subseteq KeyPairs, Linked(s, P), NoKeyCycle,
           NEW p, p \in KeyPairs, p \notin P, s.ops[p[1]] # Null
    PROVE  s.ops[p[1]] # s.ops[p[2]]
<1> SUFFICES ASSUME s.ops[p[1]] = s.ops[p[2]] PROVE FALSE
  OBVIOUS
<1> DEFINE o == s.ops[p[1]]
           S == Below(o)
           K == KeysIn(P, S)
<1>1. /\ p \in Candidates \X Candidates /\ p[1] \in Compared /\ p[2] \in Compared
      /\ p[1] \in Asked /\ p[2] \in Asked
  BY CandidatesCompared DEF KeyPairs, Context
<1>2. p[1] \in S /\ p[2] \in S /\ S \subseteq Asked
  BY <1>1 DEF Kept, Reads
<1>3. Cardinality(K) >= Cardinality(S) - 1
  BY <1>1 DEF Linked
<1>4. IsFiniteSet(K) /\ Cardinality(K) \in Nat /\ IsFiniteSet(S) /\ Cardinality(S) \in Nat
  <2>1. S \subseteq Tables
    BY <1>2 DEF Context
  <2> HIDE DEF S
  <2> QED BY <2>1, KeysInFinite, TablesFinite, FS_CardinalityType
<1>5. p \notin K
  BY DEF KeysIn
<1>6. Cardinality(K \cup {p}) = Cardinality(K) + 1
  <2> HIDE DEF K
  <2> QED BY <1>4, <1>5, FS_AddElement
<1>7. K \cup {p} \subseteq KeyPairs \cap (S \X S)
  <2>1. p \in S \X S
    BY <1>1, <1>2
  <2> QED BY <2>1 DEF KeysIn
<1>8. IsFiniteSet(KeyPairs \cap (S \X S)) /\ Cardinality(KeyPairs \cap (S \X S)) \in Nat
  BY KeysInFinite DEF KeysIn
<1>9. Cardinality(KeyPairs \cap (S \X S)) < Cardinality(S)
  <2> HIDE DEF S
  <2>1. S \in (SUBSET ToSet(from)) \ {{}}
    BY <1>2 DEF Asked
  <2> QED BY <2>1 DEF NoKeyCycle
<1> HIDE DEF K, S, o
<1>10. Cardinality(K \cup {p}) <= Cardinality(KeyPairs \cap (S \X S))
  BY <1>7, <1>8, FS_Subset
<1> QED BY <1>3, <1>4, <1>6, <1>8, <1>9, <1>10

(* An operation of one table is connected by no key.                       *)
LEMMA LinkFirst ==
    ASSUME Context, NEW s, NEW P, P \subseteq KeyPairs, Linked(s, P),
           NEW s1, NEW t \in Tables, Below(s1.ops[t]) = {t}, \A v \in Tables \ {t} : s1.ops[v] = s.ops[v]
    PROVE  Linked(s1, P)
<1> SUFFICES ASSUME NEW c \in Compared, s1.ops[c] # Null
             PROVE  Cardinality(KeysIn(P, Below(s1.ops[c]))) >= Cardinality(Below(s1.ops[c])) - 1
  BY DEF Linked
<1>0. c \in Tables
  BY DEF Context
<1>1. CASE c = t
  <2>1. Cardinality({t}) = 1
    BY FS_Singleton
  <2>2. Cardinality(KeysIn(P, {t})) \in Nat
    BY KeysInFinite
  <2> QED BY <1>1, <2>1, <2>2
<1>2. CASE c # t
  BY <1>0, <1>2 DEF Linked
<1> QED BY <1>1, <1>2

(* Joining two on a key makes the keys that connect them one more.         *)
LEMMA LinkJoin ==
    ASSUME Context, NEW s, Kept(s), Unambiguous,
           NEW P, P \subseteq KeyPairs, Linked(s, P),
           NEW p, p \in KeyPairs, p \notin P,
           s.ops[p[1]] # Null, s.ops[p[2]] # Null, s.ops[p[1]] # s.ops[p[2]],
           NEW s1, NEW node, JoinedWell(s, s1, s.ops[p[1]], s.ops[p[2]], node)
    PROVE  Linked(s1, P \cup {p})
<1> DEFINE o1 == s.ops[p[1]]
           o2 == s.ops[p[2]]
           S1 == Below(o1)
           S2 == Below(o2)
           S  == Below(node)
           K1 == KeysIn(P, S1)
           K2 == KeysIn(P, S2)
           P1 == P \cup {p}
           K  == KeysIn(P1, S)
<1>1. /\ p \in Candidates \X Candidates /\ p[1] \in Compared /\ p[2] \in Compared
      /\ p[1] \in Asked /\ p[2] \in Asked /\ Compared \subseteq Tables /\ Asked \subseteq Tables
  BY CandidatesCompared DEF KeyPairs, Context
<1>2. p[1] \in S1 /\ S1 \subseteq Asked /\ p[2] \in S2 /\ S2 \subseteq Asked
  BY <1>1 DEF Kept, Reads
<1>3. S1 \cap S2 = {}
  <2>1. Owns(s.ops, Asked, Asked)
    BY DEF Kept
  <2>2. \A c \in Asked : c \in S1 => s.ops[c] = o1
    BY <1>1, <2>1 DEF Owns
  <2>3. \A c \in Asked : c \in S2 => s.ops[c] = o2
    BY <1>1, <2>1 DEF Owns
  <2> HIDE DEF S1, S2
  <2> QED BY <1>2, <2>2, <2>3
<1>4. P1 \subseteq KeyPairs
  OBVIOUS
<1>5. Cardinality(K1) >= Cardinality(S1) - 1 /\ Cardinality(K2) >= Cardinality(S2) - 1
  BY <1>1 DEF Linked
<1>6. S = S1 \cup S2 /\ \A v \in Tables : s1.ops[v] = IF s.ops[v] \in {o1, o2} THEN node ELSE s.ops[v]
  BY DEF JoinedWell
<1> SUFFICES Linked(s1, P1)
  OBVIOUS
<1> HIDE DEF S1, S2, S, P1
<1>7. /\ IsFiniteSet(S1) /\ IsFiniteSet(S2) /\ Cardinality(S1) \in Nat /\ Cardinality(S2) \in Nat
      /\ IsFiniteSet(K1) /\ IsFiniteSet(K2) /\ Cardinality(K1) \in Nat /\ Cardinality(K2) \in Nat
      /\ IsFiniteSet(K) /\ Cardinality(K) \in Nat
  <2>1. S1 \subseteq Tables /\ S2 \subseteq Tables
    BY <1>1, <1>2
  <2> HIDE DEF K1, K2, K
  <2>2. IsFiniteSet(S1) /\ IsFiniteSet(S2) /\ Cardinality(S1) \in Nat /\ Cardinality(S2) \in Nat
    BY <2>1, TablesFinite, FS_CardinalityType
  <2>3. IsFiniteSet(K1) /\ IsFiniteSet(K2) /\ Cardinality(K1) \in Nat /\ Cardinality(K2) \in Nat
    BY KeysInFinite DEF K1, K2
  <2>4. IsFiniteSet(K) /\ Cardinality(K) \in Nat
    BY <1>4, KeysInFinite DEF K
  <2> QED BY <2>2, <2>3, <2>4
<1>8. K1 \cap K2 = {} /\ p \notin K1 \cup K2 /\ K1 \cup K2 \cup {p} \subseteq K
  <2>1. K1 \cap K2 = {}
    BY <1>3 DEF KeysIn
  <2>2. p \notin K1 \cup K2
    BY DEF KeysIn
  <2>3. p \in S \X S
    BY <1>1, <1>2, <1>6
  <2>4. K1 \cup K2 \cup {p} \subseteq K
    BY <1>6, <2>3 DEF KeysIn, P1
  <2> QED BY <2>1, <2>2, <2>4
<1> HIDE DEF K1, K2, K
<1>9. Cardinality(S) = Cardinality(S1) + Cardinality(S2)
  <2>1. Cardinality(S1 \cap S2) = 0
    BY <1>3, FS_EmptySet
  <2>2. Cardinality(S1 \cup S2) = Cardinality(S1) + Cardinality(S2) - Cardinality(S1 \cap S2)
    BY <1>7, FS_Union
  <2> QED BY <1>6, <1>7, <2>1, <2>2
<1>10. IsFiniteSet(K1 \cup K2) /\ Cardinality(K1 \cup K2) = Cardinality(K1) + Cardinality(K2)
  <2>1. Cardinality(K1 \cap K2) = 0
    BY <1>8, FS_EmptySet
  <2>2. /\ IsFiniteSet(K1 \cup K2)
        /\ Cardinality(K1 \cup K2) = Cardinality(K1) + Cardinality(K2) - Cardinality(K1 \cap K2)
    BY <1>7, FS_Union
  <2> QED BY <1>7, <2>1, <2>2
<1>11. Cardinality(K1 \cup K2 \cup {p}) = Cardinality(K1) + Cardinality(K2) + 1
  <2>1. Cardinality((K1 \cup K2) \cup {p}) = Cardinality(K1 \cup K2) + 1
    BY <1>8, <1>10, FS_AddElement
  <2> QED BY <1>10, <2>1
<1>12. Cardinality(K1 \cup K2 \cup {p}) <= Cardinality(K)
  BY <1>7, <1>8, FS_Subset
<1>13. Cardinality(K) >= Cardinality(S) - 1
  BY <1>5, <1>7, <1>9, <1>11, <1>12
<1>14. ASSUME NEW c \in Compared, s1.ops[c] # Null
       PROVE  Cardinality(KeysIn(P1, Below(s1.ops[c]))) >= Cardinality(Below(s1.ops[c])) - 1
  <2>1. CASE s.ops[c] \in {o1, o2}
    <3>1. s1.ops[c] = node
      BY <1>1, <1>6, <2>1
    <3> QED BY <1>13, <3>1 DEF K, S
  <2>2. CASE s.ops[c] \notin {o1, o2}
    <3>1. s1.ops[c] = s.ops[c]
      BY <1>1, <1>6, <2>2
    <3> DEFINE B == Below(s.ops[c])
    <3>2. Cardinality(KeysIn(P, B)) >= Cardinality(B) - 1
      BY <1>14, <3>1 DEF Linked
    <3>3. Cardinality(KeysIn(P, B)) <= Cardinality(KeysIn(P1, B))
      BY <1>4, MoreKeys DEF P1
    <3>4. Cardinality(KeysIn(P, B)) \in Nat /\ Cardinality(KeysIn(P1, B)) \in Nat
      BY <1>4, KeysInFinite
    <3>5. Cardinality(B) \in Nat
      <4>1. c \in Asked
        BY DEF Context
      <4>2. B \subseteq Tables
        BY <1>1, <1>14, <3>1, <4>1 DEF Kept, Reads
      <4> HIDE DEF B
      <4> QED BY <4>2, TablesFinite, FS_CardinalityType
    <3> HIDE DEF B
    <3>6. Cardinality(KeysIn(P1, B)) >= Cardinality(B) - 1
      BY <3>2, <3>3, <3>4, <3>5
    <3> QED BY <3>1, <3>6 DEF B
  <2> QED BY <2>1, <2>2
<1> QED BY <1>14 DEF Linked

-----------------------------------------------------------------------------
(* The tables of the operations that have been joined on the keys P.       *)
KeysJoined(s, P) == Unambiguous /\ NoKeyCycle => Linked(s, P)

(* Table t, and no other, has got an operation.                            *)
Given(s, s1, t) ==
    /\ Kept(s1) /\ s1.ops[t] # Null /\ Below(s1.ops[t]) = {t}
    /\ \A v \in Tables \ {t} : s1.ops[v] = s.ops[v]

NoneLeftOf(s, t) == \A e \in Exps : t \in TablesOf(e) => e.id \in s.used

(* A table's own filters, or those that mention another's too.             *)
LEMMA GiveOwnKept ==
    ASSUME Context, NEW s, Kept(s), NEW t \in Asked, s.ops[t] = Null, NEW op, IsLeaf(op, t),
           NEW s1, s1 = Give(s, t, op, {t}, {})
    PROVE  Given(s, s1, t) /\ NoneLeftOf(s1, t)
<1> DEFINE T1 == {t}
           T2 == {}
<1>1. s1 = Give(s, t, op, T1, T2) /\ T1 = {t} /\ T2 = {}
  OBVIOUS
<1> HIDE DEF T1, T2
<1> QED BY <1>1, GiveKept DEF Given, NoneLeftOf

(* Giving a leaf to a table, filtered by any comparisons with it.          *)
LEMMA GiveOtherKept ==
    ASSUME Context, NEW s, Kept(s), NEW t \in Asked, s.ops[t] = Null, NEW op, IsLeaf(op, t),
           NEW T1, NEW s1, s1 = Give(s, t, op, T1, {t})
    PROVE  Given(s, s1, t)
<1> DEFINE T2 == {t}
<1>1. s1 = Give(s, t, op, T1, T2) /\ T2 = {t}
  OBVIOUS
<1> HIDE DEF T2
<1> QED BY <1>1, GiveKept DEF Given

(* The operations of the table that refers and of that referred to, new if *)
(* it has none.                                                            *)
Referring(s, t1, t2, scan) ==
    IF s.ops[t1] # Null THEN s ELSE Give(s, t1, scan, TablesWith(s, Null), {t1})

Scanned1(s, t1) == IF s.ops[t1] # Null THEN s ELSE [s EXCEPT !.ops[t1] = FullIndexScan(t1)]

(* The scan of the referring table.                                        *)
LEMMA ReferringKept ==
    ASSUME Context, NEW s, Kept(s), NEW P, P \subseteq KeyPairs, KeysJoined(s, P),
           NEW t1 \in Asked, NEW t2, NEW scan, IsLeaf(scan, t1)
    PROVE  /\ Kept(Referring(s, t1, t2, scan)) /\ KeysJoined(Referring(s, t1, t2, scan), P)
           /\ Referring(s, t1, t2, scan).ops[t1] # Null
           /\ \A v \in Tables \ {t1} : Referring(s, t1, t2, scan).ops[v] = s.ops[v]
<1>1. CASE s.ops[t1] # Null
  <2>1. Referring(s, t1, t2, scan) = s
    BY <1>1 DEF Referring
  <2> QED BY <1>1, <2>1
<1>2. CASE s.ops[t1] = Null
  <2> DEFINE T1 == TablesWith(s, Null)
             s1 == Referring(s, t1, t2, scan)
  <2>1. s1 = Give(s, t1, scan, T1, {t1})
    BY <1>2 DEF Referring
  <2> HIDE DEF T1
  <2> SUFFICES Kept(s1) /\ KeysJoined(s1, P) /\ s1.ops[t1] # Null /\ \A v \in Tables \ {t1} : s1.ops[v] = s.ops[v]
    OBVIOUS
  <2> HIDE DEF s1
  <2>2. /\ Kept(s1) /\ s1.ops[t1] # Null /\ Below(s1.ops[t1]) = {t1}
        /\ \A v \in Tables \ {t1} : s1.ops[v] = s.ops[v]
    <3>1. Given(s, s1, t1)
      BY <1>2, <2>1, GiveOtherKept
    <3> QED BY <3>1 DEF Given
  <2>3. t1 \in Tables
    BY DEF Context
  <2>4. KeysJoined(s1, P)
    BY <2>2, <2>3, LinkFirst DEF KeysJoined
  <2> QED BY <2>2, <2>4
<1> QED BY <1>1, <1>2

(* All comparisons of t2 have a filter: a join with it needs none.         *)
LEMMA HashWithNewKept ==
    ASSUME Context, NEW s, Kept(s), NEW P, P \subseteq KeyPairs, KeysJoined(s, P),
           NEW p, p \in KeyPairs, p \notin P, s.ops[p[2]] = Null
    PROVE  /\ Kept(HashWithNew(s, p[1], p[2]))
           /\ KeysJoined(HashWithNew(s, p[1], p[2]), P \cup {p})
<1> DEFINE t1   == p[1]
           t2   == p[2]
           col1 == [k \in DOMAIN ColumnPairs(t1, t2) |-> ColumnPairs(t1, t2)[k][1]]
           scan == IF HasIndexByCol(t1, col1) THEN FullIndexScan(t1) ELSE SeqScan(t1)
           left == Referring(s, t1, t2, scan)
           full == FullIndexScan(t2)
           both == Give(left, t2, full, {t2}, {})
           join == HashOnKey(both.ops[t1], both.ops[t2])
           s1   == Replace(Replace(both, both.ops[t1], join), both.ops[t2], join)
<1>1. HashWithNew(s, t1, t2) = s1
  BY DEF HashWithNew, Referring
<1>2. IsLeaf(scan, t1) /\ IsLeaf(full, t2)
  BY LeavesMade
<1>3. /\ t1 \in Asked /\ t2 \in Asked /\ t1 # t2 /\ t1 \in Tables /\ t2 \in Tables
      /\ p = <<t1, t2>>
  BY CandidatesCompared DEF KeyPairs, Context
<1>4. IsPair(join, both.ops[t1], both.ops[t2])
  BY PairsMade
<1> SUFFICES Kept(s1) /\ KeysJoined(s1, P \cup {p})
  BY <1>1
<1> HIDE DEF scan, full, join
<1>5. Kept(left) /\ KeysJoined(left, P) /\ left.ops[t1] # Null /\ left.ops[t2] = Null
  <2>1. \A v \in Tables \ {t1} : left.ops[v] = s.ops[v]
    BY <1>2, <1>3, ReferringKept
  <2>2. left.ops[t2] = Null
    BY <1>3, <2>1
  <2> HIDE DEF t1, t2
  <2> QED BY <1>2, <1>3, <2>2, ReferringKept
<1>6. both = Give(left, t2, full, {t2}, {})
  OBVIOUS
<1> HIDE DEF left, both
<1>7. /\ Kept(both) /\ both.ops[t2] # Null /\ Below(both.ops[t2]) = {t2}
      /\ \A v \in Tables \ {t2} : both.ops[v] = left.ops[v]
      /\ \A e \in Exps : t2 \in TablesOf(e) => e.id \in both.used
  <2> HIDE DEF t1, t2
  <2>1. Given(left, both, t2) /\ NoneLeftOf(both, t2)
    BY <1>2, <1>3, <1>5, <1>6, GiveOwnKept
  <2> QED BY <2>1 DEF Given, NoneLeftOf
<1>8. both.ops[t1] # Null
  BY <1>3, <1>5, <1>7
<1>9. KeysJoined(both, P)
  BY <1>3, <1>5, <1>7, LinkFirst DEF KeysJoined
<1>10. both.ops[t1] # both.ops[t2]
  <2>1. t1 \in Below(both.ops[t1])
    BY <1>3, <1>7, <1>8 DEF Kept, Reads
  <2> QED BY <1>3, <1>7, <2>1
<1>11. ASSUME NoSelfComparison PROVE NoneLeft(both, both.used, both.ops[t1], both.ops[t2])
  <2> SUFFICES ASSUME NEW e \in Exps, Several(e), e.id \notin both.used,
                      \A t \in TablesOf(e) : both.ops[t] \in {both.ops[t1], both.ops[t2]}
               PROVE  FALSE
    BY DEF NoneLeft
  <2>1. t2 \notin TablesOf(e)
    BY <1>7
  <2>2. PICK t \in TablesOf(e) : both.ops[t] # both.ops[t1]
    BY <1>3, <1>8, <1>11, <1>7 DEF Kept, Apply
  <2>3. both.ops[t] = both.ops[t2] /\ t \in Asked
    BY <2>2, ComparedTables DEF Context
  <2>4. t \in Below(both.ops[t2])
    BY <1>7, <2>3 DEF Kept, Reads
  <2> QED BY <1>7, <2>1, <2>4
<1>12. s1 = Replace(Replace(both, both.ops[t1], join), both.ops[t2], join)
  OBVIOUS
<1> HIDE DEF s1
<1>13. Kept(s1) /\ JoinedWell(both, s1, both.ops[t1], both.ops[t2], join)
  <2> HIDE DEF t1, t2
  <2> QED BY <1>3, <1>4, <1>7, <1>8, <1>10, <1>11, <1>12, BareJoinKept
<1>14. KeysJoined(s1, P \cup {p})
  <2> SUFFICES ASSUME Unambiguous, NoKeyCycle PROVE Linked(s1, P \cup {p})
    BY DEF KeysJoined
  <2>1. Linked(both, P)
    BY <1>9 DEF KeysJoined
  <2> QED BY <1>7, <1>8, <1>10, <1>13, <2>1, LinkJoin
<1> QED BY <1>13, <1>14

(* The join with what the other table is in already.                       *)
LEMMA HashWithJoinedKept ==
    ASSUME Context, NEW s, Kept(s), NEW P, P \subseteq KeyPairs, KeysJoined(s, P),
           NEW p, p \in KeyPairs, p \notin P, s.ops[p[2]] # Null
    PROVE  /\ Kept(HashWithJoined(s, p[1], p[2]))
           /\ KeysJoined(HashWithJoined(s, p[1], p[2]), P \cup {p})
<1> DEFINE t1   == p[1]
           t2   == p[2]
           left == Scanned1(s, t1)
           o1   == left.ops[t1]
           o2   == left.ops[t2]
           join == HashJoin(o1, o2)
           s1   == JoinBoth(left, t1, t2, join)
<1>1. HashWithJoined(s, t1, t2) = s1
  BY DEF HashWithJoined, Scanned1
<1>3. t1 \in Asked /\ t2 \in Asked /\ t1 # t2 /\ t1 \in Tables /\ t2 \in Tables
  BY CandidatesCompared DEF KeyPairs, Context
<1>4. IsPair(join, o1, o2)
  BY PairsMade
<1> SUFFICES Kept(s1) /\ KeysJoined(s1, P \cup {p})
  BY <1>1
<1> HIDE DEF join
<1>5. Kept(left) /\ KeysJoined(left, P) /\ o1 # Null /\ o2 # Null
  <2>1. CASE s.ops[t1] # Null
    <3>1. left = s
      BY <2>1 DEF Scanned1
    <3> QED BY <2>1, <3>1
  <2>2. CASE s.ops[t1] = Null
    <3> DEFINE node == FullIndexScan(t1)
               exps == <<>>
    <3>1. IsPlan(node) /\ node # Null /\ Below(node) = {t1} /\ NoJoins(node)
      <4>1. IsLeaf(node, t1)
        BY LeavesMade
      <4> HIDE DEF node
      <4>2. IsPlan(node) /\ Nodes(node) = {node} /\ Below(node) = {t1} /\ node # Null /\ ~ IsJoin(node)
        BY <1>3, <4>1, LeafIs
      <4> QED BY <4>2 DEF NoJoins
    <3>2. ToSet(exps) = {} /\ IdsIn(exps) = {}
      BY NoIds
    <3>3. left = [s EXCEPT !.ops[t1] = node]
      BY <2>2 DEF Scanned1
    <3>4. PICK g, w : s = [ops |-> g, used |-> w]
      BY DEF Kept, IsState
    <3>5. s.ops = g /\ s.used = w
      BY <3>4
    <3> HIDE DEF node, exps, left
    <3>6. left = [ops |-> [g EXCEPT ![t1] = node], used |-> w]
      BY <3>3, <3>4
    <3>7. Gets(s, left, t1, node, exps)
      BY <3>2, <3>5, <3>6 DEF Gets, IsState
    <3>8. ToSet(exps) \subseteq Exps /\ AllFiltered(node, exps)
      BY <3>2 DEF AllFiltered
    <3>9. Kept(left) /\ left.ops[t1] = node /\ \A v \in Tables \ {t1} : left.ops[v] = s.ops[v]
      <4> HIDE DEF t1
      <4> QED BY <1>3, <2>2, <3>1, <3>7, <3>8, FirstKept
    <3>10. KeysJoined(left, P)
      BY <1>3, <3>1, <3>9, LinkFirst DEF KeysJoined
    <3> QED BY <1>3, <3>1, <3>9, <3>10
  <2> QED BY <2>1, <2>2
<1>6. s1 = JoinBoth(left, t1, t2, join)
  OBVIOUS
<1> HIDE DEF left, s1
<1>7. Unambiguous /\ NoKeyCycle => o1 # o2
  BY <1>5, KeysApart DEF KeysJoined
<1>8. Kept(s1) /\ \E node : JoinedWell(left, s1, o1, o2, node)
  <2> HIDE DEF t1, t2
  <2> QED BY <1>3, <1>4, <1>5, <1>6, <1>7, JoinBothKept
<1>9. KeysJoined(s1, P \cup {p})
  <2> SUFFICES ASSUME Unambiguous, NoKeyCycle PROVE Linked(s1, P \cup {p})
    BY DEF KeysJoined
  <2>1. Linked(left, P) /\ o1 # o2
    BY <1>5, <1>7 DEF KeysJoined
  <2> QED BY <1>5, <1>8, <2>1, LinkJoin
<1> QED BY <1>8, <1>9

(* A turn of JoinForeignKeys.                                              *)
LEMMA JoinOnKeyKept ==
    ASSUME Context, NEW s, Kept(s), NEW P, P \subseteq KeyPairs, KeysJoined(s, P),
           NEW p, p \in Candidates \X Candidates, p[1] # p[2], p \notin P
    PROVE  /\ Kept(JoinOnKey(s, p))
           /\ KeysJoined(JoinOnKey(s, p), P \cup (KeyPairs \cap {p}))
<1>1. CASE ~ IsForeignKey(p[1], p[2])
  <2>1. JoinOnKey(s, p) = s
    BY <1>1 DEF JoinOnKey
  <2>2. p \notin KeyPairs
    BY <1>1 DEF KeyPairs
  <2>3. P \cup (KeyPairs \cap {p}) = P
    BY <2>2
  <2> QED BY <2>1, <2>3
<1>2. CASE IsForeignKey(p[1], p[2])
  <2>1. p \in KeyPairs
    BY <1>2 DEF KeyPairs
  <2>2. P \cup (KeyPairs \cap {p}) = P \cup {p}
    BY <2>1
  <2>3. CASE s.ops[p[2]] = Null
    <3>1. JoinOnKey(s, p) = HashWithNew(s, p[1], p[2])
      BY <1>2, <2>3 DEF JoinOnKey
    <3> QED BY <2>1, <2>2, <2>3, <3>1, HashWithNewKept
  <2>4. CASE s.ops[p[2]] # Null
    <3>1. JoinOnKey(s, p) = HashWithJoined(s, p[1], p[2])
      BY <1>2, <2>4 DEF JoinOnKey
    <3> QED BY <2>1, <2>2, <2>4, <3>1, HashWithJoinedKept
  <2> QED BY <2>3, <2>4
<1> QED BY <1>1, <1>2

-----------------------------------------------------------------------------
AreIndexes(xs, t) ==
    IsList(xs) /\ \A j \in DOMAIN xs : xs[j].table = t /\ IsList(xs[j].columns)

AreUses(u, t) == IsList(u) /\ \A k \in DOMAIN u : u[k].index.table = t

(* What is known of the network of t: its indexes are, and the tables to   *)
(* be scanned are compared and have no operation.                          *)
NetGood(n, t, selected) ==
    /\ AreUses(n.used, t)
    /\ n.seq_scan \subseteq Compared \ ({t} \cup selected)
    /\ \E u, s, e, i, d : n = [used |-> u, seq_scan |-> s, used_expression |-> e,
                               expression_infos |-> i, done |-> d]

(* Appending to a list.                                                    *)
LEMMA AppendList ==
    ASSUME NEW s, IsList(s), NEW x
    PROVE  /\ IsList(Append(s, x)) /\ DOMAIN Append(s, x) = 1..(Len(s) + 1)
           /\ Append(s, x)[Len(s) + 1] = x /\ \A k \in 1..Len(s) : Append(s, x)[k] = s[k]
<1> DEFINE X == ToSet(s) \cup {x}
<1>1. s \in Seq(ToSet(s))
  BY ListFacts
<1>2. s \in Seq(X) /\ x \in X
  BY <1>1
<1> HIDE DEF X
<1>3. /\ Append(s, x) \in Seq(X) /\ DOMAIN Append(s, x) = 1..(Len(s) + 1)
      /\ Append(s, x)[Len(s) + 1] = x /\ \A k \in 1..Len(s) : Append(s, x)[k] = s[k]
  BY <1>2
<1> QED BY <1>3, SeqIsList

(* One more index is used of a table.                                      *)
LEMMA UsedMore ==
    ASSUME NEW n, NEW t, NEW selected, NetGood(n, t, selected), NEW x, x.table = t,
           NEW isScan, NEW len
    PROVE  NetGood(Used(n, x, isScan, len), t, selected)
<1> DEFINE y == Entry(x, isScan, len)
           m == Used(n, x, isScan, len)
<1>1. PICK u, s, e, i, d : n = [used |-> u, seq_scan |-> s, used_expression |-> e,
                                expression_infos |-> i, done |-> d]
  BY DEF NetGood
<1>2. n.used = u /\ n.seq_scan = s
  BY <1>1
<1>3. y.index.table = t
  BY DEF Entry
<1> HIDE DEF y
<1>4. m = [used |-> Append(u, y), seq_scan |-> s, used_expression |-> e,
           expression_infos |-> i, done |-> d]
  <2> DEFINE w == Append(u, y)
  <2>1. m = [n EXCEPT !.used = w]
    BY <1>2 DEF Used, y
  <2> HIDE DEF w, m
  <2>2. m = [used |-> w, seq_scan |-> s, used_expression |-> e, expression_infos |-> i, done |-> d]
    BY <1>1, <2>1
  <2> QED BY <2>2 DEF w
<1> HIDE DEF m
<1>5. m.used = Append(u, y) /\ m.seq_scan = s
  BY <1>4
<1>6. AreUses(u, t) /\ IsList(u) /\ DOMAIN u = 1..Len(u) /\ Len(u) \in Nat
  BY <1>2, ListFacts DEF NetGood, AreUses
<1>7. AreUses(Append(u, y), t)
  <2>1. /\ IsList(Append(u, y)) /\ DOMAIN Append(u, y) = 1..(Len(u) + 1)
        /\ Append(u, y)[Len(u) + 1] = y /\ \A k \in 1..Len(u) : Append(u, y)[k] = u[k]
    BY <1>6, AppendList
  <2>2. \A k \in 1..(Len(u) + 1) : k = Len(u) + 1 \/ k \in 1..Len(u)
    BY <1>6
  <2>3. \A k \in 1..Len(u) : u[k].index.table = t
    BY <1>6 DEF AreUses
  <2> DEFINE v == Append(u, y)
  <2>4. /\ IsList(v) /\ DOMAIN v = 1..(Len(u) + 1)
        /\ v[Len(u) + 1] = y /\ \A k \in 1..Len(u) : v[k] = u[k]
    BY <2>1
  <2> SUFFICES AreUses(v, t)
    OBVIOUS
  <2> HIDE DEF v
  <2> QED BY <1>3, <2>2, <2>3, <2>4 DEF AreUses
<1>8. s \subseteq Compared \ ({t} \cup selected)
  BY <1>2 DEF NetGood
<1>9. NetGood(m, t, selected)
  BY <1>4, <1>5, <1>7, <1>8 DEF NetGood
<1> QED BY <1>9 DEF m

(* Trying an index uses it, or not.                                        *)
LEMMA UseIndexGood ==
    ASSUME NEW n, NEW t, NEW selected, NetGood(n, t, selected),
           NEW x, x.table = t, IsList(x.columns),
           NEW a, \A i \in DOMAIN a : TablesOf(a[i]) \subseteq Compared
    PROVE  NetGood(UseIndex(n, x, a, selected), t, selected)
<1> DEFINE exps == [c \in DOMAIN x.columns |-> LookedAt(x.table, x.columns[c], a, selected)]
           ends == {c \in DOMAIN exps : exps[c] = {} \/ RangeOn(exps[c])}
           last == IF ends = {} THEN Len(x.columns) ELSE Min(ends)
           more == UNION {Others(x.table, exps[c]) : c \in 1..last}
           looked == UNION {exps[c] : c \in 1..last}
           bound == ends = {} /\ x.unique
           m == [n EXCEPT !.seq_scan = @ \cup more, !.used_expression = @ \cup looked, !.done = bound]
<1>0. DOMAIN x.columns = 1..Len(x.columns) /\ Len(x.columns) \in Nat /\ DOMAIN exps = DOMAIN x.columns
  BY ListFacts
<1>1. last \in Nat /\ last <= Len(x.columns)
  <2>1. CASE ends = {}
    <3> HIDE DEF ends, exps
    <3> QED BY <1>0, <2>1
  <2>2. CASE ends # {}
    <3>1. ends \subseteq Nat /\ ends \subseteq 1..Len(x.columns)
      BY <1>0
    <3> HIDE DEF ends
    <3>2. PICK z \in ends : \A y \in ends : z <= y
      BY <2>2, <3>1, LeastExists
    <3>3. Min(ends) \in ends
      BY <3>2 DEF Min
    <3>4. last = Min(ends)
      BY <2>2
    <3>5. Min(ends) \in 1..Len(x.columns)
      BY <3>1, <3>3
    <3> HIDE DEF last, exps
    <3> QED BY <1>0, <3>4, <3>5
  <2> QED BY <2>1, <2>2
<1>2. more \subseteq Compared \ ({t} \cup selected)
  <2> HIDE DEF last
  <2> SUFFICES ASSUME NEW c \in 1..last, NEW u \in Others(x.table, exps[c])
               PROVE  u \in Compared /\ u # t /\ u \notin selected
    OBVIOUS
  <2>1. exps[c] = LookedAt(x.table, x.columns[c], a, selected)
    BY <1>0, <1>1
  <2> HIDE DEF exps
  <2>2. PICK e \in exps[c] : u \in TablesOf(e) \ {t}
    BY DEF Others
  <2>3. PICK i \in DOMAIN a : e = a[i] /\ NotSelected(a[i], selected)
    BY <2>1, <2>2 DEF LookedAt
  <2> QED BY <2>2, <2>3 DEF NotSelected
<1>3. NetGood(m, t, selected)
  <2>1. PICK u, s, e, i, d : n = [used |-> u, seq_scan |-> s, used_expression |-> e,
                                  expression_infos |-> i, done |-> d]
    BY DEF NetGood
  <2>2. n.used = u /\ n.seq_scan = s
    BY <2>1
  <2> HIDE DEF more, looked, bound
  <2> DEFINE s1 == s \cup more
             e1 == e \cup looked
  <2>0. m = [n EXCEPT !.seq_scan = s1, !.used_expression = e1, !.done = bound]
    <3>1. n.seq_scan = s /\ n.used_expression = e
      BY <2>1
    <3> QED BY <3>1
  <2> HIDE DEF s1, e1, m
  <2>3. m = [used |-> u, seq_scan |-> s1, used_expression |-> e1,
             expression_infos |-> i, done |-> bound]
    BY <2>0, <2>1
  <2> USE DEF s1
  <2> HIDE DEF m
  <2>4. m.used = u /\ m.seq_scan = s \cup more
    BY <2>3
  <2>5. AreUses(u, t) /\ s \subseteq Compared \ ({t} \cup selected)
    BY <2>2 DEF NetGood
  <2> QED BY <1>2, <2>3, <2>4, <2>5 DEF NetGood
<1> DEFINE r == UseIndex(n, x, a, selected)
<1>4. r \in {m, Used(m, x, FALSE, last), Used(m, x, TRUE, last), Used(m, x, FALSE, last - 1)}
  <2>1. r = CASE ends = {}                          -> Used(m, x, FALSE, last)
              [] ends # {} /\ RangeOn(exps[last])   -> Used(m, x, TRUE, last)
              [] ends # {} /\ ~ RangeOn(exps[last]) -> IF last = 1 THEN m
                                                       ELSE Used(m, x, FALSE, last - 1)
    BY DEF UseIndex
  <2> HIDE DEF ends, m, last, exps, r
  <2> QED BY <2>1
<1> HIDE DEF m, last, r
<1>5. NetGood(r, t, selected)
  BY <1>3, <1>4, UsedMore
<1> QED BY <1>5 DEF r

-----------------------------------------------------------------------------
(* Before the first there is none.                                         *)
LEMMA NothingGood == ASSUME NEW t, NEW selected PROVE NetGood(Nothing, t, selected)
<1>1. AreUses(<<>>, t)
  BY NoIds DEF AreUses
<1>2. /\ Nothing = [used |-> <<>>, seq_scan |-> {}, used_expression |-> {},
                    expression_infos |-> <<>>, done |-> FALSE]
      /\ Nothing.used = <<>> /\ Nothing.seq_scan = {}
  BY DEF Nothing
<1>3. \E u, s, e, i, d : Nothing = [used |-> u, seq_scan |-> s, used_expression |-> e,
                                    expression_infos |-> i, done |-> d]
  BY <1>2
<1>4. Nothing.seq_scan \subseteq Compared \ ({t} \cup selected)
  BY <1>2
<1> QED BY <1>1, <1>2, <1>3, <1>4 DEF NetGood

(* Put in order, indexes are still the table's.                            *)
LEMMA InOrderIs ==
    ASSUME NEW t, NEW xs, AreIndexes(xs, t), NEW ys, ys = InOrder(xs)
    PROVE  AreIndexes(ys, t)
<1> DEFINE X == ToSet(xs)
           unique == {x \in X : x.unique}
           a == Among(xs, unique)
           b == Among(xs, X \ unique)
<1>0. IsList(xs) /\ X = {xs[j] : j \in 1..Len(xs)} /\ DOMAIN xs = 1..Len(xs)
  BY ListFacts DEF AreIndexes
<1>1. a \in Seq(X) /\ b \in Seq(X)
  BY <1>0, AmongIs
<1>2. ys = a \o b
  BY DEF InOrder
<1>3. \A x \in X : x.table = t /\ IsList(x.columns)
  BY <1>0 DEF AreIndexes
<1> HIDE DEF X, a, b
<1>4. ys \in Seq(X)
  BY <1>1, <1>2
<1>5. IsList(ys) /\ \A j \in DOMAIN ys : ys[j] \in X
  BY <1>4, SeqIsList
<1> QED BY <1>3, <1>5 DEF AreIndexes

(* A network uses indexes of its table only, and asks to scan no table     *)
(* that is not compared.                                                   *)
LEMMA NetworkGood ==
    ASSUME NEW t, NEW xs, AreIndexes(xs, t), NEW selected,
           NEW a, \A i \in DOMAIN a : TablesOf(a[i]) \subseteq Compared,
           NEW n, n = Network(t, xs, a, selected)
    PROVE  NetGood(n, t, selected) /\ (SelfCompared(t, a) => n = Nothing)
<1> DEFINE ys == InOrder(xs)
           f == Tried(ys, a, selected)
           len == Len(ys)
           Q == {k \in Nat : k <= len => NetGood(f[k], t, selected)}
<1>1. n = IF SelfCompared(t, a) THEN Nothing ELSE f[len]
  BY DEF Network
<1>2. AreIndexes(ys, t)
  BY InOrderIs
<1>3. len \in Nat /\ DOMAIN ys = 1..len
  <2> HIDE DEF ys
  <2> QED BY <1>2, ListFacts DEF AreIndexes
<1>4. f[0] = Nothing /\ \A k \in 1..len : f[k] = TryUntilDone(f[k - 1], ys[k], a, selected)
  <2> HIDE DEF ys
  <2> QED BY <1>3, TriesSteps
<1> HIDE DEF f, ys, len
<1>5. 0 \in Q
  BY <1>4, NothingGood
<1>6. ASSUME NEW k \in Nat, k \in Q PROVE k + 1 \in Q
  <2> SUFFICES ASSUME k + 1 <= len PROVE NetGood(f[k + 1], t, selected)
    OBVIOUS
  <2> DEFINE m == f[k]
             x == ys[k + 1]
  <2>1. NetGood(m, t, selected)
    BY <1>3, <1>6
  <2>2. k + 1 \in 1..len /\ (k + 1) - 1 = k
    BY <1>3
  <2>3. f[k + 1] = TryUntilDone(m, x, a, selected)
    BY <1>4, <2>2
  <2>4. x.table = t /\ IsList(x.columns)
    BY <1>2, <1>3, <2>2 DEF AreIndexes
  <2> HIDE DEF m, x
  <2>5. NetGood(UseIndex(m, x, a, selected), t, selected)
    BY <2>1, <2>4, UseIndexGood
  <2> QED BY <2>1, <2>3, <2>5 DEF TryUntilDone
<1>7. len \in Q
  <2> HIDE DEF Q
  <2> QED BY <1>3, <1>5, <1>6, SetInduction
<1> QED BY <1>1, <1>3, <1>7, NothingGood

(* What is searched for over the indexes of t reads t, and joins nothing.  *)
LEMMA LeafUnder ==
    ASSUME NEW t \in Tables, NEW leaf, IsLeaf(leaf, t), NEW p, IsPlan(p),
           NEW q, q = WithIndex(p, leaf)
    PROVE  MoreOf(q, p, t)
<1>0. q = IF p = Null THEN leaf ELSE OrUnion(p, leaf)
  BY DEF WithIndex
<1>1. IsPlan(leaf) /\ Nodes(leaf) = {leaf} /\ Below(leaf) = {t} /\ leaf # Null /\ ~ IsJoin(leaf)
  BY LeafIs
<1>2. CASE p = Null
  BY <1>0, <1>1, <1>2 DEF MoreOf
<1>3. CASE p # Null
  <2>1. IsPair(q, p, leaf) /\ ~ IsJoin(q)
    BY <1>0, <1>3, PairsMade
  <2>2. /\ IsPlan(q) /\ Nodes(q) = {q} \cup Nodes(p) \cup Nodes(leaf)
        /\ Below(q) = Below(p) \cup Below(leaf) /\ q # Null
    BY <1>1, <2>1, PairIs
  <2> QED BY <1>1, <2>1, <2>2 DEF MoreOf
<1> QED BY <1>2, <1>3

(* The searches of a network read its table only.                          *)
LEMMA SearchedIs ==
    ASSUME NEW t \in Tables, NEW n, AreUses(n.used, t),
           NEW q, q = Searched(n)[Len(n.used)]
    PROVE  MoreOf(q, Null, t)
<1> DEFINE u == n.used
           len == Len(u)
           f == Searched(n)
           Q == {k \in Nat : k <= len => MoreOf(f[k], Null, t)}
<1>1. len \in Nat /\ DOMAIN u = 1..len
  BY ListFacts DEF AreUses
<1>2. f[0] = Null /\ \A k \in 1..len : f[k] = WithIndex(f[k - 1], SearchOp(n, u[k]))
  BY <1>1, SearchesSteps
<1> HIDE DEF f, len
<1>3. 0 \in Q
  <2>1. MoreOf(Null, Null, t)
    BY NullIs, SameIsMore
  <2> QED BY <1>2, <2>1
<1>4. ASSUME NEW k \in Nat, k \in Q PROVE k + 1 \in Q
  <2> SUFFICES ASSUME k + 1 <= len PROVE MoreOf(f[k + 1], Null, t)
    OBVIOUS
  <2> DEFINE p == f[k]
             e == u[k + 1]
             leaf == SearchOp(n, e)
             g == f[k + 1]
  <2>1. MoreOf(p, Null, t)
    BY <1>1, <1>4
  <2>2. k + 1 \in 1..len /\ (k + 1) - 1 = k
    BY <1>1
  <2>3. g = WithIndex(p, leaf)
    BY <1>2, <2>2
  <2>4. e.index.table = t
    BY <1>1, <2>2 DEF AreUses
  <2> HIDE DEF e, p, g
  <2>5. IsLeaf(leaf, t)
    BY <2>4, LeavesMade DEF SearchOp
  <2> HIDE DEF leaf
  <2>6. MoreOf(g, p, t)
    <3>1. IsPlan(p)
      BY <2>1 DEF MoreOf
    <3> QED BY <2>3, <2>5, <3>1, LeafUnder
  <2>7. MoreOf(g, Null, t)
    BY <2>1, <2>6, MoreOfMore
  <2> QED BY <2>7 DEF g
<1>5. len \in Q
  <2> HIDE DEF Q
  <2> QED BY <1>1, <1>3, <1>4, SetInduction
<1> QED BY <1>1, <1>5 DEF f, len

(* Several tables without operations are scanned.                          *)
Untouched(s, s1, S) == \A v \in Tables \ S : s1.ops[v] = s.ops[v]

(* The scans it asks for, table by table.                                  *)
LEMMA ScannedKept ==
    ASSUME Context, NEW s, Kept(s), NEW ts, IsList(ts), IsInjective(ts),
           \A u \in ToSet(ts) : u \in Asked /\ s.ops[u] = Null
    PROVE  Kept(Scanned(s, ts)[Len(ts)]) /\ Untouched(s, Scanned(s, ts)[Len(ts)], ToSet(ts))
<1> DEFINE len == Len(ts)
           f == Scanned(s, ts)
           Fine(k) == Kept(f[k]) /\ Untouched(s, f[k], FirstOf(ts, k))
           Q == {k \in Nat : k <= len => Fine(k)}
<1>1. len \in Nat /\ DOMAIN ts = 1..len /\ ToSet(ts) = FirstOf(ts, len)
  BY ListFacts DEF FirstOf
<1>2. f[0] = s /\ \A k \in 1..len : f[k] = GiveScan(f[k - 1], ts[k])
  BY <1>1, ScansSteps
<1> HIDE DEF f, len
<1>3. 0 \in Q
  BY <1>2 DEF Untouched
<1>4. ASSUME NEW k \in Nat, k \in Q PROVE k + 1 \in Q
  <2> SUFFICES ASSUME k + 1 <= len PROVE Fine(k + 1)
    OBVIOUS
  <2> DEFINE a == f[k]
             u == ts[k + 1]
             b == f[k + 1]
  <2>1. Kept(a) /\ Untouched(s, a, FirstOf(ts, k))
    BY <1>1, <1>4
  <2>2. k + 1 \in 1..len /\ (k + 1) - 1 = k
    BY <1>1
  <2>3. b = GiveScan(a, u)
    BY <1>2, <2>2
  <2>4. u \in Asked /\ s.ops[u] = Null /\ u \in Tables
    BY <1>1, <2>2 DEF ToSet, Context
  <2>5. u \notin FirstOf(ts, k)
    <3> SUFFICES ASSUME NEW j \in 1..k, ts[j] = ts[k + 1] PROVE FALSE
      BY DEF FirstOf
    <3>1. j \in 1..len /\ j # k + 1
      BY <1>1
    <3> QED BY <1>1, <2>2, <3>1 DEF IsInjective
  <2>6. FirstOf(ts, k) \cup {u} \subseteq FirstOf(ts, k + 1)
    <3>1. \A j \in 1..k : j \in 1..(k + 1)
      OBVIOUS
    <3>2. k + 1 \in 1..(k + 1)
      OBVIOUS
    <3> QED BY <3>1, <3>2 DEF FirstOf
  <2> SUFFICES Kept(b) /\ Untouched(s, b, FirstOf(ts, k + 1))
    OBVIOUS
  <2> HIDE DEF a, u, b
  <2>7. a.ops[u] = Null
    BY <2>1, <2>4, <2>5 DEF Untouched
  <2>8. Kept(b) /\ \A v \in Tables \ {u} : b.ops[v] = a.ops[v]
    BY <2>1, <2>3, <2>4, <2>7, GiveScanKept
  <2> QED BY <2>1, <2>6, <2>8 DEF Untouched
<1>5. len \in Q
  <2> HIDE DEF Q
  <2> QED BY <1>1, <1>3, <1>4, SetInduction
<1> HIDE DEF Fine
<1>6. Fine(len)
  BY <1>1, <1>5
<1> QED BY <1>1, <1>6 DEF f, len, Fine

-----------------------------------------------------------------------------
(* Where a table is compared with itself nothing is said of the filters.   *)
LEMMA FiltersUncounted ==
    ASSUME NEW s, Kept(s), NEW s1, IsState(s1), s1.ops = s.ops, ~ NoSelfComparison
    PROVE  Kept(s1)
  BY DEF Kept

(* A turn of SearchTables.                                                 *)
LEMMA SearchTableKept ==
    ASSUME Context, NEW s, Kept(s), NEW t \in Compared
    PROVE  Kept(SearchTable(s, t))
<1> DEFINE selected == {u \in Tables : s.ops[u] # Null}
           xs == schema.indexes[t]
           n == Network(t, xs, area, selected)
           scans == Among(RowOrder, n.seq_scan)
           exps == NumOfFilter(s, {t}, {})
           filtered == IF SelfCompared(t, area) THEN Use(s, exps) ELSE s
           all == Scanned(filtered, scans)[Len(scans)]
           node == Searched(n)[Len(n.used)]
           s1 == [all EXCEPT !.ops[t] = node]
<1>1. SearchTable(s, t) = s \/ (SearchTable(s, t) = s1 /\ s.ops[t] = Null)
  BY DEF SearchTable
<1>2. t \in Asked /\ t \in Tables /\ Compared \subseteq Asked /\ Asked \subseteq Tables
  BY DEF Context
<1>3. AreIndexes(xs, t) /\ \A i \in DOMAIN area : TablesOf(area[i]) \subseteq Compared
  <2>1. AreIndexes(xs, t)
    BY <1>2 DEF Context, IsSchema, AreIndexes
  <2>2. \A i \in DOMAIN area : area[i] \in Exps
    BY DEF Exps, ToSet
  <2>3. \A i \in DOMAIN area : TablesOf(area[i]) \subseteq Compared
    BY <2>2, ComparedTables
  <2> QED BY <2>1, <2>3
<1>4. NetGood(n, t, selected) /\ (SelfCompared(t, area) => n = Nothing)
  <2> HIDE DEF xs, selected
  <2> QED BY <1>3, NetworkGood
<1> SUFFICES ASSUME s.ops[t] = Null PROVE Kept(s1)
  BY <1>1
<1> HIDE DEF xs, n
<1>5. Kept(filtered) /\ filtered.ops = s.ops
  <2>1. CASE SelfCompared(t, area)
    <3> HIDE DEF exps
    <3>1. IsState(filtered) /\ filtered.ops = s.ops
      BY <2>1, UseIs DEF Kept
    <3>2. ~ NoSelfComparison
      BY <2>1 DEF NoSelfComparison
    <3> HIDE DEF filtered
    <3> QED BY <3>1, <3>2, FiltersUncounted
  <2>2. CASE ~ SelfCompared(t, area)
    BY <2>2
  <2> QED BY <2>1, <2>2
<1>6. /\ IsList(scans) /\ IsInjective(scans)
      /\ \A u \in ToSet(scans) : u \in Asked /\ s.ops[u] = Null /\ u # t
  <2>1. IsList(RowOrder) /\ IsInjective(RowOrder)
    BY PlannerAssumption
  <2>2. IsList(scans) /\ ToSet(scans) \subseteq n.seq_scan
    BY <2>1, AmongIs
  <2>3. IsInjective(scans)
    BY <2>1, AmongInjective
  <2>4. n.seq_scan \subseteq Compared \ ({t} \cup selected)
    BY <1>4 DEF NetGood
  <2> HIDE DEF scans
  <2>5. \A u \in ToSet(scans) : u \in Asked /\ s.ops[u] = Null /\ u # t
    BY <1>2, <2>2, <2>4
  <2> QED BY <2>2, <2>3, <2>5
<1> HIDE DEF filtered, scans
<1>7. Kept(all) /\ all.ops[t] = Null
  <2>1. \A u \in ToSet(scans) : u \in Asked /\ filtered.ops[u] = Null
    BY <1>5, <1>6
  <2>2. Kept(all) /\ Untouched(filtered, all, ToSet(scans))
    BY <1>5, <1>6, <2>1, ScannedKept
  <2> HIDE DEF all
  <2>3. all.ops[t] = Null
    BY <1>2, <1>5, <1>6, <2>2 DEF Untouched
  <2> QED BY <2>2, <2>3
<1>8. MoreOf(node, Null, t)
  BY <1>2, <1>4, SearchedIs DEF NetGood
<1>9. s1 = [all EXCEPT !.ops[t] = node]
  OBVIOUS
<1> DEFINE none == <<>>
<1>10. ToSet(none) = {} /\ IdsIn(none) = {}
  BY NoIds
<1> HIDE DEF all, node, none, s1
<1>11. PICK g, w : all = [ops |-> g, used |-> w]
  BY <1>7 DEF Kept, IsState
<1>12. all.ops = g /\ all.used = w
  BY <1>11
<1>13. s1 = [ops |-> [g EXCEPT ![t] = node], used |-> w]
  BY <1>9, <1>11
<1>14. CASE node = Null
  <2>1. g = [v \in Tables |-> g[v]]
    BY <1>7, <1>12 DEF Kept, IsOps
  <2>2. [g EXCEPT ![t] = node] = g
    BY <1>2, <1>7, <1>12, <1>14, <2>1
  <2>3. s1 = all
    BY <1>11, <1>13, <2>2
  <2> QED BY <1>7, <2>3
<1>15. CASE node # Null
  <2>1. /\ IsPlan(node) /\ Below(node) = {t}
        /\ \A x \in Nodes(node) : ~ IsJoin(x)
    BY <1>8, <1>15, NullIs DEF MoreOf
  <2>2. NoJoins(node)
    BY <2>1 DEF NoJoins
  <2>3. Gets(all, s1, t, node, none)
    BY <1>10, <1>12, <1>13 DEF Gets, IsState
  <2>4. ToSet(none) \subseteq Exps /\ AllFiltered(node, none)
    BY <1>10 DEF AllFiltered
  <2> QED BY <1>2, <1>7, <1>15, <2>1, <2>2, <2>3, <2>4, FirstKept
<1> QED BY <1>14, <1>15

-----------------------------------------------------------------------------
(* The query does not change.                                              *)
SameQuery == UNCHANGED <<query, schema, parsed, condition, or_node, tables_set, areas>>

(* While the query stays, so does all that is computed from it.            *)
LEMMA SameContext ==
    ASSUME SameQuery
    PROVE  /\ from' = from /\ area' = area /\ Asked' = Asked /\ Exps' = Exps /\ Compared' = Compared
           /\ Unmentioned' = Unmentioned /\ KeyPairs' = KeyPairs /\ Candidates' = Candidates
           /\ Branch' = Branch
           /\ (Unambiguous' <=> Unambiguous) /\ (NoKeyCycle' <=> NoKeyCycle)
           /\ (NoSelfComparison' <=> NoSelfComparison) /\ (NoOuterTable' <=> NoOuterTable)
<1>1. query' = query /\ schema' = schema /\ areas' = areas /\ condition' = condition
      /\ or_node' = or_node /\ tables_set' = tables_set
  BY DEF SameQuery
<1>2. from' = from /\ area' = area
  BY <1>1 DEF from, area
<1>3. Asked' = Asked /\ Exps' = Exps /\ Compared' = Compared
  BY <1>2 DEF Asked, Exps, Compared
<1>4. Unmentioned' = Unmentioned
  BY <1>2, <1>3 DEF Unmentioned
<1>5. \A p1, p2 : ColumnPairs(p1, p2)' = ColumnPairs(p1, p2)
  BY <1>2 DEF ColumnPairs
<1>6. \A p1, p2 : IsForeignKey(p1, p2)' <=> IsForeignKey(p1, p2)
  BY <1>1, <1>5 DEF IsForeignKey
<1>7. Candidates' = Candidates
  BY <1>2 DEF Candidates
<1>8. KeyPairs' = KeyPairs
  BY <1>6, <1>7 DEF KeyPairs
<1>9. Unambiguous' <=> Unambiguous
  BY <1>1, <1>2 DEF Unambiguous
<1>10. NoKeyCycle' <=> NoKeyCycle
  BY <1>2, <1>8 DEF NoKeyCycle
<1>11. (NoSelfComparison' <=> NoSelfComparison) /\ (NoOuterTable' <=> NoOuterTable)
  BY <1>2, <1>3 DEF NoSelfComparison, NoOuterTable
<1>12. Branch' = Branch
  BY <1>1 DEF Branch
<1> QED BY <1>2, <1>3, <1>4, <1>7, <1>8, <1>9, <1>10, <1>11, <1>12

(* What is kept of s is kept of the operations when these have been set to *)
(* s.                                                                      *)
LEMMA KeptAfter ==
    ASSUME SameQuery, NEW s, Kept(s), Set(s)
    PROVE  Kept(Planned)' /\ Planned' = s
<1>1. IsState(s) /\ tables_operations' = s.ops /\ used_exp' = s.used
  BY DEF Kept, Set
<1>2. Planned' = s
  BY <1>1 DEF Planned, IsState
<1>3. /\ Asked' = Asked /\ Exps' = Exps /\ Compared' = Compared
      /\ (Unambiguous' <=> Unambiguous) /\ (NoKeyCycle' <=> NoKeyCycle)
      /\ (NoSelfComparison' <=> NoSelfComparison)
  BY SameContext
<1>4. Kept(Planned)'
  BY <1>2, <1>3 DEF Kept
<1> QED BY <1>2, <1>4

-----------------------------------------------------------------------------
(* A place among N * N is one in a row.                                    *)
LEMMA Rows ==
    ASSUME NEW N \in Nat, N > 0, NEW a \in Nat, a < N * N
    PROVE  /\ a \div N \in Nat /\ a \div N < N /\ a % N \in 0..(N - 1)
           /\ a = N * (a \div N) + (a % N)
<1>1. a \div N \in Int /\ a % N \in 0..(N - 1) /\ a = N * (a \div N) + (a % N)
  OBVIOUS
<1>2. a \div N >= 0
  <2> DEFINE q == a \div N
             r == a % N
  <2>1. q \in Int /\ r \in 0..(N - 1) /\ a = N * q + r
    BY <1>1
  <2> SUFFICES q >= 0
    OBVIOUS
  <2> HIDE DEF q, r
  <2>2. CASE q <= -1
    <3>1. N * q <= N * (-1)
      BY <2>1, <2>2
    <3> QED BY <2>1, <3>1
  <2> QED BY <2>1, <2>2
<1>3. a \div N < N
  <2> DEFINE q == a \div N
             r == a % N
  <2>1. q \in Int /\ r \in 0..(N - 1) /\ a = N * q + r
    BY <1>1
  <2> SUFFICES q < N
    OBVIOUS
  <2> HIDE DEF q, r
  <2>2. CASE q >= N
    <3>1. N * q >= N * N
      BY <2>1, <2>2
    <3> QED BY <2>1, <3>1
  <2> QED BY <2>1, <2>2
<1> QED BY <1>1, <1>2, <1>3

(* Every pair of candidates comes once.                                    *)
LEMMA CandidatePairsAre ==
    /\ IsList(CandidatePairs) /\ IsInjective(CandidatePairs)
    /\ \A p \in ToSet(CandidatePairs) : p \in Candidates \X Candidates /\ p[1] # p[2]
<1> DEFINE N == Len(RowOrder)
           n == N * N
           pairs == [k \in 1..n |-> <<((k - 1) \div N) + 1, ((k - 1) % N) + 1>>]
           S == {p \in Candidates \X Candidates : p[1] # p[2]}
<1>1. N \in Nat /\ n \in Nat
  BY PlannerAssumption, ListFacts
<1>2. CandidatePairs = Among(pairs, S)
  BY DEF CandidatePairs
<1>3. \A k \in 1..n : pairs[k] = <<((k - 1) \div N) + 1, ((k - 1) % N) + 1>>
  OBVIOUS
<1>4. IsList(pairs) /\ DOMAIN pairs = 1..n
  <2> DEFINE X == {pairs[k] : k \in 1..n}
  <2>1. DOMAIN pairs = 1..n /\ pairs = [k \in 1..n |-> pairs[k]]
    OBVIOUS
  <2> HIDE DEF pairs, n
  <2>2. \A k \in 1..n : pairs[k] \in X
    OBVIOUS
  <2> HIDE DEF X
  <2>3. pairs \in Seq(X)
    BY <1>1, <2>1, <2>2
  <2> QED BY <2>1, <2>3, SeqIsList
<1>5. ASSUME NEW i \in 1..n, NEW j \in 1..n, pairs[i] = pairs[j] PROVE i = j
  <2> DEFINE a == i - 1
             b == j - 1
  <2>1. /\ a \in Nat /\ b \in Nat /\ a < n /\ b < n /\ N > 0
    BY <1>1
  <2>2. (a \div N) + 1 = (b \div N) + 1 /\ (a % N) + 1 = (b % N) + 1
    BY <1>3, <1>5
  <2> HIDE DEF a, b, pairs
  <2>3. /\ a \div N \in Nat /\ a % N \in 0..(N - 1) /\ a = N * (a \div N) + (a % N)
        /\ b \div N \in Nat /\ b % N \in 0..(N - 1) /\ b = N * (b \div N) + (b % N)
    BY <1>1, <2>1, Rows
  <2>4. a \div N = b \div N /\ a % N = b % N
    <3> DEFINE qa == a \div N
               ra == a % N
               qb == b \div N
               rb == b % N
    <3>1. qa \in Int /\ ra \in Int /\ qb \in Int /\ rb \in Int
      BY <2>3
    <3>2. qa + 1 = qb + 1 /\ ra + 1 = rb + 1
      BY <2>2
    <3> HIDE DEF qa, ra, qb, rb
    <3>3. qa = qb /\ ra = rb
      BY <3>1, <3>2
    <3> QED BY <3>3 DEF qa, ra, qb, rb
  <2>5. a = b
    BY <2>3, <2>4
  <2> QED BY <2>5 DEF a, b
<1> HIDE DEF pairs, n
<1>6. IsInjective(pairs)
  BY <1>4, <1>5 DEF IsInjective
<1> HIDE DEF S
<1>7. IsList(CandidatePairs) /\ IsInjective(CandidatePairs) /\ ToSet(CandidatePairs) \subseteq S
  BY <1>2, <1>4, <1>6, AmongIs, AmongInjective
<1> QED BY <1>7 DEF S

(* Joins are planned for a query of tables of its own.                     *)
Joining == PlansJoins /\ NoOuterTable

(* Where joins are planned, what has been proved above can be used.        *)
LEMMA JoiningContext ==
    ASSUME Prepared, Joining
    PROVE  /\ Context /\ ToSet(from) = Asked /\ IsList(from) /\ IsInjective(from) /\ Head(from) \in Asked
           /\ area = Leaves(condition)
<1>1. Collected /\ Branch = "joins" /\ Compared \subseteq ToSet(from)
  BY DEF Joining, PlansJoins, NoOuterTable
<1>2. /\ IsList(area) /\ AreComparisons(Exps) /\ Compared = TablesIn(Exps) /\ area = Leaves(condition)
  <2>1. Exps = ToSet(area)
    BY DEF Exps
  <2> QED BY <1>1, <2>1, AreaFacts
<1>3. IsSchema(schema)
  BY PlannerAssumption DEF Prepared
<1>4. IsList(from) /\ IsInjective(from) /\ ToSet(from) \subseteq Tables /\ Head(from) \in ToSet(from)
  BY FromIs
<1>5. ToSet(from) = Asked
  BY DEF Asked
<1> QED BY <1>1, <1>2, <1>3, <1>4, <1>5 DEF Context

-----------------------------------------------------------------------------
(* Each loop over the joins: what the operations s are while the loop has  *)
(* still to go over w.                                                     *)
NoneCompared(s) == \A c \in Compared : s.ops[c] = Null

AtUnmentioned(s, w) ==
    /\ NoneCompared(s) /\ IsList(w) /\ IsInjective(w) /\ ToSet(w) \subseteq Asked \ Compared
    /\ \A u \in Asked \ Compared : IF u \in ToSet(w) THEN s.ops[u] = Null
                                    ELSE s.ops[u] # Null /\ Below(s.ops[u]) = {u}

AtNesting(s, w) ==
    /\ NoneCompared(s) /\ IsList(w) /\ IsInjective(w) /\ ToSet(w) \subseteq Asked \ Compared
    /\ \A u \in Asked \ Compared : s.ops[u] # Null
    /\ \A u \in ToSet(w) : Below(s.ops[u]) = {u} /\ u # Head(Unmentioned)

AtConstants(s, w) == Lone(s) /\ IsList(w) /\ ToSet(w) \subseteq Asked

AtKeys(s, w) ==
    /\ IsList(w) /\ IsInjective(w)
    /\ \A p \in ToSet(w) : p \in Candidates \X Candidates /\ p[1] # p[2]
    /\ KeysJoined(s, KeyPairs \ ToSet(w))

AllPlanned(s) == \A t \in Asked : s.ops[t] # Null

AtRest(s, w) ==
    IsList(w) /\ ToSet(w) \subseteq Asked /\ \A t \in Asked : s.ops[t] # Null \/ t \in ToSet(w)

Over(w, S) == IsList(w) /\ ToSet(w) \subseteq S

Loops(loop, s, w) ==
    /\ loop = "unmentioned" => AtUnmentioned(s, w)
    /\ loop = "nesting" => AtNesting(s, w)
    /\ loop = "constants" => AtConstants(s, w)
    /\ loop = "foreign keys" => AtKeys(s, w)
    /\ loop = "networks" => Over(w, Compared)
    /\ loop \in {"hash joins", "merge joins"} => Over(w, Exps)
    /\ loop = "rest" => AtRest(s, w)
    /\ loop = "uniting" => AllPlanned(s)

Untried == tables_operations = [t \in Tables |-> Null] /\ used_exp = {} /\ todo = <<>>

United == \A t \in Asked : tables_operations[t] = root

(* The inductive invariant of the planning of joins.                       *)
PlanningJoins ==
    /\ pc \in {"parsed", "counting", "collecting"} \cup Planning => Untried
    /\ Joining => Kept(Planned) /\ Loops(pc, Planned, todo) /\ (Done => United /\ root # Null)

-----------------------------------------------------------------------------
(* What a loop has still to do, in the next state.                         *)
LEMMA LoopsAfter ==
    ASSUME SameQuery, NEW s, Planned' = s, Loops(pc', s, todo')
    PROVE  Loops(pc, Planned, todo)'
<1>1. /\ Asked' = Asked /\ Exps' = Exps /\ Compared' = Compared
      /\ Unmentioned' = Unmentioned /\ KeyPairs' = KeyPairs /\ Candidates' = Candidates
      /\ (Unambiguous' <=> Unambiguous) /\ (NoKeyCycle' <=> NoKeyCycle)
  BY SameContext
<1>2. pc' = "unmentioned" => AtUnmentioned(Planned, todo)'
  BY <1>1 DEF Loops, AtUnmentioned, NoneCompared
<1>3. pc' = "nesting" => AtNesting(Planned, todo)'
  BY <1>1 DEF Loops, AtNesting, NoneCompared
<1>4. pc' = "constants" => AtConstants(Planned, todo)'
  BY <1>1 DEF Loops, AtConstants, Lone
<1>5. pc' = "foreign keys" => AtKeys(Planned, todo)'
  BY <1>1 DEF Loops, AtKeys, KeysJoined, Linked
<1>6. pc' = "networks" => Over(todo, Compared)'
  BY <1>1 DEF Loops, Over
<1>7. pc' \in {"hash joins", "merge joins"} => Over(todo, Exps)'
  BY <1>1 DEF Loops, Over
<1>8. pc' = "rest" => AtRest(Planned, todo)'
  BY <1>1 DEF Loops, AtRest
<1>9. pc' = "uniting" => AllPlanned(Planned)'
  BY <1>1 DEF Loops, AllPlanned
<1> QED BY <1>2, <1>3, <1>4, <1>5, <1>6, <1>7, <1>8, <1>9 DEF Loops

UntriedAt == {"parsed", "counting", "collecting"} \cup Planning

(* A step sets the operations: what is to be shown of it.                  *)
LEMMA StepKept ==
    ASSUME SameQuery, NEW s, Kept(s), Set(s), pc' \notin UntriedAt, Loops(pc', s, todo'),
           Done' => root' # Null /\ \A t \in Asked : s.ops[t] = root'
    PROVE  PlanningJoins'
<1>1. Kept(Planned)' /\ Planned' = s
  BY KeptAfter
<1>2. Loops(pc, Planned, todo)'
  BY <1>1, LoopsAfter
<1>3. Done' => United' /\ root' # Null
  BY SameContext DEF United, Set
<1> QED BY <1>1, <1>2, <1>3 DEF PlanningJoins, UntriedAt

(* Before the loops.                                                       *)
LEMMA UntriedKept == Prepared /\ Joining /\ Untried => Kept(Planned)
<1> SUFFICES ASSUME Prepared, Joining, Untried PROVE Kept(Planned)
  OBVIOUS
<1>1. Context
  BY JoiningContext
<1>2. IsState(Planned) /\ Planned.ops = tables_operations /\ Planned.used = used_exp
  BY PlannedIs
<1> DEFINE s == Planned
<1> HIDE DEF s
<1>3. IsState(s) /\ s.ops = [t \in Tables |-> Null] /\ s.used = {}
  BY <1>2 DEF Untried, s
<1>4. \A t \in Asked : s.ops[t] = Null
  BY <1>1, <1>3 DEF Context
<1>5. IsOps(s.ops)
  BY <1>3 DEF IsOps
<1>6. Reads(s.ops, Asked) /\ Owns(s.ops, Asked, Compared) /\ Owns(s.ops, Asked, Asked) /\ JoinsApart(s.ops, Asked)
  BY <1>4 DEF Reads, Owns, JoinsApart
<1>7. Applied(s.ops, s.used, Asked, Exps) /\ Apply(s.ops, s.used, Asked, Exps)
  BY <1>3, <1>4 DEF Applied, Apply
<1>8. Kept(s)
  BY <1>3, <1>5, <1>6, <1>7 DEF Kept
<1> QED BY <1>8 DEF s

(* Nothing has been planned at first.                                      *)
LEMMA PlanningJoinsInit == Init => PlanningJoins
<1> SUFFICES ASSUME Init PROVE PlanningJoins
  OBVIOUS
<1>1. pc = "parsed" /\ Untried
  BY DEF Init, ConditionInit, Untried
<1>2. ~ Joining
  BY <1>1 DEF Joining, PlansJoins, Collected
<1> QED BY <1>1, <1>2 DEF PlanningJoins

(* Preparing the condition plans nothing.                                  *)
LEMMA PreparingKept ==
    ASSUME Prepared, Prepared', PlanningJoins, PrepareCondition
    PROVE  PlanningJoins'
<1>1. pc \in {"parsed", "counting", "collecting"}
  BY DEF PrepareCondition, RemoveNot, Count, Collect
<1>2. Untried'
  BY <1>1 DEF PlanningJoins, Untried, PrepareCondition, planVars
<1>3. CASE pc' \in {"counting", "collecting", "derived"}
  <2>1. ~ Joining'
    BY <1>3 DEF Joining, PlansJoins, Collected
  <2> QED BY <1>2, <2>1 DEF PlanningJoins
<1>4. CASE pc' = Branch /\ Branch' = Branch
  <2>1. pc' \in Planning
    BY <1>4, BranchPlans
  <2>2. ASSUME Joining' PROVE Kept(Planned)' /\ pc' = "joins"
    <3>1. (Prepared /\ Joining /\ Untried => Kept(Planned))'
      BY UntriedKept, PTL
    <3>2. pc' = "joins"
      BY <1>4, <2>2 DEF Joining, PlansJoins
    <3> QED BY <1>2, <2>2, <3>1, <3>2
  <2>3. ASSUME Joining' PROVE Loops(pc, Planned, todo)' /\ ~ Done'
    BY <2>2, <2>3 DEF Loops, Done
  <2> QED BY <1>2, <2>2, <2>3 DEF PlanningJoins
<1>5. pc' \in {"counting", "collecting", "derived"} \/ (pc' = Branch /\ Branch' = Branch)
  BY DEF PrepareCondition, RemoveNot, Count, Collect, Branch
<1> QED BY <1>3, <1>4, <1>5

(* Only joining becomes joining.                                           *)
LEMMA JoiningBefore ==
    ASSUME Prepared, PlanMove
    PROVE  SameQuery /\ pc' \notin UntriedAt /\ (Joining' => Joining)
<1>1. SameQuery
  BY DEF PlanMove, SameQuery, conditionVars
<1>2. pc' \notin UntriedAt
  BY DEF PlanMove, UntriedAt, JoinLoops, Planning
<1>3. pc \notin {"parsed", "counting", "collecting"} /\ (pc = "derived" => query.derived # Null)
  BY DEF PlanMove, Prepared, JoinLoops, Planning
<1>4. query' = query
  BY <1>1 DEF SameQuery
<1>5. Collected' => Collected
  BY <1>3, <1>4 DEF Collected
<1>6. Joining' => Joining
  BY <1>1, <1>5, SameContext DEF Joining, PlansJoins
<1> QED BY <1>1, <1>2, <1>6

(* Nor does a planning without joins, of this kind.                        *)
LEMMA NotJoining ==
    ASSUME Prepared, PlanMove, ~ Joining
    PROVE  PlanningJoins'
<1>1. pc' \notin UntriedAt /\ ~ Joining'
  BY JoiningBefore
<1> QED BY <1>1 DEF PlanningJoins, UntriedAt

-----------------------------------------------------------------------------
(* One turn of each loop.                                                  *)
LEMMA TurnUnmentioned ==
    ASSUME Context, NEW s, Kept(s), NEW w, w # <<>>, AtUnmentioned(s, w)
    PROVE  Kept(GiveScan(s, Head(w))) /\ AtUnmentioned(GiveScan(s, Head(w)), Tail(w))
<1> DEFINE t == Head(w)
           r == Tail(w)
           s1 == GiveScan(s, t)
<1>1. /\ IsList(r) /\ IsInjective(r) /\ t \in ToSet(w) /\ ToSet(w) = {t} \cup ToSet(r)
      /\ t \notin ToSet(r)
  BY TailFacts DEF AtUnmentioned
<1>2. t \in Asked /\ t \notin Compared /\ t \in Tables /\ Asked \subseteq Tables /\ Compared \subseteq Tables
  BY <1>1 DEF AtUnmentioned, Context
<1>3. s.ops[t] = Null
  BY <1>1, <1>2 DEF AtUnmentioned
<1> HIDE DEF t, r
<1>4. /\ Kept(s1) /\ s1.ops[t] # Null /\ Below(s1.ops[t]) = {t}
      /\ \A v \in Tables \ {t} : s1.ops[v] = s.ops[v]
  BY <1>2, <1>3, GiveScanKept
<1> HIDE DEF s1
<1>5. NoneCompared(s1)
  BY <1>2, <1>4 DEF AtUnmentioned, NoneCompared
<1>6. ToSet(r) \subseteq Asked \ Compared
  BY <1>1 DEF AtUnmentioned
<1>7. ASSUME NEW u \in Asked \ Compared
      PROVE  IF u \in ToSet(r) THEN s1.ops[u] = Null ELSE s1.ops[u] # Null /\ Below(s1.ops[u]) = {u}
  <2>1. CASE u = t
    BY <1>1, <1>4, <2>1
  <2>2. CASE u # t
    <3>1. s1.ops[u] = s.ops[u] /\ (u \in ToSet(r) <=> u \in ToSet(w))
      BY <1>1, <1>2, <1>4, <2>2
    <3> QED BY <3>1 DEF AtUnmentioned
  <2> QED BY <2>1, <2>2
<1>8. AtUnmentioned(s1, r)
  BY <1>1, <1>5, <1>6, <1>7 DEF AtUnmentioned
<1> QED BY <1>4, <1>8 DEF s1, t, r

(* The tables no comparison mentions.                                      *)
LEMMA UnmentionedAre ==
    ASSUME Context, IsList(from), IsInjective(from)
    PROVE  /\ IsList(Unmentioned) /\ IsInjective(Unmentioned)
           /\ ToSet(Unmentioned) = Asked \ Compared
           /\ Unmentioned = <<>> <=> Asked \ Compared = {}
           /\ Unmentioned # <<>> => Head(Unmentioned) \in Asked \ Compared
<1> DEFINE S == ToSet(from) \ Compared
           m == Unmentioned
<1>1. m = Among(from, S) /\ Asked = ToSet(from)
  BY DEF Unmentioned, Asked
<1>2. S = Asked \ Compared /\ ToSet(from) \cap S = S
  BY <1>1
<1> HIDE DEF S, m
<1>3. IsList(m) /\ IsInjective(m) /\ ToSet(m) = S /\ (m = <<>> <=> S = {})
  BY <1>1, <1>2, AmongIs, AmongInjective
<1>4. m # <<>> => Head(m) \in S
  BY <1>3, ListFacts
<1> QED BY <1>2, <1>3, <1>4 DEF m

(* Such a table is nested.                                                 *)
LEMMA TurnNesting ==
    ASSUME Context, IsList(from), IsInjective(from), NEW s, Kept(s), NEW w, w # <<>>, AtNesting(s, w)
    PROVE  Kept(NestWithFirst(s, Head(w))) /\ AtNesting(NestWithFirst(s, Head(w)), Tail(w))
<1> DEFINE t == Head(w)
           r == Tail(w)
           h == Head(Unmentioned)
           s1 == NestWithFirst(s, t)
<1>1. /\ IsList(r) /\ IsInjective(r) /\ t \in ToSet(w) /\ ToSet(w) = {t} \cup ToSet(r)
      /\ t \notin ToSet(r)
  BY TailFacts DEF AtNesting
<1>2. t \in Asked \ Compared /\ h \in Asked \ Compared /\ Asked \subseteq Tables /\ Compared \subseteq Tables
  <2>1. t \in Asked \ Compared
    BY <1>1 DEF AtNesting
  <2>2. Unmentioned # <<>>
    BY <2>1, UnmentionedAre
  <2> QED BY <2>1, <2>2, UnmentionedAre DEF Context
<1>3. s.ops[t] # Null /\ s.ops[h] # Null /\ Below(s.ops[t]) = {t} /\ t # h
  BY <1>1, <1>2 DEF AtNesting
<1>4. h \in Below(s.ops[h])
  BY <1>2, <1>3 DEF Kept, Reads
<1>5. s.ops[h] # s.ops[t] /\ \A c \in Compared : s.ops[c] = Null
  BY <1>3, <1>4 DEF AtNesting, NoneCompared
<1> SUFFICES Kept(s1) /\ AtNesting(s1, r)
  OBVIOUS
<1>h. h = Head(Unmentioned)
  OBVIOUS
<1> HIDE DEF t, r, h
<1>6. Kept(s1) /\ \E node : JoinedWell(s, s1, s.ops[h], s.ops[t], node)
  BY <1>h, <1>2, <1>3, <1>5, NestKept
<1> HIDE DEF s1
<1>7. PICK node : /\ node # Null
                  /\ \A v \in Tables : s1.ops[v] = IF s.ops[v] \in {s.ops[h], s.ops[t]} THEN node
                                                   ELSE s.ops[v]
  BY <1>6 DEF JoinedWell
<1>8. NoneCompared(s1)
  <2> SUFFICES ASSUME NEW c \in Compared PROVE s1.ops[c] = Null
    BY DEF NoneCompared
  <2> QED BY <1>2, <1>3, <1>5, <1>7
<1>9. \A u \in Asked \ Compared : s1.ops[u] # Null
  BY <1>2, <1>7 DEF AtNesting
<1>10. ASSUME NEW u \in ToSet(r) PROVE u \in Asked \ Compared /\ Below(s1.ops[u]) = {u} /\ u # h
  <2>1. u \in Asked \ Compared /\ u \in Tables /\ Below(s.ops[u]) = {u} /\ u # h /\ u # t
    BY <1>1, <1>2, <1>h DEF AtNesting
  <2>2. s.ops[u] # s.ops[h] /\ s.ops[u] # s.ops[t]
    BY <1>3, <1>4, <2>1
  <2>3. s1.ops[u] = s.ops[u]
    BY <1>7, <2>1, <2>2
  <2> QED BY <2>1, <2>3
<1>11. ToSet(r) \subseteq Asked \ Compared /\ \A u \in ToSet(r) : Below(s1.ops[u]) = {u} /\ u # Head(Unmentioned)
  BY <1>10, <1>h
<1>12. AtNesting(s1, r)
  BY <1>1, <1>8, <1>9, <1>11 DEF AtNesting
<1> QED BY <1>6, <1>12

(* The constants a table is compared with are looked up.                   *)
LEMMA TurnConstants ==
    ASSUME Context, NEW s, Kept(s), NEW w, w # <<>>, AtConstants(s, w)
    PROVE  Kept(LookUpConstants(s, Head(w))) /\ AtConstants(LookUpConstants(s, Head(w)), Tail(w))
<1>1. IsList(Tail(w)) /\ ToSet(Tail(w)) \subseteq Asked /\ Head(w) \in Asked
  BY TailFacts DEF AtConstants
<1> DEFINE t == Head(w)
           r == Tail(w)
           s1 == LookUpConstants(s, t)
<1> SUFFICES Kept(s1) /\ AtConstants(s1, r)
  OBVIOUS
<1> HIDE DEF t, r
<1>2. IsList(r) /\ ToSet(r) \subseteq Asked /\ t \in Asked
  BY <1>1 DEF t, r
<1>3. Kept(s1) /\ Lone(s1)
  BY <1>2, LookUpKept DEF AtConstants
<1> QED BY <1>2, <1>3 DEF AtConstants

(* Two tables are joined on a key.                                         *)
LEMMA TurnKeys ==
    ASSUME Context, NEW s, Kept(s), NEW w, w # <<>>, AtKeys(s, w)
    PROVE  Kept(JoinOnKey(s, Head(w))) /\ AtKeys(JoinOnKey(s, Head(w)), Tail(w))
<1> DEFINE p == Head(w)
           r == Tail(w)
           s1 == JoinOnKey(s, p)
           P == KeyPairs \ ToSet(w)
<1>1. /\ IsList(r) /\ IsInjective(r) /\ p \in ToSet(w) /\ ToSet(w) = {p} \cup ToSet(r)
      /\ p \notin ToSet(r)
  BY TailFacts DEF AtKeys
<1>2. P \subseteq KeyPairs /\ p \notin P /\ P \cup (KeyPairs \cap {p}) = KeyPairs \ ToSet(r)
  <2> HIDE DEF p, r
  <2> QED BY <1>1
<1>3. p \in Candidates \X Candidates /\ p[1] # p[2] /\ KeysJoined(s, P)
  BY <1>1 DEF AtKeys
<1> SUFFICES Kept(s1) /\ AtKeys(s1, r)
  OBVIOUS
<1> HIDE DEF p, r, P
<1>4. Kept(s1) /\ KeysJoined(s1, P \cup (KeyPairs \cap {p}))
  BY <1>2, <1>3, JoinOnKeyKept
<1>5. \A q \in ToSet(r) : q \in Candidates \X Candidates /\ q[1] # q[2]
  BY <1>1 DEF AtKeys
<1> HIDE DEF s1
<1>6. KeysJoined(s1, KeyPairs \ ToSet(r))
  BY <1>2, <1>4
<1>7. AtKeys(s1, r)
  BY <1>1, <1>5, <1>6 DEF AtKeys
<1> QED BY <1>4, <1>7

(* A loop over some things turns to one of them.                           *)
LEMMA TurnOver ==
    ASSUME NEW w, NEW S, Over(w, S), w # <<>>
    PROVE  Head(w) \in S /\ Over(Tail(w), S)
  BY TailFacts DEF Over

(* A table is scanned if nothing else has been planned.                    *)
LEMMA TurnRest ==
    ASSUME Context, NEW s, Kept(s), NEW w, w # <<>>, AtRest(s, w)
    PROVE  Kept(ScanIfNone(s, Head(w))) /\ AtRest(ScanIfNone(s, Head(w)), Tail(w))
<1> DEFINE t == Head(w)
           r == Tail(w)
           s1 == ScanIfNone(s, t)
<1>1. IsList(r) /\ ToSet(w) = {t} \cup ToSet(r) /\ t \in Asked /\ ToSet(r) \subseteq Asked
  BY TailFacts DEF AtRest
<1> SUFFICES Kept(s1) /\ AtRest(s1, r)
  OBVIOUS
<1> HIDE DEF t, r
<1>2. Kept(s1) /\ Grows(s, s1) /\ s1.ops[t] # Null
  BY <1>1, ScanIfNoneKept
<1> HIDE DEF s1
<1>3. Asked \subseteq Tables
  BY DEF Context
<1>4. \A u \in Asked : s1.ops[u] # Null \/ u \in ToSet(r)
  BY <1>1, <1>2, <1>3 DEF AtRest, Grows
<1> QED BY <1>1, <1>2, <1>4 DEF AtRest

-----------------------------------------------------------------------------
(* A step within a loop keeps PlanningJoins.                               *)
LEMMA LoopKept ==
    ASSUME SameQuery, pc' \in JoinLoops \ {"joins"}, NEW s, Kept(s), Set(s), Loops(pc', s, todo')
    PROVE  PlanningJoins'
<1>1. pc' \notin UntriedAt /\ ~ Done'
  BY DEF JoinLoops, UntriedAt, Planning, Done
<1> QED BY <1>1, StepKept

(* What a turn of one of the loops leaves, if what the loop does keeps the *)
(* operations as they should be.                                           *)
Turned(loop, s) ==
    /\ pc = loop /\ todo # <<>> /\ Set(s) /\ todo' = Tail(todo)
    /\ UNCHANGED <<query, schema, conditionVars, root, resource, pc>>

(* And so does a turn of it.                                               *)
LEMMA TurnedKept ==
    ASSUME NEW loop, NEW s, Turned(loop, s), loop \in JoinLoops \ {"joins"},
           Kept(s), Loops(loop, s, Tail(todo))
    PROVE  PlanningJoins'
<1>1. SameQuery /\ pc' = loop /\ todo' = Tail(todo) /\ Set(s)
  BY DEF Turned, SameQuery, conditionVars
<1> QED BY <1>1, LoopKept

(* So all the loops do.                                                    *)
LEMMA LoopsKept ==
    ASSUME Prepared, Joining, PlanningJoins,
           \/ ScanUnmentioned \/ NestUnmentioned \/ LookUpAllConstants \/ JoinForeignKeys \/ SearchTables
           \/ JoinByHash \/ JoinByMerge \/ ScanRest
    PROVE  PlanningJoins'
<1> DEFINE s == Planned
           h == Head(todo)
<1>0. Context /\ IsList(from) /\ IsInjective(from)
  BY JoiningContext
<1>1. Kept(s) /\ Loops(pc, s, todo)
  BY DEF PlanningJoins
<1> HIDE DEF s, h
<1>2. CASE ScanUnmentioned
  <2> DEFINE s1 == GiveScan(s, h)
  <2>1. Turned("unmentioned", s1)
    BY <1>2 DEF ScanUnmentioned, Turn, Turned, s, h
  <2>2. Kept(s1) /\ AtUnmentioned(s1, Tail(todo))
    BY <1>0, <1>1, <2>1, TurnUnmentioned DEF Turned, Loops, h
  <2> HIDE DEF s1
  <2>3. Loops("unmentioned", s1, Tail(todo))
    BY <2>2 DEF Loops
  <2> QED BY <2>1, <2>2, <2>3, TurnedKept DEF JoinLoops
<1>3. CASE NestUnmentioned
  <2> DEFINE s1 == NestWithFirst(s, h)
  <2>1. Turned("nesting", s1)
    BY <1>3 DEF NestUnmentioned, Turn, Turned, s, h
  <2>2. Kept(s1) /\ AtNesting(s1, Tail(todo))
    BY <1>0, <1>1, <2>1, TurnNesting DEF Turned, Loops, h
  <2> HIDE DEF s1
  <2>3. Loops("nesting", s1, Tail(todo))
    BY <2>2 DEF Loops
  <2> QED BY <2>1, <2>2, <2>3, TurnedKept DEF JoinLoops
<1>4. CASE LookUpAllConstants
  <2> DEFINE s1 == LookUpConstants(s, h)
  <2>1. Turned("constants", s1)
    BY <1>4 DEF LookUpAllConstants, Turn, Turned, s, h
  <2>2. Kept(s1) /\ AtConstants(s1, Tail(todo))
    BY <1>0, <1>1, <2>1, TurnConstants DEF Turned, Loops, h
  <2> HIDE DEF s1
  <2>3. Loops("constants", s1, Tail(todo))
    BY <2>2 DEF Loops
  <2> QED BY <2>1, <2>2, <2>3, TurnedKept DEF JoinLoops
<1>5. CASE JoinForeignKeys
  <2> DEFINE s1 == JoinOnKey(s, h)
  <2>1. Turned("foreign keys", s1)
    BY <1>5 DEF JoinForeignKeys, Turn, Turned, s, h
  <2>2. Kept(s1) /\ AtKeys(s1, Tail(todo))
    BY <1>0, <1>1, <2>1, TurnKeys DEF Turned, Loops, h
  <2> HIDE DEF s1
  <2>3. Loops("foreign keys", s1, Tail(todo))
    BY <2>2 DEF Loops
  <2> QED BY <2>1, <2>2, <2>3, TurnedKept DEF JoinLoops
<1>6. CASE SearchTables
  <2> DEFINE s1 == SearchTable(s, h)
  <2>1. Turned("networks", s1)
    BY <1>6 DEF SearchTables, Turn, Turned, s, h
  <2>2. h \in Compared /\ Over(Tail(todo), Compared)
    BY <1>1, <2>1, TurnOver DEF Turned, Loops, h
  <2>3. Kept(s1)
    BY <1>0, <1>1, <2>2, SearchTableKept
  <2> HIDE DEF s1
  <2>4. Loops("networks", s1, Tail(todo))
    BY <2>2 DEF Loops
  <2> QED BY <2>1, <2>3, <2>4, TurnedKept DEF JoinLoops
<1>7. CASE JoinByHash
  <2> DEFINE s1 == HashIndexed(s, h)
  <2>1. Turned("hash joins", s1)
    BY <1>7 DEF JoinByHash, Turn, Turned, s, h
  <2>2. h \in Exps /\ Over(Tail(todo), Exps)
    BY <1>1, <2>1, TurnOver DEF Turned, Loops, h
  <2>3. Kept(s1)
    BY <1>0, <1>1, <2>2, HashIndexedKept
  <2> HIDE DEF s1
  <2>4. Loops("hash joins", s1, Tail(todo))
    BY <2>2 DEF Loops
  <2> QED BY <2>1, <2>3, <2>4, TurnedKept DEF JoinLoops
<1>8. CASE JoinByMerge
  <2> DEFINE s1 == MergeIndexed(s, h)
  <2>1. Turned("merge joins", s1)
    BY <1>8 DEF JoinByMerge, Turn, Turned, s, h
  <2>2. h \in Exps /\ Over(Tail(todo), Exps)
    BY <1>1, <2>1, TurnOver DEF Turned, Loops, h
  <2>3. Kept(s1)
    BY <1>0, <1>1, <2>2, MergeIndexedKept
  <2> HIDE DEF s1
  <2>4. Loops("merge joins", s1, Tail(todo))
    BY <2>2 DEF Loops
  <2> QED BY <2>1, <2>3, <2>4, TurnedKept DEF JoinLoops
<1>9. CASE ScanRest
  <2> DEFINE s1 == ScanIfNone(s, h)
  <2>1. Turned("rest", s1)
    BY <1>9 DEF ScanRest, Turn, Turned, s, h
  <2>2. Kept(s1) /\ AtRest(s1, Tail(todo))
    BY <1>0, <1>1, <2>1, TurnRest DEF Turned, Loops, h
  <2> HIDE DEF s1
  <2>3. Loops("rest", s1, Tail(todo))
    BY <2>2 DEF Loops
  <2> QED BY <2>1, <2>2, <2>3, TurnedKept DEF JoinLoops
<1> QED BY <1>2, <1>3, <1>4, <1>5, <1>6, <1>7, <1>8, <1>9

(* From one loop to the next.                                              *)
LEMMA ListedIs ==
    ASSUME NEW X, NEW n \in Nat, NEW w, w = [k \in 1..n |-> w[k]], \A k \in 1..n : w[k] \in X
    PROVE  w \in Seq(X)
<1>1. w \in [1..n -> X]
  OBVIOUS
<1> QED BY <1>1

(* Several rounds over the comparisons go over these only.                 *)
LEMMA RoundsAre ==
    ASSUME Context, NEW w, w = [k \in 1..(Rounds * Len(area)) |-> area[((k - 1) % Len(area)) + 1]]
    PROVE  Over(w, Exps)
<1> DEFINE m == Len(area)
           n == Rounds * m
<1>1. m \in Nat /\ n \in Nat /\ DOMAIN area = 1..m
  BY ListFacts DEF Context, Rounds
<1>2. ASSUME NEW k \in 1..n PROVE w[k] \in Exps
  <2>1. m > 0 /\ k - 1 \in Nat
    BY <1>1 DEF Rounds
  <2> DEFINE i == (k - 1) % m
  <2>2. i \in 0..(m - 1)
    <3> DEFINE a == k - 1
    <3>1. a \in Nat /\ m \in Nat /\ m > 0
      BY <1>1, <2>1
    <3> HIDE DEF a, m
    <3>2. a % m \in 0..(m - 1)
      BY <3>1
    <3> QED BY <3>2 DEF a
  <2>3. w[k] = area[i + 1]
    OBVIOUS
  <2> HIDE DEF i
  <2>4. i + 1 \in DOMAIN area
    BY <1>1, <2>1, <2>2
  <2> QED BY <2>3, <2>4 DEF Exps, ToSet
<1>3. w = [k \in 1..n |-> w[k]]
  OBVIOUS
<1> HIDE DEF n
<1>4. w \in Seq(Exps)
  <2> DEFINE X == Exps
  <2>1. n \in Nat /\ \A k \in 1..n : w[k] \in X
    BY <1>1, <1>2
  <2> HIDE DEF X
  <2>2. w \in Seq(X)
    BY <2>1, <1>3, ListedIs
  <2> QED BY <2>2 DEF X
<1> QED BY <1>4, SeqIsList DEF Over

(* A loop that has nothing to do.                                          *)
LEMMA NoneLeftOver == IsList(<<>>) /\ IsInjective(<<>>) /\ ToSet(<<>>) = {}
  BY NoIds DEF IsInjective

(* From one loop to the next.                                              *)
LEMMA OnwardsKept ==
    ASSUME Prepared, Joining, PlanningJoins, Onwards
    PROVE  PlanningJoins'
<1> DEFINE s == Planned
           m == Unmentioned
<1>0. /\ Context /\ IsList(from) /\ IsInjective(from) /\ ToSet(from) = Asked
      /\ IsList(area) /\ ToSet(area) = Exps
  BY JoiningContext DEF Context, Exps
<1>1. Kept(s) /\ Loops(pc, s, todo)
  BY DEF PlanningJoins
<1>2. SameQuery /\ Set(s) /\ todo = <<>>
  BY PlannedIs DEF Onwards, NextLoop, SameQuery, conditionVars, Set
<1>3. IsList(m) /\ IsInjective(m) /\ ToSet(m) = Asked \ Compared /\ (m = <<>> <=> Asked \ Compared = {})
  BY <1>0, UnmentionedAre
<1> SUFFICES pc' \in JoinLoops \ {"joins"} /\ Loops(pc', s, todo')
  BY <1>1, <1>2, LoopKept
<1>a. Asked \subseteq Tables /\ Compared \subseteq Asked
  BY <1>0 DEF Context
<1>4. CASE NextLoop("joins", "unmentioned", m)
  <2>1. pc = "joins" /\ pc' = "unmentioned" /\ todo' = m
    BY <1>4 DEF NextLoop
  <2>2. \A t \in Tables : s.ops[t] = Null
    BY <2>1, PlannedIs DEF PlanningJoins, Untried, Planning
  <2> HIDE DEF s, m
  <2>3. AtUnmentioned(s, m)
    BY <1>a, <1>3, <2>2 DEF AtUnmentioned, NoneCompared
  <2> QED BY <2>1, <2>3 DEF Loops, JoinLoops
<1>5. CASE NextLoop("unmentioned", "nesting", IF m = <<>> THEN <<>> ELSE Tail(m))
  <2> DEFINE w == IF m = <<>> THEN <<>> ELSE Tail(m)
  <2>1. pc = "unmentioned" /\ pc' = "nesting" /\ todo' = w
    BY <1>5 DEF NextLoop
  <2>2. AtUnmentioned(s, <<>>)
    BY <1>1, <1>2, <2>1 DEF Loops
  <2>3. /\ NoneCompared(s)
        /\ \A u \in Asked \ Compared : s.ops[u] # Null /\ Below(s.ops[u]) = {u}
    BY <2>2, NoneLeftOver DEF AtUnmentioned
  <2>4. IsList(w) /\ IsInjective(w) /\ ToSet(w) \subseteq Asked \ Compared /\ \A u \in ToSet(w) : u # Head(m)
    <3>1. CASE m = <<>>
      BY <3>1, NoneLeftOver
    <3>2. CASE m # <<>>
      <4> HIDE DEF m
      <4>1. w = Tail(m)
        BY <3>2
      <4>2. /\ IsList(Tail(m)) /\ ToSet(m) = {Head(m)} \cup ToSet(Tail(m))
            /\ IsInjective(Tail(m)) /\ Head(m) \notin ToSet(Tail(m))
        BY <1>3, <3>2, TailFacts
      <4> QED BY <1>3, <4>1, <4>2
    <3> QED BY <3>1, <3>2
  <2> HIDE DEF s, w
  <2>5. AtNesting(s, w)
    BY <2>3, <2>4 DEF AtNesting, m
  <2> QED BY <2>1, <2>5 DEF Loops, JoinLoops
<1>6. CASE NextLoop("nesting", "constants", from)
  <2>1. pc = "nesting" /\ pc' = "constants" /\ todo' = from
    BY <1>6 DEF NextLoop
  <2>2. AtNesting(s, todo)
    BY <1>1, <2>1 DEF Loops
  <2> HIDE DEF s
  <2>3. AtConstants(s, from)
    BY <1>0, <2>2 DEF AtNesting, AtConstants, Lone, NoneCompared
  <2> QED BY <2>1, <2>3 DEF Loops, JoinLoops
<1>7. CASE NextLoop("constants", "foreign keys", CandidatePairs)
  <2> DEFINE w == CandidatePairs
             P == KeyPairs \ ToSet(w)
  <2>1. pc = "constants" /\ pc' = "foreign keys" /\ todo' = w
    BY <1>7 DEF NextLoop
  <2>2. Lone(s)
    BY <1>1, <2>1 DEF Loops, AtConstants
  <2> HIDE DEF s, w
  <2>3. P \subseteq KeyPairs
    OBVIOUS
  <2> HIDE DEF P
  <2>4. ASSUME NEW c \in Compared, s.ops[c] # Null
        PROVE  Cardinality(KeysIn(P, Below(s.ops[c]))) >= Cardinality(Below(s.ops[c])) - 1
    <3>1. Below(s.ops[c]) = {c} /\ Cardinality({c}) = 1
      BY <2>2, <2>4, FS_Singleton DEF Lone
    <3>2. Cardinality(KeysIn(P, {c})) \in Nat
      BY <1>0, <2>3, KeysInFinite
    <3> QED BY <3>1, <3>2
  <2>5. KeysJoined(s, P)
    BY <2>4 DEF KeysJoined, Linked
  <2>6. AtKeys(s, w)
    BY <2>5, CandidatePairsAre DEF AtKeys, w, P
  <2> QED BY <2>1, <2>6 DEF Loops, JoinLoops
<1>8. CASE NextLoop("foreign keys", "networks", Among(RowOrder, Compared))
  <2> DEFINE w == Among(RowOrder, Compared)
  <2>1. pc' = "networks" /\ todo' = w
    BY <1>8 DEF NextLoop
  <2>2. Over(w, Compared)
    <3>1. IsList(RowOrder)
      BY PlannerAssumption
    <3>2. IsList(w) /\ ToSet(w) = ToSet(RowOrder) \cap Compared
      BY <3>1, AmongIs
    <3> QED BY <3>2 DEF Over
  <2> HIDE DEF s, w
  <2> QED BY <2>1, <2>2 DEF Loops, JoinLoops
<1>9. CASE NextLoop("networks", "hash joins",
                    [k \in 1..(Rounds * Len(area)) |-> area[((k - 1) % Len(area)) + 1]])
  <2> DEFINE w == [k \in 1..(Rounds * Len(area)) |-> area[((k - 1) % Len(area)) + 1]]
  <2>1. pc' = "hash joins" /\ todo' = w
    BY <1>9 DEF NextLoop
  <2>2. Over(w, Exps)
    BY <1>0, RoundsAre
  <2> HIDE DEF s, w
  <2> QED BY <2>1, <2>2 DEF Loops, JoinLoops
<1>10. CASE NextLoop("hash joins", "merge joins", area)
  <2>1. pc' = "merge joins" /\ todo' = area
    BY <1>10 DEF NextLoop
  <2>2. Over(area, Exps)
    BY <1>0 DEF Over
  <2> HIDE DEF s
  <2> QED BY <2>1, <2>2 DEF Loops, JoinLoops
<1>11. CASE NextLoop("merge joins", "rest", from)
  <2>1. pc' = "rest" /\ todo' = from
    BY <1>11 DEF NextLoop
  <2> HIDE DEF s
  <2>2. AtRest(s, from)
    BY <1>0 DEF AtRest
  <2> QED BY <2>1, <2>2 DEF Loops, JoinLoops
<1>12. CASE NextLoop("rest", "uniting", <<>>)
  <2>1. pc = "rest" /\ pc' = "uniting"
    BY <1>12 DEF NextLoop
  <2>2. AtRest(s, <<>>)
    BY <1>1, <1>2, <2>1 DEF Loops
  <2> HIDE DEF s
  <2>3. AllPlanned(s)
    BY <2>2, NoneLeftOver DEF AtRest, AllPlanned
  <2> QED BY <2>1, <2>3 DEF Loops, JoinLoops
<1> QED BY <1>4, <1>5, <1>6, <1>7, <1>8, <1>9, <1>10, <1>11, <1>12 DEF Onwards

-----------------------------------------------------------------------------
(* Operations left over are united until there is one.                     *)
LEMMA UnitingKept ==
    ASSUME Prepared, Joining, PlanningJoins, Unite
    PROVE  PlanningJoins'
<1> DEFINE s == Planned
           first == Head(from)
           rest == Apart(tables_operations)
           t2 == Head(rest)
           s1 == JoinBoth(s, first, t2, NestedJoin(s.ops[first], s.ops[t2]))
<1>0. /\ Context /\ ToSet(from) = Asked /\ first \in Asked
      /\ IsState(s) /\ s.ops = tables_operations
  BY JoiningContext, PlannedIs
<1>1. pc = "uniting" /\ SameQuery
  BY DEF Unite, SameQuery, conditionVars
<1>2. Kept(s) /\ AllPlanned(s) /\ Asked \subseteq Tables
  BY <1>0, <1>1 DEF PlanningJoins, Loops, Context
<1>3. /\ rest # <<>> => t2 \in Asked /\ s.ops[t2] # s.ops[first]
      /\ \A f : Apart(f) = <<>> <=> \A t \in Asked : f[t] = f[first]
  BY <1>0, ApartIs
<1>4. /\ rest = <<>> => Set(s)
      /\ rest # <<>> => Set(s1)
  BY <1>0, <1>1 DEF Unite
<1>5. /\ Apart(tables_operations') = <<>> => root' = tables_operations'[first] /\ pc' = "resources"
      /\ Apart(tables_operations') # <<>> => pc' = "uniting"
  <2>1. Apart(tables_operations)' = Apart(tables_operations') /\ from' = from
    BY <1>1, SameContext DEF Apart
  <2> QED BY <1>1, <2>1 DEF Unite
<1> HIDE DEF s, first, rest, t2
<1>6. rest # <<>> => Kept(s1) /\ AllPlanned(s1)
  <2> SUFFICES ASSUME rest # <<>> PROVE Kept(s1) /\ AllPlanned(s1)
    OBVIOUS
  <2>1. s.ops[first] # Null /\ s.ops[t2] # Null /\ t2 \in Asked /\ s.ops[first] # s.ops[t2]
    BY <1>0, <1>2, <1>3 DEF AllPlanned
  <2>2. Kept(s1) /\ Grows(s, s1)
    BY <1>0, <1>2, <2>1, UniteKept
  <2> HIDE DEF s1
  <2> QED BY <1>2, <2>2 DEF AllPlanned, Grows
<1> HIDE DEF s1
<1>7. PICK s2 : Kept(s2) /\ AllPlanned(s2) /\ Set(s2)
  BY <1>2, <1>4, <1>6
<1>8. tables_operations' = s2.ops
  BY <1>7 DEF Set
<1>9. CASE Apart(tables_operations') = <<>>
  <2>1. \A t \in Asked : tables_operations'[t] = root'
    BY <1>3, <1>5, <1>9
  <2>2. root' # Null
    BY <1>0, <1>7, <1>8, <2>1 DEF AllPlanned
  <2>3. pc' = "resources"
    BY <1>5, <1>9
  <2>4. Loops(pc', s2, todo') /\ pc' \notin UntriedAt
    BY <2>3 DEF Loops, UntriedAt, Planning
  <2> QED BY <1>1, <1>7, <1>8, <2>1, <2>2, <2>4, StepKept
<1>10. CASE Apart(tables_operations') # <<>>
  <2>1. pc' = "uniting"
    BY <1>5, <1>10
  <2>2. Loops(pc', s2, todo')
    BY <1>7, <2>1 DEF Loops
  <2> QED BY <1>1, <1>7, <2>1, <2>2, LoopKept DEF JoinLoops
<1> QED BY <1>9, <1>10

(* Then the plan is done.                                                  *)
LEMMA ResourcesKept ==
    ASSUME Prepared, Joining, PlanningJoins, InitResources
    PROVE  PlanningJoins'
<1> DEFINE s == Planned
<1>1. SameQuery /\ pc = "resources" /\ pc' = "planned" /\ root' = root /\ Set(s)
  BY PlannedIs DEF InitResources, SameQuery, conditionVars, Set
<1>2. Kept(s) /\ root # Null /\ \A t \in Asked : s.ops[t] = root
  BY <1>1, PlannedIs DEF PlanningJoins, Done, United
<1> HIDE DEF s
<1>3. Loops(pc', s, todo') /\ pc' \notin UntriedAt
  BY <1>1 DEF Loops, UntriedAt, Planning
<1> QED BY <1>1, <1>2, <1>3, StepKept

(* Every step keeps PlanningJoins.                                         *)
LEMMA PlanningJoinsStep == Prepared /\ PlanningJoins /\ [Next]_vars => PlanningJoins'
<1> SUFFICES ASSUME Prepared, PlanningJoins, [Next]_vars PROVE PlanningJoins'
  OBVIOUS
<1>1. Prepared'
  BY PreparedStep
<1>2. CASE PrepareCondition
  BY <1>1, <1>2, PreparingKept
<1>3. CASE UNCHANGED vars
  <2>1. UNCHANGED <<query, schema, parsed, condition, or_node, tables_set, areas, pc,
                    tables_operations, used_exp, root, todo>>
    BY <1>3 DEF vars, conditionVars, planVars
  <2>2. SameQuery /\ (Joining' <=> Joining) /\ (Untried' <=> Untried) /\ Planned' = Planned
    BY <2>1, SameContext DEF SameQuery, Joining, PlansJoins, Collected, Untried, Planned
  <2>3. Joining => Kept(Planned)'
    <3> SUFFICES ASSUME Joining PROVE Kept(Planned)'
      OBVIOUS
    <3>1. Set(Planned) /\ Kept(Planned)
      BY <2>1, PlannedIs DEF Set, PlanningJoins
    <3> QED BY <2>2, <3>1, KeptAfter
  <2>4. Joining => Loops(pc, Planned, todo)'
    <3> DEFINE s == Planned
    <3> SUFFICES ASSUME Joining PROVE Loops(pc, Planned, todo)'
      OBVIOUS
    <3>1. Loops(pc', s, todo') /\ Planned' = s
      BY <2>1, <2>2 DEF PlanningJoins
    <3> HIDE DEF s
    <3> QED BY <2>2, <3>1, LoopsAfter
  <2>5. (Done' <=> Done) /\ (United' <=> United) /\ root' = root
    BY <2>1, <2>2, SameContext DEF Done, United
  <2> QED BY <2>1, <2>2, <2>3, <2>4, <2>5 DEF PlanningJoins
<1>4. CASE PlanMove /\ Next
  <2>1. CASE ~ Joining
    BY <1>4, <2>1, NotJoining
  <2>2. CASE Joining
    <3>1. ~ PrepareCondition \/ PlanningJoins'
      BY <1>2
    <3>2. ~ ScanOnly
      BY <2>2 DEF ScanOnly, Prepared, Planning, Joining, PlansJoins
    <3>3. ~ SearchAreas
      BY <2>2 DEF SearchAreas, Prepared, Planning, Joining, PlansJoins
    <3>4. ~ TakeDerived
      BY <2>2 DEF TakeDerived, Joining, PlansJoins, Collected
    <3> QED BY <1>4, <2>2, <3>1, <3>2, <3>3, <3>4, LoopsKept, OnwardsKept, UnitingKept, ResourcesKept
            DEF Next
  <2> QED BY <2>1, <2>2
<1> QED BY <1>2, <1>3, <1>4, PlanningStep

(* While joins are planned, the operations read what they should (Kept),   *)
(* every loop has what the loops before it left, and at the end all tables *)
(* have one operation, root.                                               *)
THEOREM JoinsPlanned == Spec => []PlanningJoins
  BY PreparedInit, PreparedStep, PlanningJoinsInit, PlanningJoinsStep, PTL DEF Spec

(* The tables an operation is noted for are the tables it reads, when no   *)
(* index has the column of another table.                                  *)
THEOREM PointersAlwaysTellTables == Spec => []PointersTellTables
<1>1. Prepared /\ PlanningJoins => PointersTellTables
  <2> SUFFICES ASSUME Prepared, PlanningJoins, Joining, Unambiguous,
                      NEW t \in ToSet(from), tables_operations[t] # Null
               PROVE  Below(tables_operations[t]) = TablesWith(Planned, tables_operations[t])
    BY DEF PointersTellTables, Joining
  <2> DEFINE s == Planned
             op == s.ops[t]
  <2>1. s.ops = tables_operations /\ Kept(s) /\ t \in Asked /\ ToSet(from) = Asked
    BY PlannedIs, JoiningContext DEF PlanningJoins
  <2>2. op # Null /\ TablesWith(s, op) = {u \in Asked : s.ops[u] = op}
    BY <2>1 DEF TablesWith
  <2> HIDE DEF s
  <2>3. Below(op) \subseteq Asked /\ \A u \in Asked : s.ops[u] = op => u \in Below(op)
    BY <2>1, <2>2 DEF Kept, Reads
  <2>4. \A u \in Asked : u \in Below(op) => s.ops[u] = op
    BY <2>1, <2>2 DEF Kept, Owns
  <2>5. Below(op) = TablesWith(s, op)
    BY <2>2, <2>3, <2>4
  <2> QED BY <2>1, <2>5 DEF s
<1> QED BY <1>1, PlanningPrepared, JoinsPlanned, PTL

(* The finished plan of joins reads every table of FROM and no other, and  *)
(* unless keys make a cycle no join has one table on both sides.           *)
THEOREM EachTableAlwaysJoinedOnce == Spec => []EachTableJoinedOnce
<1>1. Prepared /\ PlanningJoins => EachTableJoinedOnce
  <2> SUFFICES ASSUME Prepared, PlanningJoins, Joining PROVE EachTableJoinedOnce
    BY DEF EachTableJoinedOnce, Joining
  <2> DEFINE s == Planned
  <2>1. s.ops = tables_operations /\ Kept(s) /\ ToSet(from) = Asked /\ Head(from) \in Asked
    BY PlannedIs, JoiningContext DEF PlanningJoins
  <2> HIDE DEF s
  <2>2. ASSUME Done PROVE Below(root) = Asked
    <3>1. root # Null /\ \A t \in Asked : s.ops[t] = root
      BY <2>1, <2>2 DEF PlanningJoins, United
    <3>2. \A t \in Asked : t \in Below(root) /\ Below(root) \subseteq Asked
      BY <2>1, <3>1 DEF Kept, Reads
    <3> QED BY <2>1, <3>2
  <2>3. ASSUME Unambiguous, NoKeyCycle, NEW t \in Asked, NEW n \in Nodes(s.ops[t]), IsJoin(n)
        PROVE  Below(n.kids[1]) \cap Below(n.kids[2]) = {}
    <3>1. s.ops[t] # Null
      BY <2>3, NullIs
    <3> QED BY <2>1, <2>3, <3>1 DEF Kept, JoinsApart, SidesApart
  <2> QED BY <2>1, <2>2, <2>3 DEF EachTableJoinedOnce, IsJoin
<1> QED BY <1>1, PlanningPrepared, JoinsPlanned, PTL

(* The finished plan of joins has a filter for every comparison of several *)
(* tables, over one of them.                                               *)
THEOREM JoinConditionsAlwaysApplied == Spec => []JoinConditionsApplied
<1>1. Prepared /\ PlanningJoins => JoinConditionsApplied
  <2> SUFFICES ASSUME Prepared, PlanningJoins, Joining, Done, NoSelfComparison,
                      NEW e \in ToSet(area), Several(e)
               PROVE  \E n \in Nodes(root) : FilteredBy(n, e)
    BY DEF JoinConditionsApplied, Joining, Several, FilteredBy
  <2> DEFINE s == Planned
  <2>1. s.ops = tables_operations /\ Kept(s) /\ Context /\ Head(from) \in Asked /\ e \in Exps
    BY PlannedIs, JoiningContext DEF PlanningJoins, Exps
  <2> HIDE DEF s
  <2>2. root # Null /\ \A t \in Asked : s.ops[t] = root
    BY <2>1 DEF PlanningJoins, United
  <2>3. TablesOf(e) \subseteq Asked
    BY <2>1, ComparedTables DEF Context
  <2>4. e.id \in s.used
    <3>1. Apply(s.ops, s.used, Asked, Exps)
      BY <2>1 DEF Kept
    <3> SUFFICES ASSUME e.id \notin s.used PROVE FALSE
      OBVIOUS
    <3>2. \E t \in TablesOf(e) : s.ops[t] # s.ops[Head(from)]
      BY <2>1, <2>2, <3>1 DEF Apply
    <3> QED BY <2>1, <2>2, <2>3, <3>2
  <2>5. \E u \in Asked : \E k \in Nodes(s.ops[u]) : FilteredBy(k, e)
    BY <2>1, <2>4 DEF Kept, Applied
  <2> QED BY <2>2, <2>5
<1> QED BY <1>1, PlanningPrepared, JoinsPlanned, PTL

-----------------------------------------------------------------------------
(* What Network finds.                                                     *)
LEMMA MaxIs ==
    ASSUME NEW S, S \subseteq Nat, NEW k \in S, \A y \in S : k >= y
    PROVE  Max(S) = k
<1>1. Max(S) \in S /\ \A y \in S : Max(S) >= y
  BY DEF Max
<1>2. Max(S) \in Nat /\ k \in Nat /\ Max(S) >= k /\ k >= Max(S)
  BY <1>1
<1> QED BY <1>2

(* A set of numbers that has one has a least one.                          *)
LEMMA MinIs ==
    ASSUME NEW S, S \subseteq Nat, S # {}
    PROVE  Min(S) \in S /\ \A y \in S : Min(S) <= y
<1>1. PICK z \in S : \A y \in S : z <= y
  BY LeastExists
<1> QED BY <1>1 DEF Min

(* The comparisons of a column looked at say whether it is compared, and   *)
(* whether only by =.                                                      *)
LEMMA LookedAtIs ==
    ASSUME NEW a, IsList(a), NEW t, NEW name, NEW selected,
           NEW E, E = Usable(a, selected), NEW L, L = LookedAt(t, name, a, selected)
    PROVE  /\ L \subseteq E
           /\ L = {} <=> ~ ComparedIn(E, t, name)
           /\ L = {} \/ RangeOn(L) <=> ~ OnlyEqual(E, t, name)
<1> DEFINE about == {i \in DOMAIN a : NotSelected(a[i], selected) /\ HasVariable(a[i], t, name)}
           unequal == {i \in about : a[i].equal # 1}
<1>1. about \subseteq Nat /\ unequal \subseteq Nat /\ ToSet(a) = {a[i] : i \in DOMAIN a}
  BY ListFacts DEF ToSet
<1>2. L = {a[i] : i \in {j \in about : \A k \in about : k < j => a[k].equal = 1}}
  BY DEF LookedAt
<1>3. E = {e \in ToSet(a) : NotSelected(e, selected)}
  BY DEF Usable
<1>4. {e \in E : HasVariable(e, t, name)} = {a[i] : i \in about}
  BY <1>1, <1>3
<1>5. about # {} => L # {}
  <2> SUFFICES ASSUME about # {} PROVE L # {}
    OBVIOUS
  <2> HIDE DEF about
  <2>1. PICK i \in about : \A j \in about : i <= j
    BY <1>1, LeastExists
  <2>2. \A k \in about : ~ (k < i)
    BY <1>1, <2>1
  <2> QED BY <1>2, <2>1, <2>2
<1>6. unequal # {} => RangeOn(L)
  <2> SUFFICES ASSUME unequal # {} PROVE RangeOn(L)
    OBVIOUS
  <2>1. unequal \subseteq about /\ \A k \in about : k \notin unequal => a[k].equal = 1
    OBVIOUS
  <2>0. \A k \in unequal : a[k].equal # 1
    OBVIOUS
  <2> HIDE DEF about, unequal
  <2>2. PICK i \in unequal : \A j \in unequal : i <= j
    BY <1>1, LeastExists
  <2>3. \A k \in about : k < i => a[k].equal = 1
    BY <1>1, <2>1, <2>2
  <2>4. a[i] \in L /\ a[i].equal # 1
    BY <1>2, <2>0, <2>1, <2>2, <2>3
  <2> QED BY <2>4 DEF RangeOn
<1>7. L \subseteq {a[i] : i \in about}
  BY <1>2
<1>8. ComparedIn(E, t, name) <=> about # {}
  <2> HIDE DEF about
  <2> QED BY <1>4 DEF ComparedIn
<1>9. (\A e \in E : HasVariable(e, t, name) => e.equal = 1) <=> unequal = {}
  <2>1. (\A e \in E : HasVariable(e, t, name) => e.equal = 1) <=> \A i \in about : a[i].equal = 1
    <3> HIDE DEF about
    <3> QED BY <1>4
  <2> QED BY <2>1
<1>10. RangeOn(L) => unequal # {}
  <2> SUFFICES ASSUME RangeOn(L) PROVE unequal # {}
    OBVIOUS
  <2>1. PICK e \in L : e.equal # 1
    BY DEF RangeOn
  <2> QED BY <1>7, <2>1
<1> HIDE DEF about, unequal
<1>11. L \subseteq E
  BY <1>4, <1>7
<1>12. L = {} <=> about = {}
  BY <1>5, <1>7
<1>13. OnlyEqual(E, t, name) <=> about # {} /\ unequal = {}
  BY <1>8, <1>9 DEF OnlyEqual
<1> QED BY <1>6, <1>8, <1>10, <1>11, <1>12, <1>13

(* An index is used for all the columns it is good for.                    *)
LEMMA BestUseIs ==
    ASSUME NEW E, NEW x, IsList(x.columns), x.columns # <<>>, NEW last \in 1..Len(x.columns),
           \A j \in 1..(last - 1) : OnlyEqual(E, x.table, x.columns[j]),
           last < Len(x.columns) => ~ OnlyEqual(E, x.table, x.columns[last])
    PROVE  /\ ComparedIn(E, x.table, x.columns[last]) =>
                 /\ Serves(E, x, 1)
                 /\ BestUse(E, x) = Entry(x, ~ OnlyEqual(E, x.table, x.columns[last]), last)
           /\ ~ ComparedIn(E, x.table, x.columns[last]) =>
                 IF last = 1 THEN ~ Serves(E, x, 1)
                 ELSE Serves(E, x, 1) /\ BestUse(E, x) = Entry(x, FALSE, last - 1)
<1> DEFINE len == Len(x.columns)
           S == {k \in DOMAIN x.columns : Serves(E, x, k)}
           Good(j) == OnlyEqual(E, x.table, x.columns[j])
           Some(j) == ComparedIn(E, x.table, x.columns[j])
<1>1. len \in Nat /\ DOMAIN x.columns = 1..len /\ len > 0
  BY ListFacts
<1>2. \A k \in 1..len : Serves(E, x, k) <=> Some(k) /\ \A j \in 1..(k - 1) : Good(j)
  BY <1>1 DEF Serves
<1>3. \A k \in 1..len : Good(k) => Some(k)
  BY DEF OnlyEqual
<1>4. S = {k \in 1..len : Serves(E, x, k)} /\ S \subseteq Nat
  BY <1>1
<1>5. BestUse(E, x) = Entry(x, ~ OnlyEqual(E, x.table, x.columns[Max(S)]), Max(S))
  BY DEF BestUse
<1>6. \A j \in 1..(last - 1) : Good(j)
  OBVIOUS
<1>7. last < len => ~ Good(last)
  OBVIOUS
<1> HIDE DEF len, Good, Some
<1>8. last \in 1..len
  BY DEF len
<1>9. \A k \in 1..len : k > last => ~ Serves(E, x, k)
  <2> SUFFICES ASSUME NEW k \in 1..len, k > last PROVE ~ Serves(E, x, k)
    OBVIOUS
  <2>1. last < len /\ last \in 1..(k - 1)
    BY <1>1, <1>8
  <2> QED BY <1>2, <1>7, <2>1
<1>10. ASSUME Some(last) PROVE Serves(E, x, 1) /\ Max(S) = last
  <2>1. Serves(E, x, last)
    BY <1>2, <1>6, <1>8, <1>10
  <2>2. Serves(E, x, 1)
    <3>1. CASE last = 1
      BY <2>1, <3>1
    <3>2. CASE last # 1
      <4>1. 1 \in 1..(last - 1) /\ 1 \in 1..len /\ \A j \in 1..(1 - 1) : FALSE
        BY <1>1, <1>8, <3>2
      <4> QED BY <1>2, <1>3, <1>6, <4>1
    <3> QED BY <3>1, <3>2
  <2>3. last \in S /\ \A y \in S : last >= y
    BY <1>1, <1>4, <1>8, <1>9, <2>1
  <2> HIDE DEF S
  <2> QED BY <1>4, <2>2, <2>3, MaxIs
<1>11. ASSUME ~ Some(last), last = 1 PROVE ~ Serves(E, x, 1)
  BY <1>2, <1>8, <1>11
<1>12. ASSUME ~ Some(last), last # 1 PROVE Serves(E, x, 1) /\ Max(S) = last - 1 /\ Good(last - 1)
  <2>1. /\ last - 1 \in 1..(last - 1) /\ 1 \in 1..(last - 1) /\ last - 1 \in 1..len /\ 1 \in 1..len
        /\ \A j \in 1..((last - 1) - 1) : j \in 1..(last - 1)
        /\ \A j \in 1..(1 - 1) : FALSE
    BY <1>1, <1>8, <1>12
  <2>2. Serves(E, x, last - 1) /\ Serves(E, x, 1) /\ Good(last - 1)
    BY <1>2, <1>3, <1>6, <2>1
  <2>3. ~ Serves(E, x, last)
    BY <1>2, <1>8, <1>12
  <2>4. last - 1 \in S /\ \A y \in S : last - 1 >= y
    BY <1>1, <1>4, <1>8, <1>9, <2>1, <2>2, <2>3
  <2> HIDE DEF S
  <2>5. Max(S) = last - 1
    BY <1>4, <2>4, MaxIs
  <2> QED BY <2>2, <2>5
<1> HIDE DEF S
<1>13. Some(last) => BestUse(E, x) = Entry(x, ~ OnlyEqual(E, x.table, x.columns[last]), last)
  BY <1>5, <1>10
<1>14. ~ Some(last) /\ last # 1 => BestUse(E, x) = Entry(x, FALSE, last - 1)
  <2> SUFFICES ASSUME ~ Some(last), last # 1 PROVE BestUse(E, x) = Entry(x, FALSE, last - 1)
    OBVIOUS
  <2>1. Max(S) = last - 1 /\ OnlyEqual(E, x.table, x.columns[last - 1])
    BY <1>12 DEF Good
  <2>2. (~ OnlyEqual(E, x.table, x.columns[Max(S)])) = FALSE
    BY <2>1
  <2> QED BY <1>5, <2>1, <2>2
<1> QED BY <1>10, <1>11, <1>12, <1>13, <1>14 DEF Some

-----------------------------------------------------------------------------
(* A table to be scanned for its side of a comparison of t.                *)
ToScan(S, t, E) ==
    \A u \in S : u # t /\ \E e \in E : u \in TablesOf(e) /\ ~ (e.equal = 1 /\ Len(e.variables) = 2)

IsNet(n) ==
    \E u, s, e, i, d : n = [used |-> u, seq_scan |-> s, used_expression |-> e,
                            expression_infos |-> i, done |-> d]

(* What is used after x.                                                   *)
UsedWith(u, x, E) == IF Serves(E, x, 1) THEN Append(u, BestUse(E, x)) ELSE u

(* It has one more index, and is otherwise as it was.                      *)
OneMore(m, n, y) ==
    /\ IsNet(m) /\ m.used = Append(n.used, y) /\ m.seq_scan = n.seq_scan /\ m.done = n.done

(* What Used adds to a network.                                            *)
LEMMA UsedIs ==
    ASSUME NEW n, IsNet(n), NEW x, NEW isScan, NEW len
    PROVE  OneMore(Used(n, x, isScan, len), n, Entry(x, isScan, len))
<1> DEFINE y == Entry(x, isScan, len)
           m == Used(n, x, isScan, len)
<1>1. PICK u, s, e, i, d : n = [used |-> u, seq_scan |-> s, used_expression |-> e,
                                expression_infos |-> i, done |-> d]
  BY DEF IsNet
<1>2. n.used = u /\ n.seq_scan = s /\ n.done = d
  BY <1>1
<1> HIDE DEF y
<1>3. m = [used |-> Append(u, y), seq_scan |-> s, used_expression |-> e,
           expression_infos |-> i, done |-> d]
  <2> DEFINE w == Append(u, y)
  <2>1. m = [n EXCEPT !.used = w]
    BY <1>2 DEF Used, y
  <2> HIDE DEF w, m
  <2>2. m = [used |-> w, seq_scan |-> s, used_expression |-> e, expression_infos |-> i, done |-> d]
    BY <1>1, <2>1
  <2> QED BY <2>2 DEF w
<1> HIDE DEF m
<1>4. m.used = Append(u, y) /\ m.seq_scan = s /\ m.done = d
  BY <1>3
<1>5. IsNet(m)
  BY <1>3 DEF IsNet
<1> QED BY <1>2, <1>4, <1>5 DEF m, y, OneMore

(* What trying an index adds, is done, and asks to scan.                   *)
LEMMA UseIndexIs ==
    ASSUME NEW n, IsNet(n), NEW x, IsList(x.columns), x.columns # <<>>,
           NEW a, IsList(a), NEW selected, NEW E, E = Usable(a, selected),
           NEW r, r = UseIndex(n, x, a, selected)
    PROVE  /\ IsNet(r) /\ r.used = UsedWith(n.used, x, E)
           /\ r.done = (FullyBound(E, x) /\ x.unique)
           /\ ToScan(n.seq_scan, x.table, E) => ToScan(r.seq_scan, x.table, E)
<1> DEFINE exps == [c \in DOMAIN x.columns |-> LookedAt(x.table, x.columns[c], a, selected)]
           ends == {c \in DOMAIN exps : exps[c] = {} \/ RangeOn(exps[c])}
           last == IF ends = {} THEN Len(x.columns) ELSE Min(ends)
           more == UNION {Others(x.table, exps[c]) : c \in 1..last}
           looked == UNION {exps[c] : c \in 1..last}
           bound == ends = {} /\ x.unique
           m == [n EXCEPT !.seq_scan = @ \cup more, !.used_expression = @ \cup looked, !.done = bound]
           len == Len(x.columns)
<1>0. DOMAIN x.columns = 1..len /\ len \in Nat /\ len > 0 /\ DOMAIN exps = 1..len
  BY ListFacts
<1>1. \A c \in 1..len :
         /\ exps[c] \subseteq E
         /\ exps[c] = {} <=> ~ ComparedIn(E, x.table, x.columns[c])
         /\ exps[c] = {} \/ RangeOn(exps[c]) <=> ~ OnlyEqual(E, x.table, x.columns[c])
  <2> TAKE c \in 1..len
  <2>1. exps[c] = LookedAt(x.table, x.columns[c], a, selected)
    BY <1>0
  <2> HIDE DEF exps
  <2> QED BY <2>1, LookedAtIs
<1> HIDE DEF exps
<1>2. ends = {c \in 1..len : ~ OnlyEqual(E, x.table, x.columns[c])}
  BY <1>0, <1>1
<1>3. r = CASE ends = {}                          -> Used(m, x, FALSE, last)
            [] ends # {} /\ RangeOn(exps[last])   -> Used(m, x, TRUE, last)
            [] ends # {} /\ ~ RangeOn(exps[last]) -> IF last = 1 THEN m
                                                     ELSE Used(m, x, FALSE, last - 1)
  BY Zenon DEF UseIndex, exps
<1>4. /\ ends = {} => last = len
      /\ ends # {} => last \in ends /\ \A y \in ends : last <= y
  <2>1. ends \subseteq Nat
    BY <1>0, <1>2
  <2> HIDE DEF ends
  <2> QED BY <2>1, MinIs
<1>5. FullyBound(E, x) <=> ends = {}
  BY <1>0, <1>2 DEF FullyBound
<1>6. last \in 1..len /\ \A j \in 1..(last - 1) : OnlyEqual(E, x.table, x.columns[j])
  <2>1. ends \subseteq 1..len
    BY <1>2
  <2> HIDE DEF ends, last, len
  <2>2. last \in 1..len
    <3>1. CASE ends = {}
      BY <1>0, <1>4, <3>1
    <3>2. CASE ends # {}
      BY <1>0, <1>4, <2>1, <3>2
    <3> QED BY <3>1, <3>2
  <2>3. ASSUME NEW j \in 1..(last - 1) PROVE j \in 1..len /\ j \notin ends
    BY <1>0, <1>4, <2>2
  <2> QED BY <1>2, <2>2, <2>3
<1>7. /\ ends = {} => OnlyEqual(E, x.table, x.columns[last])
      /\ ends # {} => ~ OnlyEqual(E, x.table, x.columns[last])
  <2> HIDE DEF last
  <2> QED BY <1>2, <1>4, <1>6
<1>8. ToScan(n.seq_scan, x.table, E) => ToScan(n.seq_scan \cup more, x.table, E)
  <2>1. ASSUME NEW c \in 1..last, NEW u \in Others(x.table, exps[c])
        PROVE  u # x.table /\ \E e \in E : u \in TablesOf(e) /\ ~ (e.equal = 1 /\ Len(e.variables) = 2)
    <3>1. exps[c] \subseteq E
      <4> HIDE DEF last
      <4> QED BY <1>0, <1>1, <1>6
    <3> QED BY <3>1 DEF Others
  <2> HIDE DEF last
  <2>2. ToScan(more, x.table, E)
    BY <2>1 DEF ToScan
  <2> HIDE DEF more
  <2> QED BY <2>2 DEF ToScan
<1>9. bound = (FullyBound(E, x) /\ x.unique)
  <2> HIDE DEF ends
  <2> QED BY <1>5
<1>10. IsNet(m) /\ m.used = n.used /\ m.seq_scan = n.seq_scan \cup more /\ m.done = bound
  <2>1. PICK u, s, e, i, d : n = [used |-> u, seq_scan |-> s, used_expression |-> e,
                                  expression_infos |-> i, done |-> d]
    BY DEF IsNet
  <2> HIDE DEF more, looked, bound
  <2> DEFINE s1 == s \cup more
             e1 == e \cup looked
  <2>2. n.used = u /\ n.seq_scan = s /\ n.used_expression = e
    BY <2>1
  <2>3. m = [n EXCEPT !.seq_scan = s1, !.used_expression = e1, !.done = bound]
    BY <2>2
  <2> HIDE DEF s1, e1, m
  <2>4. m = [used |-> u, seq_scan |-> s1, used_expression |-> e1,
             expression_infos |-> i, done |-> bound]
    BY <2>1, <2>3
  <2>5. m.used = u /\ m.seq_scan = s1 /\ m.done = bound
    BY <2>4
  <2> QED BY <2>2, <2>4, <2>5 DEF IsNet, s1
<1>11. last < len => ~ OnlyEqual(E, x.table, x.columns[last])
  <2> HIDE DEF ends
  <2>1. ends = {} => last = len
    BY <1>4
  <2> HIDE DEF last
  <2> QED BY <1>0, <1>6, <1>7, <2>1
<1>12. /\ ComparedIn(E, x.table, x.columns[last]) =>
             /\ Serves(E, x, 1)
             /\ BestUse(E, x) = Entry(x, ~ OnlyEqual(E, x.table, x.columns[last]), last)
       /\ ~ ComparedIn(E, x.table, x.columns[last]) =>
             IF last = 1 THEN ~ Serves(E, x, 1)
             ELSE Serves(E, x, 1) /\ BestUse(E, x) = Entry(x, FALSE, last - 1)
  <2> HIDE DEF last
  <2> QED BY <1>6, <1>11, BestUseIs DEF last
<1> HIDE DEF ends, last, m, more, bound
<1>13. CASE ends = {}
  <2>1. r = Used(m, x, FALSE, last)
    BY <1>3, <1>13
  <2>2. ComparedIn(E, x.table, x.columns[last]) /\ (~ OnlyEqual(E, x.table, x.columns[last])) = FALSE
    BY <1>7, <1>13 DEF OnlyEqual
  <2>3. UsedWith(n.used, x, E) = Append(n.used, Entry(x, FALSE, last))
    BY <1>12, <2>2 DEF UsedWith
  <2>4. OneMore(r, m, Entry(x, FALSE, last))
    BY <1>10, <2>1, UsedIs
  <2> QED BY <1>8, <1>9, <1>10, <2>3, <2>4 DEF OneMore
<1>14. CASE ends # {} /\ RangeOn(exps[last])
  <2>1. r = Used(m, x, TRUE, last)
    BY <1>3, <1>14
  <2>2. exps[last] # {}
    BY <1>14 DEF RangeOn
  <2>3. ComparedIn(E, x.table, x.columns[last]) /\ (~ OnlyEqual(E, x.table, x.columns[last])) = TRUE
    BY <1>1, <1>6, <1>7, <1>14, <2>2
  <2>4. UsedWith(n.used, x, E) = Append(n.used, Entry(x, TRUE, last))
    BY <1>12, <2>3 DEF UsedWith
  <2>5. OneMore(r, m, Entry(x, TRUE, last))
    BY <1>10, <2>1, UsedIs
  <2> QED BY <1>8, <1>9, <1>10, <2>4, <2>5 DEF OneMore
<1>15. CASE ends # {} /\ ~ RangeOn(exps[last])
  <2>1. r = IF last = 1 THEN m ELSE Used(m, x, FALSE, last - 1)
    BY <1>3, <1>15
  <2>2. ~ ComparedIn(E, x.table, x.columns[last])
    BY <1>1, <1>6, <1>7, <1>15
  <2>3. CASE last = 1
    <3>1. r = m /\ UsedWith(n.used, x, E) = n.used
      BY <1>12, <2>1, <2>2, <2>3 DEF UsedWith
    <3> QED BY <1>8, <1>9, <1>10, <3>1
  <2>4. CASE last # 1
    <3>1. r = Used(m, x, FALSE, last - 1)
      BY <2>1, <2>4
    <3>2. UsedWith(n.used, x, E) = Append(n.used, Entry(x, FALSE, last - 1))
      BY <1>12, <2>2, <2>4 DEF UsedWith
    <3>3. OneMore(r, m, Entry(x, FALSE, last - 1))
      BY <1>10, <3>1, UsedIs
    <3> QED BY <1>8, <1>9, <1>10, <3>2, <3>3 DEF OneMore
  <2> QED BY <2>3, <2>4
<1> QED BY <1>13, <1>14, <1>15

-----------------------------------------------------------------------------
(* Of what begins alike the beginnings alike are in S.                     *)
LEMMA SamePrefix ==
    ASSUME NEW s, NEW w, NEW S, Len(s) \in Nat, Len(w) \in Nat,
           NEW m \in Nat, m <= Len(s), m <= Len(w), \A k \in 1..m : s[k] = w[k]
    PROVE  AmongFirst(s, S)[m] = AmongFirst(w, S)[m]
<1> DEFINE f == AmongFirst(s, S)
           g == AmongFirst(w, S)
           Q == {k \in Nat : k <= m => f[k] = g[k]}
<1>1. /\ f[0] = <<>> /\ \A k \in 1..Len(s) : f[k] = AmongAt(f[k - 1], s[k], S)
      /\ g[0] = <<>> /\ \A k \in 1..Len(w) : g[k] = AmongAt(g[k - 1], w[k], S)
  BY AmongSteps
<1> HIDE DEF f, g
<1>2. 0 \in Q
  BY <1>1
<1>3. ASSUME NEW k \in Nat, k \in Q PROVE k + 1 \in Q
  <2> SUFFICES ASSUME k + 1 <= m PROVE f[k + 1] = g[k + 1]
    OBVIOUS
  <2>1. k + 1 \in 1..m /\ k + 1 \in 1..Len(s) /\ k + 1 \in 1..Len(w) /\ (k + 1) - 1 = k /\ k <= m
    OBVIOUS
  <2>2. f[k] = g[k] /\ s[k + 1] = w[k + 1]
    BY <1>3, <2>1
  <2> QED BY <1>1, <2>1, <2>2
<1>4. m \in Q
  <2> HIDE DEF Q
  <2> QED BY <1>2, <1>3, SetInduction
<1> QED BY <1>4 DEF f, g

(* A use for each index of a list.                                         *)
UsesOf(g, E) == [i \in DOMAIN g |-> BestUse(E, g[i])]

(* The uses of one more index.                                             *)
LEMMA UsesAppended ==
    ASSUME NEW X, NEW g \in Seq(X), NEW x \in X, NEW E
    PROVE  UsesOf(Append(g, x), E) = Append(UsesOf(g, E), BestUse(E, x))
<1> DEFINE len == Len(g)
           h == Append(g, x)
           u == UsesOf(g, E)
           y == BestUse(E, x)
           Y == {BestUse(E, g[i]) : i \in 1..len}
<1>1. /\ len \in Nat /\ DOMAIN g = 1..len /\ DOMAIN h = 1..(len + 1)
      /\ \A i \in 1..len : h[i] = g[i] /\ h[len + 1] = x
  OBVIOUS
<1>2. h[len + 1] = x
  OBVIOUS
<1>3. u = [i \in 1..len |-> BestUse(E, g[i])]
  BY <1>1 DEF UsesOf
<1>4. u \in Seq(Y) /\ Len(u) = len
  <2>1. \A i \in 1..len : BestUse(E, g[i]) \in Y
    OBVIOUS
  <2> HIDE DEF Y, u, len
  <2>2. u \in [1..len -> Y]
    BY <1>3, <2>1
  <2> QED BY <1>1, <2>2
<1>5. UsesOf(h, E) = [i \in 1..(len + 1) |-> BestUse(E, h[i])]
  BY <1>1 DEF UsesOf
<1>6. BestUse(E, h[len + 1]) = y
  BY <1>2
<1>7. \A i \in 1..len : BestUse(E, h[i]) = u[i]
  BY <1>1, <1>3
<1> HIDE DEF h, u, y, Y, len
<1>8. Append(u, y) = [i \in 1..(len + 1) |-> IF i = len + 1 THEN y ELSE u[i]]
  <2> DEFINE Z == Y \cup {y}
  <2>1. u \in Seq(Z) /\ y \in Z
    BY <1>4
  <2> HIDE DEF Z
  <2> DEFINE w == Append(u, y)
  <2>2. /\ w \in Seq(Z) /\ Len(w) = len + 1 /\ w[len + 1] = y
        /\ \A i \in 1..len : w[i] = u[i]
    BY <1>4, <2>1
  <2> HIDE DEF w
  <2>3. w = [i \in 1..(len + 1) |-> w[i]]
    BY <2>2
  <2>4. \A i \in 1..(len + 1) : w[i] = IF i = len + 1 THEN y ELSE u[i]
    <3>1. \A i \in 1..(len + 1) : i = len + 1 \/ i \in 1..len
      BY <1>1
    <3> QED BY <2>2, <3>1
  <2>5. w = [i \in 1..(len + 1) |-> IF i = len + 1 THEN y ELSE u[i]]
    BY <2>3, <2>4
  <2> QED BY <2>5 DEF w
<1>9. \A i \in 1..(len + 1) : BestUse(E, h[i]) = IF i = len + 1 THEN y ELSE u[i]
  <2>1. \A i \in 1..(len + 1) : i = len + 1 \/ i \in 1..len
    BY <1>1
  <2>2. \A i \in 1..len : i # len + 1
    BY <1>1
  <2> QED BY <1>6, <1>7, <2>1, <2>2
<1>10. UsesOf(h, E) = Append(u, y)
  BY <1>5, <1>8, <1>9
<1> QED BY <1>10 DEF h, u, y

(* Before the first index there is none.                                   *)
LEMMA NothingIs == /\ IsNet(Nothing) /\ Nothing.used = <<>> /\ Nothing.done = FALSE
                   /\ \A t, E : ToScan(Nothing.seq_scan, t, E)
<1>1. /\ Nothing = [used |-> <<>>, seq_scan |-> {}, used_expression |-> {},
                    expression_infos |-> <<>>, done |-> FALSE]
      /\ Nothing.used = <<>> /\ Nothing.seq_scan = {} /\ Nothing.done = FALSE
  BY DEF Nothing
<1>2. IsNet(Nothing)
  BY <1>1 DEF IsNet
<1> QED BY <1>1, <1>2 DEF ToScan

ColumnsGood(xs, t) ==
    IsList(xs) /\ \A j \in DOMAIN xs : xs[j].table = t /\ IsList(xs[j].columns) /\ xs[j].columns # <<>>

(* A unique index that is bound altogether ends the search.                *)
Stops(xs, E) == {k \in DOMAIN xs : FullyBound(E, xs[k]) /\ xs[k].unique}

LastTried(xs, E) == IF Stops(xs, E) = {} THEN Len(xs) ELSE Min(Stops(xs, E))

(* Trying all of them uses those that serve, until one determines the row. *)
LEMMA TriedIs ==
    ASSUME NEW t, NEW xs, ColumnsGood(xs, t), NEW a, IsList(a), NEW selected,
           NEW E, E = Usable(a, selected),
           NEW G, \A j \in DOMAIN xs : xs[j] \in G <=> Serves(E, xs[j], 1),
           NEW n, n = Tried(xs, a, selected)[Len(xs)]
    PROVE  /\ n.used = UsesOf(AmongFirst(xs, G)[LastTried(xs, E)], E)
           /\ ToScan(n.seq_scan, t, E)
<1> DEFINE len == Len(xs)
           f == Tried(xs, a, selected)
           g == AmongFirst(xs, G)
           S == Stops(xs, E)
           b == LastTried(xs, E)
           Fine(k) == /\ IsNet(f[k]) /\ f[k].used = UsesOf(g[k], E) /\ ToScan(f[k].seq_scan, t, E)
                      /\ f[k].done = (k \in S)
           Q == {k \in Nat : k <= len => IF k <= b THEN Fine(k) ELSE Fine(b) /\ f[k] = f[b]}
<1>1. len \in Nat /\ DOMAIN xs = 1..len /\ \A k \in 1..len : xs[k] \in ToSet(xs)
  BY ListFacts DEF ColumnsGood
<1>2. f[0] = Nothing /\ \A k \in 1..len : f[k] = TryUntilDone(f[k - 1], xs[k], a, selected)
  BY <1>1, TriesSteps
<1>3. g[0] = <<>> /\ \A k \in 1..len : g[k] = AmongAt(g[k - 1], xs[k], G)
  BY <1>1, AmongSteps
<1>4. \A k \in 0..len : g[k] \in Seq(ToSet(xs))
  <2>1. IsList(xs)
    BY DEF ColumnsGood
  <2>2. \A k \in 0..len : g[k] \in Seq(ToSet(xs) \cap G)
    BY <2>1, AmongFirstIs
  <2> HIDE DEF g, len
  <2>3. ToSet(xs) \cap G \subseteq ToSet(xs)
    OBVIOUS
  <2>4. \A X, Y : X \subseteq Y => Seq(X) \subseteq Seq(Y)
    OBVIOUS
  <2> QED BY <2>2, <2>3, <2>4
<1>5. S \subseteq 1..len /\ \A k \in 1..len : k \in S <=> FullyBound(E, xs[k]) /\ xs[k].unique
  BY <1>1 DEF Stops
<1>6. /\ S = {} => b = len
      /\ S # {} => b \in S /\ \A y \in S : b <= y
  <2>1. S \subseteq Nat
    BY <1>1, <1>5
  <2>2. b = IF S = {} THEN len ELSE Min(S)
    BY DEF LastTried
  <2> HIDE DEF S, b
  <2> QED BY <2>1, <2>2, MinIs
<1>7. \A j \in 1..len : xs[j] \in G <=> Serves(E, xs[j], 1)
  BY <1>1
<1>8. \A j \in 1..len : xs[j].table = t /\ IsList(xs[j].columns) /\ xs[j].columns # <<>>
  BY <1>1 DEF ColumnsGood
<1> HIDE DEF f, g, S, b, len
<1>9. b \in 0..len
  <2>1. CASE S = {}
    BY <1>1, <1>6, <2>1
  <2>2. CASE S # {}
    <3>1. b \in 1..len
      BY <1>5, <1>6, <2>2
    <3> QED BY <1>1, <3>1
  <2> QED BY <2>1, <2>2
<1>10. Fine(0)
  <2>1. UsesOf(g[0], E) = <<>>
    <3>1. DOMAIN <<>> = {}
      OBVIOUS
    <3> QED BY <1>3, <3>1 DEF UsesOf
  <2>2. (0 \in S) = FALSE
    BY <1>1, <1>5
  <2> QED BY <1>2, <2>1, <2>2, NothingIs
<1>11. 0 \in Q
  <2> HIDE DEF Fine
  <2> QED BY <1>9, <1>10
<1>12. ASSUME NEW k \in Nat, k \in Q PROVE k + 1 \in Q
  <2> SUFFICES ASSUME k + 1 <= len
               PROVE  IF k + 1 <= b THEN Fine(k + 1) ELSE Fine(b) /\ f[k + 1] = f[b]
    OBVIOUS
  <2>1. k + 1 \in 1..len /\ (k + 1) - 1 = k /\ k \in 0..len
    BY <1>1
  <2> DEFINE m == f[k]
             x == xs[k + 1]
             r == f[k + 1]
             u == UseIndex(m, x, a, selected)
  <2>2. r = IF m.done THEN m ELSE u
    BY <1>2, <2>1 DEF TryUntilDone
  <2>3. CASE k + 1 <= b
    <3>1. Fine(k)
      <4> HIDE DEF Fine
      <4> QED BY <1>9, <1>12, <2>1, <2>3
    <3>2. k \notin S
      BY <1>5, <1>6, <1>9, <2>1, <2>3
    <3>3. IsNet(m) /\ m.used = UsesOf(g[k], E) /\ ToScan(m.seq_scan, t, E) /\ m.done = (k \in S)
      BY <3>1
    <3>4. x.table = t /\ IsList(x.columns) /\ x.columns # <<>>
      BY <1>8, <2>1
    <3>5. x \in ToSet(xs) /\ g[k] \in Seq(ToSet(xs)) /\ (x \in G <=> Serves(E, x, 1))
      BY <1>1, <1>4, <1>7, <2>1
    <3>6. g[k + 1] = IF x \in G THEN Append(g[k], x) ELSE g[k]
      BY <1>3, <2>1 DEF AmongAt
    <3>7. k + 1 \in S <=> FullyBound(E, x) /\ x.unique
      BY <1>5, <2>1
    <3> SUFFICES IsNet(r) /\ r.used = UsesOf(g[k + 1], E) /\ ToScan(r.seq_scan, t, E)
                 /\ r.done = (k + 1 \in S)
      BY <2>3
    <3> HIDE DEF m, x, r
    <3>8. r = u
      BY <2>2, <3>2, <3>3
    <3> HIDE DEF u
    <3>9. /\ IsNet(r) /\ r.used = UsedWith(m.used, x, E)
          /\ r.done = (FullyBound(E, x) /\ x.unique)
          /\ ToScan(m.seq_scan, x.table, E) => ToScan(r.seq_scan, x.table, E)
      BY <3>3, <3>4, <3>8, UseIndexIs DEF u
    <3>10. r.used = UsesOf(g[k + 1], E)
      <4>1. CASE x \in G
        <5>1. r.used = Append(UsesOf(g[k], E), BestUse(E, x))
          BY <3>3, <3>5, <3>9, <4>1 DEF UsedWith
        <5>2. UsesOf(Append(g[k], x), E) = Append(UsesOf(g[k], E), BestUse(E, x))
          BY <3>5, UsesAppended
        <5>3. g[k + 1] = Append(g[k], x)
          BY <3>6, <4>1
        <5> QED BY <5>1, <5>2, <5>3
      <4>2. CASE x \notin G
        BY <3>3, <3>5, <3>6, <3>9, <4>2 DEF UsedWith
      <4> QED BY <4>1, <4>2
    <3>11. r.done = (k + 1 \in S)
      BY <3>7, <3>9
    <3> QED BY <3>3, <3>4, <3>9, <3>10, <3>11
  <2>4. CASE ~ (k + 1 <= b)
    <3>1. b <= k /\ b \in Nat
      BY <1>9, <2>4
    <3>2. S # {} /\ b \in S
      BY <1>6, <2>1, <2>4
    <3>3. Fine(b) /\ f[k] = f[b]
      <4> HIDE DEF Fine
      <4>1. CASE b = k
        BY <1>12, <2>1, <3>1, <4>1
      <4>2. CASE b # k
        <5>1. ~ (k <= b) /\ k <= len
          BY <1>1, <2>1, <3>1, <4>2
        <5> QED BY <1>12, <5>1
      <4> QED BY <4>1, <4>2
    <3>4. m.done = TRUE
      <4>1. f[b].done = (b \in S)
        BY <3>3
      <4> HIDE DEF Fine
      <4> QED BY <3>2, <3>3, <4>1
    <3>5. r = m
      <4> HIDE DEF m, r, u
      <4> QED BY <2>2, <3>4
    <3> HIDE DEF Fine
    <3> QED BY <2>4, <3>3, <3>5
  <2> QED BY <2>3, <2>4
<1>13. len \in Q
  <2> HIDE DEF Q
  <2> QED BY <1>1, <1>11, <1>12, SetInduction
<1>14. Fine(b) /\ f[len] = f[b]
  <2> HIDE DEF Fine
  <2>1. CASE len <= b
    <3>1. len = b
      BY <1>1, <1>9, <2>1
    <3> QED BY <1>1, <1>13, <2>1, <3>1
  <2>2. CASE ~ (len <= b)
    BY <1>1, <1>13, <2>2
  <2> QED BY <2>1, <2>2
<1>15. n = f[len]
  BY DEF f, len
<1>16. n.used = UsesOf(g[b], E) /\ ToScan(n.seq_scan, t, E)
  BY <1>14, <1>15
<1> QED BY <1>16 DEF g, b

-----------------------------------------------------------------------------
(* And these are the ones the reference has.                               *)
LEMMA EligibleIs ==
    ASSUME NEW xs, IsList(xs), NEW ys, ys = InOrder(xs), NEW E, NEW G
    PROVE  Among(Eligible(E, xs), G) = AmongFirst(ys, G)[LastTried(ys, E)]
<1> DEFINE X == ToSet(xs)
           unique == {x \in X : x.unique}
           u == Among(xs, unique)
           w == Among(xs, X \ unique)
           bound == {k \in DOMAIN u : FullyBound(E, u[k])}
           b == LastTried(ys, E)
           el == Eligible(E, xs)
<1>1. /\ u \in Seq(X) /\ IsList(u) /\ ToSet(u) \subseteq unique
      /\ w \in Seq(X) /\ IsList(w) /\ ToSet(w) \subseteq X \ unique
  BY AmongIs
<1>2. ys = u \o w
  BY DEF InOrder
<1>3. {x \in X : ~ x.unique} = X \ unique
  OBVIOUS
<1>4. el = IF bound # {} THEN SubSeq(u, 1, Min(bound)) ELSE u \o w
  BY <1>3, Zenon DEF Eligible
<1>5. /\ Len(u) \in Nat /\ DOMAIN u = 1..Len(u) /\ \A k \in 1..Len(u) : u[k] \in unique
      /\ Len(w) \in Nat /\ DOMAIN w = 1..Len(w) /\ \A k \in 1..Len(w) : w[k] \notin unique /\ w[k] \in X
  <2> HIDE DEF u, w, unique, X
  <2>1. /\ Len(u) \in Nat /\ DOMAIN u = 1..Len(u) /\ ToSet(u) = {u[k] : k \in 1..Len(u)}
        /\ Len(w) \in Nat /\ DOMAIN w = 1..Len(w) /\ ToSet(w) = {w[k] : k \in 1..Len(w)}
    BY <1>1, ListFacts
  <2> QED BY <1>1, <2>1
<1>6. \A x \in X : x \in unique <=> x.unique
  OBVIOUS
<1>7. unique \subseteq X
  OBVIOUS
<1>8. bound = {k \in 1..Len(u) : FullyBound(E, u[k])}
  BY <1>5
<1> HIDE DEF u, w, unique, X, el
<1>9. /\ ys \in Seq(X) /\ Len(ys) = Len(u) + Len(w) /\ DOMAIN ys = 1..Len(ys) /\ Len(ys) \in Nat
      /\ \A k \in 1..Len(u) : ys[k] = u[k]
      /\ \A k \in 1..Len(ys) : k > Len(u) => ys[k] = w[k - Len(u)] /\ k - Len(u) \in 1..Len(w)
  BY <1>1, <1>2, <1>5
<1>10. Stops(ys, E) = bound
  <2>1. ASSUME NEW k \in bound PROVE k \in Stops(ys, E)
    <3>1. k \in 1..Len(u) /\ FullyBound(E, u[k])
      BY <1>8
    <3>2. k \in DOMAIN ys /\ ys[k] = u[k] /\ u[k].unique
      BY <1>5, <1>6, <1>7, <1>9, <3>1
    <3> QED BY <3>1, <3>2 DEF Stops
  <2>2. ASSUME NEW k \in Stops(ys, E) PROVE k \in bound
    <3>1. k \in 1..Len(ys) /\ FullyBound(E, ys[k]) /\ ys[k].unique
      BY <1>9 DEF Stops
    <3>2. k \in 1..Len(u)
      <4> SUFFICES ASSUME k > Len(u) PROVE FALSE
        BY <1>5, <1>9, <3>1
      <4>1. ys[k] = w[k - Len(u)] /\ k - Len(u) \in 1..Len(w)
        BY <1>9, <3>1
      <4>2. ys[k] \in X /\ ys[k] \notin unique
        BY <1>5, <4>1
      <4> QED BY <1>6, <3>1, <4>2
    <3> QED BY <1>8, <1>9, <3>1, <3>2
  <2> QED BY <2>1, <2>2
<1>11. b = IF bound = {} THEN Len(ys) ELSE Min(bound)
  BY <1>10 DEF LastTried
<1> HIDE DEF b
<1>12. CASE bound = {}
  <2>1. el = ys /\ b = Len(ys)
    BY <1>2, <1>4, <1>11, <1>12
  <2> QED BY <2>1 DEF Among, el, b
<1>13. CASE bound # {}
  <2>1. bound \subseteq Nat /\ bound \subseteq 1..Len(u)
    BY <1>8
  <2> HIDE DEF bound
  <2>2. b \in 1..Len(u) /\ el = SubSeq(u, 1, b)
    BY <1>4, <1>11, <1>13, <2>1, MinIs
  <2>3. Len(el) = b /\ b \in Nat /\ b <= Len(ys) /\ \A k \in 1..b : el[k] = u[k] /\ ys[k] = u[k]
    <3>1. b \in Nat /\ b >= 1 /\ b <= Len(u)
      BY <1>5, <2>2
    <3>2. Len(SubSeq(u, 1, b)) = b /\ \A k \in 1..b : SubSeq(u, 1, b)[k] = u[k]
      BY <1>1, <1>5, <3>1
    <3>3. b <= Len(ys) /\ \A k \in 1..b : ys[k] = u[k]
      BY <1>5, <1>9, <3>1
    <3> QED BY <2>2, <3>1, <3>2, <3>3
  <2>4. /\ Len(el) \in Nat /\ Len(ys) \in Nat /\ b \in Nat /\ b <= Len(el) /\ b <= Len(ys)
        /\ \A k \in 1..b : el[k] = ys[k]
    <3>1. Len(ys) \in Nat
      BY <1>9
    <3> QED BY <2>3, <3>1
  <2>5. AmongFirst(el, G)[b] = AmongFirst(ys, G)[b]
    BY <2>4, SamePrefix
  <2> QED BY <2>3, <2>5 DEF Among, el, b
<1> QED BY <1>12, <1>13

(* Network finds the indexes the comparisons bind.                         *)
LEMMA NetworkIsGood ==
    ASSUME NEW t, NEW xs, ColumnsGood(xs, t), NEW a, IsList(a), NEW selected
    PROVE  AsExpected(Network(t, xs, a, selected), t, xs, a, selected)
<1> DEFINE E == Usable(a, selected)
           n == Network(t, xs, a, selected)
           ys == InOrder(xs)
           G == {x \in ToSet(xs) : Serves(E, x, 1)}
           good == Among(Eligible(E, xs), G)
           m == Tried(ys, a, selected)[Len(ys)]
<1>1. n = IF SelfCompared(t, a) THEN Nothing ELSE m
  BY DEF Network
<1>2. IsList(xs) /\ \A x \in ToSet(xs) : x.table = t /\ IsList(x.columns) /\ x.columns # <<>>
  BY DEF ColumnsGood, ToSet
<1>3. IsList(ys) /\ \A j \in DOMAIN ys : ys[j] \in ToSet(xs)
  <2> DEFINE X == ToSet(xs)
             u == Among(xs, {x \in X : x.unique})
             w == Among(xs, X \ {x \in X : x.unique})
  <2>1. ys = u \o w
    BY DEF InOrder
  <2>2. u \in Seq(X) /\ w \in Seq(X)
    BY <1>2, AmongIs
  <2> HIDE DEF u, w, X, ys
  <2>3. ys \in Seq(X)
    BY <2>1, <2>2
  <2> QED BY <2>3, SeqIsList DEF X
<1> HIDE DEF ys, E
<1>4. ColumnsGood(ys, t) /\ \A j \in DOMAIN ys : ys[j] \in G <=> Serves(E, ys[j], 1)
  BY <1>2, <1>3 DEF ColumnsGood
<1> HIDE DEF G, m
<1>5. m.used = UsesOf(AmongFirst(ys, G)[LastTried(ys, E)], E) /\ ToScan(m.seq_scan, t, E)
  BY <1>4, TriedIs DEF E, m
<1>6. good = AmongFirst(ys, G)[LastTried(ys, E)]
  BY <1>2, EligibleIs DEF ys
<1>7. m.used = [i \in DOMAIN good |-> BestUse(E, good[i])]
  <2> HIDE DEF good
  <2> QED BY <1>5, <1>6 DEF UsesOf
<1>8. /\ t \notin m.seq_scan
      /\ \A u \in m.seq_scan :
            \E e \in E : u \in TablesOf(e) /\ ~ (e.equal = 1 /\ Len(e.variables) = 2)
  BY <1>5 DEF ToScan
<1> HIDE DEF n, good
<1>9. CASE SelfCompared(t, a)
  BY <1>1, <1>9 DEF AsExpected, n
<1>10. CASE ~ SelfCompared(t, a)
  <2>1. n = m
    BY <1>1, <1>10
  <2> QED BY <1>7, <1>8, <1>10, <2>1 DEF AsExpected, n, good, G, E
<1> QED BY <1>9, <1>10

(* The loop over the networks is over tables that are compared.            *)
NetworksCompared == pc = "networks" => Over(todo, Compared)

(* Every step keeps it: a turn of SearchTables uses Network.               *)
LEMMA NetworksComparedStep == Prepared /\ NetworksCompared /\ [Next]_vars => NetworksCompared'
<1> SUFFICES ASSUME Prepared, NetworksCompared, [Next]_vars, pc' = "networks"
             PROVE  Over(todo, Compared)'
  BY DEF NetworksCompared
<1>1. CASE UNCHANGED vars
  <2>1. UNCHANGED <<query, schema, parsed, condition, or_node, tables_set, areas, pc, todo>>
    BY <1>1 DEF vars, conditionVars, planVars
  <2>2. Compared' = Compared
    BY <2>1, SameContext DEF SameQuery
  <2> QED BY <2>1, <2>2 DEF NetworksCompared, Over
<1>2. CASE PrepareCondition
  BY <1>2, BranchPlans DEF PrepareCondition, RemoveNot, Count, Collect, Planning, Branch
<1>3. CASE PlanMove /\ Next
  <2>1. Compared' = Compared
    BY <1>3, JoiningBefore, SameContext
  <2>2. CASE pc = "networks"
    <3>1. SearchTables
      BY <1>3, <2>2 DEF Next, PrepareCondition, RemoveNot, Count, Collect, ScanUnmentioned,
         NestUnmentioned, LookUpAllConstants, JoinForeignKeys, JoinByHash, JoinByMerge, ScanRest,
         Turn, Unite, Onwards, NextLoop, ScanOnly, SearchAreas, TakeDerived, InitResources
    <3>2. todo # <<>> /\ todo' = Tail(todo)
      BY <3>1 DEF SearchTables, Turn
    <3>3. Over(Tail(todo), Compared)
      BY <2>2, <3>2, TurnOver DEF NetworksCompared
    <3> QED BY <2>1, <3>2, <3>3 DEF Over
  <2>3. CASE pc # "networks"
    <3>0. ~ PrepareCondition
      BY BranchPlans DEF PrepareCondition, RemoveNot, Count, Collect, Planning, Branch
    <3>1. Onwards
      BY <1>3, <2>3, <3>0 DEF Next, ScanUnmentioned,
         NestUnmentioned, LookUpAllConstants, JoinForeignKeys, SearchTables, JoinByHash, JoinByMerge,
         ScanRest, Turn, Unite, ScanOnly, SearchAreas, TakeDerived, InitResources
    <3>2. todo' = Among(RowOrder, Compared)
      BY <2>3, <3>1 DEF Onwards, NextLoop
    <3>3. IsList(RowOrder)
      BY PlannerAssumption
    <3>4. IsList(Among(RowOrder, Compared)) /\ ToSet(Among(RowOrder, Compared)) = ToSet(RowOrder) \cap Compared
      BY <3>3, AmongIs
    <3> QED BY <2>1, <3>2, <3>4 DEF Over
  <2> QED BY <2>2, <2>3
<1> QED BY <1>1, <1>2, <1>3, PlanningStep

(* So it is an invariant.                                                  *)
LEMMA NetworksAreCompared == Spec => []NetworksCompared
<1>1. Init => NetworksCompared
  BY DEF Init, ConditionInit, NetworksCompared
<1> QED BY <1>1, NetworksComparedStep, PlanningPrepared, PTL DEF Spec

(* Whenever indexes are looked for, those and only those are found that    *)
(* the comparisons bind, each over as many columns as they are bound       *)
(* (useIndex).                                                             *)
THEOREM NetworkAlwaysAsExpected == Spec => []NetworkAsExpected
<1>1. Prepared /\ NetworksCompared => NetworkAsExpected
  <2> SUFFICES ASSUME Prepared, NetworksCompared PROVE NetworkAsExpected
    OBVIOUS
  <2>1. ASSUME NEW t \in Tables PROVE ColumnsGood(schema.indexes[t], t)
    <3>1. IsSchema(schema)
      BY PlannerAssumption DEF Prepared
    <3> QED BY <3>1 DEF IsSchema, ColumnsGood
  <2>2. ASSUME Collected PROVE Compared \subseteq Tables /\ IsList(area) /\ tables_set = Compared
                               /\ \A a \in ToSet(areas) : IsList(a)
    BY <2>2, AreaFacts
  <2>3. ASSUME pc = "one table", NEW a \in ToSet(areas)
        PROVE  AsExpected(Network(TheTable, schema.indexes[TheTable], a, {}),
                          TheTable, schema.indexes[TheTable], a, {})
    <3>1. Collected /\ Branch = "one table"
      BY <2>3 DEF Prepared, Collected, Planning
    <3>2. TheTable \in Tables
      <4>1. Compared # {}
        <5>1. Cardinality(tables_set) = 1
          BY <3>1 DEF Branch
        <5>2. Cardinality({}) = 0
          BY FS_EmptySet
        <5>3. tables_set # {}
          BY <5>1, <5>2
        <5> QED BY <2>2, <3>1, <5>3
      <4> QED BY <2>2, <3>1, <4>1 DEF TheTable
    <3> QED BY <2>1, <2>2, <3>1, <3>2, NetworkIsGood
  <2>4. ASSUME pc = "networks", todo # <<>>, NEW selected
        PROVE  AsExpected(Network(Head(todo), schema.indexes[Head(todo)], area, selected),
                          Head(todo), schema.indexes[Head(todo)], area, selected)
    <3>1. Collected
      BY <2>4 DEF Prepared, Collected, JoinLoops
    <3>2. Head(todo) \in Compared
      BY <2>4, TurnOver DEF NetworksCompared
    <3> QED BY <2>1, <2>2, <3>1, <3>2, NetworkIsGood
  <2> QED BY <2>3, <2>4 DEF NetworkAsExpected
<1> QED BY <1>1, PlanningPrepared, NetworksAreCompared, PTL
=============================================================================
