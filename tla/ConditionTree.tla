---------------------------- MODULE ConditionTree ---------------------------
(***************************************************************************)
(* What the constructor of Select does with the condition of a query       *)
(* before it plans: NOT is pushed down to the comparisons (de_morgan), the *)
(* ORs and the tables are counted (dfs), and the comparisons are collected *)
(* in areas (getAreas), each of which is looked for with indexes of its    *)
(* own; the rows are the union.  Then a way of planning is chosen.         *)
(*                                                                         *)
(* A comparison is "equal" 1 (=), 2 (<>) or 0 (anything else, and what     *)
(* NOT makes of it is not told apart).                                     *)
(***************************************************************************)
EXTENDS IndexSelection

VARIABLES parsed,      (* the tree as it was parsed *)
          condition,   (* the tree, as it is now *)
          or_node,     (* the number of ORs *)
          tables_set,  (* the tables compared *)
          areas,       (* sequence of areas, an area being a sequence *)
          pc           (* where the constructor is *)

conditionVars == <<parsed, condition, or_node, tables_set, areas>>
-----------------------------------------------------------------------------
(* Trees: the sequence of their nodes, as the parser makes them: a node    *)
(* comes after its children and has their places, and the last one is the  *)
(* root.  The null pointer of a query without a condition has no nodes.    *)
NoCondition == <<>>

(* oper is the number of operators to compute for it. *)
Comparison(id, equal, variables, oper) ==
    [name |-> "exp", id |-> id, equal |-> equal, variables |-> variables, oper |-> oper]

Not(t) == Append(t, [name |-> "NOT", left |-> Len(t)])

Both(op, l, r) ==
    LET moved(n) == CASE n.name = "exp" -> n
                      [] n.name = "NOT" -> [n EXCEPT !.left = @ + Len(l)]
                      [] OTHER -> [n EXCEPT !.left = @ + Len(l), !.right = @ + Len(l)]
    IN l \o [k \in DOMAIN r |-> moved(r[k])]
         \o <<[name |-> op, left |-> Len(l), right |-> Len(l) + Len(r)]>>

IsExp(n) == n.name = "exp" /\ n.equal \in {0, 1, 2} /\ IsList(n.variables)

IsTree(t) ==
    /\ IsList(t)
    /\ \A k \in DOMAIN t :
          \/ IsExp(t[k])
          \/ t[k].name = "NOT" /\ t[k].left \in 1..(k - 1)
          \/ t[k].name \in {"AND", "OR"} /\ {t[k].left, t[k].right} \subseteq 1..(k - 1)

(* A comparison is known by its id. *)
IdsDiffer(t) ==
    \A j, k \in DOMAIN t :
       t[j].name = "exp" /\ t[k].name = "exp" /\ t[j].id = t[k].id => j = k

(* The comparisons under each node, and under the root.                    *)
LeavesOf(t) ==
    LET leaves[k \in DOMAIN t] ==
          CASE t[k].name = "exp" -> <<t[k]>>
            [] t[k].name = "NOT" -> leaves[t[k].left]
            [] OTHER             -> leaves[t[k].left] \o leaves[t[k].right]
    IN leaves

Leaves(t) == IF t = NoCondition THEN <<>> ELSE LeavesOf(t)[Len(t)]
-----------------------------------------------------------------------------
(* Mutant: NOT (a OR b) keeps its OR. *)
NoDual(op) == op

Dual(op) == IF op = "OR" THEN "AND" ELSE "OR"

Negated(exp) == [exp EXCEPT !.equal = IF @ # 0 THEN 3 - @ ELSE @]

(* Every node has two places: 2 * k for what is made of node k, and the    *)
(* one before for what is made of NOT over it.  A NOT is skipped: it takes *)
(* over what is made of NOT over its child.                                *)
DeMorgan(t) ==
    LET made[j \in 1..(2 * Len(t))] ==
          LET k == (j + 1) \div 2
              negated == j # 2 * k
              of(m) == IF negated THEN 2 * m - 1 ELSE 2 * m
          IN CASE t[k].name = "exp" -> IF negated THEN Negated(t[k]) ELSE t[k]
               [] t[k].name = "NOT" -> made[IF negated THEN 2 * t[k].left
                                                       ELSE 2 * t[k].left - 1]
               [] OTHER -> [name  |-> IF negated THEN Dual(t[k].name) ELSE t[k].name,
                            left  |-> of(t[k].left),
                            right |-> of(t[k].right)]
    IN made

OrNodes(t) ==
    LET ors[k \in DOMAIN t] ==
          CASE t[k].name = "exp" -> 0
            [] t[k].name = "AND" -> ors[t[k].left] + ors[t[k].right]
            [] OTHER             -> ors[t[k].left] + ors[t[k].right] + 1
    IN IF t = NoCondition THEN 0 ELSE ors[Len(t)]

(* Mutant: OR collects as AND does. *)
AtOrTogether(left, right) == <<left \o right>>

(* OR closes the area its left side was collecting and goes on with that   *)
(* of the right side.                                                      *)
AtOr(left, right) ==
    CASE left # <<>>                 -> <<left, right>>
      [] left = <<>> /\ right # <<>> -> <<right, left>>
      [] OTHER                       -> <<right>>

(* AND goes on with both in one area. *)
AtAnd(left, right) == <<left \o right>>

Areas(t) ==
    LET of[k \in DOMAIN t] ==
          IF t[k].name = "exp" THEN <<<<t[k]>>>>
          ELSE LET left == of[t[k].left]
                   right == of[t[k].right]
               IN Front(left) \o Front(right)
                  \o (IF t[k].name = "AND" THEN AtAnd(Last(left), Last(right))
                                           ELSE AtOr(Last(left), Last(right)))
    IN IF t = NoCondition THEN <<>> ELSE of[Len(t)]
-----------------------------------------------------------------------------
ConditionInit(c) == /\ parsed = c
                    /\ condition = c
                    /\ or_node = 0
                    /\ tables_set = {}
                    /\ areas = <<>>
                    /\ pc = "parsed"

(* A FROM that is itself a SELECT brings its plan along: nothing is        *)
(* planned for the condition over it.                                      *)
RemoveNot(derived) ==
    /\ pc = "parsed"
    /\ condition' = DeMorgan(condition)
    /\ pc' = IF derived THEN "derived" ELSE "counting"
    /\ UNCHANGED <<parsed, or_node, tables_set, areas>>

Count == /\ pc = "counting"
         /\ or_node' = OrNodes(condition)
         /\ tables_set' = UNION {TablesOf(e) : e \in ToSet(Leaves(condition))}
         /\ pc' = "collecting"
         /\ UNCHANGED <<parsed, condition, areas>>

(* With ORs but no table to speak of, no plan is made and Select's root    *)
(* stays what the memory held.                                             *)
Branch == CASE \/ or_node > 0 /\ Cardinality(tables_set) > 1
               \/ condition = NoCondition     -> "scans only"
            [] OTHER ->
                 CASE Cardinality(tables_set) = 1                -> "one table"
                   [] Cardinality(tables_set) # 1 /\ or_node = 0 -> "joins"
                   [] OTHER                                      -> "no plan"

Collect == /\ pc = "collecting"
           /\ areas' = Areas(condition)
           /\ pc' = Branch
           /\ UNCHANGED <<parsed, condition, or_node, tables_set>>
-----------------------------------------------------------------------------
Planning == {"scans only", "one table", "joins", "no plan"}

(* Three-valued logic: 0 false, 2 true, 1 not known, which is its own      *)
(* negation, as is a comparison that is neither = nor <>.                  *)
Value(t, v) ==
    LET value[k \in DOMAIN t] ==
          CASE t[k].name = "exp" -> IF t[k].equal = 0 THEN 1
                                    ELSE IF t[k].equal = 1 THEN v[t[k].id] ELSE 2 - v[t[k].id]
            [] t[k].name = "NOT" -> 2 - value[t[k].left]
            [] t[k].name = "AND" -> Min({value[t[k].left], value[t[k].right]})
            [] OTHER             -> Max({value[t[k].left], value[t[k].right]})
    IN value[Len(t)]

Ids == {e.id : e \in ToSet(Leaves(parsed))}

(* de_morgan leaves the meaning of a condition as it was: whatever the     *)
(* columns hold, it is true, false or not known as before.                 *)
SameMeaning == pc \in {"counting", "derived"} /\ condition # NoCondition =>
                  \A v \in [Ids -> {0, 2}] : Value(condition, v) = Value(parsed, v)

Holds(t, sat) ==
    LET holds[k \in DOMAIN t] ==
          CASE t[k].name = "exp" -> t[k].id \in sat
            [] t[k].name = "AND" -> holds[t[k].left] /\ holds[t[k].right]
            [] OTHER             -> holds[t[k].left] \/ holds[t[k].right]
    IN holds[Len(t)]

(* No row is lost by planning area by area: whatever comparisons a row     *)
(* satisfies, if it satisfies the condition it satisfies all of some area. *)
(* No area is empty: no index serves an empty one, and the search for      *)
(* indexes ends at the first that none serves.  And where joins are        *)
(* planned, from the first area alone, that area is the whole condition.   *)
AreasCoverCondition ==
    pc \in Planning /\ condition # NoCondition =>
       /\ <<>> \notin ToSet(areas)
       /\ pc = "joins" => areas = <<Leaves(condition)>>
       /\ \A sat \in SUBSET Ids :
             Holds(condition, sat) =>
                \E a \in ToSet(areas) : \A e \in ToSet(a) : e.id \in sat
=============================================================================
