----------------------------- MODULE MCPlanner ------------------------------
(***************************************************************************)
(* Planner with four tables, their foreign keys and indexes.  The queries  *)
(* are of one to four tables with up to three comparisons, with any        *)
(* indexes; and of two tables with all conditions of up to four            *)
(* comparisons in two levels of AND, OR and NOT, and what one or two       *)
(* further NOTs, or a further AND or OR with one comparison, make of them. *)
(***************************************************************************)
EXTENDS Pricing

MCRowOrder == <<2, 3, 4, 1>>

(* Tables 1 and 3 have a column of the same name.                          *)
First  == <<"x", "y", "x", "z">>
Second == <<"u", "v", "w", "q">>

Index(t, columns, unique) == [table |-> t, columns |-> columns, unique |-> unique]

(* No index; one on the first column, as of a primary key; one on each.    *)
IndexesOf(t) == {<<>>,
                 <<Index(t, <<First[t]>>, TRUE)>>,
                 <<Index(t, <<First[t], Second[t]>>, FALSE), Index(t, <<Second[t]>>, FALSE)>>}

Key(t1, t2) == [table1 |-> t1, columns1 |-> <<Second[t1]>>,
                table2 |-> t2, columns2 |-> <<First[t2]>>]

KeySets == {{}, {Key(1, 2)}, {Key(1, 2), Key(2, 3)}, {Key(1, 2), Key(2, 3), Key(1, 3)}}

(* For queries of one table, up to three of all its indexes in any order.  *)
AnyOf(t) == {Index(t, c, u) : c \in {<<First[t]>>, <<First[t], Second[t]>>,
                                     <<Second[t], First[t]>>}, u \in BOOLEAN}

(* Foreign keys matter to joins only.                                      *)
MCSchemas(q) ==
    CASE q.from = <<1, 2>> ->
         {[indexes |-> <<<<Index(1, <<"x">>, TRUE)>>, <<>>, <<>>, <<>>>>, foreign_keys |-> {}]}
      [] Len(q.from) = 1 ->
         {[indexes |-> [t \in 1..4 |-> IF t = 1 THEN s ELSE <<>>], foreign_keys |-> {}] :
             s \in {x \in SeqOf(AnyOf(1), 3) : IsInjective(x)}}
      [] OTHER ->
         {[indexes |-> <<a, b, c, <<Index(4, <<"z">>, TRUE)>>>>, foreign_keys |-> k] :
             a \in IndexesOf(1), b \in IndexesOf(2), c \in IndexesOf(3),
             k \in IF Len(q.from) > 2 THEN KeySets ELSE {{}}}

(* The comparisons are numbered by their places in the query.  What is no  *)
(* equality is a LIKE, which counts as an operator.                        *)
Comp(equal, variables) ==
    Comparison(0, equal, variables, IF equal = 0 THEN 1 ELSE 0)

V1(t) == Variable(t, First[t])
V2(t) == Variable(t, Second[t])

Joins == {Comp(1, <<V2(1), V1(2)>>), Comp(1, <<V1(3), V2(2)>>),
          Comp(0, <<V2(1), V1(3)>>), Comp(1, <<V2(1), V1(3)>>)}

(* As in WHERE 1 = 1. *)
OfNothing == Comp(0, <<>>)

Others1 == {Comp(1, <<V1(1)>>), Comp(0, <<V1(2)>>), Comp(1, <<V1(3), V2(3)>>)}

Conjunctions == {<<j>> : j \in Joins} \cup {<<j, k>> : j \in Joins, k \in Joins \cup Others1}
                \cup {<<o, j>> : o \in Others1, j \in Joins}

Triangle == <<Comp(1, <<V2(1), V1(2)>>), Comp(1, <<V2(2), V1(3)>>),
              Comp(1, <<V2(1), V1(3)>>)>>

(* Comparisons of table 1 alone, as many areas as there are.               *)
Alone == {Comp(e, <<v>>) : e \in {0, 1}, v \in {V1(1), V2(1)}}
         \cup {Comp(1, <<V1(1), V2(1)>>)}

OneTable == {<<<<x>>>> : x \in Alone} \cup {<<<<x>>, <<y>>>> : x \in Alone, y \in Alone}
            \cup {<<<<x, y>>, <<z>>>> : x \in Alone, y \in Alone, z \in Alone}

(* A comparison with its number, as a tree. *)
Numbered(exp, id) == <<[exp EXCEPT !.id = id]>>

BothOf(op, seq) == FoldLeft(LAMBDA l, r : Both(op, l, r), Head(seq), Tail(seq))

(* A condition with these areas. *)
Query(f, as) ==
    LET before(k) == Len(FlattenSeq(SubSeq(as, 1, k - 1)))
        and(k) == BothOf("AND", [j \in DOMAIN as[k] |-> Numbered(as[k][j], before(k) + j)])
    IN [from |-> f, derived |-> Null,
        condition |-> IF as = <<>> THEN NoCondition
                      ELSE BothOf("OR", [k \in DOMAIN as |-> and(k)])]

Mixed == <<<<Comp(1, <<V1(1)>>)>>, <<Comp(1, <<V2(1), V1(2)>>)>>>>

Listed ==
    {Query(f, <<c>>) : f \in {<<1, 2, 3>>, <<4, 3, 1, 2>>},
                       c \in Conjunctions \cup {Triangle, <<OfNothing>>}}
    \cup {Query(f, a) : f \in {<<1>>, <<2, 1>>}, a \in OneTable}
    \cup {Query(f, a) : f \in {<<1>>, <<2, 3>>, <<1, 2, 3>>}, a \in {<<>>, Mixed}}

(* = on one table, <> on another, LIKE between the two.                    *)
Comparisons(p) == {Numbered(Comp(1, <<V1(1)>>), p), Numbered(Comp(2, <<V1(2)>>), p),
                   Numbered(Comp(0, <<V2(1), V1(2)>>), p)}

(* The trees of height at most h, whose comparisons are numbered by their  *)
(* place p in the tree.                                                    *)
RECURSIVE Trees(_, _)
Trees(h, p) ==
    Comparisons(p) \cup
       (IF h = 0 THEN {}
        ELSE {Not(n) : n \in Trees(h - 1, 2 * p)} \cup
             {Both(op, l, r) : op \in {"AND", "OR"}, l \in Trees(h - 1, 2 * p),
                               r \in Trees(h - 1, 2 * p + 1)})

Constant(p) == Numbered(OfNothing, p)

Conditions ==
    LET trees == Trees(2, 2)
    IN {NoCondition, Constant(1)} \cup trees
       \cup {Both(op, Constant(1), Constant(2)) : op \in {"AND", "OR"}}
       \cup {Not(n) : n \in trees} \cup {Not(Not(n)) : n \in trees}
       \cup {Both(op, Constant(1), n) : op \in {"AND", "OR"}, n \in trees}
       \cup {Not(Both(op, n, Constant(1))) : op \in {"AND", "OR"}, n \in trees}

MCQueries ==
    Listed
    \cup {[from |-> <<1, 2>>, derived |-> Null, condition |-> c] : c \in Conditions}
    \cup {[from |-> <<1>>, derived |-> d, condition |-> c] :
             d \in {SeqScan(2), NestedJoin(SeqScan(2), FullIndexScan(3))},
             c \in {NoCondition, Not(Constant(1))}}

MCRowCount == <<1, 8, 6, 3>>
MCColumnCount == <<2, 2, 3, 2>>

(* One row; a correlated one of several; and one with a sub-select.        *)
MCSubSelects ==
    LET one == Select(Node("Group", <<SeqScan(1)>>), FALSE, <<>>, <<>>)
    IN {one, Select(Filter(SeqScan(2), 0), TRUE, <<>>, <<>>),
        Select(SeqScan(3), FALSE, <<one>>, <<one>>)}

(* All of them together where the condition is short. *)
MCClauses(q) ==
    LET n == Len(Leaves(q.condition))
    IN CASE q.from = <<1>> /\ n < 2 -> {"GROUP BY", "HAVING", "nested", "ORDER BY", "UNION"}
         [] q.from = <<1>> /\ n = 2 -> {"ORDER BY"}
         [] q.from = <<4, 3, 1, 2>> /\ n < 2 -> {"GROUP BY", "nested", "ORDER BY"}
         [] OTHER -> {}
=============================================================================
