--------------------------- MODULE IndexSelection ---------------------------
(***************************************************************************)
(* The constructor of Network: given a table, its indexes and one area of  *)
(* a condition, which indexes are used, how many of their columns, and     *)
(* whether the last of them is searched for a range.                       *)
(*                                                                         *)
(* A variable is a column of a table; a comparison has an "equal" (1 for   *)
(* =) and a sequence of variables; an index has a table, the sequence of   *)
(* its columns' names, and may be unique.                                  *)
(***************************************************************************)
EXTENDS Integers, FiniteSets, SequencesExt

IsList(s) == s \in Seq({s[k] : k \in DOMAIN s})

(* The elements of a sequence that are in a set, up to each place, and all  *)
(* of them, in their order.                                                *)
AmongFirst(s, S) ==
    LET among[k \in 0..Len(s)] == IF k = 0 THEN <<>>
                                  ELSE IF s[k] \in S THEN Append(among[k - 1], s[k])
                                  ELSE among[k - 1]
    IN among

Among(s, S) == AmongFirst(s, S)[Len(s)]

Variable(table, name) == [table |-> table, name |-> name]

HasVariable(exp, table, name) == Variable(table, name) \in ToSet(exp.variables)

TablesOf(exp) == {v.table : v \in ToSet(exp.variables)}

(* Every table of the comparison is still without an operation.            *)
NotSelected(exp, selected) == TablesOf(exp) \cap selected = {}

(* The comparisons of one column that useIndex looks at: all of them, or   *)
(* up to the first that is no equality.                                    *)
LookedAt(table, name, area, selected) ==
    LET about == {i \in DOMAIN area : /\ NotSelected(area[i], selected)
                                      /\ HasVariable(area[i], table, name)}
    IN {area[i] : i \in {j \in about : \A k \in about : k < j => area[k].equal = 1}}

(* The other tables of those comparisons, unless they are joins on =.      *)
Others(table, exps) ==
    UNION {TablesOf(e) \ {table} : e \in {x \in exps : ~ (x.equal = 1 /\ Len(x.variables) = 2)}}

Entry(index, isScan, len) == [index |-> index, isScan |-> isScan, len |-> len]

(* Mutant: whatever there is about the column counts as a range.           *)
AnyOn(exps) == exps # {}

(* Some comparison of the column is no equality.                           *)
RangeOn(exps) == \E e \in exps : e.equal # 1

(* A network that has found nothing.  Its expression_infos is a member the *)
(* constructor never sets: its parameter is called area.                   *)
Nothing == [used |-> <<>>, seq_scan |-> {}, used_expression |-> {},
            expression_infos |-> <<>>, done |-> FALSE]

Used(n, index, isScan, len) == [n EXCEPT !.used = Append(@, Entry(index, isScan, len))]

(* useIndex for the network n; done is its result.  The columns are gone   *)
(* over up to the first that no comparison is about, or that is searched   *)
(* for a range.                                                            *)
UseIndex(n, index, area, selected) ==
    LET exps == [c \in DOMAIN index.columns |->
                    LookedAt(index.table, index.columns[c], area, selected)]
        ends == {c \in DOMAIN exps : exps[c] = {} \/ RangeOn(exps[c])}
        last == IF ends = {} THEN Len(index.columns) ELSE Min(ends)
        m == [n EXCEPT !.seq_scan = @ \cup UNION {Others(index.table, exps[c]) : c \in 1..last},
                       !.used_expression = @ \cup UNION {exps[c] : c \in 1..last},
                       !.done = ends = {} /\ index.unique]
    IN CASE ends = {}                          -> Used(m, index, FALSE, last)
         [] ends # {} /\ RangeOn(exps[last])   -> Used(m, index, TRUE, last)
         [] ends # {} /\ ~ RangeOn(exps[last]) -> IF last = 1 THEN m
                                                  ELSE Used(m, index, FALSE, last - 1)

(* The comparison is about these tables, all of them and no other.         *)
HasOnlyFromTables(exp, tables) == TablesOf(exp) = tables

(* Whether rows have to be fetched through the indexes: no index serves    *)
(* some comparison of this table alone.                                    *)
RetrData(n, table) ==
    \E e \in ToSet(n.expression_infos) \ n.used_expression : HasOnlyFromTables(e, {table})

(* Some comparison has the table twice.  *)
SelfCompared(table, area) ==
    \E e \in ToSet(area) :
       Cardinality({k \in DOMAIN e.variables : e.variables[k].table = table}) > 1

(* The indexes are tried until one that is unique is bound altogether by = *)
TryUntilDone(n, x, area, selected) ==
    IF n.done THEN n ELSE UseIndex(n, x, area, selected)

(* The network after each of them.                                         *)
Tried(indexes, area, selected) ==
    LET tried[k \in 0..Len(indexes)] ==
          IF k = 0 THEN Nothing ELSE TryUntilDone(tried[k - 1], indexes[k], area, selected)
    IN tried

(* The unique ones come first.                                             *)
InOrder(indexes) ==
    LET unique == {x \in ToSet(indexes) : x.unique}
    IN Among(indexes, unique) \o Among(indexes, ToSet(indexes) \ unique)

(* A table compared with itself gets no index.                             *)
Network(table, indexes, area, selected) ==
    LET xs == InOrder(indexes)
    IN IF SelfCompared(table, area) THEN Nothing ELSE Tried(xs, area, selected)[Len(xs)]
-----------------------------------------------------------------------------
(* What Network is for: a reference definition.                            *)

Usable(area, selected) == {e \in ToSet(area) : NotSelected(e, selected)}

(* Usable comparisons E have the column; and all of them are =.            *)
ComparedIn(E, table, name) == \E e \in E : HasVariable(e, table, name)

OnlyEqual(E, table, name) == /\ ComparedIn(E, table, name)
                             /\ \A e \in E : HasVariable(e, table, name) => e.equal = 1

(* An index is good for k of its columns if the k-th is compared and all   *)
(* before it are compared by = alone.                                      *)
Serves(E, x, k) == /\ k \in DOMAIN x.columns
                   /\ ComparedIn(E, x.table, x.columns[k])
                   /\ \A j \in 1..(k - 1) : OnlyEqual(E, x.table, x.columns[j])

(* It is used for as many as it is good for, and scanned if the last of    *)
(* them is searched for a range.                                           *)
BestUse(E, x) ==
    LET len == Max({k \in DOMAIN x.columns : Serves(E, x, k)})
    IN Entry(x, ~ OnlyEqual(E, x.table, x.columns[len]), len)

FullyBound(E, x) == \A k \in DOMAIN x.columns : OnlyEqual(E, x.table, x.columns[k])

(* The unique indexes up to the first that is bound altogether; if there   *)
(* is none, all of them and then the others.                               *)
Eligible(E, indexes) ==
    LET unique == Among(indexes, {x \in ToSet(indexes) : x.unique})
        bound  == {k \in DOMAIN unique : FullyBound(E, unique[k])}
    IN IF bound # {} THEN SubSeq(unique, 1, Min(bound))
       ELSE unique \o Among(indexes, {x \in ToSet(indexes) : ~ x.unique})

(* Of these the ones that are good for anything are used; and only tables  *)
(* without an operation that no equality alone joins to this one are to be *)
(* scanned for their side of a comparison.                                 *)
AsExpected(n, table, indexes, area, selected) ==
    LET E == Usable(area, selected)
        good == Among(Eligible(E, indexes), {x \in ToSet(indexes) : Serves(E, x, 1)})
    IN IF SelfCompared(table, area) THEN n = Nothing
       ELSE /\ n.used = [i \in DOMAIN good |-> BestUse(E, good[i])]
            /\ table \notin n.seq_scan
            /\ \A t \in n.seq_scan :
                  \E e \in E : t \in TablesOf(e) /\ ~ (e.equal = 1 /\ Len(e.variables) = 2)
=============================================================================
