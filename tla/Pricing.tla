------------------------------ MODULE Pricing -------------------------------
(***************************************************************************)
(* What the plan of a Select costs: the estimates of the operations, the   *)
(* clauses the parser adds to the planned Select (GROUP BY, HAVING, ORDER  *)
(* BY, sub-selects, UNION), and the price of it all.                       *)
(*                                                                         *)
(* The code computes in double.  Here rows are counted in hundredths and   *)
(* costs in thousandths, rounded down, and of logarithms only the whole    *)
(* part is known.                                                          *)
(***************************************************************************)
EXTENDS Planner

CONSTANTS RowCount,    (* of each table *)
          ColumnCount,
          SubSelects,  (* Selects to be nested, or united with: records *)
                       (* [root, correlated, kids, siblings]            *)
          Clauses(_)   (* those a query may have, after WHERE *)

(* An empty table has no price: 0 * log2(0) is no number.                  *)
ASSUME CountAssumption == \A t \in Tables : RowCount[t] > 0 /\ ColumnCount[t] > 0

VARIABLES kids, siblings

pricingVars == <<vars, kids, siblings>>
-----------------------------------------------------------------------------
CPU_TUPLE_COST       == 133
CPU_INDEX_TUPLE_COST == 93
CPU_OPERATOR_COST    == 55
SEQ_PAGE_COST        == 5000
BLOCK_SIZE           == 8192
AVERAGE_DATA_SIZE    == 115

(* The cost of so many hundredths of a row at c each. *)
Each(rows, c) == (rows * c) \div 100

TableSize(t) == RowCount[t] * ColumnCount[t] * AVERAGE_DATA_SIZE

(* The whole part of log2 of a number of rows. *)
Log2(rows) == IF rows >= 100 THEN Max({k \in 0..20 : 100 * 2^k <= rows})
              ELSE - Min({k \in 0..20 : rows * 2^k >= 100})

Ln(rows) == (Log2(rows) * 69) \div 100

(* Of a tree over half the entries; the logarithm is cut off.              *)
Height(t) == Cardinality({e \in {3, 8, 21, 55} : e <= (RowCount[t] + 1) \div 2})
-----------------------------------------------------------------------------
(* An estimate of an operation: its rows, and what it costs until the      *)
(* first of them and from then on.                                         *)
Estimated(rows, start, run) == [rows |-> rows, start |-> start, run |-> run]

TotalCost(e) == e.start + e.run

OfDummy == Estimated(100, 0, 0)

OfSeqScan(n) ==
    LET rows == 100 * RowCount[n.table]
    IN Estimated(rows, 0, Each(rows, CPU_TUPLE_COST)
                          + (TableSize(n.table) * SEQ_PAGE_COST) \div (BLOCK_SIZE * 160))

StartOfIndex(t) == Height(t) * (CPU_INDEX_TUPLE_COST + CPU_OPERATOR_COST)

FetchRows(n, rows) == IF n.retr THEN Each(rows, SEQ_PAGE_COST) \div BLOCK_SIZE ELSE 0

OfIndexCon(n) ==
    LET free  == Len(n.columns) - n.len
        rows  == IF n.unique THEN 100 * (1 + free) ELSE 900 - 600 \div (free + 1)
        start == StartOfIndex(n.table)
    IN Estimated(rows, start, Each(rows, CPU_INDEX_TUPLE_COST) + start + FetchRows(n, rows))

OfIndexScan(n) ==
    LET all  == 100 * RowCount[n.table]
        rows == IF n.full THEN all
                ELSE ((all * 5) + (all * 5) \div (Len(n.columns) - n.len + 1)) \div 100
        run  == IF n.full THEN Each(rows, CPU_INDEX_TUPLE_COST) \div 4
                ELSE Each(rows, CPU_INDEX_TUPLE_COST + CPU_OPERATOR_COST)
    IN Estimated(rows, StartOfIndex(n.table), run + FetchRows(n, rows))

(* What a filter is for: one comparison, or all there is to compute (of    *)
(* which one operator is charged here).                                    *)
Compares(n) == LET of == SelectSeq(Leaves(condition), LAMBDA e : e.id = n.exp)
               IN IF n.exp = 0 \/ of = <<>> THEN [equal |-> 1, oper |-> 1] ELSE of[1]

OfFilter(n, k) ==
    LET share == IF Compares(n).equal = 1 THEN 1 ELSE 7
    IN Estimated(Max({100, (k.rows * share) \div 100}),
                 k.start,
                 Each(k.rows, Compares(n).oper * CPU_OPERATOR_COST + CPU_TUPLE_COST)
                    + TotalCost(k))

(* Mutant: the rows of the outer side come free. *)
OfNestedJoinInnerOnly(k1, k2) ==
    LET rows == Each(k1.rows, k2.rows)
    IN Estimated(rows, k1.start + k2.start, Each(rows, CPU_TUPLE_COST) + k2.run)

OfNestedJoin(k1, k2) ==
    LET rows == Each(k1.rows, k2.rows)
    IN Estimated(rows, k1.start + k2.start,
                 Each(rows, CPU_TUPLE_COST) + k2.run + TotalCost(k1))

RowsOfJoin(n, k1, k2) == IF n.foreign THEN k1.rows ELSE 3 * Min({k1.rows, k2.rows})

OfHashJoin(n, k1, k2) ==
    Estimated(RowsOfJoin(n, k1, k2), TotalCost(k1) + k2.start,
              k1.run + k2.run + Each(k1.rows + k2.rows, CPU_TUPLE_COST + 2 * CPU_OPERATOR_COST))

(* The planner calls both sides sorted.                                    *)
OfMergeJoin(n, k1, k2) ==
    Estimated(RowsOfJoin(n, k1, k2), k1.start + k2.start,
              TotalCost(k1) + TotalCost(k2)
                 + (k1.rows \div 100 + k2.rows \div 100) * (CPU_TUPLE_COST + CPU_OPERATOR_COST))

Total(seq, f(_)) == FoldLeft(LAMBDA sum, x : sum + f(x), 0, seq)

(* Six rows in a hundred less for every operation after the first.         *)
OfOrUnion(ks) ==
    LET rows == (Total(ks, LAMBDA k : k.rows) * (100 - 6 * (Len(ks) - 1))) \div 100
    IN Estimated(rows, Total(ks, LAMBDA k : k.start),
                 Total(ks, LAMBDA k : k.run)
                    + Each(rows, CPU_TUPLE_COST + 2 * CPU_OPERATOR_COST))

OfGroup(n, k) ==
    Estimated(k.rows \div (2 * n.len + 1), k.start,
              k.run + Each(k.rows, n.len * CPU_OPERATOR_COST + CPU_TUPLE_COST))

OfSort(k) ==
    Estimated(k.rows,
              2 * Each(k.rows, CPU_OPERATOR_COST) * Ln(k.rows) + TotalCost(k),
              TotalCost(k) + Each(k.rows, CPU_OPERATOR_COST) * Log2(k.rows))

RECURSIVE Estimate(_)
Estimate(n) ==
    LET ks == [i \in DOMAIN n.kids |-> Estimate(n.kids[i])]
    IN CASE n.op = "Dummy"      -> OfDummy
         [] n.op = "SeqScan"    -> OfSeqScan(n)
         [] n.op = "IndexCon"   -> OfIndexCon(n)
         [] n.op = "IndexScan"  -> OfIndexScan(n)
         [] n.op = "Filter"     -> OfFilter(n, ks[1])
         [] n.op = "NestedJoin" -> OfNestedJoin(ks[1], ks[2])
         [] n.op = "HashJoin"   -> OfHashJoin(n, ks[1], ks[2])
         [] n.op = "MergeJoin"  -> OfMergeJoin(n, ks[1], ks[2])
         [] n.op = "OrUnion"    -> OfOrUnion(ks)
         [] n.op = "Group"      -> OfGroup(n, ks[1])
         [] n.op = "Sort"       -> OfSort(ks[1])
-----------------------------------------------------------------------------
(* Selects *)
Select(r, correlated, ks, sibs) ==
    [root |-> r, correlated |-> correlated, kids |-> ks, siblings |-> sibs]

(* Sorting out the rows that both have: UNION.                             *)
Uniting(rows) == Each(rows, CPU_TUPLE_COST) + Each(rows, CPU_OPERATOR_COST) * Log2(rows)

(* Mutant: UNION ALL and UNION the wrong way round. *)
SiblingSwapped(s, rows, cost) ==
    IF s.correlated THEN cost - Uniting(rows + Estimate(s.root).rows) ELSE cost

(* Correlated is what the parser calls the sibling of a UNION ALL.         *)
SiblingCost(s, rows, cost) ==
    IF s.correlated THEN cost ELSE cost + Uniting(rows + Estimate(s.root).rows)

(* A correlated sub-select is run for every row.                           *)
KidCost(s, rows, cost) == IF s.correlated THEN Each(rows, cost) ELSE cost

RECURSIVE GetCost(_)
GetCost(s) ==
    LET e == Estimate(s.root)
    IN TotalCost(e) + Total(s.siblings, LAMBDA b : SiblingCost(b, e.rows, GetCost(b)))
                    + Total(s.kids, LAMBDA k : KidCost(k, e.rows, GetCost(k)))

(* Half of what is loaded already is taken off; a negative price is 20000. *)
FinalCost(cost, loaded, size) ==
    LET final == cost - (cost * loaded) \div (2 * size)
    IN IF final < 0 THEN 20000000 ELSE final
-----------------------------------------------------------------------------
PricingInit == Init /\ kids = <<>> /\ siblings = <<>>

Plan == Next /\ UNCHANGED <<kids, siblings>>

Group(n) == [AddChild(Node("Group", <<>>), n) EXCEPT !.len = 1]
Sort(n)  == AddChild(Node("Sort", <<>>), n)

(* One clause after another is added to the Select that has been planned.  *)
Clause(name, after, now) == /\ pc \in after
                            /\ name \in Clauses(query)
                            /\ pc' = now
                            /\ UNCHANGED <<query, schema, conditionVars, tables_operations,
                                           used_exp, resource, todo>>

AddGroup == /\ Clause("GROUP BY", {"planned"}, "grouped")
            /\ root' = Group(root)
            /\ UNCHANGED <<kids, siblings>>

AddHaving == /\ Clause("HAVING", {"grouped"}, "having")
             /\ root' = Filter(root, 0)
             /\ UNCHANGED <<kids, siblings>>

AddKid == /\ Clause("nested", {"planned", "grouped", "having"}, "nested")
          /\ \E s \in SubSelects : kids' = Append(kids, s)
          /\ UNCHANGED <<root, siblings>>

AddSort == /\ Clause("ORDER BY", {"planned", "grouped", "having", "nested"}, "sorted")
           /\ root' = Sort(root)
           /\ UNCHANGED <<kids, siblings>>

AddSibling == /\ Clause("UNION", {"planned", "grouped", "having", "nested", "sorted"}, "united")
              /\ \E s \in SubSelects : siblings' = Append(siblings, s)
              /\ UNCHANGED <<root, kids>>

PricingNext == Plan \/ AddGroup \/ AddHaving \/ AddKid \/ AddSort \/ AddSibling

PricingSpec == PricingInit /\ [][PricingNext]_pricingVars
-----------------------------------------------------------------------------
PlanIsMade == pc \in {"planned", "grouped", "having", "nested", "sorted", "united"}

(* Every operation of a plan costs no less than each of those it reads     *)
(* from: whatever is put over an operation, however few rows come out,     *)
(* makes the plan no cheaper.  The exception is a sort of less than one    *)
(* row (sort.cpp 11-14), whose logarithms are negative; no cost is.        *)
CostsAddUp ==
    PlanIsMade => \A n \in Nodes(root) :
       LET e == Estimate(n)
       IN /\ e.rows > 0 /\ TotalCost(e) >= 0
          /\ n.op = "Sort" => e.rows < 100 \/ TotalCost(e) >= TotalCost(Estimate(n.kids[1]))
          /\ n.op # "Sort" => \A k \in ToSet(n.kids) : TotalCost(e) >= TotalCost(Estimate(k))

(* A query costs as much as its own plan and all the Selects in it do: a   *)
(* sub-select that is run for every row is paid once at least, except when *)
(* GROUP BY has left less than one.  And a query that costs anything has   *)
(* a price of half of that at least, whatever is loaded, so that the price *)
(* for mistakes (result.cpp 163) is never charged.                         *)
EverySelectPaid ==
    PlanIsMade =>
       LET this == Select(root, FALSE, kids, siblings)
           e == Estimate(root)
           others == Total(siblings, GetCost)
                     + IF e.rows >= 100 THEN Total(kids, GetCost) ELSE 0
       IN /\ GetCost(this) >= TotalCost(e) + others
          /\ \A loaded \in {0, 1, 2} : FinalCost(GetCost(this), loaded, 2) * 2 >= GetCost(this)
=============================================================================
