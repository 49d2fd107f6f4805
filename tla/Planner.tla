------------------------------- MODULE Planner ------------------------------
(***************************************************************************)
(* The constructor of Select: what ConditionTree makes of the condition,   *)
(* then the tree of operations it plans for the query, and the tables and  *)
(* indexes it says the plan reads.  An action of the planning is one turn  *)
(* of one of its loops.                                                    *)
(*                                                                         *)
(* Pointers: two operations are the same if the records are.  The tables   *)
(* of a query are distinct, so two calls of new never give equal records.  *)
(* What the operations cost is Pricing's.                                  *)
(***************************************************************************)
EXTENDS ConditionTree

CONSTANTS RowOrder,  (* the tables, the longest first *)
          Queries,   (* records [from, condition, derived]: FROM, WHERE, and the *)
                     (* plan of the SELECT that is all of FROM, or Null          *)
          Schemas(_) (* records [indexes, foreign_keys] to plan a query with *)

(* A table's number is the place of its name in alphabetical order.        *)
Tables == 1..Len(RowOrder)

(* What is compared are columns of tables of the database: the planner     *)
(* reads the rows, indexes and operations of every table compared.         *)
IsQuery(q) == /\ q.from \in Seq(Tables) /\ q.from # <<>> /\ IsInjective(q.from)
              /\ IsTree(q.condition) /\ IdsDiffer(q.condition)
              /\ \A k \in DOMAIN q.condition :
                    q.condition[k].name = "exp" => TablesOf(q.condition[k]) \subseteq Tables

(* An index is of some columns, and of the table it is found at.           *)
IsSchema(s) == \A t \in Tables :
                 /\ IsList(s.indexes[t])
                 /\ \A j \in DOMAIN s.indexes[t] :
                       LET x == s.indexes[t][j]
                       IN x.table = t /\ IsList(x.columns) /\ x.columns # <<>>

ASSUME PlannerAssumption ==
    /\ IsList(RowOrder) /\ IsInjective(RowOrder) /\ ToSet(RowOrder) = Tables
    /\ \A q \in Queries : IsQuery(q) /\ \A s \in Schemas(q) : IsSchema(s)

VARIABLES query, schema,
          tables_operations,  (* the operation a table has got into so far *)
          used_exp,           (* the comparisons some filter was made for *)
          root,               (* the plan *)
          resource,           (* what it reads *)
          todo                (* what the loop it is in has still to go over *)

planVars == <<tables_operations, used_exp, root, resource, todo>>

vars == <<query, schema, conditionVars, planVars, pc>>

from == query.from
area == FlattenSeq(areas)
Compared == UNION {TablesOf(e) : e \in ToSet(area)}  (* tables_set *)
-----------------------------------------------------------------------------
(* Operations.  exp is the comparison a filter is for, or 0.  An index is  *)
(* known by its columns: none, if it is a new Index() of the planner's.    *)
Node(op, kids) == [op |-> op, table |-> 0, columns |-> <<>>, unique |-> FALSE, len |-> 0,
                   full |-> FALSE, retr |-> FALSE, exp |-> 0, foreign |-> FALSE, kids |-> kids]

Null == Node("null", <<>>)

SeqScan(t) == [Node("SeqScan", <<>>) EXCEPT !.table = t]

AddChild(n, kid) == [n EXCEPT !.kids = Append(@, kid)]

(* The first len columns of an index are searched for, by = or for a range. *)
IndexCon(index, len, retr) ==
    [Node("IndexCon", <<>>) EXCEPT !.table = index.table, !.columns = index.columns,
                                   !.unique = index.unique, !.len = len, !.retr = retr]

IndexScan(index, len, retr) == [IndexCon(index, len, retr) EXCEPT !.op = "IndexScan"]

(* All of an index that has no columns.                                    *)
FullIndexScan(t) ==
    [IndexScan([table |-> t, columns |-> <<>>, unique |-> FALSE], 1, FALSE)
       EXCEPT !.full = TRUE]

Filter(n, exp) == [Node("Filter", <<n>>) EXCEPT !.exp = exp]

NestedJoin(l, r) == Node("NestedJoin", <<l, r>>)
HashJoin(l, r)   == Node("HashJoin", <<l, r>>)
MergeJoin(l, r)  == Node("MergeJoin", <<l, r>>)

(* Joined on a foreign key: there are as many rows as in the first.        *)
HashOnKey(l, r) == [HashJoin(l, r) EXCEPT !.foreign = TRUE]

OrUnion(l, r) == Node("OrUnion", <<l, r>>)

(* An operation and all below it, level by level.                          *)
Levels(n) ==
    LET level[i \in Nat] == IF i = 0 THEN {n} ELSE UNION {ToSet(k.kids) : k \in level[i - 1]}
    IN level

Nodes(n) ==
    LET deeper[i \in Nat] == IF Levels(n)[i] = {} THEN {} ELSE Levels(n)[i] \cup deeper[i + 1]
    IN deeper[0]

Below(n) == {k.table : k \in Nodes(n)} \ {0}
-----------------------------------------------------------------------------
(* A state of planning: what the constructor has in tables_operations and  *)
(* used_exp.                                                               *)
Planned == [ops |-> tables_operations, used |-> used_exp]

Set(s) == tables_operations' = s.ops /\ used_exp' = s.used

(* getTables: the tables of the query whose operation is op.               *)
TablesWith(s, op) == {t \in ToSet(from) : s.ops[t] = op}

(* It mentions one of the tables, or there are none to mention.            *)
HasFromTables(e, tables) == tables = {} \/ TablesOf(e) \cap tables # {}

(* numOfFilter: the comparisons not used so far that mention a table of    *)
(* each set.                                                               *)
NumOfFilter(s, tables1, tables2) ==
    Among(area, {e \in ToSet(area) : /\ e.id \notin s.used
                                     /\ HasFromTables(e, tables1) /\ HasFromTables(e, tables2)})

Use(s, exps) == [s EXCEPT !.used = @ \cup {e.id : e \in ToSet(exps)}]

(* Filters for the first, the first two, ... comparisons, and for all.     *)
FiltersOver(n, exps) ==
    LET over[k \in 0..Len(exps)] == IF k = 0 THEN n ELSE Filter(over[k - 1], exps[k].id)
    IN over

Filtered(n, exps) == FiltersOver(n, exps)[Len(exps)]

(* Mutant: only one table learns of its new operation.                     *)
ReplaceOnce(s, old, new) ==
    LET t == CHOOSE u \in Tables : s.ops[u] = old
    IN IF \E u \in Tables : s.ops[u] = old THEN [s EXCEPT !.ops[t] = new] ELSE s

(* setNewOperation: every table with the operation old has got new.        *)
Replace(s, old, new) ==
    [s EXCEPT !.ops = [t \in Tables |-> IF @[t] = old THEN new ELSE @[t]]]

(* Mutant: the filters are counted and not made. *)
GiveBare(s, t, op, tables1, tables2) ==
    [Use(s, NumOfFilter(s, tables1, tables2)) EXCEPT !.ops[t] = op]

(* Table t gets op, and the filters of two sets of tables over it.         *)
Give(s, t, op, tables1, tables2) ==
    LET exps == NumOfFilter(s, tables1, tables2)
    IN [Use(s, exps) EXCEPT !.ops[t] = Filtered(op, exps)]

GiveScan(s, t) == Give(s, t, SeqScan(t), {t}, {})

(* Mutant: the tables of t2 keep their operation. *)
JoinHalf(s, t1, t2, join) == Replace(s, s.ops[t1], join)

(* t1 and t2, which have operations, are joined by join; then the filters  *)
(* of both sides go over it.                                               *)
JoinBoth(s, t1, t2, join) ==
    LET exps == NumOfFilter(s, TablesWith(s, s.ops[t1]), TablesWith(s, s.ops[t2]))
        node == Filtered(join, exps)
    IN Use(Replace(Replace(s, s.ops[t1], node), s.ops[t2], node), exps)

(* getIndexByCol *)
HasIndexByCol(t, columns) ==
    \E x \in ToSet(schema.indexes[t]) : x.columns = columns

IndexByCol(t, columns) ==
    LET xs == schema.indexes[t]
    IN xs[Min({j \in DOMAIN xs : xs[j].columns = columns})]

IsEquiJoin(e) == e.equal = 1 /\ Len(e.variables) = 2

(* One turn of the loop, which makes of a state of planning another.       *)
Turn(loop, body(_, _)) == /\ pc = loop /\ todo # <<>>
                          /\ Set(body(Planned, Head(todo)))
                          /\ todo' = Tail(todo)
                          /\ UNCHANGED <<query, schema, conditionVars, root, resource, pc>>
-----------------------------------------------------------------------------
(* No OR and several tables, or none, in WHERE: the joins.                 *)

(* A scan of every table WHERE does not mention, and nested joins of them. *)
Unmentioned == Among(from, ToSet(from) \ Compared)

NestWithFirst(s, t) ==
    LET parent == s.ops[Head(Unmentioned)]
        join == NestedJoin(parent, s.ops[t])
    IN Replace(Replace(s, parent, join), s.ops[t], join)

ScanUnmentioned == Turn("unmentioned", GiveScan)

NestUnmentioned == Turn("nesting", NestWithFirst)

WithConstant(op, found) == IF op = Null THEN found ELSE OrUnion(found, op)

(* A column of that name is equal to a constant, be it another table's.    *)
EqualToConstant(name) ==
    \E e \in ToSet(area) : /\ e.equal = 1 /\ Len(e.variables) = 1
                           /\ e.variables[1].name = name

(* How many columns of an index, from the first on, are.                   *)
LengthFound(index) ==
    LET missing == {k \in DOMAIN index.columns : ~ EqualToConstant(index.columns[k])}
    IN IF missing = {} THEN Len(index.columns) ELSE Min(missing) - 1

Found(index) == LengthFound(index) > 0

(* The operation of a table after one of its indexes, and after each.       *)
ConstantAdded(op, x) ==
    IF Found(x) THEN WithConstant(op, IndexCon(x, LengthFound(x), TRUE)) ELSE op

ConstantsAdded(op, xs) ==
    LET added[k \in 0..Len(xs)] == IF k = 0 THEN op ELSE ConstantAdded(added[k - 1], xs[k])
    IN added

LookUpConstants(s, t) ==
    LET xs == schema.indexes[t]
    IN [s EXCEPT !.ops[t] = ConstantsAdded(@, xs)[Len(xs)]]

LookUpAllConstants == Turn("constants", LookUpConstants)

(* The columns of t1 and t2 that are compared with each other.             *)
ColumnPair(e, t1, t2) ==
    LET v == e.variables
    IN CASE Len(v) = 2 /\ v[1].table = t1 /\ v[2].table = t2 -> <<<<v[1].name, v[2].name>>>>
         [] Len(v) = 2 /\ v[1].table = t2 /\ v[2].table = t1 -> <<<<v[2].name, v[1].name>>>>
         [] OTHER -> <<>>

ColumnPairs(t1, t2) == FlattenSeq([k \in DOMAIN area |-> ColumnPair(area[k], t1, t2)])

(* Of a key of several columns only the first in table2 is ever looked at. *)
KeyContains(key, pairs) ==
    \E p \in ToSet(pairs) : /\ p[1] \in ToSet(key.columns1)
                            /\ p[2] = Head(key.columns2)

IsForeignKey(t1, t2) ==
    \E key \in schema.foreign_keys : /\ key.table1 = t1 /\ key.table2 = t2
                                     /\ KeyContains(key, ColumnPairs(t1, t2))

(* The referenced table has no operation: it is hashed from its key.       *)
HashWithNew(s, t1, t2) ==
    LET col1  == [k \in DOMAIN ColumnPairs(t1, t2) |-> ColumnPairs(t1, t2)[k][1]]
        scan  == IF HasIndexByCol(t1, col1) THEN FullIndexScan(t1) ELSE SeqScan(t1)
        left  == IF s.ops[t1] # Null THEN s
                 ELSE Give(s, t1, scan, TablesWith(s, Null), {t1})
        both  == Give(left, t2, FullIndexScan(t2), {t2}, {})
        join  == HashOnKey(both.ops[t1], both.ops[t2])
    IN Replace(Replace(both, both.ops[t1], join), both.ops[t2], join)

(* It has one.  Nothing asks whether it is that of t1, too.                *)
HashWithJoined(s, t1, t2) ==
    LET left == IF s.ops[t1] # Null THEN s ELSE [s EXCEPT !.ops[t1] = FullIndexScan(t1)]
    IN JoinBoth(left, t1, t2, HashJoin(left.ops[t1], left.ops[t2]))

JoinOnKey(s, p) ==
    CASE ~ IsForeignKey(p[1], p[2]) -> s
      [] IsForeignKey(p[1], p[2]) /\ s.ops[p[2]] = Null -> HashWithNew(s, p[1], p[2])
      [] OTHER -> HashWithJoined(s, p[1], p[2])

Candidates ==
    UNION {TablesOf(e) : e \in {x \in ToSet(area) : /\ IsEquiJoin(x)
                                                    /\ Cardinality(TablesOf(x)) = 2}}

(* All ordered pairs of them, in lexicographic order.                      *)
CandidatePairs ==
    LET N == Len(RowOrder)
        pairs == [k \in 1..(N * N) |-> <<((k - 1) \div N) + 1, ((k - 1) % N) + 1>>]
    IN Among(pairs, {p \in Candidates \X Candidates : p[1] # p[2]})

JoinForeignKeys == Turn("foreign keys", JoinOnKey)

WithIndex(op, found) == IF op = Null THEN found ELSE OrUnion(op, found)

SearchOp(n, u) ==
    LET retr == RetrData(n, u.index.table)
    IN IF u.isScan THEN IndexScan(u.index, u.len, retr) ELSE IndexCon(u.index, u.len, retr)

(* What is planned after each of some tables is scanned, and the operation *)
(* of a table after each of the indexes its network found.                 *)
Scanned(s, ts) ==
    LET scanned[k \in 0..Len(ts)] == IF k = 0 THEN s ELSE GiveScan(scanned[k - 1], ts[k])
    IN scanned

Searched(n) ==
    LET searched[k \in 0..Len(n.used)] ==
          IF k = 0 THEN Null ELSE WithIndex(searched[k - 1], SearchOp(n, n.used[k]))
    IN searched

(* The indexes of a table without an operation, and scans of those tables  *)
(* it is compared with.  Network makes filters for the scan of a table     *)
(* compared with itself, and then drops that scan.                         *)
SearchTable(s, t) ==
    LET n == Network(t, schema.indexes[t], area, {u \in Tables : s.ops[u] # Null})
        scans == Among(RowOrder, n.seq_scan)
        filtered == IF SelfCompared(t, area) THEN Use(s, NumOfFilter(s, {t}, {})) ELSE s
    IN IF s.ops[t] # Null THEN s
       ELSE [Scanned(filtered, scans)[Len(scans)] EXCEPT !.ops[t] = Searched(n)[Len(n.used)]]

SearchTables == Turn("networks", SearchTable)

Rounds == 10

CanHash(s, t1, t2) == s.ops[t1] # Null /\ s.ops[t2] # Null /\ s.ops[t1] # s.ops[t2]

HashIndexed(s, e) ==
    LET v == e.variables
    IN IF /\ IsEquiJoin(e)
          /\ CanHash(s, v[1].table, v[2].table)
          /\ \A k \in 1..2 : HasIndexByCol(v[k].table, <<v[k].name>>)
       THEN JoinBoth(s, v[1].table, v[2].table,
                     HashJoin(s.ops[v[1].table], s.ops[v[2].table]))
       ELSE s

JoinByHash == Turn("hash joins", HashIndexed)

(* Table new, which has no operation, is merged into that of table old.    *)
MergeInto(s, old, new) ==
    LET join == MergeJoin(s.ops[old.table],
                          [IndexScan(IndexByCol(new.table, <<new.name>>), 1, FALSE)
                             EXCEPT !.full = TRUE])
        both == [Replace(s, s.ops[old.table], join) EXCEPT !.ops[new.table] = join]
        exps == NumOfFilter(both, TablesWith(both, join), {new.table})
    IN Use(Replace(both, join, Filtered(join, exps)), exps)

MergeIndexed(s, e) ==
    LET v == e.variables
        op(k) == s.ops[v[k].table]
    IN CASE ~ IsEquiJoin(e) -> s
         [] IsEquiJoin(e) /\ \E k \in 1..2 : ~ HasIndexByCol(v[k].table, <<v[k].name>>) -> s
         [] OTHER -> CASE op(1) = Null /\ op(2) # Null -> MergeInto(s, v[2], v[1])
                       [] op(2) = Null /\ op(1) # Null -> MergeInto(s, v[1], v[2])
                       [] OTHER -> s

JoinByMerge == Turn("merge joins", MergeIndexed)

ScanIfNone(s, t) == IF s.ops[t] = Null THEN GiveScan(s, t) ELSE s

ScanRest == Turn("rest", ScanIfNone)

(* From each loop to the next.                                             *)
NextLoop(loop, next, over) == /\ pc = loop /\ todo = <<>>
                              /\ pc' = next
                              /\ todo' = over
                              /\ UNCHANGED <<query, schema, conditionVars,
                                             tables_operations, used_exp, root, resource>>

Onwards ==
    \/ NextLoop("joins", "unmentioned", Unmentioned)
    \/ NextLoop("unmentioned", "nesting",
                IF Unmentioned = <<>> THEN <<>> ELSE Tail(Unmentioned))
    \/ NextLoop("nesting", "constants", from)
    \/ NextLoop("constants", "foreign keys", CandidatePairs)
    \/ NextLoop("foreign keys", "networks", Among(RowOrder, Compared))
    \/ NextLoop("networks", "hash joins",
                [k \in 1..(Rounds * Len(area)) |-> area[((k - 1) % Len(area)) + 1]])
    \/ NextLoop("hash joins", "merge joins", area)
    \/ NextLoop("merge joins", "rest", from)
    \/ NextLoop("rest", "uniting", <<>>)

(* Mutant: tables WHERE does not mention are left where they are. *)
ApartCompared(ops) ==
    Among(from, {t \in Compared : ops[t] # ops[Head(from)]})

(* The tables whose operation is not that of the first table.              *)
Apart(ops) == Among(from, {t \in ToSet(from) : ops[t] # ops[Head(from)]})

(* One turn of while(true).                                                *)
Unite ==
    /\ pc = "uniting"
    /\ LET first == Head(from)
           rest  == Apart(tables_operations)
       IN IF rest = <<>> THEN Set(Planned)
          ELSE Set(JoinBoth(Planned, first, Head(rest),
                            NestedJoin(tables_operations[first],
                                       tables_operations[Head(rest)])))
    /\ IF Apart(tables_operations') = <<>>
       THEN root' = tables_operations'[Head(from)] /\ pc' = "resources"
       ELSE UNCHANGED <<root, pc>>
    /\ UNCHANGED <<query, schema, conditionVars, resource, todo>>
-----------------------------------------------------------------------------
(* Scans only: ORs over several tables, or no WHERE.                       *)

(* The filters of the other tables are made, too, and their joins, but the *)
(* variable these are assigned to is a new one in each turn of the loop:   *)
(* op and with it root stay with the first table.                          *)
LoseJoin(s, k) ==
    LET own == Use(s, NumOfFilter(s, {from[k]}, {}))
    IN Use(own, NumOfFilter(own, ToSet(SubSeq(from, 1, k - 1)), {from[k]}))

ScanOnly ==
    /\ pc = "scans only"
    /\ LET exps == NumOfFilter(Planned, {Head(from)}, {})
       IN /\ root' = NestedJoin(Filtered(SeqScan(Head(from)), exps), Node("Dummy", <<>>))
          /\ Set(FoldLeft(LoseJoin, Use(Planned, exps), [k \in 1..(Len(from) - 1) |-> k + 1]))
    /\ pc' = "resources"
    /\ UNCHANGED <<query, schema, conditionVars, resource, todo>>
-----------------------------------------------------------------------------
(* One table in WHERE.                                                     *)
TheTable == CHOOSE t \in Compared : TRUE

(* The indexes for one area after another, until there is none for one;    *)
(* counted: some comparison of the areas gone over has operators.          *)
SearchArea(s, a) ==
    LET n == Network(TheTable, schema.indexes[TheTable], a, {})
        exps == SelectSeq(a, LAMBDA e : TheTable \in TablesOf(e))
    IN IF s.stopped THEN s
       ELSE [kids |-> s.kids \o [k \in DOMAIN n.used |-> SearchOp(n, n.used[k])],
             stopped |-> n.used = <<>>,
             counted |-> s.counted \/ \E e \in ToSet(a) : e.oper > 0,
             used |-> IF SelfCompared(TheTable, a) THEN s.used \cup {e.id : e \in ToSet(exps)}
                      ELSE s.used]

(* Without any index the table is scanned, with one filter for everything  *)
(* if there is an operator to compute.                                     *)
SearchAreas ==
    /\ pc = "one table"
    /\ LET s == FoldLeft(SearchArea,
                         [kids |-> <<>>, stopped |-> FALSE, counted |-> FALSE, used |-> {}],
                         areas)
           scan == SeqScan(TheTable)
       IN /\ root' = CASE s.kids # <<>> -> Node("OrUnion", s.kids)
                       [] s.kids = <<>> /\ s.counted -> Filter(scan, 0)
                       [] OTHER -> scan
          /\ used_exp' = s.used
    /\ pc' = "resources"
    /\ UNCHANGED <<query, schema, conditionVars, tables_operations, resource, todo>>
-----------------------------------------------------------------------------
(* FROM is a SELECT of its own, which has been planned.                    *)
TakeDerived ==
    /\ pc = "derived"
    /\ root' = query.derived
    /\ pc' = "resources"
    /\ UNCHANGED <<query, schema, conditionVars, tables_operations, used_exp, resource, todo>>

NoResource == [full |-> {}, indexes |-> {}, retr |-> {}]

Init == /\ query \in Queries
        /\ schema \in Schemas(query)
        /\ ConditionInit(query.condition)
        /\ tables_operations = [t \in Tables |-> Null]
        /\ used_exp = {}
        /\ root = Null
        /\ resource = NoResource
        /\ todo = <<>>

IndexNodes == {n \in Nodes(root) : n.op \in {"IndexCon", "IndexScan"}}

ReadThroughIndex == {n.table : n \in {k \in IndexNodes : k.retr}}

(* The set of indexes holds one for each hash, that is, each sequence of   *)
(* columns: of all the indexes the planner makes itself, one.              *)
InitResources ==
    /\ pc = "resources"
    /\ resource' = [full    |-> {n.table : n \in {k \in Nodes(root) : k.op = "SeqScan"}},
                    indexes |-> {n.columns : n \in IndexNodes},
                    retr    |-> ReadThroughIndex]
    /\ pc' = "planned"
    /\ UNCHANGED <<query, schema, conditionVars, tables_operations, used_exp, root, todo>>

PrepareCondition == /\ RemoveNot(query.derived # Null) \/ Count \/ Collect
                    /\ UNCHANGED <<query, schema, planVars>>

Next == \/ PrepareCondition
        \/ ScanUnmentioned \/ NestUnmentioned \/ LookUpAllConstants \/ JoinForeignKeys \/ SearchTables
        \/ JoinByHash \/ JoinByMerge \/ ScanRest \/ Unite
        \/ Onwards \/ ScanOnly \/ SearchAreas \/ TakeDerived \/ InitResources

Spec == Init /\ [][Next]_vars

-----------------------------------------------------------------------------
Done == pc \in {"resources", "planned"}

Collected == pc \notin {"parsed", "counting", "collecting", "derived"} /\ query.derived = Null

PlansScansOnly == Collected /\ Branch = "scans only"
PlansOneTable  == Collected /\ Branch = "one table"
PlansJoins     == Collected /\ Branch = "joins"

(* Whenever indexes are looked for, those and only those are found that    *)
(* the comparisons bind (useIndex, network.cpp 83-146): over as many       *)
(* columns as they are bound, never past a range, and with no other index  *)
(* if a unique one is bound altogether.                                    *)
NetworkAsExpected ==
    LET Check(t, a, selected) ==
           AsExpected(Network(t, schema.indexes[t], a, selected),
                      t, schema.indexes[t], a, selected)
    IN /\ pc = "one table" => \A a \in ToSet(areas) : Check(TheTable, a, {})
       /\ pc = "networks" /\ todo # <<>> =>
             Check(Head(todo), area, {u \in Tables : tables_operations[u] # Null})

(* No index of another table has the name of a column that is equal to a   *)
(* constant.                                                               *)
Unambiguous ==
    \A t \in ToSet(from) : \A x \in ToSet(schema.indexes[t]) : \A e \in ToSet(area) :
       (e.equal = 1 /\ Len(e.variables) = 1 /\ e.variables[1].name = Head(x.columns))
          => e.variables[1].table = t

KeyPairs == {p \in Candidates \X Candidates : p[1] # p[2] /\ IsForeignKey(p[1], p[2])}

(* The foreign keys the query joins by make no cycle.                      *)
NoKeyCycle ==
    \A S \in (SUBSET ToSet(from)) \ {{}} :
       Cardinality(KeyPairs \cap (S \X S)) < Cardinality(S)

NoSelfComparison == \A t \in Compared : ~ SelfCompared(t, area)

(* No comparison is of a column of a table of an enclosing SELECT, which   *)
(* only a qualified name is (column_name, sql.y 1017-1034).                *)
NoOuterTable == Compared \subseteq ToSet(from)

(* While joins are planned, a table of the query is in exactly one tree,   *)
(* that of its operation: what getTables answers from the pointers alone   *)
(* is what the tree reads.  Filters are put over joins by that answer.     *)
PointersTellTables ==
    PlansJoins /\ NoOuterTable /\ Unambiguous =>
       \A t \in ToSet(from) :
          LET op == tables_operations[t]
          IN op # Null => Below(op) = TablesWith(Planned, op)

(* Unless keys make a cycle, the two sides of a join read different        *)
(* tables; and the finished plan reads every table of FROM and no other.   *)
EachTableJoinedOnce ==
    PlansJoins /\ NoOuterTable =>
       /\ Done => Below(root) = ToSet(from)
       /\ Unambiguous /\ NoKeyCycle =>
             \A t \in ToSet(from) : \A n \in Nodes(tables_operations[t]) :
                n.op \in {"NestedJoin", "HashJoin", "MergeJoin"} =>
                   Below(n.kids[1]) \cap Below(n.kids[2]) = {}

(* Every comparison of columns of several tables is a filter of the plan,  *)
(* however the tables came to be joined, and each filter is over a table   *)
(* of its own.                                                             *)
JoinConditionsApplied ==
    Done /\ PlansJoins /\ NoOuterTable /\ NoSelfComparison =>
       \A e \in ToSet(area) : Cardinality(TablesOf(e)) > 1 =>
          \E n \in Nodes(root) : n.exp = e.id /\ Below(n) \cap TablesOf(e) # {}

OperationsLeft(ops) == Cardinality({ops[t] : t \in ToSet(from)})

(* while(true) ends: each turn but the last leaves fewer operations to     *)
(* unite.                                                                  *)
UnitesMore ==
    [][pc = "uniting" /\ pc' = "uniting" =>
         OperationsLeft(tables_operations') < OperationsLeft(tables_operations)]_vars

(* What result.cpp 225 says of this branch: a sequential scan of all.      *)
ScansAllTables == Done /\ PlansScansOnly => Below(root) = ToSet(from)

(* What result.cpp 309 says of this branch, a search for indexes by areas: *)
(* unless the table is scanned the rows of every area are looked for.      *)
EveryAreaSearched ==
    Done /\ PlansOneTable /\ root.op = "OrUnion" =>
       \A a \in ToSet(areas) :
          Network(TheTable, schema.indexes[TheTable], a, {}).used # <<>>
=============================================================================
