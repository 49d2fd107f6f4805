--------------------------- MODULE CatalogueProofs --------------------------
(***************************************************************************)
(* Catalogue and TopoSort proved, for any names, definitions, files and    *)
(* queries: what is saved answers as before, an index knows its table and  *)
(* is found, and tables are nested in the order of their links.            *)
(***************************************************************************)
EXTENDS TopoSort, TotalsProofs, SequenceTheorems, FunctionTheorems

(* An index as the program has it: its hash is that of its columns.        *)
IsIndexRecord(x) ==
    /\ x = [name |-> x.name, table |-> x.table, unique |-> x.unique,
            columns |-> x.columns, hash |-> x.hash]
    /\ x.hash = HashOf(ColumnNames(x.columns))
    /\ IsList(x.columns)
    /\ \A i \in DOMAIN x.columns :
          /\ x.columns[i] = [name |-> x.columns[i].name, type |-> x.columns[i].type]
          /\ x.columns[i].type \in {"ASC_ORDER", "DESC_ORDER"}

IsTableRecord(t) ==
    /\ t = [name |-> t.name, columns |-> t.columns, indexes |-> t.indexes, rows |-> t.rows]
    /\ IsList(t.columns)
    /\ \A i \in DOMAIN t.columns :
          t.columns[i] = [name |-> t.columns[i].name, key |-> t.columns[i].key]
    /\ IsList(t.indexes)
    /\ \A i \in DOMAIN t.indexes : IsIndexRecord(t.indexes[i])

HasIndex(t, list) == \E j \in DOMAIN t.indexes : ColumnNames(t.indexes[j].columns) = list

(* A table is under its own name, or that in lower case; each of its       *)
(* indexes has its name, or none if the table was made in this run.        *)
TablesInPlace ==
    /\ tables = [k \in DOMAIN tables |-> tables[k]]
    /\ \A k \in DOMAIN tables :
          /\ IsTableRecord(tables[k])
          /\ tables[k].name \in TableNames
          /\ k \in {tables[k].name, Lower[tables[k].name]}
          /\ \A j \in DOMAIN tables[k].indexes :
                \/ tables[k].indexes[j].table = tables[k].name
                \/ tables[k].indexes[j].table = "" /\ k \in made

DeclaredAreThere ==
    \A d \in declared : d[1] \in DOMAIN tables /\ HasIndex(tables[d[1]], d[2])

(* A key is between two names in lower case, of as many columns each.      *)
IsKeyRecord(key) ==
    /\ IsKeyJSON(key)
    /\ Lower[key.table1] = key.table1 /\ Lower[key.table2] = key.table2
    /\ Null \notin {key.columns1[i] : i \in DOMAIN key.columns1}
    /\ Null \notin {key.columns2[i] : i \in DOMAIN key.columns2}

KeysInPlace == /\ IsList(foreign_keys)
               /\ \A j \in DOMAIN foreign_keys : IsKeyRecord(foreign_keys[j])

CatalogueInv == TablesInPlace /\ DeclaredAreThere /\ KeysInPlace /\ IsFile(file)

(* Nodes are of tables that have a name, and links between nodes.          *)
RowsFit(rm, nodes) ==
    /\ rm = [n \in DOMAIN rm |-> rm[n]] /\ DOMAIN rm \subseteq nodes
    /\ \A n \in DOMAIN rm : rm[n] \in Seq([from : nodes, link : Link])

NodesAndLinks == M \subseteq Names /\ RowsFit(RM, M)

(* The tables the query, once its columns are resolved, is about.          *)
QueryInPlace ==
    tpc = "collecting" => /\ {query.from[j].real : j \in DOMAIN query.from} \subseteq Names
                          /\ AreaTables \subseteq Names

(* Each visited node has been nested once, after all it has links from.    *)
NestsOnce(par, nodes) ==
    /\ nodes = {par[j].node : j \in DOMAIN par}
    /\ \A j, m \in DOMAIN par : par[j].node = par[m].node => j = m

NestedSoFar ==
    /\ visited \subseteq M
    /\ tpc \in {"statements", "collecting"} => visited = {} /\ parent = <<>>
    /\ IsList(parent)
    /\ tpc = "sorting" =>
          /\ NestsOnce(parent, visited)
          /\ \A j \in DOMAIN parent : \A l \in LinksTo(parent[j].node) :
                \E m \in DOMAIN parent : m < j /\ parent[m].node = l.from

TopoInv == NodesAndLinks /\ QueryInPlace /\ NestedSoFar /\ NestedInOrder

-----------------------------------------------------------------------------
(* Lists.                                                                  *)

LEMMA ListHas ==
    ASSUME NEW s, IsList(s)
    PROVE  /\ Len(s) \in Nat /\ DOMAIN s = 1..Len(s)
           /\ s = [j \in 1..Len(s) |-> s[j]]
  BY DEF IsList

LEMMA PlacesAreNumbers ==
    ASSUME NEW s, IsList(s)
    PROVE  DOMAIN s \subseteq Nat
<1>1. Len(s) \in Nat /\ DOMAIN s = 1..Len(s)
  BY ListHas
<1>2. 1..Len(s) \subseteq Nat
  BY <1>1
<1> QED BY <1>1, <1>2

LEMMA AnyListIs ==
    ASSUME NEW T, NEW s \in Seq(T)
    PROVE  IsList(s)
<1> DEFINE R == {s[j] : j \in DOMAIN s}
<1>1. Len(s) \in Nat /\ s \in [1..Len(s) -> T] /\ DOMAIN s = 1..Len(s)
  OBVIOUS
<1>2. s \in [1..Len(s) -> R]
  BY <1>1
<1>3. s \in Seq(R)
  <2> HIDE DEF R
  <2> QED BY <1>1, <1>2, SeqDef
<1> QED BY <1>3 DEF IsList

(* What is given for each of 1..n is a list.                               *)
LEMMA GivenIsList ==
    ASSUME NEW n \in Nat, NEW s, s = [j \in 1..n |-> s[j]]
    PROVE  IsList(s) /\ Len(s) = n /\ DOMAIN s = 1..n
<1> DEFINE R == {s[j] : j \in 1..n}
<1>1. s \in [1..n -> R]
  OBVIOUS
<1>2. s \in Seq(R)
  <2> HIDE DEF R
  <2> QED BY <1>1, SeqDef
<1>3. IsList(s)
  BY <1>2, AnyListIs
<1> QED BY <1>2, <1>3, <1>1

LEMMA ListAppend ==
    ASSUME NEW s, IsList(s), NEW x
    PROVE  /\ IsList(Append(s, x)) /\ Len(Append(s, x)) = Len(s) + 1
           /\ DOMAIN Append(s, x) = 1..(Len(s) + 1)
           /\ \A j \in 1..Len(s) : Append(s, x)[j] = s[j]
           /\ Append(s, x)[Len(s) + 1] = x
<1> DEFINE T == {s[j] : j \in DOMAIN s} \cup {x}
<1>1. s \in Seq(T)
  <2>1. s \in [1..Len(s) -> T] /\ Len(s) \in Nat
    BY ListHas
  <2> HIDE DEF T
  <2> QED BY <2>1, SeqDef
<1>2. x \in T
  OBVIOUS
<1> HIDE DEF T
<1>3. Append(s, x) \in Seq(T)
  BY <1>1, <1>2
<1>4. IsList(Append(s, x))
  BY <1>3, AnyListIs
<1>5. /\ Len(Append(s, x)) = Len(s) + 1
      /\ DOMAIN Append(s, x) = 1..(Len(s) + 1)
      /\ \A j \in 1..Len(s) : Append(s, x)[j] = s[j]
      /\ Append(s, x)[Len(s) + 1] = x
  BY <1>1, <1>2
<1> QED BY <1>4, <1>5

LEMMA ListConcat ==
    ASSUME NEW s, NEW t, IsList(s), IsList(t)
    PROVE  /\ IsList(s \o t) /\ Len(s \o t) = Len(s) + Len(t)
           /\ DOMAIN (s \o t) = 1..(Len(s) + Len(t))
           /\ \A j \in 1..Len(s) : (s \o t)[j] = s[j]
           /\ \A j \in 1..Len(t) : (s \o t)[Len(s) + j] = t[j]
<1> DEFINE T == {s[j] : j \in DOMAIN s} \cup {t[j] : j \in DOMAIN t}
<1>1. s \in Seq(T) /\ t \in Seq(T)
  <2>1. s \in [1..Len(s) -> T] /\ Len(s) \in Nat
    BY ListHas
  <2>2. t \in [1..Len(t) -> T] /\ Len(t) \in Nat
    BY ListHas
  <2> HIDE DEF T
  <2> QED BY <2>1, <2>2, SeqDef
<1> HIDE DEF T
<1>2. /\ s \o t \in Seq(T) /\ Len(s \o t) = Len(s) + Len(t)
      /\ \A j \in 1..(Len(s) + Len(t)) : (s \o t)[j] = IF j <= Len(s) THEN s[j] ELSE t[j - Len(s)]
  BY <1>1, ConcatProperties
<1>3. Len(s) \in Nat /\ Len(t) \in Nat
  BY <1>1
<1>4. DOMAIN (s \o t) = 1..(Len(s) + Len(t))
  BY <1>2
<1>5. \A j \in 1..Len(t) : (s \o t)[Len(s) + j] = t[j]
  BY <1>2, <1>3
<1>6. IsList(s \o t)
  BY <1>2, AnyListIs
<1>7. \A j \in 1..Len(s) : (s \o t)[j] = s[j]
  BY <1>2, <1>3
<1> QED BY <1>2, <1>4, <1>5, <1>6, <1>7
-----------------------------------------------------------------------------
(* The order of names.                                                     *)

Picks(h, nodes) ==
    h = [n \in 0..Len(NameOrder) |->
            IF n = 0 THEN <<>>
            ELSE IF NameOrder[n] \in nodes THEN Append(h[n - 1], NameOrder[n])
            ELSE h[n - 1]]

LEMMA PicksExists ==
    ASSUME NEW nodes
    PROVE  \E h : Picks(h, nodes)
<1> DEFINE N == Len(NameOrder)
           X == Seq(Names)
           F == [i \in 1..N |-> [s \in X |-> IF NameOrder[i] \in nodes
                                             THEN Append(s, NameOrder[i]) ELSE s]]
<1>1. N \in Nat /\ \A i \in 1..N : NameOrder[i] \in Names
  BY TopoSortAssumption, ListHas DEF Names, ToSet
<1>2. F \in StepsOn(N, X) /\ <<>> \in X
  BY <1>1 DEF StepsOn
<1>3. PICK g \in [0..N -> X] : Iterates(g, N, <<>>, F)
  <2> HIDE DEF N, X, F
  <2> QED BY <1>1, <1>2, IterationExists
<1>4. ASSUME NEW n \in 0..N, n # 0
      PROVE  g[n] = IF NameOrder[n] \in nodes THEN Append(g[n - 1], NameOrder[n]) ELSE g[n - 1]
  <2>1. n \in 1..N /\ n - 1 \in 0..N
    BY <1>1, <1>4
  <2> DEFINE a == g[n - 1]
  <2>2. a \in X /\ g[n] = F[n][a]
    BY <1>3, <2>1 DEF Iterates
  <2> HIDE DEF a, X
  <2>3. F[n][a] = IF NameOrder[n] \in nodes THEN Append(a, NameOrder[n]) ELSE a
    BY <2>1, <2>2
  <2> QED BY <2>2, <2>3 DEF a
<1>5. Picks(g, nodes)
  <2>1. g[0] = <<>>
    BY <1>3 DEF Iterates
  <2> HIDE DEF X, F
  <2> QED BY <1>3, <1>4, <2>1 DEF Picks
<1> QED BY <1>5

(* So InOrder has each of the nodes once, and nothing else.                *)
Once(s, nodes) == /\ s \in Seq(nodes)
                  /\ nodes = {s[j] : j \in 1..Len(s)}
                  /\ \A j, m \in 1..Len(s) : s[j] = s[m] => j = m

LEMMA InOrderIsOnce ==
    ASSUME NEW nodes \in SUBSET Names
    PROVE  Once(InOrder(nodes), nodes)
<1> DEFINE N == Len(NameOrder)
           h == CHOOSE f : Picks(f, nodes)
           First(n) == {NameOrder[i] : i \in 1..n} \cap nodes
           S == {n \in Nat : n <= N => Once(h[n], First(n))}
<1>1. /\ N \in Nat
      /\ \A i, j \in 1..N : NameOrder[i] = NameOrder[j] => i = j
      /\ Names = {NameOrder[i] : i \in 1..N}
  BY TopoSortAssumption, ListHas DEF Names, ToSet
<1>2. Picks(h, nodes)
  BY PicksExists
<1>3. InOrder(nodes) = h[N]
  BY DEF InOrder, Picks
<1> HIDE DEF h
<1>4. 0 \in S
  <2>1. h[0] = <<>>
    BY <1>1, <1>2 DEF Picks
  <2>2. First(0) = {}
    OBVIOUS
  <2>3. Once(<<>>, {})
    BY DEF Once
  <2> QED BY <2>1, <2>2, <2>3
<1>5. ASSUME NEW n \in Nat, n \in S PROVE n + 1 \in S
  <2> SUFFICES ASSUME n + 1 <= N PROVE Once(h[n + 1], First(n + 1))
    OBVIOUS
  <2> DEFINE x == NameOrder[n + 1]
             s == h[n]
             A == First(n)
  <2>1. Once(s, A)
    BY <1>1, <1>5
  <2>2. h[n + 1] = IF x \in nodes THEN Append(s, x) ELSE s
    <3>1. n + 1 \in 0..N /\ n + 1 # 0 /\ (n + 1) - 1 = n
      BY <1>1
    <3> QED BY <1>2, <3>1 DEF Picks
  <2>3. x \notin A
    <3>1. n + 1 \in 1..N /\ \A i \in 1..n : i \in 1..N /\ i # n + 1
      BY <1>1
    <3> QED BY <1>1, <3>1
  <2>4. First(n + 1) = IF x \in nodes THEN A \cup {x} ELSE A
    <3>1. 1..(n + 1) = 1..n \cup {n + 1}
      OBVIOUS
    <3> QED BY <3>1
  <2>5. CASE x \in nodes
    <3> DEFINE t == Append(s, x)
    <3> HIDE DEF A, x, s
    <3>1. s \in Seq(A) /\ Len(s) \in Nat /\ s \in Seq(A \cup {x}) /\ \A j \in 1..Len(s) : s[j] \in A
      <4>1. s \in Seq(A) /\ Len(s) \in Nat
        BY <2>1 DEF Once
      <4> QED BY <4>1
    <3>2. /\ t \in Seq(A \cup {x}) /\ Len(t) = Len(s) + 1 /\ t[Len(s) + 1] = x
          /\ \A j \in 1..Len(s) : t[j] = s[j]
      BY <3>1
    <3>3. 1..Len(t) = 1..Len(s) \cup {Len(s) + 1}
      BY <3>1, <3>2
    <3> HIDE DEF t
    <3>4. A \cup {x} = {t[j] : j \in 1..Len(t)}
      <4>1. {t[j] : j \in 1..Len(t)} = {t[j] : j \in 1..Len(s)} \cup {t[Len(s) + 1]}
        BY <3>3
      <4>2. {t[j] : j \in 1..Len(s)} = {s[j] : j \in 1..Len(s)}
        BY <3>2
      <4> QED BY <2>1, <3>2, <4>1, <4>2 DEF Once
    <3>5. ASSUME NEW j \in 1..Len(t), NEW m \in 1..Len(t), t[j] = t[m]
          PROVE  j = m
      <4>1. CASE j \in 1..Len(s) /\ m \in 1..Len(s)
        BY <2>1, <3>2, <3>5, <4>1 DEF Once
      <4>2. CASE j = Len(s) + 1 \/ m = Len(s) + 1
        BY <2>3, <3>1, <3>2, <3>3, <3>5, <4>2
      <4> QED BY <3>3, <4>1, <4>2
    <3>6. Once(t, A \cup {x})
      BY <3>2, <3>4, <3>5 DEF Once
    <3> QED BY <2>2, <2>4, <2>5, <3>6 DEF t
  <2>6. CASE x \notin nodes
    BY <2>1, <2>2, <2>4, <2>6
  <2> QED BY <2>5, <2>6
<1>6. N \in S
  <2> HIDE DEF S
  <2> QED BY <1>1, <1>4, <1>5, SetInduction
<1>7. First(N) = nodes
  BY <1>1
<1>8. Once(h[N], First(N))
  <2> HIDE DEF First, N
  <2> QED BY <1>1, <1>6
<1> QED BY <1>3, <1>7, <1>8
-----------------------------------------------------------------------------
(* Names in a query.                                                       *)

LEMMA LeastIsMin ==
    ASSUME NEW T, T \subseteq Nat, T # {}
    PROVE  Min(T) \in T /\ \A y \in T : Min(T) <= y
<1>1. PICK x \in T : \A y \in T : x <= y
  BY LeastExists
<1> QED BY <1>1 DEF Min

Renames(h, alias, from) ==
    h = [n \in 0..Len(from) |-> IF n = 0 THEN alias
                                ELSE IF from[n].name = h[n - 1] THEN from[n].real
                                ELSE h[n - 1]]

LEMMA RenamesExists ==
    ASSUME NEW alias, NEW from, IsList(from)
    PROVE  \E h : Renames(h, alias, from)
<1> DEFINE N == Len(from)
           X == {alias} \cup {from[j].real : j \in 1..N}
           F == [i \in 1..N |-> [x \in X |-> IF from[i].name = x THEN from[i].real ELSE x]]
<1>1. N \in Nat
  BY ListHas
<1>2. F \in StepsOn(N, X) /\ alias \in X
  BY <1>1 DEF StepsOn
<1>3. PICK g \in [0..N -> X] : Iterates(g, N, alias, F)
  <2> HIDE DEF N, X, F
  <2> QED BY <1>1, <1>2, IterationExists
<1>4. ASSUME NEW n \in 0..N, n # 0
      PROVE  g[n] = IF from[n].name = g[n - 1] THEN from[n].real ELSE g[n - 1]
  <2>1. n \in 1..N /\ n - 1 \in 0..N
    BY <1>1, <1>4
  <2> DEFINE a == g[n - 1]
  <2>2. a \in X /\ g[n] = F[n][a]
    BY <1>3, <2>1 DEF Iterates
  <2> HIDE DEF a, X
  <2>3. F[n][a] = IF from[n].name = a THEN from[n].real ELSE a
    BY <2>1, <2>2
  <2> QED BY <2>2, <2>3 DEF a
<1>5. Renames(g, alias, from)
  <2>1. g[0] = alias
    BY <1>3 DEF Iterates
  <2> HIDE DEF X, F
  <2> QED BY <1>3, <1>4, <2>1 DEF Renames
<1> QED BY <1>5

IsFrom(from) == IsList(from) /\ \A j \in DOMAIN from : from[j].real \in Names

IsAliasIn(alias, from) == alias \in {from[j].name : j \in DOMAIN from}

(* An alias of FROM, or the name of a table, stands for a table.           *)
LEMMA RealNameIsAName ==
    ASSUME NEW from, IsFrom(from), NEW alias, alias \in Names \/ IsAliasIn(alias, from)
    PROVE  RealName(alias, from) \in Names
<1> DEFINE N == Len(from)
           h == CHOOSE f : Renames(f, alias, from)
           Known(n) == \/ h[n] \in Names
                       \/ h[n] = alias /\ \A j \in 1..n : from[j].name # alias
           S == {n \in Nat : n <= N => Known(n)}
<1>1. N \in Nat /\ DOMAIN from = 1..N
  BY ListHas DEF IsFrom
<1>2. Renames(h, alias, from)
  BY RenamesExists DEF IsFrom
<1>3. RealName(alias, from) = h[N]
  BY DEF RealName, Renames
<1> HIDE DEF h
<1>4. 0 \in S
  <2>1. h[0] = alias
    BY <1>1, <1>2 DEF Renames
  <2> QED BY <2>1
<1>5. ASSUME NEW n \in Nat, n \in S PROVE n + 1 \in S
  <2> SUFFICES ASSUME n + 1 <= N PROVE Known(n + 1)
    OBVIOUS
  <2>1. h[n + 1] = IF from[n + 1].name = h[n] THEN from[n + 1].real ELSE h[n]
    <3>1. n + 1 \in 0..N /\ n + 1 # 0 /\ (n + 1) - 1 = n
      BY <1>1
    <3> QED BY <1>2, <3>1 DEF Renames
  <2>2. from[n + 1].real \in Names
    BY <1>1 DEF IsFrom
  <2>3. \A j \in 1..(n + 1) : j \in 1..n \/ j = n + 1
    OBVIOUS
  <2>4. Known(n)
    BY <1>5
  <2>5. CASE from[n + 1].name = h[n]
    <3>1. h[n + 1] \in Names
      BY <2>1, <2>2, <2>5
    <3> QED BY <3>1
  <2>6. CASE from[n + 1].name # h[n]
    <3>1. h[n + 1] = h[n]
      BY <2>1, <2>6
    <3>2. CASE h[n] \in Names
      BY <3>1, <3>2
    <3>3. CASE h[n] = alias /\ \A j \in 1..n : from[j].name # alias
      <4>1. from[n + 1].name # alias
        BY <2>6, <3>3
      <4>2. \A j \in 1..(n + 1) : from[j].name # alias
        BY <2>3, <3>3, <4>1
      <4> QED BY <3>1, <3>3, <4>2
    <3> QED BY <2>4, <3>2, <3>3
  <2> QED BY <2>5, <2>6
<1>6. Known(N)
  <2>1. N \in S
    <3> HIDE DEF S
    <3> QED BY <1>1, <1>4, <1>5, SetInduction
  <2> HIDE DEF Known, N
  <2> QED BY <1>1, <2>1
<1> QED BY <1>1, <1>3, <1>6 DEF IsAliasIn

LEMMA TableOfIsAName ==
    ASSUME NEW from, IsFrom(from), NEW v,
           v.table = "" \/ v.table \in Names \/ IsAliasIn(v.table, from),
           CanResolve(v, from)
    PROVE  TableOf(v, from) \in Names
<1>1. CASE v.table = ""
  <2> DEFINE T == HomesOf(v.name, from)
  <2>1. T # {}
    BY <1>1 DEF CanResolve
  <2>2. T \subseteq DOMAIN from /\ DOMAIN from \subseteq Nat
    <3>1. T \subseteq DOMAIN from
      BY DEF HomesOf
    <3> QED BY <3>1, PlacesAreNumbers DEF IsFrom
  <2> HIDE DEF T
  <2>3. Min(T) \in DOMAIN from
    BY <2>1, <2>2, LeastIsMin
  <2> QED BY <1>1, <2>3 DEF TableOf, T, IsFrom
<1>2. CASE v.table # ""
  BY <1>2, RealNameIsAName DEF TableOf
<1> QED BY <1>1, <1>2
-----------------------------------------------------------------------------
(* Nodes and links.                                                        *)

(* A query whose columns have all found their tables is about tables with  *)
(* a name.                                                                 *)
LEMMA ResolvedInPlace ==
    ASSUME NEW q \in Queries, \A v \in Variables(q) : CanResolve(v, q.from)
    PROVE  /\ Resolved(q).from = q.from
           /\ {q.from[j].real : j \in DOMAIN q.from} \subseteq Names
           /\ {v.table : v \in Variables(Resolved(q))} \subseteq Names
<1>1. /\ q = [from |-> q.from, area |-> q.area]
      /\ IsFrom(q.from)
  BY TopoSortAssumption DEF IsFrom
<1>2. ASSUME NEW e \in DOMAIN q.area, NEW v \in DOMAIN q.area[e]
      PROVE  TableOf(q.area[e][v], q.from) \in Names
  <2> DEFINE w == q.area[e][v]
  <2>1. w \in Variables(q)
    BY DEF Variables, ToSet
  <2>2. w.table \in {""} \cup Names \cup {q.from[j].name : j \in DOMAIN q.from}
    BY TopoSortAssumption
  <2> HIDE DEF w
  <2>3. w.table = "" \/ w.table \in Names \/ IsAliasIn(w.table, q.from)
    BY <2>2 DEF IsAliasIn
  <2>4. TableOf(w, q.from) \in Names
    BY <1>1, <2>1, <2>3, TableOfIsAName
  <2> QED BY <2>4 DEF w
<1> DEFINE Entry(e, v) == [q.area[e][v] EXCEPT !.table = TableOf(q.area[e][v], q.from)]
           area == [e \in DOMAIN q.area |-> [v \in DOMAIN q.area[e] |-> Entry(e, v)]]
<1>3. Resolved(q) = [from |-> q.from, area |-> area]
  BY <1>1 DEF Resolved
<1>4. ASSUME NEW e \in DOMAIN q.area, NEW v \in DOMAIN q.area[e]
      PROVE  Entry(e, v).table \in Names
  <2>1. q.area[e][v] = [table |-> q.area[e][v].table, name |-> q.area[e][v].name]
    <3> DEFINE w == q.area[e][v]
               IsVar(x) == /\ x = [table |-> x.table, name |-> x.name]
                           /\ x.table \in {""} \cup Names \cup {q.from[j].name : j \in DOMAIN q.from}
    <3>1. \A d \in DOMAIN q.area : \A i \in DOMAIN q.area[d] : IsVar(q.area[d][i])
      BY TopoSortAssumption
    <3>2. IsVar(w)
      <4> HIDE DEF IsVar
      <4> QED BY <3>1
    <3> HIDE DEF w
    <3> QED BY <3>2 DEF w
  <2>2. Entry(e, v).table = TableOf(q.area[e][v], q.from)
    BY <2>1
  <2> QED BY <1>2, <2>2
<1> HIDE DEF Entry
<1>5. ASSUME NEW v \in Variables(Resolved(q))
      PROVE  v.table \in Names
  <2>1. PICK e \in DOMAIN q.area : v \in ToSet(area[e])
    <3>1. Resolved(q).area = area /\ DOMAIN area = DOMAIN q.area
      BY <1>3
    <3> HIDE DEF area
    <3> QED BY <1>5, <3>1 DEF Variables
  <2>2. PICK i \in DOMAIN q.area[e] : v = Entry(e, i)
    BY <2>1 DEF ToSet
  <2> QED BY <1>4, <2>2
<1>6. {q.from[j].real : j \in DOMAIN q.from} \subseteq Names
  BY <1>1 DEF IsFrom
<1> QED BY <1>3, <1>5, <1>6

(* A foreign key links the two tables it is asked about.                   *)
LEMMA LinksAreBetween ==
    ASSUME NEW t1, NEW t2, NEW l \in KeyLink(t1, t2)
    PROVE  l[1] \in {t1, t2} /\ l[2] \in {t1, t2}
<1>1. l \in {<<t1, t2>>, <<t2, t1>>}
  BY DEF KeyLink
<1> QED BY <1>1

(* As many places as elements, if no element has two.                      *)
LEMMA PlacesCount ==
    ASSUME NEW n \in Nat, NEW g, NEW T, T = {g[j] : j \in 1..n},
           \A j, m \in 1..n : g[j] = g[m] => j = m
    PROVE  Cardinality(T) = n
<1> DEFINE f == [j \in 1..n |-> g[j]]
<1>1. f \in Bijection(1..n, T)
  BY Fun_IsBij
<1>2. ExistsBijection(1..n, T)
  BY <1>1 DEF ExistsBijection
<1> QED BY <1>2, FS_CountingElements

(* Rows made for new nodes, and a link added to one, leave rows of links   *)
(* between nodes.                                                          *)
LEMMA RowsFitMore ==
    ASSUME NEW rm, NEW nodes, NEW K, RowsFit(rm, nodes), nodes \subseteq K
    PROVE  RowsFit(rm, K)
<1> DEFINE L0 == [from : nodes, link : Link]
           L  == [from : K, link : Link]
<1>1. L0 \subseteq L
  OBVIOUS
<1>2. ASSUME NEW n \in DOMAIN rm PROVE rm[n] \in Seq(L)
  <2> DEFINE s == rm[n]
  <2>1. s \in Seq(L0)
    BY DEF RowsFit
  <2> HIDE DEF s, L, L0
  <2>2. Len(s) \in Nat /\ s \in [1..Len(s) -> L]
    BY <1>1, <2>1
  <2>3. s \in Seq(L)
    BY <2>2, SeqDef
  <2> QED BY <2>3 DEF s
<1> QED BY <1>2 DEF RowsFit

LEMMA RowsStillFit ==
    ASSUME RowsFit(RM, M), NEW nodes
    PROVE  RowsFit(Rows(nodes), M \cup nodes) /\ nodes \subseteq DOMAIN Rows(nodes)
<1> DEFINE K == M \cup nodes
           L == [from : K, link : Link]
<1>1. DOMAIN Rows(nodes) = DOMAIN RM \cup nodes
  BY DEF Rows
<1>2. ASSUME NEW n \in DOMAIN Rows(nodes)
      PROVE  Rows(nodes)[n] \in Seq(L)
  <2>1. CASE n \in DOMAIN RM
    <3>1. RowsFit(RM, K)
      BY RowsFitMore
    <3>2. RM[n] \in Seq(L)
      BY <2>1, <3>1 DEF RowsFit
    <3>3. Rows(nodes)[n] = RM[n]
      BY <1>1, <1>2, <2>1 DEF Rows
    <3> QED BY <3>2, <3>3
  <2>2. CASE n \notin DOMAIN RM
    <3>1. Rows(nodes)[n] = <<>>
      BY <1>1, <1>2, <2>2 DEF Rows
    <3> QED BY <3>1
  <2> QED BY <2>1, <2>2
<1>3. Rows(nodes) = [n \in DOMAIN Rows(nodes) |-> Rows(nodes)[n]]
  BY DEF Rows
<1>4. DOMAIN Rows(nodes) \subseteq K
  BY <1>1 DEF RowsFit
<1> QED BY <1>1, <1>2, <1>3, <1>4 DEF RowsFit

LEMMA LinkFits ==
    ASSUME NEW rm, NEW nodes, RowsFit(rm, nodes), NEW t \in DOMAIN rm,
           NEW x \in [from : nodes, link : Link]
    PROVE  RowsFit([rm EXCEPT ![t] = Append(@, x)], nodes)
<1> DEFINE L == [from : nodes, link : Link]
           new == [rm EXCEPT ![t] = Append(@, x)]
<1>1. \A n \in DOMAIN rm : rm[n] \in Seq(L)
  BY DEF RowsFit
<1>2. Append(rm[t], x) \in Seq(L)
  <2> DEFINE s == rm[t]
  <2>1. s \in Seq(L) /\ x \in L
    BY <1>1
  <2> HIDE DEF s, L
  <2> QED BY <2>1 DEF s
<1>3. /\ new = [n \in DOMAIN new |-> new[n]] /\ DOMAIN new = DOMAIN rm
      /\ \A n \in DOMAIN rm : new[n] = IF n = t THEN Append(rm[t], x) ELSE rm[n]
  OBVIOUS
<1> HIDE DEF new, L
<1>4. \A n \in DOMAIN new : new[n] \in Seq(L)
  BY <1>1, <1>2, <1>3
<1>5. DOMAIN new \subseteq nodes
  BY <1>3 DEF RowsFit
<1> QED BY <1>3, <1>4, <1>5 DEF RowsFit, new, L

(* While nodes and links are collected nothing is visited or nested.       *)
LEMMA NothingNestedYet ==
    ASSUME TopoInv, tpc \in {"statements", "collecting"},
           visited' = visited, parent' = parent, M \subseteq M',
           tpc' \in {"statements", "collecting", "sorting", "crashed"}
    PROVE  NestedSoFar' /\ NestedInOrder'
<1>1. visited' = {} /\ parent' = <<>>
  BY DEF TopoInv, NestedSoFar
<1>2. IsList(parent')
  BY DEF TopoInv, NestedSoFar
<1>3. {parent'[j].node : j \in DOMAIN parent'} = {} /\ DOMAIN parent' = {}
  BY <1>1
<1>4. NestedSoFar'
  BY <1>1, <1>2, <1>3 DEF NestedSoFar, NestsOnce
<1>5. NestedInOrder'
  BY DEF NestedInOrder
<1> QED BY <1>4, <1>5

LEMMA ConstructKeeps ==
    ASSUME TopoInv, NEW q \in Queries, Construct(q)
    PROVE  TopoInv'
<1>1. NestedSoFar' /\ NestedInOrder'
  BY NothingNestedYet DEF Construct
<1>2. NodesAndLinks'
  BY DEF Construct, TopoInv, NodesAndLinks
<1>3. QueryInPlace'
  <2>1. CASE \A v \in Variables(q) : CanResolve(v, q.from)
    <3>1. query' = Resolved(q)
      BY <2>1 DEF Construct
    <3>2. /\ {query'.from[j].real : j \in DOMAIN query'.from} \subseteq Names
          /\ {v.table : v \in Variables(query')} \subseteq Names
      BY <2>1, <3>1, ResolvedInPlace
    <3> QED BY <3>2 DEF QueryInPlace, AreaTables
  <2>2. CASE ~ \A v \in Variables(q) : CanResolve(v, q.from)
    BY <2>2 DEF Construct, QueryInPlace
  <2> QED BY <2>1, <2>2
<1> QED BY <1>1, <1>2, <1>3 DEF TopoInv

LEMMA AddNodeKeeps ==
    ASSUME TopoInv, NEW t \in Names, AddNode(t)
    PROVE  TopoInv'
<1>1. NestedSoFar' /\ NestedInOrder'
  BY NothingNestedYet DEF AddNode, Call
<1>2. M' \subseteq Names
  BY DEF AddNode, TopoInv, NodesAndLinks
<1>3. RowsFit(RM', M')
  <2>1. CASE t \in M
    <3>1. M' = M \cup {t} /\ RM' = Rows({t})
      BY <2>1 DEF AddNode
    <3> QED BY <3>1, RowsStillFit DEF TopoInv, NodesAndLinks
  <2>2. CASE t \notin M
    <3>1. M' = M \cup {t} /\ RM' = RM
      BY <2>2 DEF AddNode
    <3> QED BY <3>1, RowsFitMore DEF TopoInv, NodesAndLinks
  <2> QED BY <2>1, <2>2
<1>4. QueryInPlace'
  BY DEF AddNode, Call, TopoInv, QueryInPlace, AreaTables
<1> QED BY <1>1, <1>2, <1>3, <1>4 DEF TopoInv, NodesAndLinks

LEMMA AddLinkKeeps ==
    ASSUME TopoInv, NEW t1 \in Names, NEW t2 \in Names, NEW link \in Link, AddLink(t1, t2, link)
    PROVE  TopoInv'
<1>1. NestedSoFar' /\ NestedInOrder'
  BY NothingNestedYet DEF AddLink, Call
<1>2. M' \subseteq Names
  BY DEF AddLink, TopoInv, NodesAndLinks
<1>3. RowsFit(RM', M')
  <2> DEFINE rm == Rows({t1, t2})
             x  == [from |-> t1, link |-> link]
  <2>1. RowsFit(rm, M') /\ t2 \in DOMAIN rm
    BY RowsStillFit DEF AddLink, TopoInv, NodesAndLinks
  <2>2. x \in [from : M', link : Link]
    BY DEF AddLink
  <2>3. RM' = [rm EXCEPT ![t2] = Append(@, x)]
    BY DEF AddLink
  <2> HIDE DEF rm, x
  <2> QED BY <2>1, <2>2, <2>3, LinkFits
<1>4. QueryInPlace'
  BY DEF AddLink, Call, TopoInv, QueryInPlace, AreaTables
<1> QED BY <1>1, <1>2, <1>3, <1>4 DEF TopoInv, NodesAndLinks

LEMMA SetUpForeignKeeps ==
    ASSUME TopoInv, SetUpForeign
    PROVE  TopoInv'
<1> DEFINE pairs == {p \in AreaTables \X AreaTables : p[1] # p[2]}
           links == UNION {KeyLink(p[1], p[2]) : p \in pairs}
           both  == UNION {{l[1], l[2]} : l \in links}
<1>1. tpc = "collecting" /\ M' = M \cup both /\ RM' = Rows(both)
  BY DEF SetUpForeign
<1>2. both \subseteq Names
  <2>1. AreaTables \subseteq Names
    BY <1>1 DEF TopoInv, QueryInPlace
  <2>2. ASSUME NEW l \in links PROVE l[1] \in Names /\ l[2] \in Names
    <3>1. PICK p \in pairs : l \in KeyLink(p[1], p[2])
      OBVIOUS
    <3>2. l[1] \in {p[1], p[2]} /\ l[2] \in {p[1], p[2]}
      BY <3>1, LinksAreBetween
    <3> QED BY <2>1, <3>2
  <2> HIDE DEF links
  <2> QED BY <2>2
<1> HIDE DEF both
<1>3. NestedSoFar' /\ NestedInOrder'
  BY <1>1, NothingNestedYet DEF SetUpForeign
<1>4. M' \subseteq Names /\ RowsFit(RM', M')
  BY <1>1, <1>2, RowsStillFit DEF TopoInv, NodesAndLinks
<1>5. QueryInPlace'
  BY DEF SetUpForeign, QueryInPlace
<1> QED BY <1>3, <1>4, <1>5 DEF TopoInv, NodesAndLinks
-----------------------------------------------------------------------------
(* performTopoSort.                                                        *)

LEMMA NodesCount ==
    ASSUME NEW par, IsList(par), NEW nodes, NestsOnce(par, nodes)
    PROVE  Len(par) = Cardinality(nodes)
<1> DEFINE g == [j \in 1..Len(par) |-> par[j].node]
<1>1. Len(par) \in Nat /\ DOMAIN par = 1..Len(par)
  BY ListHas
<1>2. nodes = {g[j] : j \in 1..Len(par)} /\ \A j, m \in 1..Len(par) : g[j] = g[m] => j = m
  BY <1>1 DEF NestsOnce
<1> HIDE DEF g
<1> QED BY <1>1, <1>2, PlacesCount

(* The node chosen for a turn has not been visited, and waits for none.    *)
LEMMA ChosenIsPossible ==
    ASSUME TopoInv, Possible # {}
    PROVE  InOrder(Possible)[1] \in Possible
<1>1. Possible \in SUBSET Names
  BY DEF TopoInv, NodesAndLinks, Possible, Unvisited
<1> DEFINE s == InOrder(Possible)
<1>2. Once(s, Possible)
  BY <1>1, InOrderIsOnce
<1> HIDE DEF s
<1>3. s \in Seq(Possible) /\ Possible = {s[j] : j \in 1..Len(s)}
  BY <1>2 DEF Once
<1>4. Len(s) \in Nat /\ Len(s) # 0
  BY <1>3
<1>5. s[1] \in Possible
  BY <1>3, <1>4
<1> QED BY <1>5 DEF s

LEMMA TurnKeeps ==
    ASSUME TopoInv, Turn
    PROVE  TopoInv'
<1> DEFINE node == InOrder(Possible)[1]
           entry == [node |-> node, op |-> JoinFor(node)]
           k == Len(parent) + 1
<1>1. tpc = "sorting" /\ node \in M /\ node \notin visited /\ AllVisited(node)
  <2>1. node \in Possible
    BY ChosenIsPossible DEF Turn
  <2> HIDE DEF node
  <2> QED BY <2>1 DEF Turn, Possible, Unvisited
<1>2. visited' = visited \cup {node} /\ M' = M /\ RM' = RM /\ query' = query
  BY DEF Turn
<1>3. NodesAndLinks'
  BY <1>2 DEF TopoInv, NodesAndLinks
<1>4. visited' \subseteq M'
  BY <1>1, <1>2 DEF TopoInv, NestedSoFar
<1>5. IsList(parent) /\ NestsOnce(parent, visited)
      /\ \A j \in DOMAIN parent : \A l \in LinksTo(parent[j].node) :
            \E m \in DOMAIN parent : m < j /\ parent[m].node = l.from
  BY <1>1 DEF TopoInv, NestedSoFar
<1>6. CASE node \in DOMAIN RM
  <2>1. parent' = Append(parent, entry) /\ tpc' = tpc
    BY <1>6 DEF Turn
  <2>2. entry.node = node
    OBVIOUS
  <2> HIDE DEF node, entry
  <2>3. /\ IsList(parent') /\ DOMAIN parent' = 1..k /\ parent'[k] = entry
        /\ \A j \in 1..Len(parent) : parent'[j] = parent[j]
        /\ Len(parent) \in Nat /\ DOMAIN parent = 1..Len(parent)
    BY <1>5, <2>1, ListAppend, ListHas
  <2>4. 1..k = 1..Len(parent) \cup {k} /\ k \notin 1..Len(parent)
    BY <2>3
  <2> HIDE DEF k
  <2>5. \A j \in DOMAIN parent : parent'[j].node = parent[j].node
    BY <2>3
  <2>6. parent'[k].node = node /\ DOMAIN parent' = DOMAIN parent \cup {k} /\ k \notin DOMAIN parent
    BY <2>2, <2>3, <2>4
  <2>7. \A n \in visited : \E j \in DOMAIN parent : parent[j].node = n
    BY <1>5 DEF NestsOnce
  <2>8. \A j \in DOMAIN parent : parent[j].node \in visited
    BY <1>5 DEF NestsOnce
  <2>9. visited' = {parent'[j].node : j \in DOMAIN parent'}
    BY <1>2, <2>5, <2>6, <2>7, <2>8
  <2>10. ASSUME NEW i \in DOMAIN parent', NEW m \in DOMAIN parent',
                parent'[i].node = parent'[m].node
         PROVE  i = m
    <3>1. CASE i = k \/ m = k
      BY <1>1, <2>5, <2>6, <2>8, <2>10, <3>1
    <3>2. CASE i \in DOMAIN parent /\ m \in DOMAIN parent
      BY <1>5, <2>5, <2>10, <3>2 DEF NestsOnce
    <3> QED BY <2>6, <3>1, <3>2
  <2>11. ASSUME NEW j \in DOMAIN parent', NEW l \in LinksTo(parent'[j].node)
         PROVE  \E m \in DOMAIN parent' : m < j /\ parent'[m].node = l.from
    <3>1. CASE j = k
      <4>1. l.from \in visited
        BY <1>1, <2>6, <3>1, <2>11 DEF AllVisited
      <4>2. PICK m \in DOMAIN parent : parent[m].node = l.from
        BY <2>7, <4>1
      <4>3. m < k
        BY <2>3 DEF k
      <4> QED BY <2>5, <2>6, <3>1, <4>2, <4>3
    <3>2. CASE j # k
      <4>1. j \in DOMAIN parent /\ l \in LinksTo(parent[j].node)
        BY <2>5, <2>6, <2>11, <3>2
      <4>2. PICK m \in DOMAIN parent : m < j /\ parent[m].node = l.from
        BY <1>5, <4>1
      <4> QED BY <2>5, <2>6, <4>2
    <3> QED BY <3>1, <3>2
  <2>12. \A j \in DOMAIN parent' : \A l \in LinksTo(parent'[j].node) :
            \E m \in DOMAIN parent' : m < j /\ parent'[m].node = l.from
    BY <2>11
  <2>13. NestsOnce(parent', visited')
    BY <2>9, <2>10 DEF NestsOnce
  <2>14. tpc' = "sorting"
    BY <1>1, <2>1
  <2>15. NestedSoFar'
    BY <1>2, <1>4, <2>3, <2>12, <2>13, <2>14 DEF NestedSoFar, LinksTo
  <2> QED BY <1>3, <2>14, <2>15 DEF TopoInv, QueryInPlace, NestedInOrder
<1>7. CASE node \notin DOMAIN RM
  <2>1. parent' = parent /\ tpc' = "crashed"
    BY <1>7 DEF Turn
  <2>2. NestedSoFar'
    BY <1>4, <1>5, <2>1 DEF NestedSoFar
  <2> QED BY <1>3, <2>1, <2>2 DEF TopoInv, QueryInPlace, NestedInOrder
<1> QED BY <1>6, <1>7

LEMMA PlaceIs ==
    ASSUME NEW par, NEW nodes, NestsOnce(par, nodes), NEW j \in DOMAIN par
    PROVE  (CHOOSE i \in DOMAIN par : par[i].node = par[j].node) = j
  BY DEF NestsOnce

(* If every node has been nested once, and after all it has links from or  *)
(* because it is behind a cycle, the result is as it should be.            *)
LEMMA WellNested ==
    ASSUME tpc' = "returned", M' = M, RM' = RM, IsList(parent'), NestsOnce(parent', M),
           \A j \in DOMAIN parent' : \A l \in LinksTo(parent'[j].node) :
              \/ \E m \in DOMAIN parent' : m < j /\ parent'[m].node = l.from
              \/ BehindCycle(parent'[j].node)
    PROVE  NestedInOrder'
<1>1. {parent'[j].node : j \in DOMAIN parent'} = M'
  BY DEF NestsOnce
<1>2. Len(parent') = Cardinality(M')
  BY NodesCount
<1>3. ASSUME NEW n \in M, NEW l \in LinksTo(n)
      PROVE  Position(l.from)' < Position(n)' \/ BehindCycle(n)
  <2>1. PICK j \in DOMAIN parent' : parent'[j].node = n
    BY DEF NestsOnce
  <2>2. Position(n)' = j
    BY <2>1, PlaceIs DEF Position
  <2>3. CASE \E m \in DOMAIN parent' : m < j /\ parent'[m].node = l.from
    <3>1. PICK m \in DOMAIN parent' : m < j /\ parent'[m].node = l.from
      BY <2>3
    <3>2. Position(l.from)' = m
      BY <3>1, PlaceIs DEF Position
    <3> QED BY <2>2, <3>1, <3>2
  <2>4. CASE BehindCycle(n)
    BY <2>4
  <2> QED BY <1>3, <2>1, <2>3, <2>4
<1>4. ASSUME NEW n \in M', NEW l \in LinksTo(n)'
      PROVE  Position(l.from)' < Position(n)' \/ BehindCycle(n)'
  <2>1. LinksTo(n)' = LinksTo(n) /\ (BehindCycle(n)' <=> BehindCycle(n))
    BY DEF LinksTo, BehindCycle
  <2> QED BY <1>3, <1>4, <2>1
<1> QED BY <1>1, <1>2, <1>4 DEF NestedInOrder

LEMMA ReturnKeeps ==
    ASSUME TopoInv, Return
    PROVE  TopoInv'
<1>1. tpc = "sorting" /\ tpc' = "returned" /\ UNCHANGED <<query, M, RM, visited, parent>>
  BY DEF Return
<1>2. visited = M
  BY DEF Return, Unvisited, TopoInv, NestedSoFar
<1>3. NestedInOrder'
  <2>1. IsList(parent) /\ NestsOnce(parent, visited)
        /\ \A j \in DOMAIN parent : \A l \in LinksTo(parent[j].node) :
              \E m \in DOMAIN parent : m < j /\ parent[m].node = l.from
    BY <1>1 DEF TopoInv, NestedSoFar
  <2> QED BY <1>1, <1>2, <2>1, WellNested
<1>4. NodesAndLinks' /\ QueryInPlace' /\ NestedSoFar'
  BY <1>1 DEF TopoInv, NodesAndLinks, QueryInPlace, NestedSoFar
<1> QED BY <1>3, <1>4 DEF TopoInv

(* Nodes that are all waiting for one another are behind a cycle.          *)
LEMMA WaitingIsBehindCycle ==
    ASSUME TopoInv, Possible = {}, NEW n \in Unvisited
    PROVE  BehindCycle(n)
<1>1. ASSUME NEW m \in Unvisited
      PROVE  \E l \in LinksTo(m) : l.from \in Unvisited
  <2>1. ~ AllVisited(m)
    BY DEF Possible
  <2>2. PICK l \in LinksTo(m) : l.from \notin visited
    BY <2>1 DEF AllVisited
  <2>3. l.from \in M
    <3>1. m \in DOMAIN RM /\ l \in ToSet(RM[m])
      BY <2>2 DEF LinksTo
    <3> DEFINE s == RM[m]
               L == [from : M, link : Link]
    <3>2. s \in Seq(L)
      BY <3>1 DEF TopoInv, NodesAndLinks, RowsFit
    <3> HIDE DEF s, L
    <3>3. PICK i \in DOMAIN s : l = s[i]
      BY <3>1 DEF ToSet, s
    <3>4. l \in L
      BY <3>2, <3>3
    <3> QED BY <3>4 DEF L
  <2> QED BY <2>2, <2>3 DEF Unvisited
<1>2. Unvisited \in SUBSET M
  BY DEF Unvisited
<1> QED BY <1>1, <1>2 DEF BehindCycle

LEMMA MessKeeps ==
    ASSUME TopoInv, Mess
    PROVE  TopoInv'
<1> DEFINE s == InOrder(Left)
           g == [j \in DOMAIN s |-> [node |-> s[j], op |-> "NestedJoin"]]
           k == Len(parent)
<1>1. /\ tpc = "sorting" /\ tpc' = "returned" /\ UNCHANGED <<query, M, RM, visited>>
      /\ parent' = parent \o g /\ Possible = {}
  BY DEF Mess
<1>2. Once(s, Unvisited)
  <2>1. Unvisited \in SUBSET Names
    BY DEF TopoInv, NodesAndLinks, Unvisited
  <2> QED BY <2>1, InOrderIsOnce DEF Left
<1> HIDE DEF s
<1>3. /\ IsList(parent) /\ NestsOnce(parent, visited)
      /\ \A j \in DOMAIN parent : \A l \in LinksTo(parent[j].node) :
            \E m \in DOMAIN parent : m < j /\ parent[m].node = l.from
  BY <1>1 DEF TopoInv, NestedSoFar
<1>4. DOMAIN s = 1..Len(s) /\ Len(s) \in Nat
  BY <1>2 DEF Once
<1>5. IsList(g) /\ Len(g) = Len(s) /\ \A j \in 1..Len(s) : g[j].node = s[j]
  BY <1>4, GivenIsList
<1> HIDE DEF g
<1>6. /\ IsList(parent') /\ DOMAIN parent' = 1..(k + Len(s))
      /\ \A j \in 1..k : parent'[j] = parent[j]
      /\ \A j \in 1..Len(s) : parent'[k + j] = g[j]
  <2> DEFINE t == parent \o g
  <2>1. /\ IsList(t) /\ DOMAIN t = 1..(Len(parent) + Len(g))
        /\ \A j \in 1..Len(parent) : t[j] = parent[j]
        /\ \A j \in 1..Len(g) : t[Len(parent) + j] = g[j]
    BY <1>3, <1>5, ListConcat
  <2>2. parent' = t
    BY <1>1
  <2> HIDE DEF t
  <2> QED BY <1>5, <2>1, <2>2
<1>7. k \in Nat /\ DOMAIN parent = 1..k
  BY <1>3, ListHas
<1> HIDE DEF k
<1>8. ASSUME NEW j \in DOMAIN parent'
      PROVE  \/ j \in DOMAIN parent /\ parent'[j].node = parent[j].node
             \/ \E i \in 1..Len(s) : j = k + i /\ parent'[j].node = s[i]
  <2>1. CASE j \in 1..k
    BY <1>6, <1>7, <2>1
  <2>2. CASE j \notin 1..k
    <3>1. j - k \in 1..Len(s) /\ j = k + (j - k)
      BY <1>4, <1>6, <1>7, <2>2
    <3> QED BY <1>5, <1>6, <3>1
  <2> QED BY <2>1, <2>2
<1>9. \A j \in DOMAIN parent : j \in DOMAIN parent' /\ parent'[j].node = parent[j].node
  BY <1>4, <1>6, <1>7
<1>10. \A j \in 1..Len(s) : k + j \in DOMAIN parent' /\ parent'[k + j].node = s[j]
  BY <1>4, <1>5, <1>6, <1>7
<1>11. \A j \in DOMAIN parent : parent[j].node \in visited
  BY <1>3 DEF NestsOnce
<1>12. \A j \in 1..Len(s) : s[j] \in Unvisited
  BY <1>2 DEF Once
<1>13. NestsOnce(parent', M)
  <2>1. ASSUME NEW n \in M PROVE \E j \in DOMAIN parent' : parent'[j].node = n
    <3>1. CASE n \in visited
      BY <1>3, <1>9, <3>1 DEF NestsOnce
    <3>2. CASE n \notin visited
      <4>1. PICK i \in 1..Len(s) : s[i] = n
        BY <1>2, <3>2 DEF Once, Unvisited
      <4> QED BY <1>10, <4>1
    <3> QED BY <3>1, <3>2
  <2>2. ASSUME NEW j \in DOMAIN parent' PROVE parent'[j].node \in M
    BY <1>8, <1>11, <1>12 DEF Unvisited, TopoInv, NestedSoFar
  <2>3. ASSUME NEW j \in DOMAIN parent', NEW m \in DOMAIN parent',
               parent'[j].node = parent'[m].node
        PROVE  j = m
    <3>1. CASE j \in DOMAIN parent /\ m \in DOMAIN parent
      BY <1>3, <1>9, <2>3, <3>1 DEF NestsOnce
    <3>2. CASE j \notin DOMAIN parent /\ m \notin DOMAIN parent
      <4>1. PICK i \in 1..Len(s) : j = k + i /\ parent'[j].node = s[i]
        BY <1>8, <3>2
      <4>2. PICK e \in 1..Len(s) : m = k + e /\ parent'[m].node = s[e]
        BY <1>8, <3>2
      <4>3. i = e
        BY <1>2, <2>3, <4>1, <4>2 DEF Once
      <4> QED BY <4>1, <4>2, <4>3
    <3>3. CASE j \in DOMAIN parent /\ m \notin DOMAIN parent
      BY <1>8, <1>9, <1>11, <1>12, <2>3, <3>3 DEF Unvisited
    <3>4. CASE j \notin DOMAIN parent /\ m \in DOMAIN parent
      BY <1>8, <1>9, <1>11, <1>12, <2>3, <3>4 DEF Unvisited
    <3> QED BY <3>1, <3>2, <3>3, <3>4
  <2>4. M = {parent'[j].node : j \in DOMAIN parent'}
    BY <2>1, <2>2
  <2> QED BY <2>3, <2>4 DEF NestsOnce
<1>14. ASSUME NEW j \in DOMAIN parent', NEW l \in LinksTo(parent'[j].node)
       PROVE  \/ \E m \in DOMAIN parent' : m < j /\ parent'[m].node = l.from
              \/ BehindCycle(parent'[j].node)
  <2>1. CASE j \in DOMAIN parent
    <3>1. l \in LinksTo(parent[j].node)
      BY <1>9, <1>14, <2>1
    <3>2. PICK m \in DOMAIN parent : m < j /\ parent[m].node = l.from
      BY <1>3, <2>1, <3>1
    <3> QED BY <1>9, <3>2
  <2>2. CASE j \notin DOMAIN parent
    <3>1. parent'[j].node \in Unvisited
      BY <1>8, <1>12, <2>2
    <3> QED BY <1>1, <3>1, WaitingIsBehindCycle
  <2> QED BY <2>1, <2>2
<1>15. NestedInOrder'
  BY <1>1, <1>6, <1>13, <1>14, WellNested
<1>16. NodesAndLinks' /\ QueryInPlace' /\ NestedSoFar'
  BY <1>1, <1>6 DEF TopoInv, NodesAndLinks, QueryInPlace, NestedSoFar
<1> QED BY <1>15, <1>16 DEF TopoInv

(* Nothing that the catalogue's statements do concerns the nodes.          *)
LEMMA TopoInvKeeps ==
    ASSUME TopoInv, [Next]_<<catalogueVars, topoVars>>
    PROVE  TopoInv'
<1>1. CASE UNCHANGED topoVars
  BY <1>1 DEF topoVars, TopoInv, NodesAndLinks, QueryInPlace, AreaTables, NestedSoFar,
              NestedInOrder, LinksTo, Position, BehindCycle
<1>2. CASE \E q \in Queries : Construct(q)
  BY <1>2, ConstructKeeps
<1>3. CASE tpc = "collecting" /\ Collect(query)
  <2>1. {query.from[j].real : j \in DOMAIN query.from} \subseteq Names
    BY <1>3 DEF TopoInv, QueryInPlace
  <2> QED BY <1>3, <2>1, AddNodeKeeps, AddLinkKeeps DEF Collect
<1>4. CASE SetUpForeign
  BY <1>4, SetUpForeignKeeps
<1>5. CASE PerformTopoSort
  BY <1>5, TurnKeeps, MessKeeps, ReturnKeeps DEF PerformTopoSort
<1> QED BY <1>1, <1>2, <1>3, <1>4, <1>5 DEF Next

(* Whatever the links, and whether they make cycles or not, what           *)
(* performTopoSort returns nests every table once, and after all the       *)
(* tables it has links from, unless it is on a cycle of links or behind    *)
(* one.                                                                    *)
THEOREM TablesNested == Spec => []NestedInOrder
<1>1. Init => TopoInv
  BY DEF Init, TopoInit, TopoInv, NodesAndLinks, RowsFit, QueryInPlace, NestedSoFar,
         NestedInOrder, IsList
<1>2. TopoInv /\ [Next]_<<catalogueVars, topoVars>> => TopoInv'
  BY TopoInvKeeps
<1>3. TopoInv => NestedInOrder
  BY DEF TopoInv
<1> QED BY <1>1, <1>2, <1>3, PTL DEF Spec
-----------------------------------------------------------------------------
(* Indexes and tables.                                                     *)

Columns(columns) ==
    /\ IsList(columns)
    /\ \A i \in DOMAIN columns :
          /\ columns[i] = [name |-> columns[i].name, type |-> columns[i].type]
          /\ columns[i].type \in {"ASC_ORDER", "DESC_ORDER"}

LEMMA NewIndexIsRecord ==
    ASSUME NEW name, NEW unique, NEW columns, Columns(columns)
    PROVE  /\ IsIndexRecord(Index(name, unique, columns))
           /\ Index(name, unique, columns).columns = columns
           /\ Index(name, unique, columns).unique = unique
  BY DEF Index, IsIndexRecord, Columns

LEMMA SetTableIsRecord ==
    ASSUME NEW x, IsIndexRecord(x), NEW name
    PROVE  /\ IsIndexRecord(SetTable(x, name))
           /\ SetTable(x, name).table = name
           /\ SetTable(x, name).columns = x.columns
           /\ SetTable(x, name).unique = x.unique
<1> DEFINE y == SetTable(x, name)
<1>1. x = [name |-> x.name, table |-> x.table, unique |-> x.unique,
           columns |-> x.columns, hash |-> x.hash]
  BY DEF IsIndexRecord
<1>2. y = [name |-> x.name, table |-> name, unique |-> x.unique,
           columns |-> x.columns, hash |-> x.hash]
  BY <1>1 DEF SetTable
<1>3. /\ y = [name |-> y.name, table |-> y.table, unique |-> y.unique,
              columns |-> y.columns, hash |-> y.hash]
      /\ y.table = name /\ y.columns = x.columns /\ y.hash = x.hash /\ y.unique = x.unique
  BY <1>2
<1> HIDE DEF y
<1>4. IsIndexRecord(y)
  BY <1>3 DEF IsIndexRecord
<1> QED BY <1>3, <1>4 DEF y

(* The columns of a list, in some order each.                              *)
LEMMA OrdersAreColumns ==
    ASSUME NEW list, IsList(list), NEW o \in [DOMAIN list -> {"ASC_ORDER", "DESC_ORDER"}]
    PROVE  LET columns == [j \in DOMAIN list |-> [name |-> list[j], type |-> o[j]]]
           IN  Columns(columns) /\ ColumnNames(columns) = list
<1> DEFINE columns == [j \in DOMAIN list |-> [name |-> list[j], type |-> o[j]]]
<1>1. DOMAIN list = 1..Len(list) /\ Len(list) \in Nat /\ list = [j \in 1..Len(list) |-> list[j]]
  BY ListHas
<1>2. IsList(columns) /\ DOMAIN columns = 1..Len(list)
  BY <1>1, GivenIsList
<1>3. \A j \in DOMAIN columns : columns[j] = [name |-> list[j], type |-> o[j]]
  OBVIOUS
<1>4. \A j \in DOMAIN list : o[j] \in {"ASC_ORDER", "DESC_ORDER"}
  OBVIOUS
<1> HIDE DEF columns
<1>5. ASSUME NEW j \in DOMAIN columns
      PROVE  /\ columns[j] = [name |-> columns[j].name, type |-> columns[j].type]
             /\ columns[j].type \in {"ASC_ORDER", "DESC_ORDER"}
             /\ columns[j].name = list[j]
  BY <1>1, <1>2, <1>3, <1>4
<1>6. Columns(columns)
  BY <1>2, <1>5 DEF Columns
<1>7. ColumnNames(columns) = list
  BY <1>1, <1>2, <1>5 DEF ColumnNames
<1> QED BY <1>6, <1>7 DEF columns

LEMMA AscAreColumns ==
    ASSUME NEW list, IsList(list)
    PROVE  Columns(Asc(list)) /\ ColumnNames(Asc(list)) = list
<1> DEFINE o == [j \in DOMAIN list |-> "ASC_ORDER"]
<1>1. o \in [DOMAIN list -> {"ASC_ORDER", "DESC_ORDER"}]
  OBVIOUS
<1>2. Asc(list) = [j \in DOMAIN list |-> [name |-> list[j], type |-> o[j]]]
  BY DEF Asc
<1> HIDE DEF o
<1> QED BY <1>1, <1>2, OrdersAreColumns

(* A list of indexes of which one more is.                                 *)
LEMMA AddIndexIsRecord ==
    ASSUME NEW t, IsTableRecord(t), NEW x, IsIndexRecord(x)
    PROVE  LET a == AddIndex(t, x)
           IN  /\ IsTableRecord(a)
               /\ a.name = t.name
               /\ \A j \in DOMAIN a.indexes : \/ a.indexes[j].table = t.name
                                              \/ j \in DOMAIN t.indexes /\ a.indexes[j] = t.indexes[j]
               /\ HasIndex(a, ColumnNames(x.columns))
               /\ \A list : HasIndex(t, list) => HasIndex(a, list)
<1> DEFINE a == AddIndex(t, x)
           y == SetTable(x, t.name)
           s == t.indexes
<1>1. t = [name |-> t.name, columns |-> t.columns, indexes |-> s, rows |-> t.rows]
  BY DEF IsTableRecord
<1>2. a = [name |-> t.name, columns |-> t.columns, indexes |-> Append(s, y), rows |-> t.rows]
  BY <1>1 DEF AddIndex
<1>3. IsIndexRecord(y) /\ y.table = t.name /\ y.columns = x.columns
  BY SetTableIsRecord
<1>4. /\ IsList(s)
      /\ \A i \in DOMAIN s : IsIndexRecord(s[i])
      /\ IsList(t.columns)
      /\ \A i \in DOMAIN t.columns :
            t.columns[i] = [name |-> t.columns[i].name, key |-> t.columns[i].key]
  BY DEF IsTableRecord
<1> DEFINE u == Append(s, y)
<1>5. /\ IsList(u) /\ DOMAIN u = 1..(Len(s) + 1) /\ u[Len(s) + 1] = y
      /\ \A j \in 1..Len(s) : u[j] = s[j]
      /\ Len(s) \in Nat /\ DOMAIN s = 1..Len(s)
  BY <1>4, ListAppend, ListHas
<1>6. /\ a = [name |-> a.name, columns |-> a.columns, indexes |-> a.indexes, rows |-> a.rows]
      /\ a.name = t.name /\ a.columns = t.columns /\ a.indexes = u
  BY <1>2
<1> HIDE DEF a, y, s, u
<1>7. \A j \in DOMAIN u : (j \in DOMAIN s /\ u[j] = s[j]) \/ u[j] = y
  <2>1. 1..(Len(s) + 1) = 1..Len(s) \cup {Len(s) + 1}
    BY <1>5
  <2> QED BY <1>5, <2>1
<1>8. \A j \in DOMAIN s : j \in DOMAIN u /\ u[j] = s[j]
  BY <1>5
<1>9. IsTableRecord(a)
  <2>1. \A j \in DOMAIN u : IsIndexRecord(u[j])
    BY <1>3, <1>4, <1>7
  <2> QED BY <1>4, <1>5, <1>6, <2>1 DEF IsTableRecord
<1>10. \A j \in DOMAIN a.indexes : \/ a.indexes[j].table = t.name
                                   \/ j \in DOMAIN t.indexes /\ a.indexes[j] = t.indexes[j]
  BY <1>3, <1>6, <1>7 DEF s
<1>11. HasIndex(a, ColumnNames(x.columns))
  <2>1. Len(s) + 1 \in DOMAIN u
    BY <1>5
  <2> QED BY <1>3, <1>5, <1>6, <2>1 DEF HasIndex
<1>12. \A list : HasIndex(t, list) => HasIndex(a, list)
  BY <1>6, <1>8 DEF HasIndex, s
<1> QED BY <1>6, <1>9, <1>10, <1>11, <1>12 DEF a
-----------------------------------------------------------------------------
(* A table as CREATE TABLE defines it.                                     *)

(* A table that has no name yet: neither have its indexes.                 *)
IsUnnamed(t) == /\ IsTableRecord(t) /\ t.name = ""
                /\ \A j \in DOMAIN t.indexes : t.indexes[j].table = ""

Covers(t, item, flag) ==
    /\ item.kind = "key" => HasIndex(t, item.list)
    /\ item.kind = "column" /\ flag => HasIndex(t, <<item.name>>)

KeepsIndexes(t, u) == \A list : HasIndex(t, list) => HasIndex(u, list)

LEMMA AddIndexToUnnamed ==
    ASSUME NEW t, IsUnnamed(t), NEW list, IsList(list), NEW name, NEW unique
    PROVE  LET u == AddIndex(t, Index(name, unique, Asc(list)))
           IN  IsUnnamed(u) /\ HasIndex(u, list) /\ KeepsIndexes(t, u)
<1> DEFINE x == Index(name, unique, Asc(list))
           u == AddIndex(t, x)
<1>1. IsIndexRecord(x) /\ ColumnNames(x.columns) = list
  BY AscAreColumns, NewIndexIsRecord
<1> HIDE DEF x
<1>2. /\ IsTableRecord(u) /\ u.name = t.name /\ HasIndex(u, list) /\ KeepsIndexes(t, u)
      /\ \A j \in DOMAIN u.indexes : \/ u.indexes[j].table = t.name
                                     \/ j \in DOMAIN t.indexes /\ u.indexes[j] = t.indexes[j]
  BY <1>1, AddIndexIsRecord DEF IsUnnamed, KeepsIndexes
<1> HIDE DEF u
<1>3. IsUnnamed(u)
  BY <1>2 DEF IsUnnamed
<1> QED BY <1>2, <1>3 DEF u, x

LEMMA AddColumnToUnnamed ==
    ASSUME NEW t, IsUnnamed(t), NEW name, NEW flag \in BOOLEAN
    PROVE  LET u == AddColumn(t, Column(name, flag))
           IN  IsUnnamed(u) /\ (flag => HasIndex(u, <<name>>)) /\ KeepsIndexes(t, u)
<1> DEFINE column == Column(name, flag)
           with == [t EXCEPT !.columns = Append(@, column)]
           u == AddColumn(t, column)
           s == t.columns
<1>1. /\ t = [name |-> t.name, columns |-> s, indexes |-> t.indexes, rows |-> t.rows]
      /\ IsList(s)
      /\ \A i \in DOMAIN s : s[i] = [name |-> s[i].name, key |-> s[i].key]
      /\ IsList(t.indexes)
      /\ \A i \in DOMAIN t.indexes : IsIndexRecord(t.indexes[i])
  BY DEF IsUnnamed, IsTableRecord
<1>2. with = [name |-> t.name, columns |-> Append(s, column), indexes |-> t.indexes, rows |-> t.rows]
  BY <1>1
<1>3. column = [name |-> column.name, key |-> column.key] /\ column.key = flag
  BY DEF Column
<1> DEFINE l == Append(s, column)
<1>4. /\ IsList(l) /\ DOMAIN l = 1..(Len(s) + 1) /\ l[Len(s) + 1] = column
      /\ \A j \in 1..Len(s) : l[j] = s[j]
      /\ Len(s) \in Nat /\ DOMAIN s = 1..Len(s)
  <2> HIDE DEF column, s
  <2> QED BY <1>1, ListAppend, ListHas
<1>5. /\ with = [name |-> with.name, columns |-> with.columns, indexes |-> with.indexes,
                 rows |-> with.rows]
      /\ with.name = t.name /\ with.columns = l /\ with.indexes = t.indexes
  BY <1>2
<1> HIDE DEF column, with, l, s
<1>6. \A i \in DOMAIN l : l[i] = [name |-> l[i].name, key |-> l[i].key]
  <2>1. 1..(Len(s) + 1) = 1..Len(s) \cup {Len(s) + 1}
    BY <1>4
  <2>2. \A i \in DOMAIN l : (i \in DOMAIN s /\ l[i] = s[i]) \/ l[i] = column
    BY <1>4, <2>1
  <2> QED BY <1>1, <1>3, <2>2
<1>7. IsTableRecord(with)
  BY <1>1, <1>4, <1>5, <1>6 DEF IsTableRecord
<1>8. IsUnnamed(with) /\ KeepsIndexes(t, with)
  BY <1>5, <1>7 DEF IsUnnamed, KeepsIndexes, HasIndex
<1>9. CASE flag
  <2>1. u = AddIndex(with, Index(column.name, FALSE, Asc(<<column.name>>)))
    BY <1>3, <1>9 DEF AddColumn, with
  <2>2. column.name = name
    BY DEF column, Column
  <2>3. IsList(<<name>>)
    BY DEF IsList
  <2>4. IsUnnamed(u) /\ HasIndex(u, <<name>>) /\ KeepsIndexes(with, u)
    BY <1>8, <2>1, <2>2, <2>3, AddIndexToUnnamed
  <2>5. KeepsIndexes(t, u)
    BY <1>8, <2>4 DEF KeepsIndexes
  <2> QED BY <2>4, <2>5 DEF column
<1>10. CASE ~ flag
  <2>1. u = with
    BY <1>3, <1>10 DEF AddColumn, with
  <2> QED BY <1>8, <1>10, <2>1 DEF column
<1> QED BY <1>9, <1>10

LEMMA WithItemIsUnnamed ==
    ASSUME NEW t, IsUnnamed(t), NEW item, IsItem(item), NEW flag \in BOOLEAN
    PROVE  LET u == WithItem(t, item, flag)
           IN  IsUnnamed(u) /\ Covers(u, item, flag) /\ KeepsIndexes(t, u)
<1> DEFINE u == WithItem(t, item, flag)
<1>1. CASE item.kind = "column"
  <2>1. u = AddColumn(t, Column(item.name, flag))
    BY <1>1 DEF WithItem
  <2> QED BY <1>1, <2>1, AddColumnToUnnamed DEF Covers
<1>2. CASE item.kind = "key"
  <2>1. u = AddIndex(t, Index("", TRUE, Asc(item.list)))
    BY <1>2 DEF WithItem
  <2>2. IsList(item.list)
    BY <1>2, CatalogueAssumption DEF IsItem
  <2> QED BY <1>2, <2>1, <2>2, AddIndexToUnnamed DEF Covers
<1>3. CASE item.kind = "check"
  <2>1. u = t
    BY <1>3 DEF WithItem
  <2> QED BY <1>3, <2>1 DEF Covers, KeepsIndexes
<1> QED BY <1>1, <1>2, <1>3 DEF IsItem

Makes(h, items, flags, rows, first, n) ==
    h = [m \in 0..n |-> IF m = 0 THEN Table("", <<>>, <<>>, rows)
                        ELSE WithItem(h[m - 1], items[first + m - 1], flags[first + m - 1])]

LEMMA MakesExists ==
    ASSUME NEW items, NEW flags, NEW rows, NEW first, NEW n \in Nat
    PROVE  \E h : Makes(h, items, flags, rows, first, n)
<1> DEFINE S == {m \in Nat : \E h : Makes(h, items, flags, rows, first, m)}
<1>1. 0 \in S
  <2> DEFINE h == [m \in 0..0 |-> Table("", <<>>, <<>>, rows)]
  <2>1. Makes(h, items, flags, rows, first, 0)
    BY DEF Makes
  <2> QED BY <2>1
<1>2. ASSUME NEW m \in Nat, m \in S PROVE m + 1 \in S
  <2>1. PICK g : Makes(g, items, flags, rows, first, m)
    BY <1>2
  <2> DEFINE W(i, t) == WithItem(t, items[first + i - 1], flags[first + i - 1])
             h == [i \in 0..(m + 1) |-> IF i = m + 1 THEN W(m + 1, g[m]) ELSE g[i]]
  <2>2. ASSUME NEW i \in 0..(m + 1)
        PROVE  h[i] = IF i = 0 THEN Table("", <<>>, <<>>, rows) ELSE W(i, h[i - 1])
    <3>1. CASE i = m + 1
      <4>1. i # 0 /\ i - 1 = m /\ m \in 0..(m + 1) /\ m # m + 1
        BY <3>1
      <4>2. h[i] = W(m + 1, g[m]) /\ h[m] = g[m]
        BY <3>1, <4>1
      <4> HIDE DEF h, W
      <4> QED BY <3>1, <4>1, <4>2
    <3>2. CASE i # m + 1
      <4>1. i \in 0..m /\ (i # 0 => i - 1 \in 0..(m + 1) /\ i - 1 # m + 1)
        BY <3>2
      <4>2. h[i] = g[i] /\ (i # 0 => h[i - 1] = g[i - 1])
        BY <3>2, <4>1
      <4>3. g[i] = IF i = 0 THEN Table("", <<>>, <<>>, rows) ELSE W(i, g[i - 1])
        BY <2>1, <4>1 DEF Makes
      <4> HIDE DEF h, W
      <4> QED BY <4>1, <4>2, <4>3
    <3> QED BY <3>1, <3>2
  <2>3. h = [i \in 0..(m + 1) |-> IF i = 0 THEN Table("", <<>>, <<>>, rows) ELSE W(i, h[i - 1])]
    BY <2>2
  <2>4. Makes(h, items, flags, rows, first, m + 1)
    <3> HIDE DEF h
    <3> QED BY <2>3 DEF Makes
  <2> QED BY <2>4
<1>3. n \in S
  <2> HIDE DEF S
  <2> QED BY <1>1, <1>2, SetInduction
<1> QED BY <1>3

AreItems(items, flags) == /\ IsList(items)
                          /\ \A j \in DOMAIN items : IsItem(items[j]) /\ flags[j] \in BOOLEAN

(* A table made of n items has the index that each of them asks for.       *)
LEMMA UnnamedCovers ==
    ASSUME NEW items, NEW flags, AreItems(items, flags), NEW rows, NEW first \in Nat \ {0},
           NEW n \in Nat, first + n <= Len(items) + 1
    PROVE  /\ IsUnnamed(Unnamed(items, flags, rows, first, n))
           /\ \A i \in 1..n : Covers(Unnamed(items, flags, rows, first, n),
                                     items[first + i - 1], flags[first + i - 1])
<1> DEFINE h == CHOOSE f : Makes(f, items, flags, rows, first, n)
           Done(t, m) == \A i \in 1..m : Covers(t, items[first + i - 1], flags[first + i - 1])
           S == {m \in Nat : m <= n => IsUnnamed(h[m]) /\ Done(h[m], m)}
<1>1. Makes(h, items, flags, rows, first, n)
  BY MakesExists
<1>2. Unnamed(items, flags, rows, first, n) = h[n]
  BY DEF Unnamed, Makes
<1> HIDE DEF h
<1>3. 0 \in S
  <2> DEFINE none == Table("", <<>>, <<>>, rows)
  <2>1. IsUnnamed(none)
    BY DEF IsUnnamed, IsTableRecord, Table, IsList
  <2> HIDE DEF none
  <2>2. h[0] = none
    <3>1. 0 \in 0..n
      OBVIOUS
    <3>2. h[0] = IF 0 = 0 THEN none
                 ELSE WithItem(h[0 - 1], items[first + 0 - 1], flags[first + 0 - 1])
      BY <1>1, <3>1 DEF Makes, none
    <3> QED BY <3>2
  <2>3. Done(h[0], 0)
    OBVIOUS
  <2> HIDE DEF Done
  <2> QED BY <2>1, <2>2, <2>3
<1>4. ASSUME NEW m \in Nat, m \in S PROVE m + 1 \in S
  <2> SUFFICES ASSUME m + 1 <= n PROVE IsUnnamed(h[m + 1]) /\ Done(h[m + 1], m + 1)
    OBVIOUS
  <2> DEFINE j == first + (m + 1) - 1
             t == h[m]
             u == h[m + 1]
  <2>1. u = WithItem(t, items[j], flags[j])
    <3>1. m + 1 \in 0..n /\ m + 1 # 0 /\ (m + 1) - 1 = m
      OBVIOUS
    <3> QED BY <1>1, <3>1 DEF Makes
  <2>2. IsUnnamed(t) /\ Done(t, m)
    BY <1>4
  <2>3. IsItem(items[j]) /\ flags[j] \in BOOLEAN
    <3>1. DOMAIN items = 1..Len(items) /\ Len(items) \in Nat
      BY ListHas DEF AreItems
    <3>2. j \in DOMAIN items
      BY <3>1
    <3> QED BY <3>2 DEF AreItems
  <2> HIDE DEF t, u
  <2>4. IsUnnamed(u) /\ Covers(u, items[j], flags[j]) /\ KeepsIndexes(t, u)
    BY <2>1, <2>2, <2>3, WithItemIsUnnamed
  <2>5. ASSUME NEW i \in 1..(m + 1)
        PROVE  Covers(u, items[first + i - 1], flags[first + i - 1])
    <3>1. CASE i = m + 1
      BY <2>4, <3>1
    <3>2. CASE i # m + 1
      <4>1. i \in 1..m
        BY <3>2
      <4>2. Covers(t, items[first + i - 1], flags[first + i - 1])
        BY <2>2, <4>1
      <4> QED BY <2>4, <4>2 DEF Covers, KeepsIndexes
    <3> QED BY <3>1, <3>2
  <2> QED BY <2>4, <2>5 DEF u
<1>5. n \in S
  <2> HIDE DEF S
  <2> QED BY <1>3, <1>4, SetInduction
<1> QED BY <1>2, <1>5

(* What is at some place of either list is at some place of both in a row, *)
(* and the other way round.                                                *)
HasBoth(u, s, t) ==
    /\ \A j \in DOMAIN u : (\E i \in DOMAIN s : u[j] = s[i]) \/ (\E i \in DOMAIN t : u[j] = t[i])
    /\ \A i \in DOMAIN s : \E j \in DOMAIN u : u[j] = s[i]
    /\ \A i \in DOMAIN t : \E j \in DOMAIN u : u[j] = t[i]

LEMMA ConcatHas ==
    ASSUME NEW s, NEW t, IsList(s), IsList(t)
    PROVE  IsList(s \o t) /\ HasBoth(s \o t, s, t)
<1> DEFINE u == s \o t
<1>1. /\ Len(s) \in Nat /\ DOMAIN s = 1..Len(s)
      /\ Len(t) \in Nat /\ DOMAIN t = 1..Len(t)
  BY ListHas
<1>2. /\ IsList(u) /\ DOMAIN u = 1..(Len(s) + Len(t))
      /\ \A j \in 1..Len(s) : u[j] = s[j]
      /\ \A j \in 1..Len(t) : u[Len(s) + j] = t[j]
  BY ListConcat
<1> HIDE DEF u
<1>3. ASSUME NEW j \in DOMAIN u
      PROVE  (\E i \in DOMAIN s : u[j] = s[i]) \/ (\E i \in DOMAIN t : u[j] = t[i])
  <2>1. CASE j \in 1..Len(s)
    BY <1>1, <1>2, <2>1
  <2>2. CASE j \notin 1..Len(s)
    <3>1. j - Len(s) \in 1..Len(t) /\ j = Len(s) + (j - Len(s))
      BY <1>1, <1>2, <2>2
    <3>2. u[j] = t[j - Len(s)]
      BY <1>2, <3>1
    <3> QED BY <1>1, <3>1, <3>2
  <2> QED BY <2>1, <2>2
<1>4. ASSUME NEW i \in DOMAIN s PROVE \E j \in DOMAIN u : u[j] = s[i]
  <2>1. i \in DOMAIN u
    BY <1>1, <1>2
  <2> QED BY <1>1, <1>2, <2>1
<1>5. ASSUME NEW i \in DOMAIN t PROVE \E j \in DOMAIN u : u[j] = t[i]
  <2>1. Len(s) + i \in DOMAIN u
    BY <1>1, <1>2
  <2> QED BY <1>1, <1>2, <2>1
<1>6. HasBoth(u, s, t)
  BY <1>3, <1>4, <1>5 DEF HasBoth
<1> QED BY <1>2, <1>6 DEF u

LEMMA MergeIsUnnamed ==
    ASSUME NEW t, IsUnnamed(t), NEW u, IsUnnamed(u)
    PROVE  LET m == MergeTable(t, u)
           IN  IsUnnamed(m) /\ KeepsIndexes(t, m) /\ KeepsIndexes(u, m)
<1> DEFINE m == MergeTable(t, u)
           c == t.columns \o u.columns
           x == t.indexes \o u.indexes
           IsC(e) == e = [name |-> e.name, key |-> e.key]
           IsX(e) == IsIndexRecord(e) /\ e.table = ""
<1>1. m = [name |-> t.name, columns |-> c, indexes |-> x, rows |-> t.rows]
  <2>1. t = [name |-> t.name, columns |-> t.columns, indexes |-> t.indexes, rows |-> t.rows]
    BY DEF IsUnnamed, IsTableRecord
  <2>2. m = [t EXCEPT !.columns = c, !.indexes = x]
    BY DEF MergeTable
  <2> HIDE DEF c, x, m
  <2> QED BY <2>1, <2>2
<1>2. /\ IsList(t.columns) /\ IsList(u.columns) /\ IsList(t.indexes) /\ IsList(u.indexes)
      /\ t.name = ""
      /\ \A j \in DOMAIN t.columns : IsC(t.columns[j])
      /\ \A j \in DOMAIN u.columns : IsC(u.columns[j])
      /\ \A j \in DOMAIN t.indexes : IsX(t.indexes[j])
      /\ \A j \in DOMAIN u.indexes : IsX(u.indexes[j])
  BY DEF IsUnnamed, IsTableRecord
<1>3. /\ m = [name |-> m.name, columns |-> m.columns, indexes |-> m.indexes, rows |-> m.rows]
      /\ m.name = "" /\ m.columns = c /\ m.indexes = x
  <2> HIDE DEF c, x, m
  <2> QED BY <1>1, <1>2
<1>4. IsList(c) /\ HasBoth(c, t.columns, u.columns)
  BY <1>2, ConcatHas
<1>5. IsList(x) /\ HasBoth(x, t.indexes, u.indexes)
  BY <1>2, ConcatHas
<1> HIDE DEF m, c, x, IsC, IsX
<1>6. \A j \in DOMAIN c : IsC(c[j])
  BY <1>2, <1>4 DEF HasBoth
<1>7. \A j \in DOMAIN x : IsX(x[j])
  BY <1>2, <1>5 DEF HasBoth
<1>8. IsUnnamed(m)
  BY <1>3, <1>4, <1>5, <1>6, <1>7 DEF IsUnnamed, IsTableRecord, IsC, IsX
<1>9. KeepsIndexes(t, m) /\ KeepsIndexes(u, m)
  <2>1. ASSUME NEW l, HasIndex(t, l) PROVE HasIndex(m, l)
    <3>1. PICK i \in DOMAIN t.indexes : ColumnNames(t.indexes[i].columns) = l
      BY <2>1 DEF HasIndex
    <3>2. PICK j \in DOMAIN x : x[j] = t.indexes[i]
      BY <1>5 DEF HasBoth
    <3> QED BY <1>3, <3>1, <3>2 DEF HasIndex
  <2>2. ASSUME NEW l, HasIndex(u, l) PROVE HasIndex(m, l)
    <3>1. PICK i \in DOMAIN u.indexes : ColumnNames(u.indexes[i].columns) = l
      BY <2>2 DEF HasIndex
    <3>2. PICK j \in DOMAIN x : x[j] = u.indexes[i]
      BY <1>5 DEF HasBoth
    <3> QED BY <1>3, <3>1, <3>2 DEF HasIndex
  <2> QED BY <2>1, <2>2 DEF KeepsIndexes
<1> QED BY <1>8, <1>9 DEF m

(* Splitting a definition leaves out none of its items.                    *)
LEMMA SplitIsWithin ==
    ASSUME NEW items, IsList(items)
    PROVE  Split(items) \in 1..(Len(items) + 1)
<1> DEFINE con == {j \in DOMAIN items : items[j].kind # "column"}
<1>1. Len(items) \in Nat /\ DOMAIN items = 1..Len(items)
  BY ListHas
<1>2. CASE con = {}
  <2>1. Split(items) = Len(items) + 1
    BY <1>2 DEF Split
  <2> QED BY <1>1, <2>1
<1>3. CASE con # {}
  <2>1. Split(items) = Min(con)
    BY <1>3 DEF Split
  <2>2. con \subseteq 1..Len(items)
    BY <1>1
  <2> HIDE DEF con
  <2>3. con \subseteq Nat
    BY <2>2
  <2>4. Min(con) \in con
    BY <1>3, <2>3, LeastIsMin
  <2>5. Min(con) \in 1..Len(items)
    BY <2>2, <2>4
  <2> QED BY <1>1, <2>1, <2>5
<1> QED BY <1>2, <1>3

(* The table a definition makes has an index for each list of columns the  *)
(* definition asks one for.                                                *)
IsDefined(t, name, k, items) ==
    /\ IsTableRecord(t) /\ t.name = name
    /\ \A j \in DOMAIN t.indexes : t.indexes[j].table = ""
    /\ \A d \in AskedFor(k, items) : d[1] = k /\ HasIndex(t, d[2])

LEMMA DefinedHasWhatIsAsked ==
    ASSUME NEW items \in Definitions, NEW flags \in KeyFlags(items), NEW rows, NEW name, NEW k
    PROVE  IsDefined(Defined(name, items, flags, rows), name, k, items)
<1> DEFINE split == Split(items)
           n == Len(items) - split + 1
           before == split - 1
           first == Unnamed(items, flags, rows, 1, before)
           rest == Unnamed(items, flags, rows, split, n)
           m == MergeTable(first, rest)
           t == [m EXCEPT !.name = name]
<1>1. /\ IsList(items) /\ \A j \in DOMAIN items : IsItem(items[j])
      /\ Len(items) \in Nat /\ DOMAIN items = 1..Len(items)
  BY CatalogueAssumption, ListHas
<1>2. /\ \A j \in DOMAIN items : flags[j] \in BOOLEAN
      /\ \A j \in DOMAIN items : items[j].kind = "column" /\ IsKey(items[j]) => flags[j]
  BY DEF KeyFlags
<1>3. AreItems(items, flags)
  BY <1>1, <1>2 DEF AreItems
<1>4. split \in 1..(Len(items) + 1)
  BY <1>1, SplitIsWithin
<1>5. Defined(name, items, flags, rows) = t
  BY DEF Defined
<1> HIDE DEF split
<1>6. n \in Nat /\ split \in Nat \ {0} /\ before \in Nat /\ 1 \in Nat \ {0}
      /\ split + n <= Len(items) + 1 /\ 1 + before <= Len(items) + 1
  BY <1>1, <1>4
<1> HIDE DEF n, before
<1>7. /\ IsUnnamed(first)
      /\ \A i \in 1..before : Covers(first, items[1 + i - 1], flags[1 + i - 1])
  BY <1>3, <1>6, UnnamedCovers
<1>8. /\ IsUnnamed(rest)
      /\ \A i \in 1..n : Covers(rest, items[split + i - 1], flags[split + i - 1])
  BY <1>3, <1>6, UnnamedCovers
<1> HIDE DEF first, rest
<1>9. IsUnnamed(m) /\ KeepsIndexes(first, m) /\ KeepsIndexes(rest, m)
  BY <1>7, <1>8, MergeIsUnnamed
<1>10. ASSUME NEW j \in DOMAIN items
       PROVE  Covers(m, items[j], flags[j])
  <2>1. CASE j < split
    <3>1. j \in 1..before /\ 1 + j - 1 = j
      BY <1>1, <1>4, <2>1 DEF before
    <3>2. Covers(first, items[j], flags[j])
      BY <1>7, <3>1
    <3> QED BY <1>9, <3>2 DEF Covers, KeepsIndexes
  <2>2. CASE ~ j < split
    <3> DEFINE i == j - split + 1
    <3>1. i \in 1..n /\ split + i - 1 = j
      BY <1>1, <1>4, <2>2 DEF n
    <3> HIDE DEF i
    <3>2. Covers(rest, items[j], flags[j])
      BY <1>8, <3>1
    <3> QED BY <1>9, <3>2 DEF Covers, KeepsIndexes
  <2> QED BY <2>1, <2>2
<1> HIDE DEF m
<1>11. /\ IsTableRecord(t) /\ t.name = name /\ t.indexes = m.indexes
  <2>1. m = [name |-> m.name, columns |-> m.columns, indexes |-> m.indexes, rows |-> m.rows]
    BY <1>9 DEF IsUnnamed, IsTableRecord
  <2>2. t = [name |-> name, columns |-> m.columns, indexes |-> m.indexes, rows |-> m.rows]
    BY <2>1
  <2>3. /\ t = [name |-> t.name, columns |-> t.columns, indexes |-> t.indexes, rows |-> t.rows]
        /\ t.name = name /\ t.columns = m.columns /\ t.indexes = m.indexes
    BY <2>2
  <2> HIDE DEF t
  <2> QED BY <1>9, <2>3 DEF IsUnnamed, IsTableRecord
<1> HIDE DEF t
<1>12. \A l : HasIndex(m, l) => HasIndex(t, l)
  BY <1>11 DEF HasIndex
<1>13. ASSUME NEW d \in AskedFor(k, items)
       PROVE  d[1] = k /\ HasIndex(t, d[2])
  <2>1. CASE d \in {<<k, items[j].list>> : j \in {j \in DOMAIN items : items[j].kind = "key"}}
    <3>1. PICK j \in DOMAIN items : items[j].kind = "key" /\ d = <<k, items[j].list>>
      BY <2>1
    <3>2. HasIndex(m, items[j].list)
      BY <1>10, <3>1 DEF Covers
    <3> QED BY <1>12, <3>1, <3>2
  <2>2. CASE d \in {<<k, <<items[j].name>>>> :
                       j \in {j \in DOMAIN items : items[j].kind = "column" /\ IsKey(items[j])}}
    <3>1. PICK j \in DOMAIN items : /\ items[j].kind = "column" /\ IsKey(items[j])
                                    /\ d = <<k, <<items[j].name>>>>
      BY <2>2
    <3>2. HasIndex(m, <<items[j].name>>)
      BY <1>2, <1>10, <3>1 DEF Covers
    <3> QED BY <1>12, <3>1, <3>2
  <2> QED BY <1>13, <2>1, <2>2 DEF AskedFor
<1>14. \A j \in DOMAIN t.indexes : t.indexes[j].table = ""
  BY <1>9, <1>11 DEF IsUnnamed
<1> QED BY <1>5, <1>11, <1>13, <1>14 DEF IsDefined
-----------------------------------------------------------------------------
(* Loading.                                                                *)

(* A table that stands in a file, or was loaded from one.                  *)
IsLoaded(t, name) == /\ IsTableRecord(t) /\ t.name = name
                     /\ \A j \in DOMAIN t.indexes : t.indexes[j].table = name

LEMMA LoadedIndexIsRecord ==
    ASSUME NEW json, IsIndexJSON(json)
    PROVE  IsIndexRecord(LoadedIndex(json))
<1> DEFINE names == json.col_names
           types == json.col_types
           o == [j \in DOMAIN names |-> IF types[j] = 1 THEN "ASC_ORDER" ELSE "DESC_ORDER"]
           columns == [j \in DOMAIN names |-> [name |-> names[j], type |-> o[j]]]
<1>1. IsList(names)
  BY DEF IsIndexJSON
<1>2. LoadedIndex(json) = SetTable(Index(json.name, json.unique, columns), json.table)
  BY DEF LoadedIndex
<1>3. o \in [DOMAIN names -> {"ASC_ORDER", "DESC_ORDER"}]
  OBVIOUS
<1> HIDE DEF names, o
<1>4. Columns(columns)
  BY <1>1, <1>3, OrdersAreColumns
<1> HIDE DEF columns
<1> QED BY <1>2, <1>4, NewIndexIsRecord, SetTableIsRecord

LEMMA LoadedTableIsRecord ==
    ASSUME NEW json, IsTableJSON(json)
    PROVE  IsLoaded(LoadedTable(json), json.name)
<1> DEFINE columns == LoadedColumns(json.columns)
           loaded == LoadedIndexes(json.indexes)
           indexes == [j \in DOMAIN loaded |-> SetTable(loaded[j], json.name)]
           t == LoadedTable(json)
<1>1. /\ IsList(json.columns) /\ IsList(json.indexes)
      /\ \A j \in DOMAIN json.indexes : IsIndexJSON(json.indexes[j])
  BY DEF IsTableJSON
<1>2. t = [name |-> json.name, columns |-> columns, indexes |-> indexes, rows |-> json.rows]
  BY DEF LoadedTable, Table
<1>3. IsList(columns) /\ \A j \in DOMAIN columns :
         columns[j] = [name |-> columns[j].name, key |-> columns[j].key]
  <2>1. columns = [j \in 1..Len(json.columns) |-> LoadedColumn(json.columns[j])]
    BY <1>1, ListHas DEF LoadedColumns
  <2>2. IsList(columns) /\ DOMAIN columns = 1..Len(json.columns)
    BY <1>1, <2>1, ListHas, GivenIsList
  <2> HIDE DEF columns
  <2> QED BY <2>1, <2>2 DEF LoadedColumn, Column
<1>4. IsList(indexes) /\ \A j \in DOMAIN indexes :
         IsIndexRecord(indexes[j]) /\ indexes[j].table = json.name
  <2>1. loaded = [j \in 1..Len(json.indexes) |-> LoadedIndex(json.indexes[j])]
    BY <1>1, ListHas DEF LoadedIndexes
  <2>2. DOMAIN loaded = 1..Len(json.indexes) /\ DOMAIN json.indexes = 1..Len(json.indexes)
        /\ Len(json.indexes) \in Nat
    BY <1>1, <2>1, ListHas
  <2>3. \A j \in DOMAIN loaded : IsIndexRecord(loaded[j])
    BY <1>1, <2>1, <2>2, LoadedIndexIsRecord
  <2> HIDE DEF loaded
  <2>4. IsList(indexes) /\ DOMAIN indexes = DOMAIN loaded
    BY <2>2, GivenIsList
  <2>5. \A j \in DOMAIN loaded : indexes[j] = SetTable(loaded[j], json.name)
    OBVIOUS
  <2> HIDE DEF indexes
  <2> QED BY <2>3, <2>4, <2>5, SetTableIsRecord
<1> HIDE DEF columns, indexes, t
<1>5. /\ t = [name |-> t.name, columns |-> t.columns, indexes |-> t.indexes, rows |-> t.rows]
      /\ t.name = json.name /\ t.columns = columns /\ t.indexes = indexes
  BY <1>2
<1>6. IsLoaded(t, json.name)
  BY <1>3, <1>4, <1>5 DEF IsLoaded, IsTableRecord
<1> QED BY <1>6 DEF t

(* Where LoadedTables finds the table of a name.                           *)
Place(json, name) == IF \E k \in DOMAIN json : k = Lower[name] /\ json[k].name = name
                     THEN Lower[name] ELSE name

LEMMA PlaceIsThere ==
    ASSUME NEW f, IsFile(f), NEW name \in {f.tables[k].name : k \in DOMAIN f.tables}
    PROVE  /\ Place(f.tables, name) \in DOMAIN f.tables
           /\ f.tables[Place(f.tables, name)].name = name
           /\ IsTableJSON(f.tables[Place(f.tables, name)])
           /\ name \in TableNames
<1> DEFINE json == f.tables
<1>1. \A k \in DOMAIN json : IsTableJSON(json[k]) /\ k \in {json[k].name, Lower[json[k].name]}
  BY DEF IsFile
<1>2. PICK k \in DOMAIN json : json[k].name = name
  OBVIOUS
<1>3. k \in {name, Lower[name]}
  BY <1>1, <1>2
<1> HIDE DEF json
<1>4. Place(json, name) \in DOMAIN json /\ json[Place(json, name)].name = name
  <2>1. CASE \E i \in DOMAIN json : i = Lower[name] /\ json[i].name = name
    BY <2>1 DEF Place
  <2>2. CASE ~ \E i \in DOMAIN json : i = Lower[name] /\ json[i].name = name
    <3>1. k = name
      BY <1>2, <1>3, <2>2
    <3>2. Place(json, name) = name
      BY <2>2 DEF Place
    <3> QED BY <1>2, <3>1, <3>2
  <2> QED BY <2>1, <2>2
<1>5. IsTableJSON(json[Place(json, name)])
  BY <1>1, <1>4
<1>6. name \in TableNames
  BY <1>4, <1>5 DEF IsTableJSON
<1> QED BY <1>4, <1>5, <1>6 DEF json

AllLoaded(db) == /\ db = [k \in DOMAIN db |-> db[k]]
                 /\ \A k \in DOMAIN db : IsLoaded(db[k], k) /\ k \in TableNames

LEMMA LoadedTablesFit ==
    ASSUME NEW f, IsFile(f)
    PROVE  AllLoaded(LoadedTables(f.tables))
<1> DEFINE json == f.tables
           names == {json[k].name : k \in DOMAIN json}
           db == LoadedTables(json)
<1>1. db = [name \in names |-> LoadedTable(json[Place(json, name)])]
  BY DEF LoadedTables, Place
<1>2. ASSUME NEW name \in names
      PROVE  IsLoaded(LoadedTable(json[Place(json, name)]), name) /\ name \in TableNames
  BY PlaceIsThere, LoadedTableIsRecord
<1> HIDE DEF json, names, db
<1>3. AllLoaded(db)
  BY <1>1, <1>2 DEF AllLoaded
<1> QED BY <1>3 DEF db, json

AllKeys(keys) == IsList(keys) /\ \A j \in DOMAIN keys : IsKeyRecord(keys[j])

LEMMA LowerKeyIsRecord ==
    ASSUME NEW key, IsKeyJSON(key),
           Null \notin {key.columns1[i] : i \in DOMAIN key.columns1},
           Null \notin {key.columns2[i] : i \in DOMAIN key.columns2}
    PROVE  IsKeyRecord(LowerKey(key))
<1> DEFINE low == LowerKey(key)
<1>1. /\ key = [table1 |-> key.table1, columns1 |-> key.columns1,
                table2 |-> key.table2, columns2 |-> key.columns2]
      /\ key.table1 \in TableNames /\ key.table2 \in TableNames
      /\ IsList(key.columns1) /\ IsList(key.columns2)
      /\ Len(key.columns1) = Len(key.columns2)
  BY DEF IsKeyJSON
<1>2. low = [table1 |-> Lower[key.table1], columns1 |-> key.columns1,
             table2 |-> Lower[key.table2], columns2 |-> key.columns2]
  <2> DEFINE low1 == Lower[key.table1]
             low2 == Lower[key.table2]
  <2>1. low = [key EXCEPT !.table1 = low1, !.table2 = low2]
    BY DEF LowerKey
  <2> HIDE DEF low, low1, low2
  <2>2. low = [table1 |-> low1, columns1 |-> key.columns1,
               table2 |-> low2, columns2 |-> key.columns2]
    BY <1>1, <2>1
  <2> QED BY <2>2 DEF low1, low2
<1>3. /\ low = [table1 |-> low.table1, columns1 |-> low.columns1,
                table2 |-> low.table2, columns2 |-> low.columns2]
      /\ low.table1 = Lower[key.table1] /\ low.table2 = Lower[key.table2]
      /\ low.columns1 = key.columns1 /\ low.columns2 = key.columns2
  BY <1>2
<1>4. \A n \in TableNames : Lower[n] \in TableNames /\ Lower[Lower[n]] = Lower[n]
  BY CatalogueAssumption
<1> HIDE DEF low
<1>5. IsKeyJSON(low)
  BY <1>1, <1>3, <1>4 DEF IsKeyJSON
<1>6. Lower[low.table1] = low.table1 /\ Lower[low.table2] = low.table2
  BY <1>1, <1>3, <1>4
<1>7. IsKeyRecord(low)
  BY <1>3, <1>5, <1>6 DEF IsKeyRecord
<1> QED BY <1>7 DEF low

LEMMA ReadableHasNoNull ==
    ASSUME NEW key, IsList(key.columns1), IsList(key.columns2)
    PROVE  Readable(key) <=> /\ Null \notin {key.columns1[i] : i \in DOMAIN key.columns1}
                             /\ Null \notin {key.columns2[i] : i \in DOMAIN key.columns2}
<1> DEFINE s == key.columns1
           t == key.columns2
           u == s \o t
<1>1. HasBoth(u, s, t)
  BY ConcatHas
<1>2. Readable(key) <=> \A j \in DOMAIN u : u[j] # Null
  BY DEF Readable, ToSet
<1> HIDE DEF s, t, u
<1>3. (\A j \in DOMAIN u : u[j] # Null)
         <=> (\A j \in DOMAIN s : s[j] # Null) /\ (\A j \in DOMAIN t : t[j] # Null)
  BY <1>1 DEF HasBoth
<1>4. Readable(key) <=> Null \notin {s[i] : i \in DOMAIN s} /\ Null \notin {t[i] : i \in DOMAIN t}
  BY <1>2, <1>3
<1> QED BY <1>4 DEF s, t

LEMMA LoadedKeysFit ==
    ASSUME NEW json, IsList(json), \A j \in DOMAIN json : IsKeyJSON(json[j])
    PROVE  AllKeys(LoadedKeys(json))
<1> DEFINE bad == {j \in DOMAIN json : ~ Readable(json[j])}
           n == IF bad = {} THEN Len(json) ELSE Min(bad) - 1
           good == IF bad = {} THEN json ELSE SubSeq(json, 1, Min(bad) - 1)
           keys == [j \in DOMAIN good |-> LowerKey(good[j])]
<1>1. Len(json) \in Nat /\ DOMAIN json = 1..Len(json) /\ json = [j \in 1..Len(json) |-> json[j]]
  BY ListHas
<1>2. n \in Nat /\ n <= Len(json) /\ \A j \in 1..n : Readable(json[j])
  <2>1. CASE bad = {}
    BY <1>1, <2>1
  <2>2. CASE bad # {}
    <3>1. bad \subseteq Nat /\ bad \subseteq 1..Len(json)
      BY <1>1
    <3>2. \A j \in 1..Len(json) : j \notin bad => Readable(json[j])
      BY <1>1
    <3>3. n = Min(bad) - 1
      BY <2>2
    <3> HIDE DEF bad, n
    <3>4. Min(bad) \in bad /\ \A y \in bad : Min(bad) <= y
      BY <2>2, <3>1, LeastIsMin
    <3> DEFINE least == Min(bad)
    <3>5. least \in 1..Len(json) /\ \A y \in bad : least <= y
      BY <3>1, <3>4
    <3> HIDE DEF least
    <3>6. n = least - 1
      BY <3>3 DEF least
    <3>7. \A j \in 1..n : j \in 1..Len(json) /\ j \notin bad
      BY <1>1, <3>5, <3>6
    <3> QED BY <1>1, <3>2, <3>5, <3>6, <3>7
  <2> QED BY <2>1, <2>2
<1>3. good = [j \in 1..n |-> json[j]]
  <2>1. CASE bad = {}
    BY <1>1, <2>1
  <2>2. CASE bad # {}
    <3>1. n = Min(bad) - 1 /\ good = SubSeq(json, 1, Min(bad) - 1)
      BY <2>2
    <3> HIDE DEF n, good, bad
    <3>2. good = SubSeq(json, 1, n)
      BY <3>1
    <3> DEFINE T == {json[j] : j \in DOMAIN json}
    <3>3. json \in Seq(T)
      BY DEF IsList
    <3> HIDE DEF T
    <3>4. SubSeq(json, 1, n) = [j \in 1..n |-> json[j]]
      BY <1>1, <1>2, <3>3
    <3> QED BY <3>2, <3>4
  <2> QED BY <2>1, <2>2
<1>4. LoadedKeys(json) = keys
  BY DEF LoadedKeys
<1> HIDE DEF n, good
<1>5. \A j \in 1..n : j \in DOMAIN good /\ good[j] = json[j] /\ j \in DOMAIN json
  BY <1>1, <1>2, <1>3
<1>6. DOMAIN good = 1..n
  BY <1>3
<1>7. IsList(keys) /\ DOMAIN keys = 1..n
  BY <1>2, <1>6, GivenIsList
<1>8. ASSUME NEW j \in 1..n PROVE IsKeyRecord(keys[j])
  <2>1. IsKeyJSON(json[j]) /\ Readable(json[j])
    BY <1>2, <1>5
  <2>2. keys[j] = LowerKey(json[j])
    BY <1>5, <1>6
  <2>3. IsList(json[j].columns1) /\ IsList(json[j].columns2)
    BY <2>1 DEF IsKeyJSON
  <2> QED BY <2>1, <2>2, <2>3, ReadableHasNoNull, LowerKeyIsRecord
<1> HIDE DEF keys
<1>9. AllKeys(keys)
  BY <1>7, <1>8 DEF AllKeys
<1> QED BY <1>4, <1>9
-----------------------------------------------------------------------------
(* Saving.                                                                 *)

LEMMA IndexJSONFits ==
    ASSUME NEW x, IsIndexRecord(x)
    PROVE  IsIndexJSON(IndexJSON(x))
<1> DEFINE names == ColumnNames(x.columns)
           types == [j \in DOMAIN x.columns |-> TypeJSON(x.columns[j].type)]
           y == IndexJSON(x)
<1>1. DOMAIN x.columns = 1..Len(x.columns) /\ Len(x.columns) \in Nat
  BY ListHas DEF IsIndexRecord
<1>2. IsList(names) /\ Len(names) = Len(x.columns)
  BY <1>1, GivenIsList DEF ColumnNames
<1>3. IsList(types) /\ Len(types) = Len(x.columns)
  BY <1>1, GivenIsList
<1>4. y = [name |-> x.name, table |-> x.table, unique |-> x.unique,
           hash |-> x.hash, col_names |-> names, col_types |-> types]
  BY DEF IndexJSON
<1> HIDE DEF names, types, y
<1>5. IsIndexJSON(y)
  BY <1>2, <1>3, <1>4 DEF IsIndexJSON
<1> QED BY <1>5 DEF y

LEMMA TableJSONFits ==
    ASSUME NEW t, IsTableRecord(t), t.name \in TableNames
    PROVE  IsTableJSON(TableJSON(t)) /\ TableJSON(t).name = t.name
<1> DEFINE columns == [j \in DOMAIN t.columns |-> ColumnJSON(t.columns[j])]
           indexes == [j \in DOMAIN t.indexes |-> IndexJSON(t.indexes[j])]
           y == TableJSON(t)
<1>1. /\ DOMAIN t.columns = 1..Len(t.columns) /\ Len(t.columns) \in Nat
      /\ DOMAIN t.indexes = 1..Len(t.indexes) /\ Len(t.indexes) \in Nat
      /\ \A j \in DOMAIN t.indexes : IsIndexRecord(t.indexes[j])
  BY ListHas DEF IsTableRecord
<1>2. IsList(columns) /\ DOMAIN columns = DOMAIN t.columns
  BY <1>1, GivenIsList
<1>3. IsList(indexes) /\ DOMAIN indexes = DOMAIN t.indexes
  BY <1>1, GivenIsList
<1>4. \A j \in DOMAIN t.columns : IsColumnJSON(columns[j])
  BY DEF ColumnJSON, IsColumnJSON
<1>5. \A j \in DOMAIN t.indexes : indexes[j] = IndexJSON(t.indexes[j])
  OBVIOUS
<1>6. y = [name |-> t.name, columns |-> columns, indexes |-> indexes, rows |-> t.rows]
  BY DEF TableJSON, Table
<1> HIDE DEF columns, indexes, y
<1>7. \A j \in DOMAIN indexes : IsIndexJSON(indexes[j])
  BY <1>1, <1>3, <1>5, IndexJSONFits
<1>8. IsTableJSON(y) /\ y.name = t.name
  BY <1>2, <1>3, <1>4, <1>6, <1>7 DEF IsTableJSON
<1> QED BY <1>8 DEF y

LEMMA EveryOtherIsList ==
    ASSUME NEW list, IsList(list)
    PROVE  /\ IsList(EveryOther(list)) /\ Len(EveryOther(list)) = Len(list)
           /\ Len(list) = 1 => EveryOther(list) = list
<1> DEFINE e == EveryOther(list)
<1>1. DOMAIN list = 1..Len(list) /\ Len(list) \in Nat /\ list = [j \in 1..Len(list) |-> list[j]]
  BY ListHas
<1>2. e = [j \in 1..Len(list) |-> IF j % 2 = 1 THEN list[j] ELSE Null]
  BY <1>1 DEF EveryOther
<1>3. e = [j \in 1..Len(list) |-> e[j]]
  BY <1>2
<1>4. IsList(e) /\ Len(e) = Len(list)
  <2> HIDE DEF e
  <2> QED BY <1>1, <1>3, GivenIsList
<1>5. ASSUME Len(list) = 1 PROVE e = list
  <2>1. \A j \in 1..Len(list) : j = 1
    BY <1>5
  <2>2. 1 % 2 = 1
    OBVIOUS
  <2>3. \A j \in 1..Len(list) : e[j] = list[j]
    BY <1>2, <2>1, <2>2
  <2> QED BY <1>1, <1>3, <2>3
<1> QED BY <1>4, <1>5

LEMMA KeyJSONFits ==
    ASSUME NEW key, IsKeyJSON(key)
    PROVE  IsKeyJSON(KeyJSON(key)) /\ (Len(key.columns1) = 1 => KeyJSON(key) = key)
<1> DEFINE c1 == EveryOther(key.columns1)
           c2 == EveryOther(key.columns2)
           y == KeyJSON(key)
<1>1. /\ key = [table1 |-> key.table1, columns1 |-> key.columns1,
                table2 |-> key.table2, columns2 |-> key.columns2]
      /\ {key.table1, key.table2} \subseteq TableNames
      /\ IsList(key.columns1) /\ IsList(key.columns2)
      /\ Len(key.columns1) = Len(key.columns2)
  BY DEF IsKeyJSON
<1>2. /\ IsList(c1) /\ IsList(c2) /\ Len(c1) = Len(key.columns1) /\ Len(c2) = Len(key.columns2)
      /\ Len(key.columns1) = 1 => c1 = key.columns1 /\ c2 = key.columns2
  BY <1>1, EveryOtherIsList
<1>3. y = [key EXCEPT !.columns1 = c1, !.columns2 = c2]
  BY DEF KeyJSON
<1> HIDE DEF c1, c2, y
<1>4. y = [table1 |-> key.table1, columns1 |-> c1, table2 |-> key.table2, columns2 |-> c2]
  BY <1>1, <1>3
<1>5. IsKeyJSON(y)
  BY <1>1, <1>2, <1>4 DEF IsKeyJSON
<1>6. ASSUME Len(key.columns1) = 1 PROVE y = key
  BY <1>1, <1>2, <1>4, <1>6
<1> QED BY <1>5, <1>6 DEF y

LEMMA SavedIsFile ==
    ASSUME TablesInPlace, KeysInPlace
    PROVE  IsFile(Saved)
<1> DEFINE f == Saved
           ts == [k \in DOMAIN tables |-> TableJSON(tables[k])]
           ks == [j \in DOMAIN foreign_keys |-> KeyJSON(foreign_keys[j])]
<1>1. f = [tables |-> ts, keys |-> ks]
  BY DEF Saved
<1>2. \A k \in DOMAIN tables : IsTableJSON(ts[k]) /\ ts[k].name = tables[k].name
  BY TableJSONFits DEF TablesInPlace
<1>3. \A k \in DOMAIN tables : k \in {tables[k].name, Lower[tables[k].name]}
  BY DEF TablesInPlace
<1>4. DOMAIN ts = DOMAIN tables /\ ts = [k \in DOMAIN ts |-> ts[k]]
  OBVIOUS
<1>5. IsList(ks) /\ DOMAIN ks = DOMAIN foreign_keys
  <2>1. DOMAIN foreign_keys = 1..Len(foreign_keys) /\ Len(foreign_keys) \in Nat
    BY ListHas DEF KeysInPlace
  <2> QED BY <2>1, GivenIsList
<1>6. \A j \in DOMAIN foreign_keys : IsKeyJSON(foreign_keys[j])
  BY DEF KeysInPlace, IsKeyRecord
<1>7. \A j \in DOMAIN foreign_keys : IsKeyJSON(ks[j])
  BY <1>6, KeyJSONFits
<1> HIDE DEF f, ts, ks
<1>8. /\ f = [tables |-> f.tables, keys |-> f.keys] /\ f.tables = ts /\ f.keys = ks
  BY <1>1
<1>9. \A k \in DOMAIN ts : IsTableJSON(ts[k]) /\ k \in {ts[k].name, Lower[ts[k].name]}
  BY <1>2, <1>3, <1>4
<1>10. IsFile(f)
  BY <1>4, <1>5, <1>7, <1>8, <1>9 DEF IsFile
<1> QED BY <1>10 DEF f
-----------------------------------------------------------------------------
(* Statements.                                                             *)

(* Tables as a file gives them are in place.                               *)
LEMMA LoadedIsInPlace ==
    ASSUME NEW f, IsFile(f)
    PROVE  /\ AllLoaded(LoadedTables(f.tables))
           /\ AllKeys(LoadedKeys(f.keys))
<1>1. IsList(f.keys) /\ \A j \in DOMAIN f.keys : IsKeyJSON(f.keys[j])
  BY DEF IsFile
<1> QED BY <1>1, LoadedTablesFit, LoadedKeysFit

LEMMA InitInPlace ==
    ASSUME CatalogueInit
    PROVE  CatalogueInv
<1>1. IsFile(file) /\ tables = LoadedTables(file.tables) /\ foreign_keys = LoadedKeys(file.keys)
      /\ declared = {}
  BY CatalogueAssumption DEF CatalogueInit
<1>2. AllLoaded(tables) /\ AllKeys(foreign_keys)
  BY <1>1, LoadedIsInPlace
<1>3. TablesInPlace
  BY <1>2 DEF AllLoaded, IsLoaded, TablesInPlace
<1>4. KeysInPlace
  BY <1>2 DEF AllKeys, KeysInPlace
<1>5. DeclaredAreThere
  BY <1>1 DEF DeclaredAreThere
<1> QED BY <1>1, <1>3, <1>4, <1>5 DEF CatalogueInv

LEMMA RestartKeeps ==
    ASSUME CatalogueInv, Restart
    PROVE  CatalogueInv'
<1>1. /\ tables' = LoadedTables(file.tables) /\ foreign_keys' = LoadedKeys(file.keys)
      /\ declared' = {} /\ file' = file
  BY DEF Restart
<1>2. IsFile(file)
  BY DEF CatalogueInv
<1>3. AllLoaded(tables') /\ AllKeys(foreign_keys')
  BY <1>1, <1>2, LoadedIsInPlace
<1>4. TablesInPlace'
  BY <1>3 DEF AllLoaded, IsLoaded, TablesInPlace
<1>5. KeysInPlace'
  BY <1>3 DEF AllKeys, KeysInPlace
<1>6. DeclaredAreThere'
  BY <1>1 DEF DeclaredAreThere
<1> QED BY <1>1, <1>2, <1>4, <1>5, <1>6 DEF CatalogueInv

LEMMA SaveKeeps ==
    ASSUME CatalogueInv, Save
    PROVE  CatalogueInv'
<1>1. IsFile(file')
  BY SavedIsFile DEF CatalogueInv, Save
<1>2. TablesInPlace' /\ DeclaredAreThere' /\ KeysInPlace'
  BY DEF CatalogueInv, Save, TablesInPlace, DeclaredAreThere, KeysInPlace
<1> QED BY <1>1, <1>2 DEF CatalogueInv

(* A table as it is under k.                                               *)
InPlace(t, k, new) ==
    /\ IsTableRecord(t) /\ t.name \in TableNames /\ k \in {t.name, Lower[t.name]}
    /\ \A j \in DOMAIN t.indexes : \/ t.indexes[j].table = t.name
                                   \/ t.indexes[j].table = "" /\ new

(* One table changed, or made, and the rest as they were.                  *)
LEMMA OneTableChanges ==
    ASSUME CatalogueInv, NEW k, NEW t, InPlace(t, k, k \in made'),
           tables' = [i \in DOMAIN tables \cup {k} |-> IF i = k THEN t ELSE tables[i]],
           made \subseteq made',
           \A d \in declared' : \/ d[1] = k /\ HasIndex(t, d[2])
                                \/ d \in declared /\ d[1] # k,
           UNCHANGED <<foreign_keys, file>>
    PROVE  CatalogueInv'
<1>1. DOMAIN tables' = DOMAIN tables \cup {k} /\ tables' = [i \in DOMAIN tables' |-> tables'[i]]
  OBVIOUS
<1>2. ASSUME NEW i \in DOMAIN tables'
      PROVE  InPlace(tables'[i], i, i \in made')
  <2>1. CASE i = k
    BY <1>1, <2>1
  <2>2. CASE i # k
    <3>1. i \in DOMAIN tables /\ tables'[i] = tables[i]
      BY <1>1, <1>2, <2>2
    <3>2. InPlace(tables[i], i, i \in made)
      BY <3>1 DEF CatalogueInv, TablesInPlace, InPlace
    <3> QED BY <3>1, <3>2 DEF InPlace
  <2> QED BY <2>1, <2>2
<1>3. TablesInPlace'
  BY <1>1, <1>2 DEF TablesInPlace, InPlace
<1>4. DeclaredAreThere'
  <2>1. ASSUME NEW d \in declared' PROVE d[1] \in DOMAIN tables' /\ HasIndex(tables'[d[1]], d[2])
    <3>1. CASE d[1] = k /\ HasIndex(t, d[2])
      BY <1>1, <3>1
    <3>2. CASE d \in declared /\ d[1] # k
      <4>1. d[1] \in DOMAIN tables /\ HasIndex(tables[d[1]], d[2])
        BY <3>2 DEF CatalogueInv, DeclaredAreThere
      <4>2. tables'[d[1]] = tables[d[1]]
        BY <1>1, <3>2, <4>1
      <4> QED BY <1>1, <4>1, <4>2
    <3> QED BY <3>1, <3>2
  <2> QED BY <2>1 DEF DeclaredAreThere
<1>5. KeysInPlace' /\ IsFile(file')
  BY DEF CatalogueInv, KeysInPlace
<1> QED BY <1>3, <1>4, <1>5 DEF CatalogueInv

LEMMA CreateTableKeeps ==
    ASSUME CatalogueInv, NEW name \in TableNames, NEW items \in Definitions,
           CreateTable(name, items)
    PROVE  CatalogueInv'
<1> DEFINE k == Lower[name]
<1>1. foreign_keys' = foreign_keys /\ file' = file
  BY DEF CreateTable, Statement
<1>2. CASE k \in DOMAIN tables
  <2>1. UNCHANGED <<tables, declared, made>>
    BY <1>2 DEF CreateTable
  <2> QED BY <1>1, <2>1 DEF CatalogueInv, TablesInPlace, DeclaredAreThere, KeysInPlace
<1>3. CASE k \notin DOMAIN tables
  <2>1. PICK flags \in KeyFlags(items), rows \in Garbage :
           /\ tables' = [i \in DOMAIN tables \cup {k} |->
                            IF i = k THEN Defined(name, items, flags, rows) ELSE tables[i]]
           /\ declared' = declared \cup AskedFor(k, items)
           /\ made' = made \cup {k}
    BY <1>3 DEF CreateTable
  <2> DEFINE t == Defined(name, items, flags, rows)
  <2>2. IsDefined(t, name, k, items)
    BY DefinedHasWhatIsAsked
  <2> HIDE DEF t
  <2>3. InPlace(t, k, k \in made')
    BY <2>1, <2>2 DEF IsDefined, InPlace
  <2>4. ASSUME NEW d \in declared'
        PROVE  \/ d[1] = k /\ HasIndex(t, d[2])
               \/ d \in declared /\ d[1] # k
    <3>1. CASE d \in AskedFor(k, items)
      BY <2>2, <3>1 DEF IsDefined
    <3>2. CASE d \in declared
      BY <1>3, <3>2 DEF CatalogueInv, DeclaredAreThere
    <3> QED BY <2>1, <3>1, <3>2
  <2>5. /\ tables' = [i \in DOMAIN tables \cup {k} |-> IF i = k THEN t ELSE tables[i]]
        /\ made \subseteq made'
    BY <2>1 DEF t
  <2> HIDE DEF k
  <2> QED BY <1>1, <2>3, <2>4, <2>5, OneTableChanges
<1> QED BY <1>2, <1>3

(* One of the tables changed.                                              *)
LEMMA ChangedIsOne ==
    ASSUME TablesInPlace, NEW k \in DOMAIN tables, NEW t, tables' = [tables EXCEPT ![k] = t]
    PROVE  tables' = [i \in DOMAIN tables \cup {k} |-> IF i = k THEN t ELSE tables[i]]
<1>1. DOMAIN tables \cup {k} = DOMAIN tables
  OBVIOUS
<1>2. tables = [i \in DOMAIN tables |-> tables[i]]
  BY DEF TablesInPlace
<1> QED BY <1>1, <1>2

LEMMA NewIndexKeeps ==
    ASSUME CatalogueInv, NEW name \in TableNames, NEW x, IsIndexRecord(x), NewIndex(name, x)
    PROVE  CatalogueInv'
<1> DEFINE k == Lower[name]
           old == tables[k]
           t == AddIndex(old, x)
<1>1. k \in DOMAIN tables
  BY DEF NewIndex, GetTable
<1>2. /\ tables' = [tables EXCEPT ![k] = t]
      /\ declared' = declared \cup {<<k, ColumnNames(x.columns)>>}
      /\ foreign_keys' = foreign_keys /\ file' = file /\ made' = made
  BY DEF NewIndex, Statement
<1>3. InPlace(old, k, k \in made)
  BY <1>1 DEF CatalogueInv, TablesInPlace, InPlace
<1> HIDE DEF k, old
<1>4. /\ IsTableRecord(t) /\ t.name = old.name
      /\ \A j \in DOMAIN t.indexes : \/ t.indexes[j].table = old.name
                                     \/ j \in DOMAIN old.indexes /\ t.indexes[j] = old.indexes[j]
      /\ HasIndex(t, ColumnNames(x.columns))
      /\ \A list : HasIndex(old, list) => HasIndex(t, list)
  BY <1>3, AddIndexIsRecord DEF InPlace
<1> HIDE DEF t
<1>5. InPlace(t, k, k \in made')
  BY <1>2, <1>3, <1>4 DEF InPlace
<1>6. ASSUME NEW d \in declared'
      PROVE  \/ d[1] = k /\ HasIndex(t, d[2])
             \/ d \in declared /\ d[1] # k
  <2>1. CASE d = <<k, ColumnNames(x.columns)>>
    BY <1>4, <2>1
  <2>2. CASE d \in declared
    BY <1>4, <2>2 DEF CatalogueInv, DeclaredAreThere, old
  <2> QED BY <1>2, <2>1, <2>2
<1>7. tables' = [i \in DOMAIN tables \cup {k} |-> IF i = k THEN t ELSE tables[i]]
  BY <1>1, <1>2, ChangedIsOne DEF CatalogueInv
<1> QED BY <1>2, <1>5, <1>6, <1>7, OneTableChanges

LEMMA InsertKeeps ==
    ASSUME CatalogueInv, NEW name \in TableNames, Insert(name)
    PROVE  CatalogueInv'
<1> DEFINE k == Lower[name]
           old == tables[k]
           t == [old EXCEPT !.rows = @ + 1]
<1>1. k \in DOMAIN tables
  BY DEF Insert, GetTable
<1>2. /\ tables' = [tables EXCEPT ![k] = t]
      /\ declared' = declared /\ foreign_keys' = foreign_keys /\ file' = file /\ made' = made
  BY DEF Insert, Statement
<1>3. InPlace(old, k, k \in made)
  BY <1>1 DEF CatalogueInv, TablesInPlace, InPlace
<1> HIDE DEF k
<1>4. /\ IsTableRecord(t) /\ t.name = old.name /\ t.indexes = old.indexes
  <2> HIDE DEF old
  <2>1. old = [name |-> old.name, columns |-> old.columns, indexes |-> old.indexes,
               rows |-> old.rows]
    BY <1>3 DEF InPlace, IsTableRecord
  <2>2. t = [name |-> old.name, columns |-> old.columns, indexes |-> old.indexes,
             rows |-> old.rows + 1]
    BY <2>1
  <2>3. /\ t = [name |-> t.name, columns |-> t.columns, indexes |-> t.indexes, rows |-> t.rows]
        /\ t.name = old.name /\ t.columns = old.columns /\ t.indexes = old.indexes
    BY <2>2
  <2> HIDE DEF t
  <2> QED BY <1>3, <2>3 DEF InPlace, IsTableRecord
<1> HIDE DEF t, old
<1>5. InPlace(t, k, k \in made')
  BY <1>2, <1>3, <1>4 DEF InPlace
<1>6. ASSUME NEW d \in declared'
      PROVE  \/ d[1] = k /\ HasIndex(t, d[2])
             \/ d \in declared /\ d[1] # k
  BY <1>2, <1>4, <1>6 DEF CatalogueInv, DeclaredAreThere, HasIndex, old
<1>7. tables' = [i \in DOMAIN tables \cup {k} |-> IF i = k THEN t ELSE tables[i]]
  BY <1>1, <1>2, ChangedIsOne DEF CatalogueInv
<1> QED BY <1>2, <1>5, <1>6, <1>7, OneTableChanges

LEMMA AlterAddForeignKeyKeeps ==
    ASSUME CatalogueInv, NEW n \in TableNames, NEW m \in TableNames,
           NEW l1 \in ColumnLists, NEW l2 \in ColumnLists, Len(l1) = Len(l2),
           AlterAddForeignKey(n, l1, m, l2)
    PROVE  CatalogueInv'
<1> DEFINE key == ForeignKey(n, l1, m, l2)
           low == LowerKey(key)
<1>1. /\ foreign_keys' = Append(foreign_keys, low)
      /\ UNCHANGED <<tables, declared, made, file>>
  BY DEF AlterAddForeignKey, Statement
<1>2. /\ IsList(l1) /\ IsList(l2)
      /\ Null \notin {l1[i] : i \in DOMAIN l1} /\ Null \notin {l2[i] : i \in DOMAIN l2}
  BY CatalogueAssumption
<1>3. key = [table1 |-> n, columns1 |-> l1, table2 |-> m, columns2 |-> l2]
  BY DEF ForeignKey
<1> HIDE DEF key
<1>4. IsKeyJSON(key) /\ key.columns1 = l1 /\ key.columns2 = l2
  BY <1>2, <1>3 DEF IsKeyJSON
<1>5. IsKeyRecord(low)
  BY <1>2, <1>4, LowerKeyIsRecord
<1> HIDE DEF low
<1>6. /\ IsList(foreign_keys) /\ Len(foreign_keys) \in Nat
      /\ DOMAIN foreign_keys = 1..Len(foreign_keys)
      /\ \A j \in DOMAIN foreign_keys : IsKeyRecord(foreign_keys[j])
  BY ListHas DEF CatalogueInv, KeysInPlace
<1>7. /\ IsList(foreign_keys') /\ DOMAIN foreign_keys' = 1..(Len(foreign_keys) + 1)
      /\ \A j \in 1..Len(foreign_keys) : foreign_keys'[j] = foreign_keys[j]
      /\ foreign_keys'[Len(foreign_keys) + 1] = low
  BY <1>1, <1>6, ListAppend
<1>8. 1..(Len(foreign_keys) + 1) = 1..Len(foreign_keys) \cup {Len(foreign_keys) + 1}
  BY <1>6
<1>9. KeysInPlace'
  BY <1>5, <1>6, <1>7, <1>8 DEF KeysInPlace
<1>10. TablesInPlace' /\ DeclaredAreThere' /\ IsFile(file')
  BY <1>1 DEF CatalogueInv, TablesInPlace, DeclaredAreThere
<1> QED BY <1>9, <1>10 DEF CatalogueInv

LEMMA CatalogueInvKeeps ==
    ASSUME CatalogueInv, [Next]_<<catalogueVars, topoVars>>
    PROVE  CatalogueInv'
<1>1. CASE UNCHANGED catalogueVars
  BY <1>1 DEF catalogueVars, CatalogueInv, TablesInPlace, DeclaredAreThere, KeysInPlace
<1>2. CASE NoSuchTable
  BY <1>2 DEF NoSuchTable, Statement, CatalogueInv, TablesInPlace, DeclaredAreThere, KeysInPlace
<1>3. ASSUME NEW n \in TableNames, NEW d \in Definitions, CreateTable(n, d) PROVE CatalogueInv'
  BY <1>3, CreateTableKeeps
<1>4. ASSUME NEW n \in TableNames, NEW l \in ColumnLists, CreateIndex(n, l) PROVE CatalogueInv'
  <2>1. PICK unique \in BOOLEAN, columns \in Orders(l) : NewIndex(n, Index("named", unique, columns))
    BY <1>4 DEF CreateIndex
  <2>2. IsList(l)
    BY CatalogueAssumption
  <2>3. Columns(columns)
    BY <2>2, OrdersAreColumns DEF Orders
  <2> QED BY <2>1, <2>3, NewIndexIsRecord, NewIndexKeeps
<1>5. ASSUME NEW n \in TableNames, NEW l \in ColumnLists, AlterAddKey(n, l) PROVE CatalogueInv'
  <2>1. IsList(l)
    BY CatalogueAssumption
  <2>2. Columns(Asc(l))
    BY <2>1, AscAreColumns
  <2> QED BY <1>5, <2>2, NewIndexIsRecord, NewIndexKeeps DEF AlterAddKey
<1>6. ASSUME NEW n \in TableNames, NEW m \in TableNames, NEW l1 \in ColumnLists,
             NEW l2 \in ColumnLists, Len(l1) = Len(l2), AlterAddForeignKey(n, l1, m, l2)
      PROVE  CatalogueInv'
  BY <1>6, AlterAddForeignKeyKeeps
<1>7. ASSUME NEW n \in TableNames, Insert(n) PROVE CatalogueInv'
  BY <1>7, InsertKeeps
<1>8. CASE Save
  BY <1>8, SaveKeeps
<1>9. CASE Restart
  BY <1>9, RestartKeeps
<1>10. CASE CatalogueNext
  BY <1>2, <1>3, <1>4, <1>5, <1>6, <1>7, <1>8, <1>9, <1>10 DEF CatalogueNext
<1> QED BY <1>1, <1>10 DEF Next
-----------------------------------------------------------------------------
(* What the invariant is for.                                              *)

LEMMA KnowTheirTable ==
    ASSUME CatalogueInv
    PROVE  IndexesKnowTheirTable
<1> SUFFICES ASSUME NEW k \in DOMAIN tables, NEW j \in DOMAIN tables[k].indexes
             PROVE  \/ tables[k].indexes[j].table = "" /\ k \in made
                    \/ Lower[k] # k
                    \/ /\ tables[k].indexes[j].table # ""
                       /\ GetTable(tables[k].indexes[j].table) = tables[k]
  BY DEF IndexesKnowTheirTable
<1> DEFINE name == tables[k].name
           of   == tables[k].indexes[j].table
<1>1. /\ name \in TableNames /\ k \in {name, Lower[name]}
      /\ of = name \/ (of = "" /\ k \in made)
  BY DEF CatalogueInv, TablesInPlace
<1>2. CASE of = name /\ Lower[k] = k
  <2>1. Lower[name] = k
    BY <1>1, <1>2
  <2>2. name # ""
    BY <1>1, CatalogueAssumption
  <2>3. GetTable(name) = tables[k]
    BY <2>1 DEF GetTable
  <2> QED BY <1>2, <2>2, <2>3
<1> QED BY <1>1, <1>2

LEMMA AreFound ==
    ASSUME CatalogueInv
    PROVE  IndexesAreFound
<1> SUFFICES ASSUME NEW k \in DOMAIN tables, NEW l \in ColumnLists
             PROVE  /\ <<k, l>> \in declared => IndexByCol(tables[k], l) # {}
                    /\ IsIndex(tables[k], l) <=> IndexByCol(tables[k], l) # {}
  BY DEF IndexesAreFound
<1>1. HasIndex(tables[k], l) <=> IndexByCol(tables[k], l) # {}
  BY DEF HasIndex, IndexByCol
<1>2. ASSUME <<k, l>> \in declared PROVE HasIndex(tables[k], l)
  BY <1>2 DEF CatalogueInv, DeclaredAreThere
<1>3. IsIndex(tables[k], l) <=> HasIndex(tables[k], l)
  <2>1. \A j \in DOMAIN tables[k].indexes :
           tables[k].indexes[j].hash = HashOf(ColumnNames(tables[k].indexes[j].columns))
    <3>1. \A j \in DOMAIN tables[k].indexes : IsIndexRecord(tables[k].indexes[j])
      BY DEF CatalogueInv, TablesInPlace, IsTableRecord
    <3> QED BY <3>1 DEF IsIndexRecord
  <2> QED BY <2>1 DEF IsIndex, HasIndex
<1> QED BY <1>1, <1>2, <1>3

(* A table that is written and read has the same columns, rows and, up to  *)
(* their names, indexes.                                                   *)
LEMMA ReadAsWritten ==
    ASSUME NEW x, IsIndexRecord(x)
    PROVE  LoadedIndex(IndexJSON(x)).columns = x.columns /\ LoadedIndex(IndexJSON(x)).unique = x.unique
<1> DEFINE json == IndexJSON(x)
           columns == [j \in DOMAIN json.col_names |->
                          [name |-> json.col_names[j],
                           type |-> IF json.col_types[j] = 1 THEN "ASC_ORDER" ELSE "DESC_ORDER"]]
<1>1. /\ IsList(x.columns)
      /\ \A i \in DOMAIN x.columns :
            /\ x.columns[i] = [name |-> x.columns[i].name, type |-> x.columns[i].type]
            /\ x.columns[i].type \in {"ASC_ORDER", "DESC_ORDER"}
  BY DEF IsIndexRecord
<1>2. /\ json.unique = x.unique /\ json.name = x.name /\ json.table = x.table
      /\ json.col_names = ColumnNames(x.columns)
      /\ json.col_types = [j \in DOMAIN x.columns |-> TypeJSON(x.columns[j].type)]
  BY DEF IndexJSON
<1> HIDE DEF json
<1>3. DOMAIN columns = DOMAIN x.columns
  BY <1>2 DEF ColumnNames
<1>4. ASSUME NEW j \in DOMAIN x.columns PROVE columns[j] = x.columns[j]
  <2>1. json.col_names[j] = x.columns[j].name /\ json.col_types[j] = TypeJSON(x.columns[j].type)
    BY <1>2 DEF ColumnNames
  <2>2. (IF json.col_types[j] = 1 THEN "ASC_ORDER" ELSE "DESC_ORDER") = x.columns[j].type
    <3> DEFINE type == x.columns[j].type
    <3>1. type \in {"ASC_ORDER", "DESC_ORDER"}
      BY <1>1
    <3> HIDE DEF type
    <3>2. CASE type = "ASC_ORDER"
      <4>1. TypeJSON(type) = 1
        BY <3>2 DEF TypeJSON
      <4> QED BY <2>1, <3>2, <4>1 DEF type
    <3>3. CASE type = "DESC_ORDER"
      <4>1. TypeJSON(type) = 2
        BY <3>3 DEF TypeJSON
      <4>2. json.col_types[j] # 1
        BY <2>1, <4>1 DEF type
      <4> QED BY <3>3, <4>2 DEF type
    <3> QED BY <3>1, <3>2, <3>3
  <2>3. columns[j] = [name |-> json.col_names[j],
                      type |-> IF json.col_types[j] = 1 THEN "ASC_ORDER" ELSE "DESC_ORDER"]
    BY <1>3
  <2> HIDE DEF columns
  <2> QED BY <1>1, <2>1, <2>2, <2>3
<1>5. x.columns = [j \in DOMAIN x.columns |-> x.columns[j]]
  BY <1>1, ListHas
<1>6. columns = [j \in DOMAIN columns |-> columns[j]]
  OBVIOUS
<1>7. LoadedIndex(json) = SetTable(Index(json.name, json.unique, columns), json.table)
  BY DEF LoadedIndex
<1> HIDE DEF columns
<1>8. columns = x.columns
  BY <1>3, <1>4, <1>5, <1>6
<1>9. Columns(columns)
  BY <1>1, <1>8 DEF Columns
<1>10. LoadedIndex(json).columns = columns /\ LoadedIndex(json).unique = json.unique
  BY <1>7, <1>9, NewIndexIsRecord, SetTableIsRecord
<1> QED BY <1>2, <1>8, <1>10 DEF json

LEMMA AnswersAsWritten ==
    ASSUME NEW t, IsTableRecord(t), t.name \in TableNames
    PROVE  Answers(LoadedTable(TableJSON(t))) = Answers(t)
<1> DEFINE json == TableJSON(t)
           u == LoadedTable(json)
           loaded == LoadedIndexes(json.indexes)
           Asked(x) == [columns |-> x.columns, unique |-> x.unique]
<1>1. /\ json.name = t.name /\ json.rows = t.rows
      /\ json.columns = [j \in DOMAIN t.columns |-> ColumnJSON(t.columns[j])]
      /\ json.indexes = [j \in DOMAIN t.indexes |-> IndexJSON(t.indexes[j])]
  BY DEF TableJSON, Table
<1>2. /\ IsList(t.columns) /\ IsList(t.indexes)
      /\ \A j \in DOMAIN t.columns :
            t.columns[j] = [name |-> t.columns[j].name, key |-> t.columns[j].key]
      /\ \A j \in DOMAIN t.indexes : IsIndexRecord(t.indexes[j])
  BY DEF IsTableRecord
<1> HIDE DEF json
<1>3. /\ u.name = json.name /\ u.rows = json.rows /\ u.columns = LoadedColumns(json.columns)
      /\ u.indexes = [j \in DOMAIN loaded |-> SetTable(loaded[j], json.name)]
  BY DEF LoadedTable, Table
<1>4. u.columns = t.columns
  <2>1. LoadedColumns(json.columns) =
           [j \in DOMAIN t.columns |-> LoadedColumn(ColumnJSON(t.columns[j]))]
    BY <1>1 DEF LoadedColumns
  <2>2. \A j \in DOMAIN t.columns : LoadedColumn(ColumnJSON(t.columns[j])) = t.columns[j]
    BY <1>2 DEF LoadedColumn, ColumnJSON, Column
  <2>3. t.columns = [j \in DOMAIN t.columns |-> t.columns[j]]
    BY <1>2, ListHas
  <2> HIDE DEF u
  <2> QED BY <1>3, <2>1, <2>2, <2>3
<1>5. loaded = [j \in DOMAIN t.indexes |-> LoadedIndex(IndexJSON(t.indexes[j]))]
  BY <1>1 DEF LoadedIndexes
<1> HIDE DEF u, loaded
<1>6. DOMAIN u.indexes = DOMAIN t.indexes
  BY <1>3, <1>5
<1>7. ASSUME NEW j \in DOMAIN t.indexes
      PROVE  u.indexes[j].columns = t.indexes[j].columns /\ u.indexes[j].unique = t.indexes[j].unique
  <2> DEFINE x == t.indexes[j]
             y == LoadedIndex(IndexJSON(x))
  <2>1. u.indexes[j] = SetTable(y, json.name)
    BY <1>3, <1>5
  <2>2. IsIndexRecord(x)
    BY <1>2
  <2> HIDE DEF x
  <2>3. IsIndexRecord(y) /\ y.columns = x.columns /\ y.unique = x.unique
    BY <2>2, ReadAsWritten, IndexJSONFits, LoadedIndexIsRecord
  <2> HIDE DEF y
  <2> QED BY <2>1, <2>3, SetTableIsRecord DEF x
<1>8. [j \in DOMAIN u.indexes |-> Asked(u.indexes[j])] = [j \in DOMAIN t.indexes |-> Asked(t.indexes[j])]
  BY <1>6, <1>7
<1>9. u # NoTable /\ t # NoTable
  <2>1. u.name = t.name /\ t.name # "" /\ NoTable.name = ""
    BY <1>1, <1>3, CatalogueAssumption DEF NoTable
  <2> QED BY <2>1
<1>10. Answers(u) = Answers(t)
  BY <1>1, <1>3, <1>4, <1>8, <1>9 DEF Answers
<1> QED BY <1>10 DEF u, json

LEMMA TablesSurvive ==
    ASSUME CatalogueInv, NEW k \in DOMAIN tables \cap Keys
    PROVE  Answers(WhenLoaded(k)) = IF tables[k].name = k THEN Answers(GetTable(k)) ELSE NoTable
<1> DEFINE f == Saved
           db == LoadedTables(f.tables)
           names == {f.tables[i].name : i \in DOMAIN f.tables}
<1>1. Lower[k] = k
  BY CatalogueAssumption DEF Keys
<1>2. GetTable(k) = tables[k] /\ WhenLoaded(k) = IF k \in DOMAIN db THEN db[k] ELSE NoTable
  BY <1>1 DEF GetTable, WhenLoaded
<1>3. /\ DOMAIN f.tables = DOMAIN tables
      /\ \A i \in DOMAIN tables : f.tables[i] = TableJSON(tables[i]) /\ f.tables[i].name = tables[i].name
  BY TableJSONFits DEF CatalogueInv, TablesInPlace, Saved
<1>4. db = [name \in names |-> LoadedTable(f.tables[Place(f.tables, name)])]
  BY DEF LoadedTables, Place
<1>5. \A i \in DOMAIN tables : i \in {tables[i].name, Lower[tables[i].name]}
  BY DEF CatalogueInv, TablesInPlace
<1> HIDE DEF f, db
<1>6. CASE tables[k].name = k
  <2>1. k \in names
    BY <1>3, <1>6
  <2>2. Place(f.tables, k) = k
    BY <1>1 DEF Place
  <2>3. WhenLoaded(k) = LoadedTable(TableJSON(tables[k]))
    BY <1>2, <1>3, <1>4, <2>1, <2>2
  <2>4. Answers(WhenLoaded(k)) = Answers(tables[k])
    BY <2>3, AnswersAsWritten DEF CatalogueInv, TablesInPlace
  <2> QED BY <1>2, <1>6, <2>4
<1>7. CASE tables[k].name # k
  <2>1. k \notin names
    <3> SUFFICES ASSUME NEW i \in DOMAIN tables, tables[i].name = k PROVE FALSE
      BY <1>3
    <3>1. i = k
      BY <1>1, <1>5
    <3> QED BY <1>7, <3>1
  <2>2. WhenLoaded(k) = NoTable
    BY <1>2, <1>4, <2>1
  <2> QED BY <1>7, <2>2 DEF Answers
<1> QED BY <1>6, <1>7

(* Keys of one column are written and read as they are.                    *)
LEMMA KeysSurvive ==
    ASSUME CatalogueInv, \A j \in DOMAIN foreign_keys : Len(foreign_keys[j].columns1) = 1
    PROVE  LoadedKeys(Saved.keys) = foreign_keys
<1> DEFINE ks == Saved.keys
           bad == {j \in DOMAIN ks : ~ Readable(ks[j])}
<1>1. /\ IsList(foreign_keys)
      /\ \A j \in DOMAIN foreign_keys : IsKeyRecord(foreign_keys[j])
  BY DEF CatalogueInv, KeysInPlace
<1>2. foreign_keys = [j \in DOMAIN foreign_keys |-> foreign_keys[j]]
  BY <1>1, ListHas
<1>3. ks = [j \in DOMAIN foreign_keys |-> KeyJSON(foreign_keys[j])]
  BY DEF Saved
<1>4. \A j \in DOMAIN foreign_keys : KeyJSON(foreign_keys[j]) = foreign_keys[j]
  BY <1>1, KeyJSONFits DEF IsKeyRecord
<1>5. ks = foreign_keys
  BY <1>2, <1>3, <1>4
<1> HIDE DEF ks
<1>6. ASSUME NEW j \in DOMAIN foreign_keys
      PROVE  Readable(foreign_keys[j]) /\ LowerKey(foreign_keys[j]) = foreign_keys[j]
  <2> DEFINE key == foreign_keys[j]
  <2>1. IsKeyRecord(key)
    BY <1>1
  <2> HIDE DEF key
  <2>2. Readable(key)
    BY <2>1, ReadableHasNoNull DEF IsKeyRecord, IsKeyJSON
  <2>3. /\ key = [table1 |-> key.table1, columns1 |-> key.columns1,
                  table2 |-> key.table2, columns2 |-> key.columns2]
        /\ Lower[key.table1] = key.table1 /\ Lower[key.table2] = key.table2
    BY <2>1 DEF IsKeyRecord, IsKeyJSON
  <2>4. LowerKey(key) = key
    BY <2>3 DEF LowerKey
  <2> QED BY <2>2, <2>4 DEF key
<1>7. bad = {}
  BY <1>5, <1>6
<1>8. LoadedKeys(ks) = [j \in DOMAIN ks |-> LowerKey(ks[j])]
  BY <1>7 DEF LoadedKeys
<1>9. LoadedKeys(ks) = foreign_keys
  BY <1>2, <1>5, <1>6, <1>8
<1> QED BY <1>9 DEF ks

LEMMA Survives ==
    ASSUME CatalogueInv
    PROVE  SurvivesRestart
  BY TablesSurvive, KeysSurvive DEF SurvivesRestart

LEMMA CatalogueIsInPlace == Spec => []CatalogueInv
<1>1. Init => CatalogueInv
  BY InitInPlace DEF Init
<1>2. CatalogueInv /\ [Next]_<<catalogueVars, topoVars>> => CatalogueInv'
  BY CatalogueInvKeeps
<1> QED BY <1>1, <1>2, PTL DEF Spec

(* A catalogue that is saved and loaded answers as before: tables whose    *)
(* own name is in lower case are the same, the others are lost, and so are *)
(* the foreign keys as long as they are of one column.                     *)
THEOREM SavedAnswersAsBefore == Spec => []SurvivesRestart
<1>1. CatalogueInv => SurvivesRestart
  BY Survives
<1> QED BY <1>1, CatalogueIsInPlace, PTL

(* An index leads back to its table by the table's name, unless it came    *)
(* with a CREATE TABLE of this run or its table cannot be found by name.   *)
THEOREM IndexesLeadHome == Spec => []IndexesKnowTheirTable
<1>1. CatalogueInv => IndexesKnowTheirTable
  BY KnowTheirTable
<1> QED BY <1>1, CatalogueIsInPlace, PTL

(* An index that a statement asked for is found by its columns, and both   *)
(* lookups, by hash and by name, agree.                                    *)
THEOREM DeclaredIndexesFound == Spec => []IndexesAreFound
<1>1. CatalogueInv => IndexesAreFound
  BY AreFound
<1> QED BY <1>1, CatalogueIsInPlace, PTL
=============================================================================
