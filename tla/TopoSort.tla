------------------------------- MODULE TopoSort -----------------------------
(***************************************************************************)
(* The order in which TopoSort nests tables into joins, over a catalogue.  *)
(* The planner constructs a TopoSort and calls nothing of it; the calls    *)
(* here are those its interface allows: nodes and links in any order, the  *)
(* links that foreign keys give for an area, then performTopoSort.         *)
(***************************************************************************)
EXTENDS Catalogue

CONSTANTS Queries,    (* FROM lists and areas *)
          NameOrder,  (* the tables in the order of their names *)
          MaxCalls    (* of addNode and addLink *)

Names == ToSet(NameOrder)

ASSUME TopoSortAssumption ==
    /\ IsList(NameOrder) /\ \A j, m \in DOMAIN NameOrder : NameOrder[j] = NameOrder[m] => j = m
    /\ MaxCalls \in Nat
    /\ \A q \in Queries :
          /\ q = [from |-> q.from, area |-> q.area]
          /\ IsList(q.from) /\ \A j \in DOMAIN q.from : q.from[j].real \in Names
          /\ IsList(q.area)
          /\ \A e \in DOMAIN q.area :
                /\ IsList(q.area[e])
                /\ \A v \in DOMAIN q.area[e] :
                      /\ q.area[e][v] = [table |-> q.area[e][v].table, name |-> q.area[e][v].name]
                      /\ q.area[e][v].table \in
                            {""} \cup Names \cup {q.from[j].name : j \in DOMAIN q.from}

VARIABLES tpc,       (* "statements", "collecting", "sorting", "returned", "crashed" *)
          query,     (* the query, its columns resolved *)
          M,         (* nodes *)
          RM,        (* links to a node, for the nodes that have a row *)
          foreigns,  (* links by foreign keys *)
          visited,
          parent,    (* the nested joins, innermost first *)
          calls

topoVars == <<tpc, query, M, RM, foreigns, visited, parent, calls>>

Link == {"NESTED_LOOP", "HASH_JOIN", "MERGE_JOIN"}

TopoInit == /\ tpc = "statements"
            /\ query = Null
            /\ M = {}
            /\ RM = [n \in {} |-> <<>>]
            /\ foreigns = {}
            /\ visited = {}
            /\ parent = <<>>
            /\ calls = 0
-----------------------------------------------------------------------------
(* The query's columns get their tables, as Select's constructor does it;  *)
(* one that has none, or a table nobody knows, ends the program.           *)
Variables(q) == UNION {ToSet(q.area[e]) : e \in DOMAIN q.area}

Resolved(q) ==
    [q EXCEPT !.area = [e \in DOMAIN q.area |-> [v \in DOMAIN q.area[e] |->
        [q.area[e][v] EXCEPT !.table = TableOf(q.area[e][v], q.from)]]]]

Construct(q) ==
    /\ tpc = "statements"
    /\ up
    /\ IF \A v \in Variables(q) : CanResolve(v, q.from)
       THEN tpc' = "collecting" /\ query' = Resolved(q)
       ELSE tpc' = "crashed" /\ query' = q
    /\ UNCHANGED <<M, RM, foreigns, visited, parent, calls>>

Call == /\ tpc = "collecting"
        /\ calls < MaxCalls
        /\ calls' = calls + 1
        /\ UNCHANGED <<tpc, query, visited, parent>>

Rows(nodes) == [n \in DOMAIN RM \cup nodes |-> IF n \in DOMAIN RM THEN RM[n] ELSE <<>>]

(* The row of incoming links is made the second time only. *)
AddNode(t) == /\ Call
              /\ M' = M \cup {t}
              /\ RM' = IF t \in M THEN Rows({t}) ELSE RM
              /\ UNCHANGED foreigns

AddLink(t1, t2, link) ==
    /\ Call
    /\ M' = M \cup {t1, t2}
    /\ RM' = [Rows({t1, t2}) EXCEPT ![t2] = Append(@, [from |-> t1, link |-> link])]
    /\ UNCHANGED foreigns

(* The comparisons t1.x = t2.y of the area, as two lists of columns. *)
Pairs(t1, t2) == SelectSeq(query.area, LAMBDA e : /\ Len(e) = 2
                                                  /\ e[1].table = t1 /\ e[2].table = t2)

KeyLink(t1, t2) ==
    LET pairs == Pairs(t1, t2)
        col1 == [p \in DOMAIN pairs |-> pairs[p][1].name]
        col2 == [p \in DOMAIN pairs |-> pairs[p][2].name]
    IN CASE IsForeignKey(foreign_keys, t1, col1, t2, col2) -> {<<t1, t2>>}
         [] ~ IsForeignKey(foreign_keys, t1, col1, t2, col2)
            /\ IsForeignKey(foreign_keys, t2, col2, t1, col1) -> {<<t2, t1>>}
         [] OTHER -> {}

AreaTables == {v.table : v \in Variables(query)}

(* addLink makes rows for both tables of a foreign key and then returns:   *)
(* its link is kept where nobody looks.  The second variable of a          *)
(* comparison is read before anybody asks whether there is one.            *)
SetUpForeign ==
    /\ tpc = "collecting"
    /\ LET links == UNION {KeyLink(p[1], p[2]) :
                             p \in {p \in AreaTables \X AreaTables : p[1] # p[2]}}
           both == UNION {{l[1], l[2]} : l \in links}
       IN  /\ M' = M \cup both
           /\ RM' = Rows(both)
           /\ foreigns' = foreigns \cup links
    /\ \/ tpc' = "sorting"
       \/ /\ Cardinality(AreaTables) > 1
          /\ \E e \in DOMAIN query.area : Len(query.area[e]) < 2
          /\ tpc' = "crashed"
    /\ UNCHANGED <<query, visited, parent, calls>>
-----------------------------------------------------------------------------
(* performTopoSort.                                                        *)

Unvisited == M \ visited

LinksTo(n) == IF n \in DOMAIN RM THEN ToSet(RM[n]) ELSE {}

(* Mutant: one visited predecessor is enough. *)
SomeVisited(n) == LinksTo(n) = {} \/ \E l \in LinksTo(n) : l.from \in visited

AllVisited(n) == \A l \in LinksTo(n) : l.from \in visited

Possible == {n \in Unvisited : AllVisited(n)}

InOrder(nodes) ==
    LET upto[n \in 0..Len(NameOrder)] ==
            IF n = 0 THEN <<>>
            ELSE IF NameOrder[n] \in nodes THEN Append(upto[n - 1], NameOrder[n])
            ELSE upto[n - 1]
    IN  upto[Len(NameOrder)]

(* The links to the node are looked through until one is not of a merge    *)
(* join.  That a link is by a foreign key is never seen.                   *)
JoinFor(n) ==
    LET telling == SelectSeq(RM[n], LAMBDA l : l.link # "MERGE_JOIN")
    IN  IF telling # <<>> /\ telling[1].link = "HASH_JOIN" THEN "HashJoin" ELSE "NestedJoin"

Turn == /\ tpc = "sorting"
        /\ Possible # {}
        /\ LET selected_node == InOrder(Possible)[1]
           IN  /\ visited' = visited \cup {selected_node}
               /\ IF selected_node \in DOMAIN RM
                  THEN /\ parent' = Append(parent, [node |-> selected_node,
                                                    op |-> JoinFor(selected_node)])
                       /\ UNCHANGED tpc
                  ELSE (* its row is followed and there is none *)
                       tpc' = "crashed" /\ UNCHANGED parent
        /\ UNCHANGED <<query, M, RM, foreigns, calls>>

(* Every node left waits for another one: they are nested as they come. *)
Left == Unvisited

Mess == /\ tpc = "sorting"
        /\ Possible = {} /\ Unvisited # {}
        /\ parent' = parent \o [j \in DOMAIN InOrder(Left) |->
                                   [node |-> InOrder(Left)[j], op |-> "NestedJoin"]]
        /\ tpc' = "returned"
        /\ UNCHANGED <<query, M, RM, foreigns, visited, calls>>

Return == /\ tpc = "sorting"
          /\ Unvisited = {}
          /\ tpc' = "returned"
          /\ UNCHANGED <<query, M, RM, foreigns, visited, parent, calls>>

Collect(q) == LET names == {q.from[j].real : j \in DOMAIN q.from}
              IN  \/ \E t \in names : AddNode(t)
                  \/ \E t1, t2 \in names, link \in Link : AddLink(t1, t2, link)

PerformTopoSort == Turn \/ Mess \/ Return
-----------------------------------------------------------------------------
Init == CatalogueInit /\ TopoInit

(* Statements come before queries are planned, and to bound the run a      *)
(* query is planned only over the catalogue the program has loaded.        *)
Next == \/ tpc = "statements" /\ CatalogueNext /\ UNCHANGED topoVars
        \/ /\ done = 0 /\ restarts = 0
           /\ \/ \E q \in Queries : Construct(q)
              \/ tpc = "collecting" /\ Collect(query)
              \/ SetUpForeign
              \/ PerformTopoSort
           /\ UNCHANGED catalogueVars

Spec == Init /\ [][Next]_<<catalogueVars, topoVars>>
-----------------------------------------------------------------------------
(* On a cycle of links or behind one, as there are finitely many nodes:    *)
(* among nodes that each have a link from another of them.                 *)
BehindCycle(n) == \E nodes \in SUBSET M :
                      n \in nodes /\ \A m \in nodes : \E l \in LinksTo(m) : l.from \in nodes

Position(n) == CHOOSE j \in DOMAIN parent : parent[j].node = n

(* Whatever the links, and whether they make cycles or not, what is        *)
(* returned nests every table once, and after all the tables it has links  *)
(* from, unless it is on a cycle of links or behind one (toposort.cpp      *)
(* 102-186).                                                               *)
NestedInOrder ==
    tpc = "returned" =>
       /\ {parent[j].node : j \in DOMAIN parent} = M
       /\ Len(parent) = Cardinality(M)
       /\ \A n \in M : \A l \in LinksTo(n) :
             Position(l.from) < Position(n) \/ BehindCycle(n)
=============================================================================
