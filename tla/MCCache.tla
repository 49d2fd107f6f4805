------------------------------- MODULE MCCache ------------------------------
(***************************************************************************)
(* A small schema for Cache.  One table does not fit into the cache, one   *)
(* is so small that a Scale-th of it is nothing, and two indexes have the  *)
(* same hash and different sizes.  Sums beyond 16 are rounded.             *)
(***************************************************************************)
EXTENDS Cache

MCTables == {"lineitem", "orders", "nation"}
MCIndexes == {"i1", "i2", "i3"}

MCTableSize == [t \in MCTables |-> CASE t = "lineitem" -> 30
                                     [] t = "orders" -> 13
                                     [] t = "nation" -> 2]

MCIndexSize == [x \in MCIndexes |-> CASE x = "i1" -> 3 [] x = "i2" -> 4 [] x = "i3" -> 8]

MCHash == [x \in MCIndexes |-> IF x = "i3" THEN "h3" ELSE "h12"]

Plan(full, idx, retr) == [full |-> full, idx |-> idx, retr |-> retr]

MCPlans == {Plan({"lineitem", "orders"}, {}, {}),
            Plan({"nation"}, {"i1"}, {"lineitem"}),
            Plan({}, {"i2", "i3"}, {"nation"}),
            Plan({"orders"}, {}, {"orders"})}
=============================================================================
