---------------------------- MODULE MCSelectTree ----------------------------
(***************************************************************************)
(* Queries of up to four SELECTs, in every arrangement.                    *)
(***************************************************************************)
EXTENDS SelectTree

(* A table scanned, or fetched through an index.                           *)
MCResources == {[full |-> {"a"}, indexes |-> {}, retr |-> {}],
                [full |-> {}, indexes |-> {"i"}, retr |-> {"a"}]}
=============================================================================
