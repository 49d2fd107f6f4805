----------------------------- MODULE Calibration ----------------------------
(***************************************************************************)
(* Database::init_constants: what a row, an operator, a page and an entry  *)
(* of an index cost a server, found out by timing queries.  Each constant  *)
(* is what is left of a time after those found before are taken off.  (The *)
(* call is a comment in the constructor, and the constants are written     *)
(* there; they are the result of a calibration.)                           *)
(*                                                                         *)
(* An action is given whether the connection is up.                        *)
(***************************************************************************)
EXTENDS Integers

CONSTANTS REPEAT,   (* times each query is timed *)
          nt,       (* rows of orders, 1500000 in the code *)
          blocks,   (* its pages: relation_size / BLOCK_SIZE *)
          ni,       (* rows of the query for the index *)
          random,   (* of the query for random pages: [rows, blocks] *)
          Server    (* what the server's constants are *)

ASSUME CalibrationAssumption ==
    /\ {REPEAT, nt, blocks, ni, random.rows, random.blocks} \subseteq Nat \ {0}
    /\ Server \in [{"tuple", "operator", "seq_page", "index_tuple", "random_page"} -> Nat]

VARIABLES cpc,        (* where init_constants is *)
          constants,  (* of the Database being constructed *)
          seqscan     (* enable_seqscan of its session *)

calibrationVars == <<cpc, constants, seqscan>>

(* What the fields hold before anything is assigned to them.               *)
Unknown == [c \in DOMAIN Server |-> 0]

CalibrationInit == cpc = "idle" /\ constants = Unknown /\ seqscan = TRUE
-----------------------------------------------------------------------------
(* The server, its cache warm.                                             *)

TimeOf(query) ==
    LET row == Server.tuple + Server.index_tuple + 3 * Server.operator
    IN CASE query = "sum"      -> nt * (Server.tuple + Server.operator)
         [] query = "group by" -> nt * (Server.tuple + 3 * Server.operator)
         [] query = "all"      -> nt * Server.tuple + blocks * Server.seq_page
         [] query = "index"    -> ni * row
         [] query = "random"   -> random.rows * row + random.blocks * Server.random_page

(* The mean of REPEAT executions; those after a loss of the connection     *)
(* fail at once, and are timed like the others.                            *)
Mean(query, ok) ==
    IF ok THEN {TimeOf(query)}
    ELSE {(i * TimeOf(query)) \div REPEAT : i \in 0..(REPEAT - 1)}
-----------------------------------------------------------------------------
(* A new session, to be calibrated or not.                                 *)
Begin(calibrates) == /\ cpc' = IF calibrates THEN "sizes" ELSE "idle"
                     /\ constants' = Unknown
                     /\ seqscan' = TRUE

(* An answer is needed: there is no value to read without a connection.    *)
Answered(here, ok, next) == /\ cpc = here
                            /\ cpc' = IF ok THEN next ELSE "crashed"
                            /\ UNCHANGED constants

(* block_size and shared_buffers *)
ShowSizes(ok) == Answered("sizes", ok, "tuple") /\ UNCHANGED seqscan

Found(found, next) == constants' = found /\ cpc' = next

(* Mutant: the second query is taken for one with two operators a row.     *)
SolveForTwo(t1, t2) ==
    LET operator == (nt * t2 - nt * t1) \div (nt * (nt + nt) - nt * nt)
    IN [constants EXCEPT !.operator = operator, !.tuple = (t1 - nt * operator) \div nt]

(* Two equations: one operator for every row, and three.                   *)
Solve(t1, t2) ==
    LET operator == (nt * t2 - nt * t1) \div (nt * (nt + nt + nt) - nt * nt)
    IN [constants EXCEPT !.operator = operator, !.tuple = (t1 - nt * operator) \div nt]

InitCpuTupleCost(ok) ==
    /\ cpc = "tuple"
    /\ \E t1 \in Mean("sum", ok), t2 \in Mean("group by", ok) : Found(Solve(t1, t2), "page")
    /\ UNCHANGED seqscan

InitSeqPageCost(ok) ==
    /\ cpc = "page"
    /\ \E t \in Mean("all", ok) :
          Found([constants EXCEPT !.seq_page = (t - nt * constants.tuple) \div blocks], "count")
    /\ UNCHANGED seqscan

(* SET has an effect only in a session that there is.                      *)
Enable(on, ok) == seqscan' = IF ok THEN on ELSE seqscan

(* Sequential scans are off from the count of the rows to be read on, and  *)
(* on again when the reading has been timed.                               *)
CountIndexed(ok) == Answered("count", ok, "index") /\ Enable(FALSE, ok)

InitCpuIndexTupleCost(ok) ==
    /\ cpc = "index"
    /\ \E t \in Mean("index", ok) :
          Found([constants EXCEPT
                   !.index_tuple = (t - constants.tuple * ni - constants.operator * ni * 3) \div ni],
                "sizes of rows")
    /\ Enable(TRUE, ok)

CountRandom(ok) == Answered("sizes of rows", ok, "random") /\ Enable(FALSE, ok)

InitRandomPageCost(ok) ==
    /\ cpc = "random"
    /\ \E t \in Mean("random", ok) :
          Found([constants EXCEPT
                   !.random_page = (t - random.rows * (constants.tuple + constants.index_tuple
                                                       + 3 * constants.operator))
                                   \div random.blocks],
                "done")
    /\ Enable(TRUE, ok)

InitConstants(ok) ==
    \/ ShowSizes(ok) \/ InitCpuTupleCost(ok) \/ InitSeqPageCost(ok)
    \/ CountIndexed(ok) \/ InitCpuIndexTupleCost(ok)
    \/ CountRandom(ok) \/ InitRandomPageCost(ok)

(* The constructor goes on with the constants that are written in it.      *)
UseWritten == Begin(FALSE)
=============================================================================
