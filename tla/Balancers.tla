------------------------------ MODULE Balancers -----------------------------
(***************************************************************************)
(* The program with the balancer main chooses by the first letter of its   *)
(* argument: RoundRobin or LeastWork, each as its own module has it, over  *)
(* the same replicas.  (Smart, which needs to know what queries cost, is   *)
(* composed with Driver in its own module.)                                *)
(***************************************************************************)
EXTENDS RoundRobin, LeastWork

VARIABLE balancer  (* main's balancer: which class it is of *)

vars == <<driverVars, balancer, last, scanVars>>

(* Any other letter ends the program. *)
Init == /\ balancer \in {"R", "L"}
        /\ RRInit
        /\ LWInit

Next == /\ \/ balancer = "R" /\ RRNext /\ UNCHANGED scanVars
           \/ balancer = "L" /\ LWNext /\ UNCHANGED last
        /\ UNCHANGED balancer

Safety == Init /\ [][Next]_vars

(* The parts of Next that main is in while the balancer works.             *)
WithR(A) == balancer = "R" /\ A /\ UNCHANGED <<balancer, scanVars>>
WithL(A) == balancer = "L" /\ A /\ UNCHANGED <<balancer, last>>

(* LeastWork waits for a mutex before each of its questions.               *)
Spec == /\ Safety
        /\ WorkerFairness /\ MainFairness
        /\ SF_vars(WithL(Ask)) /\ WF_vars(WithR(RRAddQuery) \/ WithL(LWAddQuery))
-----------------------------------------------------------------------------
(* RoundRobin deals the tasks in turn (round-robin.cpp 8-16).              *)
DealsInTurn == balancer = "R" => TurnByTurn

(* LeastWork adds a task to a queue no longer than any was when it began   *)
(* to ask (least-work.cpp 7-24).                                           *)
AddsToShortest == balancer = "L" => AddedToShortest
=============================================================================
