-------------------------------- MODULE Smart -------------------------------
(***************************************************************************)
(* The program with the Smart balancer.  addQuery estimates, replica by    *)
(* replica, how long the new query would take to be finished there, and    *)
(* queues it where the estimate is smallest.  totalCost is read before the *)
(* replica's mutex is taken, and the front query's start time while the    *)
(* worker may not have written it yet.                                     *)
(***************************************************************************)
EXTENDS Driver

CONSTANT Garbage  (* values an unwritten startProcessing may be read as *)

ASSUME SmartAssumption == Garbage \subseteq Int /\ Costs \subseteq Nat

VARIABLES spc,        (* where addQuery is *)
          si,         (* its loop index *)
          curr_time,  (* its curr_time *)
          planned,    (* getFinalCost of the new query, per replica *)
          estimate,   (* its _mini, kept for every replica looked at *)
          id          (* its id: the best replica so far *)

priceVars == <<spc, si, curr_time, planned, estimate, id>>
smartVars == <<driverVars, priceVars>>

SmartInit == /\ DriverInit
             /\ spc = "clock"
             /\ si = 0
             /\ curr_time = 0
             /\ planned = [r \in Replicas |-> 0]
             /\ estimate = [r \in Replicas |-> 0]
             /\ id = 0
-----------------------------------------------------------------------------
(* The clock is read, then the query is planned; what it would cost at     *)
(* each replica depends on that replica's cache, which only main changes.  *)
ReadClock == /\ At("dispatch")
             /\ spc = "clock"
             /\ curr_time' = now
             /\ planned' \in [Replicas -> Costs]
             /\ spc' = "total"
             /\ UNCHANGED <<driverVars, si, estimate, id>>

(* replicas[i]->totalCost + select_cost, without the mutex. *)
ReadTotal == /\ At("dispatch")
             /\ spc = "total"
             /\ estimate' = [estimate EXCEPT ![si] = totalCost[si] + planned[si]]
             /\ spc' = "lock"
             /\ UNCHANGED <<driverVars, si, curr_time, planned, id>>

LockToInspect == /\ spc = "lock"
                 /\ BalancerLock(si)
                 /\ spc' = "inspect"
                 /\ UNCHANGED <<si, curr_time, planned, estimate, id>>

(* What getTimeStartProcess may return: the field is not initialised. *)
StartTimes(q) == IF startProcessing[q] = Unset THEN Garbage ELSE {startProcessing[q]}

(* Mutant: the sign is kept. *)
NoAbs(x) == x

Abs(x) == IF x < 0 THEN -x ELSE x

(* The front query is taken to have done part of its work already. *)
Adjusted(e) == IF Q2[si] = <<>> THEN {e}
               ELSE LET front == Head(Q2[si])
                    IN  {e - cost[front] + Abs(cost[front] - (curr_time - t)) :
                            t \in StartTimes(front)}

Inspect == /\ spc = "inspect"
           /\ BalancerUnlock(si)
           /\ \E e \in Adjusted(estimate[si]) :
                 /\ estimate' = [estimate EXCEPT ![si] = e]
                 /\ id' = IF si = 0 \/ e < estimate[id] THEN si ELSE id
           /\ IF HasNext(si)
              THEN spc' = "total" /\ si' = si + 1
              ELSE spc' = "chosen" /\ si' = si
           /\ UNCHANGED <<curr_time, planned>>

(* Mutant: _cost keeps what the last round of the loop left in it. *)
LastRoundCost == planned[NumReplicas - 1]

FinalCost == planned[id]

(* The cost is computed once more, for the chosen replica, and charged. *)
AddToCheapest == /\ spc = "chosen"
                 /\ Choose(id, FinalCost)
                 /\ spc' = "clock"
                 /\ si' = 0
                 /\ UNCHANGED <<curr_time, planned, estimate, id>>

AddQuery == ReadClock \/ ReadTotal \/ LockToInspect \/ Inspect \/ AddToCheapest

SmartNext == \/ AddQuery
             \/ (Workers \/ Clock \/ MainStep) /\ UNCHANGED priceVars
             \/ Ended /\ UNCHANGED smartVars

SmartSafety == SmartInit /\ [][SmartNext]_smartVars

SmartSpec == /\ SmartSafety
             /\ WorkerFairness /\ MainFairness
             /\ SF_smartVars(LockToInspect) /\ WF_smartVars(AddQuery)
-----------------------------------------------------------------------------
Waiting(r) == IF Q2[r] = <<>> THEN <<>> ELSE Tail(Q2[r])

(* Replicas whose estimate is complete. *)
Estimated == IF spc = "chosen" \/ mpc \in {"add", "push"} THEN Replicas
             ELSE IF spc = "clock" THEN {} ELSE 0..(si - 1)

(* Whatever the worker does between the unlocked read of totalCost and the *)
(* locked look at the queue, and even if the start time is garbage, an     *)
(* estimate covers the new query and everything that waits behind the      *)
(* query the replica is running: a replica is never chosen because part of *)
(* its backlog was overlooked.                                             *)
NeverUnderestimates ==
    \A r \in Estimated : estimate[r] >= planned[r] + SumOfCosts(Waiting(r))

(* The query is queued where the estimate was smallest, and charged to     *)
(* that replica's total at what it costs there, not at what it costs at    *)
(* the last replica of the scan (smart.cpp 53-57, 64-66).                  *)
ChargedWhereCheapest ==
    mpc \in {"add", "push"} =>
        /\ \A r \in Replicas : estimate[target] <= estimate[r]
        /\ cost[Current] = planned[target]
=============================================================================
