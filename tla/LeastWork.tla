------------------------------ MODULE LeastWork -----------------------------
(***************************************************************************)
(* The program with the LeastWork balancer.  addQuery asks the replicas    *)
(* for the length of their queues one after the other, each under that     *)
(* replica's mutex alone, and queues the task at the shortest.  A length   *)
(* may be out of date by the time it is compared, and more so by the time  *)
(* the task is queued.                                                     *)
(***************************************************************************)
EXTENDS Driver

VARIABLES lpc,   (* where addQuery is: asking, holding a mutex, or done *)
          i,     (* its loop index *)
          mini,  (* its mini *)
          best,  (* its best, as an index *)
          snap   (* history: the queues' lengths when the scan began *)

scanVars == <<lpc, i, mini, best, snap>>
lwVars == <<driverVars, scanVars>>

LWInit == /\ DriverInit
          /\ lpc = "ask"
          /\ i = 0
          /\ mini = 0
          /\ best = 0
          /\ snap = [r \in Replicas |-> 0]
-----------------------------------------------------------------------------
(* getNumOfActiveRequests on replicas[i]: lock ...  *)
Ask == /\ lpc = "ask"
       /\ BalancerLock(i)
       /\ lpc' = "answer"
       /\ snap' = IF i = 0 THEN [r \in Replicas |-> Len(Q2[r])] ELSE snap
       /\ UNCHANGED <<i, mini, best>>

(* Mutant: the longest queue wins. *)
Longer == i = 0 \/ Len(Q2[i]) > mini

Shorter == i = 0 \/ Len(Q2[i]) < mini

(* ... read, unlock, and compare. *)
Answer == /\ lpc = "answer"
          /\ BalancerUnlock(i)
          /\ IF Shorter
             THEN mini' = Len(Q2[i]) /\ best' = i
             ELSE UNCHANGED <<mini, best>>
          /\ IF HasNext(i)
             THEN lpc' = "ask" /\ i' = i + 1
             ELSE lpc' = "chosen" /\ i' = i
          /\ UNCHANGED snap

(* Mutant: addRequest goes ahead without its lock. *)
AddToBestUnlocked == /\ At("dispatch") /\ lpc = "chosen"
                     /\ target' = best /\ mpc' = "push"
                     /\ lpc' = "ask" /\ i' = 0
                     /\ UNCHANGED <<replicaVars, it, sweep, mini, best, snap>>

(* process_query creates the Select, with whatever its _cost holds; then   *)
(* addRequest is called.                                                   *)
AddToBest == /\ lpc = "chosen"
             /\ \E c \in Costs : Choose(best, c)
             /\ lpc' = "ask"
             /\ i' = 0
             /\ UNCHANGED <<mini, best, snap>>

LWAddQuery == Ask \/ Answer \/ AddToBest

LWNext == \/ LWAddQuery
          \/ (Workers \/ Clock \/ MainStep) /\ UNCHANGED scanVars
          \/ Ended /\ UNCHANGED lwVars

LWSafety == LWInit /\ [][LWNext]_lwVars
-----------------------------------------------------------------------------
TypeOKLW == /\ TypeOK
            /\ lpc \in {"ask", "answer", "chosen"}
            /\ i \in Replicas /\ best \in Replicas
            /\ mini \in Nat
            /\ snap \in [Replicas -> Nat]

(* For all the staleness of the scan, the queue a task is added to is no   *)
(* longer, when it is added, than any queue was when the scan began.  In   *)
(* particular a task never waits behind another if some replica was idle   *)
(* then.  This leans on main being the only one that makes queues grow.    *)
AddedToShortest == mpc \in {"add", "push"} =>
                      \A r \in Replicas : Len(Q2[target]) <= snap[r]
=============================================================================
