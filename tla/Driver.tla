------------------------------- MODULE Driver -------------------------------
(***************************************************************************)
(* main() together with the replicas' workers: the submission loop, the    *)
(* final report, the drain loop and the exit.  The balancer is left open,  *)
(* as class LoadBalance leaves it: between a task's arrival and its        *)
(* addRequest the balancer may take and release any replica's mutex, and   *)
(* then names a replica and a cost.  RoundRobin, LeastWork and Smart are   *)
(* shown to be such balancers.                                             *)
(***************************************************************************)
EXTENDS Replica

CONSTANTS Ratio,       (* main's ratio: percentage of tasks that are selects *)
          ReportCount  (* replicas main prints after the loop; 5 in the code *)

ASSUME DriverAssumption == Ratio \in Nat /\ ReportCount \in Nat

VARIABLES it,      (* main's it: tasks submitted so far *)
          mpc,     (* where main is *)
          target,  (* the replica addRequest is called on *)
          sweep    (* index of the drain loop *)

mainVars == <<it, mpc, target, sweep>>
driverVars == <<replicaVars, mainVars>>

(* The Select the current round of the loop creates. *)
Current == it + 1

DriverInit == /\ ReplicaInit
              /\ it = 0
              /\ mpc = "loop"
              /\ target = 0
              /\ sweep = 0
-----------------------------------------------------------------------------
(* The submission loop.                                                    *)

At(here) == running /\ mpc = here

(* Mutant: it <= numTask. *)
OneTaskTooMany == it <= NumTask

MoreTasks == it < NumTask

(* The test of a loop over the pool.  Mutant: i < len - 1. *)
HasNextButLast(k) == k + 2 < NumReplicas

HasNext(k) == k + 1 < NumReplicas

MainHolds(r) == mutex[r] = "main"

MainHoldsNothing == \A r \in Replicas : ~MainHolds(r)

Crash == /\ mpc' = "crashed"
         /\ running' = FALSE
         /\ UNCHANGED <<it, target, sweep>>

(* rand() % 100 came out at most ratio: balancer->addQuery is entered. *)
EnterAddQuery == /\ At("loop")
                 /\ MoreTasks
                 /\ mpc' = "dispatch"
                 /\ UNCHANGED <<replicaVars, it, target, sweep>>

(* It came out above ratio: insert_queries[0] is read, and insert_queries  *)
(* is empty, so the load is from the null page.                            *)
EnterAddInsertQuery ==
    /\ At("loop")
    /\ MoreTasks
    /\ Ratio < 99
    /\ Crash
    /\ UNCHANGED <<now, mutex, Q2, totalCost, selectVars, workerVars>>

BalancerLock(r) == /\ At("dispatch")
                   /\ MainHoldsNothing
                   /\ Lock(r, "main")
                   /\ UNCHANGED <<now, running, Q2, totalCost, selectVars,
                                  workerVars, mainVars>>

BalancerUnlock(r) == /\ At("dispatch")
                     /\ MainHolds(r)
                     /\ Unlock(r)
                     /\ UNCHANGED <<now, running, Q2, totalCost, selectVars,
                                    workerVars, mainVars>>

Choose(r, c) == /\ At("dispatch")
                /\ MainHoldsNothing
                /\ target' = r
                /\ cost' = [cost EXCEPT ![Current] = c]
                /\ mpc' = "add"
                /\ UNCHANGED <<now, running, mutex, Q2, totalCost, created,
                               startProcessing, workerVars, it, sweep>>

LockToAdd == /\ At("add")
             /\ Lock(target, "main")
             /\ mpc' = "push"
             /\ UNCHANGED <<now, running, Q2, totalCost, selectVars, workerVars,
                            it, target, sweep>>

Push == /\ At("push")
        /\ AddRequest(target, Current)
        /\ it' = it + 1
        /\ mpc' = "loop"
        /\ UNCHANGED <<now, running, cost, startProcessing, workerVars, target,
                       sweep>>

EndLoop == /\ At("loop")
           /\ ~MoreTasks
           /\ mpc' = "report"
           /\ UNCHANGED <<replicaVars, it, target, sweep>>
-----------------------------------------------------------------------------
(* The report, the drain loop and the exit.                                *)

Report == /\ At("report")
          /\ mpc' = "drain"
          /\ sweep' = 0
          /\ UNCHANGED <<replicaVars, it, target>>

(* Fewer replicas than the report assumes: replicas[i] is past the end of  *)
(* the vector, and what it yields may be followed or may not.              *)
ReportPastEnd == /\ At("report")
                 /\ ReportCount > NumReplicas
                 /\ Crash
                 /\ UNCHANGED <<now, mutex, Q2, totalCost, selectVars, workerVars>>

LockToCount == /\ At("drain")
               /\ Lock(sweep, "main")
               /\ mpc' = "count"
               /\ UNCHANGED <<now, running, Q2, totalCost, selectVars, workerVars,
                              it, target, sweep>>

(* Mutant: getNumOfActiveRequests() >= 0. *)
AnyAnswer(r) == Len(Q2[r]) >= 0

StillActive(r) == Len(Q2[r]) > 0

(* getNumOfActiveRequests answers, and main restarts the sweep, goes on,   *)
(* or leaves the loop.                                                     *)
CountActive ==
    /\ At("count")
    /\ Unlock(sweep)
    /\ \/ StillActive(sweep) /\ sweep' = 0 /\ mpc' = "drain"
       \/ /\ ~StillActive(sweep) /\ HasNext(sweep)
          /\ sweep' = sweep + 1 /\ mpc' = "drain"
       \/ /\ ~StillActive(sweep) /\ ~HasNext(sweep)
          /\ sweep' = sweep /\ mpc' = "leaving"
    /\ UNCHANGED <<now, running, Q2, totalCost, selectVars, workerVars, it, target>>

(* sleep(5) is over and main returns; the workers die with the process. *)
Exit == /\ At("leaving")
        /\ mpc' = "exited"
        /\ running' = FALSE
        /\ UNCHANGED <<now, mutex, Q2, totalCost, selectVars, workerVars, it,
                       target, sweep>>
-----------------------------------------------------------------------------
Workers == \E r \in Replicas : Worker(r) /\ UNCHANGED mainVars

Clock == Tick /\ UNCHANGED mainVars

Balancer == \/ \E r \in Replicas : BalancerLock(r) \/ BalancerUnlock(r)
            \/ \E r \in Replicas, c \in Costs : Choose(r, c)

MainStep == \/ EnterAddQuery \/ EnterAddInsertQuery \/ LockToAdd \/ Push \/ EndLoop
            \/ Report \/ ReportPastEnd \/ LockToCount \/ CountActive \/ Exit

(* A process that is over stays over. *)
Ended == ~running

DriverNext == Workers \/ Clock \/ Balancer \/ MainStep \/ (Ended /\ UNCHANGED driverVars)

DriverSafety == DriverInit /\ [][DriverNext]_driverVars

(* A worker runs, and gets the mutex it asks for: nobody holds one for     *)
(* longer than a few statements, and every thread sleeps between two       *)
(* acquisitions (usleep(10) in threadFun, the pacing usleep and sleep(1)   *)
(* in main), so a waiter is served although POSIX mutexes are not fair.    *)
WorkerFairness ==
    \A r \in Replicas :
        /\ SF_driverVars((Poll(r) \/ LockToRemove(r)) /\ UNCHANGED mainVars)
        /\ WF_driverVars(Worker(r) /\ UNCHANGED mainVars)

MainFairness == /\ SF_driverVars(LockToAdd)
                /\ SF_driverVars(LockToCount)
                /\ WF_driverVars(MainStep)
-----------------------------------------------------------------------------
(* Properties.                                                             *)

MainPC == {"loop", "dispatch", "add", "push", "report", "drain", "count",
           "leaving", "exited", "crashed"}

TypeOK == /\ ReplicaTypeOK
          /\ it \in 0..NumTask
          /\ mpc \in MainPC
          /\ target \in Replicas
          /\ sweep \in Replicas
          /\ (mpc \in {"dispatch", "add", "push"} => it < NumTask)

(* main holds a mutex only inside addRequest and getNumOfActiveRequests    *)
(* (or where the balancer looks into one replica), and never two of them:  *)
(* no caller can wait for a lock while it keeps another.                   *)
MainHoldsOneMutex ==
    \A r \in Replicas : MainHolds(r) =>
        /\ \A s \in Replicas : MainHolds(s) => s = r
        /\ \/ mpc = "push" /\ r = target
           \/ mpc = "count" /\ r = sweep
           \/ mpc = "dispatch"

(* Locks are taken and given back in the critical sections of the code     *)
(* only, by one thread each, and nobody waits for one while keeping another. *)
MutexDiscipline == WorkerOwnsMutex /\ MainHoldsOneMutex

(* The drain loop looks at one queue at a time and the workers go on       *)
(* meanwhile, yet when main leaves it nothing is queued anywhere and every *)
(* task has been run: returning from main kills no query (main 208-220).   *)
ExitMeansDrained ==
    mpc \in {"leaving", "exited"} =>
        /\ it = NumTask
        /\ \A r \in Replicas : Q2[r] = <<>>
        /\ \A q \in Query : \E r \in Replicas : q \in Range(executed[r])

(* What a replica still has to run: its queue without the front that       *)
(* PQexec has already returned for.                                        *)
Pending == [r \in Replicas |-> IF wpc[r] \in {"remove", "uncost", "pop"}
                                THEN Tail(Q2[r]) ELSE Q2[r]]

Promise == INSTANCE Dispatch WITH submitted <- it,
                                  queue <- Pending,
                                  completed <- executed

(* With its threads and locks the program does what Dispatch promises:     *)
(* every step hands out the next task, completes the oldest task of one    *)
(* replica, or changes neither.                                            *)
ImplementsDispatch == Promise!Safety

(* Every task main has submitted is with exactly one replica, queued there *)
(* or run there, and once: none is lost between addRequest, the two looks  *)
(* at the front and the pop, and none is run twice.                        *)
ExactlyOnce == Promise!ExactlyOnce

(* If no task is an insert and the report stays inside the pool, every     *)
(* task is executed and the program ends by itself.                        *)
Terminates == <>(mpc = "exited" /\ \A q \in Query :
                                      \E r \in Replicas : q \in Range(executed[r]))
=============================================================================
