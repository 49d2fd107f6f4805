------------------------------ MODULE Replica -------------------------------
(***************************************************************************)
(* The replicas of the pool (class Database): the request queue Q2, its    *)
(* mutex and running total of costs, and the worker thread each replica    *)
(* owns.  The main thread's calls into a replica are operators here; who   *)
(* makes them, and when, is in Driver.tla and the balancing strategies.    *)
(*                                                                         *)
(* A step is a stretch of code between two points at which another thread  *)
(* can see a difference: a mutex operation, or an access to a field that   *)
(* somebody reads without the mutex (totalCost, startProcessing).          *)
(***************************************************************************)
EXTENDS Integers, Sequences, FiniteSets, SequencesExt, Totals

CONSTANTS NumReplicas,  (* replicas.size() *)
          NumTask,      (* queries main submits; bounds the Select objects *)
          Costs,        (* values Select::_cost can hold *)
          MaxTime       (* bound on the clock, for TLC only *)

ASSUME ReplicaAssumption == /\ NumReplicas \in Nat \ {0}
                            /\ NumTask \in Nat
                            /\ Costs \subseteq Int
                            /\ MaxTime \in Nat

Replicas == 0 .. NumReplicas - 1

(* The it-th Select object; 0 stands for a pointer that is not set. *)
Query == 1..NumTask
NoQuery == 0

(* A time stamp nobody has written; the program never tests for it. *)
Unset == -1

VARIABLES now,              (* system_clock, in ticks *)
          running,          (* FALSE once the process has ended *)
          mutex,            (* Database::mutex: who holds it *)
          Q2,               (* Database::Q2, front first *)
          totalCost,        (* Database::totalCost *)
          cost,             (* Select::_cost *)
          created,          (* Select::created *)
          startProcessing,  (* Select::startProcessing *)
          wpc,              (* where a replica's worker is *)
          top,              (* local of threadFun *)
          victim,           (* local top of removeQueryFromQueue *)
          executed,         (* queries passed to PQexec, oldest first *)
          doneLog           (* "Query ... is done" lines, oldest first *)

workerVars == <<wpc, top, victim, executed, doneLog>>
selectVars == <<cost, created, startProcessing>>
replicaVars == <<now, running, mutex, Q2, totalCost, selectVars, workerVars>>

ReplicaInit == /\ now = 0
               /\ running = TRUE
               /\ mutex = [r \in Replicas |-> "free"]
               /\ Q2 = [r \in Replicas |-> <<>>]
               /\ totalCost = [r \in Replicas |-> 0]
               /\ cost = [q \in Query |-> 0]
               /\ created = [q \in Query |-> Unset]
               /\ startProcessing = [q \in Query |-> Unset]
               /\ wpc = [r \in Replicas |-> "poll"]
               /\ top = [r \in Replicas |-> NoQuery]
               /\ victim = [r \in Replicas |-> NoQuery]
               /\ executed = [r \in Replicas |-> <<>>]
               /\ doneLog = [r \in Replicas |-> <<>>]
-----------------------------------------------------------------------------
(* The mutex of a replica.                                                 *)

Lock(r, who) == /\ mutex[r] = "free"
                /\ mutex' = [mutex EXCEPT ![r] = who]

(* Mutant: a path that returns without unlocking. *)
UnlockForgotten(r) == UNCHANGED mutex

Unlock(r) == mutex' = [mutex EXCEPT ![r] = "free"]

Goto(r, here, there) == /\ running
                        /\ wpc[r] = here
                        /\ wpc' = [wpc EXCEPT ![r] = there]
-----------------------------------------------------------------------------
(* The worker thread: Database::threadFun and removeQueryFromQueue.        *)

Poll(r) == /\ Goto(r, "poll", "peek")
           /\ Lock(r, "worker")
           /\ UNCHANGED <<now, running, Q2, totalCost, selectVars, top, victim,
                          executed, doneLog>>

FindEmpty(r) == /\ Q2[r] = <<>>
                /\ Goto(r, "peek", "poll")
                /\ Unlock(r)
                /\ UNCHANGED <<now, running, Q2, totalCost, selectVars, top,
                               victim, executed, doneLog>>

(* The front is read and the mutex released: the query stays in Q2. *)
TakeFront(r) == /\ Q2[r] # <<>>
                /\ Goto(r, "peek", "start")
                /\ top' = [top EXCEPT ![r] = Head(Q2[r])]
                /\ Unlock(r)
                /\ UNCHANGED <<now, running, Q2, totalCost, selectVars, victim,
                               executed, doneLog>>

StartProcess(r) == /\ Goto(r, "start", "exec")
                   /\ startProcessing' = [startProcessing EXCEPT ![top[r]] = now]
                   /\ UNCHANGED <<now, running, mutex, Q2, totalCost, cost, created,
                                  top, victim, executed, doneLog>>

(* PQexec returns.  Its result is dropped, so success and failure of the   *)
(* query are one and the same step.                                        *)
ExecuteQuery(r) == /\ Goto(r, "exec", "remove")
                   /\ executed' = [executed EXCEPT ![r] = Append(@, top[r])]
                   /\ UNCHANGED <<now, running, mutex, Q2, totalCost, selectVars,
                                  top, victim, doneLog>>

LockToRemove(r) == /\ Goto(r, "remove", "uncost")
                   /\ Lock(r, "worker")
                   /\ UNCHANGED <<now, running, Q2, totalCost, selectVars, top,
                                  victim, executed, doneLog>>

(* Mutant: Q2.back() for Q2.front(). *)
LastOf(s) == Last(s)

(* The front is read again; nothing says it is the query that was run. *)
ToRemove(s) == Head(s)

ReduceTotal(r) ==
    /\ Goto(r, "uncost", "pop")
    /\ victim' = [victim EXCEPT ![r] = ToRemove(Q2[r])]
    /\ totalCost' = [totalCost EXCEPT ![r] = @ - cost[ToRemove(Q2[r])]]
    /\ UNCHANGED <<now, running, mutex, Q2, selectVars, top, executed, doneLog>>

(* Mutant: Q2.pop() is forgotten. *)
PopNothing(s) == s

Pop(s) == Tail(s)

PopFront(r) == /\ Goto(r, "pop", "log")
               /\ Q2' = [Q2 EXCEPT ![r] = Pop(@)]
               /\ Unlock(r)
               /\ UNCHANGED <<now, running, totalCost, selectVars, top, victim,
                              executed, doneLog>>

LogDone(r) == /\ Goto(r, "log", "poll")
              /\ doneLog' = [doneLog EXCEPT ![r] = Append(@, victim[r])]
              /\ UNCHANGED <<now, running, mutex, Q2, totalCost, selectVars, top,
                             victim, executed>>

Worker(r) == \/ Poll(r) \/ FindEmpty(r) \/ TakeFront(r) \/ StartProcess(r)
             \/ ExecuteQuery(r) \/ LockToRemove(r) \/ ReduceTotal(r)
             \/ PopFront(r) \/ LogDone(r)

Tick == /\ running
        /\ now < MaxTime
        /\ now' = now + 1
        /\ UNCHANGED <<running, mutex, Q2, totalCost, selectVars, workerVars>>
-----------------------------------------------------------------------------
(* Mutant: the priority queue of the commented-out code, cheapest first. *)
PushByCost(s, q) ==
    InsertAt(s, Cardinality({p \in 1..Len(s) : cost[s[p]] <= cost[q]}) + 1, q)

PushBack(s, q) == Append(s, q)

(* Database::addRequest between lock and unlock, on the main thread.       *)
(* Loading the plan's tables into the cache belongs to Cache.tla.          *)
AddRequest(r, q) == /\ mutex[r] = "main"
                    /\ Q2' = [Q2 EXCEPT ![r] = PushBack(@, q)]
                    /\ created' = [created EXCEPT ![q] = now]
                    /\ totalCost' = [totalCost EXCEPT ![r] = @ + cost[q]]
                    /\ Unlock(r)
-----------------------------------------------------------------------------
(* Properties of a replica under any caller.                               *)

WorkerPC == {"poll", "peek", "start", "exec", "remove", "uncost", "pop", "log"}
Owner == {"free", "main", "worker"}

ReplicaTypeOK ==
    /\ now \in Nat
    /\ running \in BOOLEAN
    /\ mutex \in [Replicas -> Owner]
    /\ Q2 \in [Replicas -> Seq(Query)]
    /\ totalCost \in [Replicas -> Int]
    /\ cost \in [Query -> Int]
    /\ created \in [Query -> Int]
    /\ startProcessing \in [Query -> Int]
    /\ wpc \in [Replicas -> WorkerPC]
    /\ top \in [Replicas -> Query \cup {NoQuery}]
    /\ victim \in [Replicas -> Query \cup {NoQuery}]
    /\ executed \in [Replicas -> Seq(Query)]
    /\ doneLog \in [Replicas -> Seq(Query)]

(* The worker is inside its critical sections exactly when it owns the     *)
(* mutex: it never leaves one locked, and never works on Q2 or totalCost   *)
(* without it (threadFun 137-144, removeQueryFromQueue 461-466).           *)
WorkerOwnsMutex ==
    \A r \in Replicas :
        mutex[r] = "worker" <=> wpc[r] \in {"peek", "uncost", "pop"}

(* From reading the front until popping it the worker twice gives up the   *)
(* mutex, and removeQueryFromQueue reads the front afresh.  The query it   *)
(* then removes, un-costs and reports is still the one it ran.             *)
RemovesWhatItRan ==
    \A r \in Replicas :
        /\ wpc[r] \in {"start", "exec", "remove", "uncost", "pop"} =>
              Q2[r] # <<>> /\ Head(Q2[r]) = top[r]
        /\ wpc[r] \in {"pop", "log"} => victim[r] = top[r]

(* The costs of a sequence of queries, and what they add up to. *)
CostsOf(s) == [k \in 1..Len(s) |-> cost[s[k]]]

SumOfCosts(s) == TotalOf(CostsOf(s))

(* totalCost is the cost of what is queued, running query included; the    *)
(* one exception a reader without the mutex can meet is the moment between *)
(* removeQueryFromQueue's subtraction and its pop (464-465).               *)
CostLedger ==
    \A r \in Replicas :
        totalCost[r] = SumOfCosts(IF wpc[r] = "pop" THEN Tail(Q2[r]) ELSE Q2[r])

(* Every query a replica ran was created before it was started, and a      *)
(* replica starts its queries in the order they were created: the waiting  *)
(* time logged by removeQueryFromQueue (470) is never negative.            *)
ServedInOrder ==
    \A r \in Replicas : \A i, j \in 1..Len(executed[r]) :
        i <= j => /\ Unset < created[executed[r][i]]
                  /\ created[executed[r][i]] <= startProcessing[executed[r][i]]
                  /\ startProcessing[executed[r][i]] <= startProcessing[executed[r][j]]
                  /\ created[executed[r][i]] <= created[executed[r][j]]

(* The log names the queries a replica ran, in that order, and is at most  *)
(* one line behind.                                                        *)
LogFollowsExecution ==
    \A r \in Replicas : /\ IsPrefix(doneLog[r], executed[r])
                        /\ Len(executed[r]) - Len(doneLog[r]) \in 0..1

(* Together: what the log tells of a replica is what it did, in the order  *)
(* and with the times it did it (database.cpp 467-476).                    *)
LogTellsAll == ServedInOrder /\ LogFollowsExecution
=============================================================================
