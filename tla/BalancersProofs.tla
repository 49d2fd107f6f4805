--------------------------- MODULE BalancersProofs --------------------------
(***************************************************************************)
(* Proofs about main, the replicas' workers and the balancers, for any     *)
(* number of replicas and tasks and any costs.                             *)
(* First about main and the workers under any balancer, by six inductive   *)
(* invariants:                                                             *)
(*   FrontInv    types, and what the worker knows about the queue's front; *)
(*   MutexInv    who holds the mutexes;                                    *)
(*   DrainInv    which queues the drain loop has found empty for good;     *)
(*   LedgerInv   what totalCost adds up, queries still to come excluded;   *)
(*   LogInv      the done lines and the query that has none yet;           *)
(*   TimesInv    the order of the time stamps.                             *)
(* Then about the balancers, each of which is one in Driver's sense, so    *)
(* that all that holds of it:                                              *)
(*   RoundRobin  the turn it deals in is known at every moment from the    *)
(*               number of tasks dealt so far;                             *)
(*   LeastWork   its scan picks a queue that is short enough although      *)
(*               every length it saw may be out of date, because nobody    *)
(*               but main makes a queue longer, so that every length only  *)
(*               overstates what is there;                                 *)
(*   Smart       it chooses the smallest of its estimates, and none of     *)
(*               them overlooks part of a backlog.                         *)
(***************************************************************************)
EXTENDS Balancers, Smart, TotalsProofs

(* Once the worker has read a front, it works on a real query.             *)
WorksOnAQuery == \A r \in Replicas : wpc[r] \notin {"poll", "peek"} => top[r] \in Query

FrontInv == TypeOK /\ RemovesWhatItRan /\ WorksOnAQuery

-----------------------------------------------------------------------------
(* Types and the front of the queue.                                       *)

LEMMA FrontInit == DriverInit => FrontInv
<1> SUFFICES ASSUME DriverInit PROVE FrontInv
  OBVIOUS
<1> USE DEF DriverInit, ReplicaInit
<1>1. 0 \in Replicas
  BY ReplicaAssumption DEF Replicas
<1>2. ReplicaTypeOK
  BY DEF ReplicaTypeOK, Owner, WorkerPC, Unset
<1>3. TypeOK
  BY <1>1, <1>2, ReplicaAssumption DEF TypeOK, MainPC
<1>4. RemovesWhatItRan /\ WorksOnAQuery
  BY DEF RemovesWhatItRan, WorksOnAQuery
<1> QED BY <1>3, <1>4 DEF FrontInv

LEMMA FrontWorker ==
    ASSUME FrontInv, NEW p \in Replicas, Worker(p), UNCHANGED mainVars
    PROVE  FrontInv'
<1> USE DEF FrontInv, TypeOK, ReplicaTypeOK, RemovesWhatItRan, WorksOnAQuery,
           WorkerPC, Owner, mainVars, selectVars, Goto
<1>1. CASE Poll(p)
  BY <1>1 DEF Poll, Lock
<1>2. CASE FindEmpty(p)
  BY <1>2 DEF FindEmpty, Unlock
<1>3. CASE TakeFront(p)
  <2>1. Head(Q2[p]) \in Query
    BY <1>3 DEF TakeFront
  <2> QED BY <1>3, <2>1 DEF TakeFront, Unlock
<1>4. CASE StartProcess(p)
  <2>1. top[p] \in Query
    BY <1>4 DEF StartProcess
  <2>2. startProcessing' \in [Query -> Int]
    <3>1. now \in Int
      OBVIOUS
    <3>2. startProcessing' = [startProcessing EXCEPT ![top[p]] = now]
      BY <1>4 DEF StartProcess
    <3>3. startProcessing \in [Query -> Int]
      OBVIOUS
    <3> HIDE DEF FrontInv
    <3> QED BY <2>1, <3>1, <3>2, <3>3
  <2> QED BY <1>4, <2>1, <2>2 DEF StartProcess
<1>5. CASE ExecuteQuery(p)
  <2>1. top[p] \in Query /\ executed[p] \in Seq(Query)
    BY <1>5 DEF ExecuteQuery
  <2>2. Append(executed[p], top[p]) \in Seq(Query)
    BY <2>1
  <2>3. executed' \in [Replicas -> Seq(Query)]
    BY <1>5, <2>2 DEF ExecuteQuery
  <2> QED BY <1>5, <2>1, <2>3 DEF ExecuteQuery
<1>6. CASE LockToRemove(p)
  BY <1>6 DEF LockToRemove, Lock
<1>7. CASE ReduceTotal(p)
  <2>1. Head(Q2[p]) = top[p] /\ top[p] \in Query
    BY <1>7 DEF ReduceTotal
  <2>2. totalCost[p] - cost[top[p]] \in Int
    BY <2>1
  <2>3. /\ totalCost' = [totalCost EXCEPT ![p] = @ - cost[top[p]]]
        /\ victim' = [victim EXCEPT ![p] = top[p]]
    BY <1>7, <2>1 DEF ReduceTotal, ToRemove
  <2>4. totalCost' \in [Replicas -> Int]
    BY <2>2, <2>3
  <2> QED BY <1>7, <2>1, <2>3, <2>4 DEF ReduceTotal
<1>8. CASE PopFront(p)
  <2>1. Tail(Q2[p]) \in Seq(Query)
    BY <1>8 DEF PopFront
  <2> QED BY <1>8, <2>1 DEF PopFront, Pop, Unlock
<1>9. CASE LogDone(p)
  <2>1. victim[p] \in Query /\ doneLog[p] \in Seq(Query)
    BY <1>9 DEF LogDone
  <2>2. Append(doneLog[p], victim[p]) \in Seq(Query)
    BY <2>1
  <2>3. doneLog' \in [Replicas -> Seq(Query)]
    BY <1>9, <2>2 DEF LogDone
  <2> QED BY <1>9, <2>1, <2>3 DEF LogDone
<1> QED BY <1>1, <1>2, <1>3, <1>4, <1>5, <1>6, <1>7, <1>8, <1>9 DEF Worker

LEMMA FrontClock == FrontInv /\ Clock => FrontInv'
  BY DEF FrontInv, TypeOK, ReplicaTypeOK, RemovesWhatItRan, WorksOnAQuery,
         Clock, Tick, mainVars, selectVars, workerVars

LEMMA FrontBalancer == FrontInv /\ Balancer => FrontInv'
<1> SUFFICES ASSUME FrontInv, Balancer PROVE FrontInv'
  OBVIOUS
<1> USE DEF FrontInv, TypeOK, ReplicaTypeOK, RemovesWhatItRan, WorksOnAQuery,
           Owner, mainVars, selectVars, workerVars, At
<1>1. ASSUME NEW r \in Replicas, BalancerLock(r) PROVE FrontInv'
  BY <1>1 DEF BalancerLock, Lock
<1>2. ASSUME NEW r \in Replicas, BalancerUnlock(r) PROVE FrontInv'
  BY <1>2 DEF BalancerUnlock, Unlock
<1>3. ASSUME NEW r \in Replicas, NEW c \in Costs, Choose(r, c) PROVE FrontInv'
  <2>1. cost' \in [Query -> Int]
    BY <1>3, ReplicaAssumption DEF Choose
  <2> QED BY <1>3, <2>1 DEF Choose, MainPC
<1> QED BY <1>1, <1>2, <1>3 DEF Balancer

LEMMA FrontMain == FrontInv /\ MainStep => FrontInv'
<1> SUFFICES ASSUME FrontInv, MainStep PROVE FrontInv'
  OBVIOUS
<1> USE DEF FrontInv, TypeOK, ReplicaTypeOK, RemovesWhatItRan, WorksOnAQuery,
           MainPC, Owner, replicaVars, selectVars, workerVars, At
<1>1. CASE EnterAddQuery
  BY <1>1 DEF EnterAddQuery, MoreTasks
<1>2. CASE EnterAddInsertQuery
  BY <1>2 DEF EnterAddInsertQuery, Crash
<1>3. CASE LockToAdd
  BY <1>3 DEF LockToAdd, Lock
<1>4. CASE Push
  <2>1. Current \in Query /\ it + 1 \in 0..NumTask
    BY <1>4, ReplicaAssumption DEF Push, Current, Query
  <2>2. now \in Int /\ totalCost[target] + cost[Current] \in Int
    BY <2>1
  <2>3. /\ created' \in [Query -> Int]
        /\ totalCost' \in [Replicas -> Int]
        /\ mutex' \in [Replicas -> Owner]
    BY <1>4, <2>1, <2>2 DEF Push, AddRequest, Unlock
  <2>4. /\ Append(Q2[target], Current) \in Seq(Query)
        /\ Q2[target] # <<>> =>
              /\ Append(Q2[target], Current) # <<>>
              /\ Head(Append(Q2[target], Current)) = Head(Q2[target])
    <3> DEFINE s == Q2[target]
               e == Current
    <3>1. s \in Seq(Query) /\ e \in Query
      BY <2>1
    <3> HIDE DEF s, e, FrontInv, TypeOK, ReplicaTypeOK, RemovesWhatItRan, WorksOnAQuery
    <3>2. Append(s, e) \in Seq(Query)
      BY <3>1
    <3>3. s # <<>> => Append(s, e) # <<>> /\ Head(Append(s, e)) = Head(s)
      BY <3>1
    <3> QED BY <3>2, <3>3 DEF s, e
  <2>5. Q2' = [Q2 EXCEPT ![target] = Append(Q2[target], Current)]
    BY <1>4 DEF Push, AddRequest, PushBack
  <2> QED BY <1>4, <2>1, <2>3, <2>4, <2>5 DEF Push
<1>5. CASE EndLoop
  BY <1>5 DEF EndLoop
<1>6. CASE Report
  BY <1>6, ReplicaAssumption DEF Report, Replicas
<1>7. CASE ReportPastEnd
  BY <1>7 DEF ReportPastEnd, Crash
<1>8. CASE LockToCount
  BY <1>8 DEF LockToCount, Lock
<1>9. CASE CountActive
  <2>1. sweep' \in Replicas
    BY <1>9, ReplicaAssumption DEF CountActive, HasNext, Replicas
  <2> QED BY <1>9, <2>1 DEF CountActive, Unlock
<1>10. CASE Exit
  BY <1>10 DEF Exit
<1> QED BY <1>1, <1>2, <1>3, <1>4, <1>5, <1>6, <1>7, <1>8, <1>9, <1>10 DEF MainStep

LEMMA FrontStep == FrontInv /\ [DriverNext]_driverVars => FrontInv'
<1> SUFFICES ASSUME FrontInv, [DriverNext]_driverVars PROVE FrontInv'
  OBVIOUS
<1>1. CASE UNCHANGED driverVars
  BY <1>1 DEF FrontInv, TypeOK, ReplicaTypeOK, RemovesWhatItRan, WorksOnAQuery,
              driverVars, replicaVars, mainVars, selectVars, workerVars
<1>2. CASE Workers
  BY <1>2, FrontWorker DEF Workers
<1> QED BY <1>1, <1>2, FrontClock, FrontBalancer, FrontMain DEF DriverNext

LEMMA FrontInvariant == DriverSafety => []FrontInv
  BY FrontInit, FrontStep, PTL DEF DriverSafety

(* All variables of main and of the replicas always have their types.      *)
THEOREM TypeCorrect == DriverSafety => []TypeOK
  BY FrontInvariant, PTL DEF FrontInv

(* For any number of replicas and tasks, and any balancer, what a worker   *)
(* removes, un-costs and logs is the query it ran.                         *)
THEOREM WorkerRemovesWhatItRan == DriverSafety => []RemovesWhatItRan
  BY FrontInvariant, PTL DEF FrontInv
-----------------------------------------------------------------------------
(* The mutexes.  For the invariant to be inductive it must also say that   *)
(* main does hold the mutex it is about to release.                        *)

MutexInv == /\ WorkerOwnsMutex
            /\ MainHoldsOneMutex
            /\ mpc = "push" => MainHolds(target)
            /\ mpc = "count" => MainHolds(sweep)

LEMMA MutexInit == DriverInit => MutexInv
  BY DEF DriverInit, ReplicaInit, MutexInv, WorkerOwnsMutex, MainHoldsOneMutex,
         MainHolds

(* A worker neither takes a mutex main holds nor releases one.             *)
LEMMA MutexWorker ==
    ASSUME TypeOK, MutexInv, NEW p \in Replicas, Worker(p), UNCHANGED mainVars
    PROVE  MutexInv'
<1>1. WorkerOwnsMutex'
  <2> USE DEF MutexInv, WorkerOwnsMutex, TypeOK, ReplicaTypeOK, Goto
  <2>1. CASE Poll(p)
    BY <2>1 DEF Poll, Lock
  <2>2. CASE FindEmpty(p)
    BY <2>2 DEF FindEmpty, Unlock
  <2>3. CASE TakeFront(p)
    BY <2>3 DEF TakeFront, Unlock
  <2>4. CASE StartProcess(p)
    BY <2>4 DEF StartProcess
  <2>5. CASE ExecuteQuery(p)
    BY <2>5 DEF ExecuteQuery
  <2>6. CASE LockToRemove(p)
    BY <2>6 DEF LockToRemove, Lock
  <2>7. CASE ReduceTotal(p)
    BY <2>7 DEF ReduceTotal
  <2>8. CASE PopFront(p)
    BY <2>8 DEF PopFront, Unlock
  <2>9. CASE LogDone(p)
    BY <2>9 DEF LogDone
  <2> QED BY <2>1, <2>2, <2>3, <2>4, <2>5, <2>6, <2>7, <2>8, <2>9 DEF Worker
<1>2. \A r \in Replicas : MainHolds(r)' <=> MainHolds(r)
  BY DEF MutexInv, WorkerOwnsMutex, MainHolds, Worker, Poll, FindEmpty, TakeFront,
         StartProcess, ExecuteQuery, LockToRemove, ReduceTotal, PopFront, LogDone,
         Goto, Lock, Unlock, TypeOK, ReplicaTypeOK
<1>3. target' = target /\ sweep' = sweep /\ mpc' = mpc
  BY DEF mainVars
<1> QED BY <1>1, <1>2, <1>3 DEF MutexInv, MainHoldsOneMutex, TypeOK

LEMMA MutexBalancer == TypeOK /\ MutexInv /\ Balancer => MutexInv'
<1> SUFFICES ASSUME TypeOK, MutexInv, Balancer PROVE MutexInv'
  OBVIOUS
<1> USE DEF MutexInv, WorkerOwnsMutex, MainHoldsOneMutex, MainHolds,
           MainHoldsNothing, TypeOK, ReplicaTypeOK, mainVars, workerVars, At
<1>1. ASSUME NEW r \in Replicas, BalancerLock(r) PROVE MutexInv'
  BY <1>1 DEF BalancerLock, Lock
<1>2. ASSUME NEW r \in Replicas, BalancerUnlock(r) PROVE MutexInv'
  BY <1>2 DEF BalancerUnlock, Unlock
<1>3. ASSUME NEW r \in Replicas, NEW c \in Costs, Choose(r, c) PROVE MutexInv'
  BY <1>3 DEF Choose
<1> QED BY <1>1, <1>2, <1>3 DEF Balancer

LEMMA MutexMain == TypeOK /\ MutexInv /\ MainStep => MutexInv'
<1> SUFFICES ASSUME TypeOK, MutexInv, MainStep PROVE MutexInv'
  OBVIOUS
<1> USE DEF MutexInv, WorkerOwnsMutex, MainHoldsOneMutex, MainHolds,
           TypeOK, ReplicaTypeOK, replicaVars, mainVars, workerVars, At
<1>1. CASE EnterAddQuery \/ EnterAddInsertQuery \/ EndLoop \/ Report
           \/ ReportPastEnd \/ Exit
  BY <1>1 DEF EnterAddQuery, EnterAddInsertQuery, EndLoop, Report, ReportPastEnd,
              Exit, Crash
<1>2. CASE LockToAdd \/ LockToCount
  BY <1>2, ZenonT(40) DEF LockToAdd, LockToCount, Lock
<1>3. CASE Push
  BY <1>3 DEF Push, AddRequest, Unlock
<1>4. CASE CountActive
  BY <1>4 DEF CountActive, Unlock
<1> QED BY <1>1, <1>2, <1>3, <1>4 DEF MainStep

LEMMA MutexStep == TypeOK /\ MutexInv /\ [DriverNext]_driverVars => MutexInv'
<1> SUFFICES ASSUME TypeOK, MutexInv, [DriverNext]_driverVars PROVE MutexInv'
  OBVIOUS
<1>1. CASE UNCHANGED driverVars \/ Clock
  BY <1>1 DEF MutexInv, WorkerOwnsMutex, MainHoldsOneMutex, MainHolds, driverVars,
              replicaVars, mainVars, workerVars, Clock, Tick
<1>2. CASE Workers
  BY <1>2, MutexWorker DEF Workers
<1> QED BY <1>1, <1>2, MutexBalancer, MutexMain DEF DriverNext

LEMMA MutexInvariant == DriverSafety => []MutexInv
  BY MutexInit, MutexStep, TypeCorrect, PTL DEF DriverSafety

(* A worker owns its replica's mutex exactly in its critical sections, and *)
(* main never holds two mutexes, nor any outside its critical sections.    *)
THEOREM Locking == DriverSafety => []MutexDiscipline
<1>1. MutexInv => MutexDiscipline
  BY DEF MutexInv, MutexDiscipline
<1> QED BY <1>1, MutexInvariant, PTL
-----------------------------------------------------------------------------
(* The steps of the program as steps of the abstract dispatcher.           *)

LEMMA WorkerIsPromised ==
    ASSUME FrontInv, NEW p \in Replicas, Worker(p), UNCHANGED mainVars
    PROVE  [Promise!Next]_Promise!vars
<1> USE DEF FrontInv, TypeOK, ReplicaTypeOK, RemovesWhatItRan, Goto, Pending,
           Promise!vars, mainVars
<1>1. CASE Poll(p) \/ FindEmpty(p) \/ StartProcess(p) \/ LockToRemove(p)
           \/ ReduceTotal(p) \/ LogDone(p) \/ TakeFront(p)
  <2>1. Q2' = Q2 /\ executed' = executed
    BY <1>1 DEF Poll, FindEmpty, StartProcess, LockToRemove, ReduceTotal, LogDone,
                TakeFront
  <2>2. Pending' = Pending
    BY <1>1, <2>1 DEF Poll, FindEmpty, StartProcess, LockToRemove, ReduceTotal,
                      LogDone, TakeFront
  <2> QED BY <2>1, <2>2
<1>2. CASE ExecuteQuery(p)
  <2>1. Pending[p] = Q2[p] /\ Q2[p] # <<>> /\ Head(Q2[p]) = top[p]
    BY <1>2 DEF ExecuteQuery
  <2>2. Pending' = [Pending EXCEPT ![p] = Tail(Q2[p])]
    BY <1>2 DEF ExecuteQuery
  <2>3. executed' = [executed EXCEPT ![p] = Append(@, top[p])] /\ it' = it
    BY <1>2 DEF ExecuteQuery
  <2>4. Promise!Complete(p)
    <3> HIDE DEF Pending, FrontInv, TypeOK, RemovesWhatItRan
    <3> QED BY <2>1, <2>2, <2>3 DEF Promise!Complete, Promise!Dequeue
  <2> QED BY <2>4 DEF Promise!Next
<1>3. CASE PopFront(p)
  BY <1>3 DEF PopFront, Pop
<1> QED BY <1>1, <1>2, <1>3 DEF Worker

(* main's addRequest hands the next task to its target.                   *)
LEMMA PushIsSubmit ==
    ASSUME FrontInv, Push
    PROVE  target \in Replicas /\ Promise!Submit(target)
<1> DEFINE s == Q2[target]
           e == Current
<1>1. s \in Seq(Query) /\ e \in Query /\ target \in Replicas
  BY ReplicaAssumption
     DEF FrontInv, TypeOK, ReplicaTypeOK, Push, At, Current, Query
<1>2. Q2' = [Q2 EXCEPT ![target] = Append(s, e)] /\ wpc' = wpc /\ executed' = executed
      /\ it' = it + 1 /\ it < NumTask /\ e = it + 1
  BY DEF Push, AddRequest, PushBack, At, FrontInv, TypeOK, workerVars, Current
<1>3. wpc[target] \in {"remove", "uncost", "pop"} => s # <<>>
  BY <1>1 DEF FrontInv, RemovesWhatItRan
<1> HIDE DEF s, e
<1>4. s # <<>> => Tail(Append(s, e)) = Append(Tail(s), e)
  BY <1>1
<1>5. Pending' = [Pending EXCEPT ![target] = Append(@, e)]
  BY <1>1, <1>2, <1>3, <1>4 DEF Pending, FrontInv, TypeOK, ReplicaTypeOK, s
<1> QED BY <1>1, <1>2, <1>5 DEF Promise!Submit, Promise!MoreTasks, Promise!Enqueue

(* Everything else main, the balancer and the clock do moves no task.      *)
LEMMA OtherwiseNothingMoves ==
    ASSUME MainStep \/ Balancer \/ Clock, ~Push
    PROVE  UNCHANGED <<it, Q2, wpc, executed>>
  BY DEF MainStep, Balancer, Clock, Tick, EnterAddQuery, EnterAddInsertQuery,
         LockToAdd, EndLoop, Report, ReportPastEnd, LockToCount, CountActive,
         Exit, Crash, BalancerLock, BalancerUnlock, Choose, replicaVars,
         mainVars, workerVars

(* Nobody but main's addRequest makes a queue longer.                      *)
LEMMA OnlyPushFills ==
    ASSUME FrontInv, [DriverNext]_driverVars, ~Push, NEW r \in Replicas
    PROVE  Len(Q2'[r]) <= Len(Q2[r]) /\ Len(Q2[r]) \in Nat /\ Len(Q2'[r]) \in Nat
<1>1. Q2[r] \in Seq(Query)
  BY DEF FrontInv, TypeOK, ReplicaTypeOK
<1>2. CASE Q2'[r] = Q2[r]
  BY <1>1, <1>2
<1>3. CASE Q2[r] # <<>> /\ Q2'[r] = Tail(Q2[r])
  BY <1>1, <1>3
<1>4. ASSUME NEW p \in Replicas, Worker(p)
      PROVE  Q2'[r] = Q2[r] \/ (Q2[r] # <<>> /\ Q2'[r] = Tail(Q2[r]))
  BY <1>4 DEF FrontInv, TypeOK, ReplicaTypeOK, RemovesWhatItRan, Worker, Poll, FindEmpty,
              TakeFront, StartProcess, ExecuteQuery, LockToRemove, ReduceTotal,
              PopFront, Pop, LogDone, Goto
<1> QED BY <1>2, <1>3, <1>4, OtherwiseNothingMoves
           DEF DriverNext, Workers, driverVars, replicaVars

LEMMA MainIsPromised ==
    ASSUME FrontInv, MainStep \/ Balancer \/ Clock
    PROVE  [Promise!Next]_Promise!vars
<1>1. CASE Push
  BY <1>1, PushIsSubmit DEF Promise!Next
<1>2. CASE ~Push
  BY <1>2, OtherwiseNothingMoves DEF Pending, Promise!vars
<1> QED BY <1>1, <1>2

LEMMA StepIsPromised ==
    ASSUME FrontInv, [DriverNext]_driverVars
    PROVE  [Promise!Next]_Promise!vars
<1>1. CASE UNCHANGED driverVars
  BY <1>1 DEF driverVars, replicaVars, mainVars, workerVars, Pending, Promise!vars
<1>2. CASE Workers
  BY <1>2, WorkerIsPromised DEF Workers
<1> QED BY <1>1, <1>2, MainIsPromised DEF DriverNext

(* Under any balancer the program keeps the promise of Dispatch: the next  *)
(* task to one replica, the oldest task of one replica completed, or       *)
(* neither, at every step.                                                 *)
THEOREM DriverImplementsDispatch == DriverSafety => ImplementsDispatch
<1>1. DriverInit => Promise!Init
  BY DEF DriverInit, ReplicaInit, Promise!Init, Pending
<1> QED BY <1>1, StepIsPromised, FrontInvariant, PTL DEF DriverSafety, ImplementsDispatch,
                                                      Promise!Safety
-----------------------------------------------------------------------------
(* The exit.  A queue the drain loop has found empty stays empty, because  *)
(* main is the only one that fills queues and is past its loop.            *)

DrainInv ==
    /\ mpc \in {"report", "drain", "count", "leaving", "exited"} => it = NumTask
    /\ mpc \in {"drain", "count"} =>
          \A r \in Replicas : r < sweep => Q2[r] = <<>>
    /\ mpc \in {"leaving", "exited"} => \A r \in Replicas : Q2[r] = <<>>

LEMMA DrainInit == DriverInit => DrainInv
  BY DEF DriverInit, DrainInv

LEMMA DrainWorker ==
    ASSUME FrontInv, DrainInv, NEW p \in Replicas, Worker(p), UNCHANGED mainVars
    PROVE  DrainInv'
<1>1. \A r \in Replicas : Q2[r] = <<>> => Q2'[r] = <<>>
  BY DEF FrontInv, TypeOK, ReplicaTypeOK, RemovesWhatItRan, Worker, Poll, FindEmpty,
         TakeFront, StartProcess, ExecuteQuery, LockToRemove, ReduceTotal, PopFront,
         LogDone, Goto
<1> QED BY <1>1 DEF DrainInv, mainVars

LEMMA DrainMain == TypeOK /\ DrainInv /\ (MainStep \/ Balancer \/ Clock) => DrainInv'
<1> SUFFICES ASSUME TypeOK, DrainInv, MainStep \/ Balancer \/ Clock
             PROVE  DrainInv'
  OBVIOUS
<1> USE DEF DrainInv, TypeOK, replicaVars, mainVars, workerVars, At
<1>1. CASE Clock
  BY <1>1 DEF Clock, Tick
<1>2. CASE Balancer
  BY <1>2 DEF Balancer, BalancerLock, BalancerUnlock, Choose
<1>3. CASE EnterAddQuery \/ EnterAddInsertQuery \/ LockToAdd \/ Push
           \/ ReportPastEnd
  BY <1>3 DEF EnterAddQuery, EnterAddInsertQuery, LockToAdd, Push, ReportPastEnd, Crash
<1>4. CASE EndLoop
  BY <1>4, ReplicaAssumption DEF EndLoop, MoreTasks
<1>5. CASE Report
  BY <1>5, ReplicaAssumption DEF Report, Replicas
<1>6. CASE LockToCount \/ Exit
  BY <1>6 DEF LockToCount, Exit
<1>7. CASE CountActive
  <2>1. ~StillActive(sweep) => Q2[sweep] = <<>>
    <3>1. Q2[sweep] \in Seq(Query)
      BY DEF ReplicaTypeOK
    <3> QED BY <3>1 DEF StillActive
  <2>2. Replicas \subseteq Nat /\ \A r \in Replicas : r < NumReplicas
    BY ReplicaAssumption DEF Replicas
  <2> QED BY <1>7, <2>1, <2>2, ReplicaAssumption DEF CountActive, HasNext
<1> QED BY <1>1, <1>2, <1>3, <1>4, <1>5, <1>6, <1>7 DEF MainStep

LEMMA DrainInvariant == DriverSafety => []DrainInv
<1>1. FrontInv /\ DrainInv /\ [DriverNext]_driverVars => DrainInv'
  <2> SUFFICES ASSUME FrontInv, DrainInv, [DriverNext]_driverVars PROVE DrainInv'
    OBVIOUS
  <2>1. CASE UNCHANGED driverVars
    BY <2>1 DEF DrainInv, driverVars, replicaVars, mainVars
  <2>2. CASE Workers
    BY <2>2, DrainWorker DEF Workers
  <2> QED BY <2>1, <2>2, DrainMain DEF DriverNext, FrontInv
<1> QED BY <1>1, DrainInit, FrontInvariant, PTL DEF DriverSafety

(* What DispatchProofs proves holds of the program through the refinement. *)
Proved == INSTANCE DispatchProofs WITH submitted <- it,
                                       queue <- Pending,
                                       completed <- executed

LEMMA SamePromise ==
    /\ Promise!Init => Proved!Init
    /\ [Promise!Next]_Promise!vars => [Proved!Next]_Proved!vars
    /\ \A r \in Replicas : Promise!Submit(r) => Proved!Submit(r)
  BY DEF Promise!Init, Proved!Init, Promise!Next, Proved!Next, Promise!vars,
         Proved!vars, Promise!Submit, Proved!Submit, Promise!Complete, Proved!Complete,
         Promise!MoreTasks, Proved!MoreTasks, Promise!Enqueue, Proved!Enqueue,
         Promise!Dequeue, Proved!Dequeue

LEMMA ExactlyOnceHere == DriverSafety => []Proved!ExactlyOnce
  BY SamePromise, DriverImplementsDispatch, Proved!NothingLostNothingTwice, PTL
     DEF ImplementsDispatch, Promise!Safety, Proved!Safety

(* Every task main has submitted is with exactly one replica, queued or    *)
(* run, and in one place there: for any balancer, any pool and any         *)
(* interleaving (Database::addRequest, Database::threadFun).               *)
THEOREM EachTaskInOnePlace == DriverSafety => []ExactlyOnce
<1>1. Proved!ExactlyOnce => ExactlyOnce
  BY DEF ExactlyOnce, Promise!ExactlyOnce, Proved!ExactlyOnce, Promise!Handed, Proved!Handed
<1> QED BY <1>1, ExactlyOnceHere, PTL

(* When main leaves the drain loop nothing is queued, and every task has   *)
(* been run: for any balancer, however the workers raced with the sweep.   *)
THEOREM NothingIsKilledByExit == DriverSafety => []ExitMeansDrained
<1>1. FrontInv /\ DrainInv /\ Proved!ExactlyOnce => ExitMeansDrained
  <2> SUFFICES ASSUME FrontInv, DrainInv, Proved!ExactlyOnce,
                      mpc \in {"leaving", "exited"}
               PROVE  /\ it = NumTask
                      /\ \A r \in Replicas : Q2[r] = <<>>
                      /\ \A q \in Query : \E r \in Replicas : q \in Range(executed[r])
    BY DEF ExitMeansDrained
  <2>1. it = NumTask /\ \A r \in Replicas : Q2[r] = <<>>
    BY DEF DrainInv
  <2>2. \A r \in Replicas : Pending[r] = <<>>
    BY <2>1 DEF Pending, FrontInv, RemovesWhatItRan
  <2>3. ASSUME NEW q \in Query PROVE \E r \in Replicas : q \in Range(executed[r])
    <3>1. q \in 1..it
      BY <2>1 DEF Query
    <3>2. PICK r \in Replicas : \E n \in 1..Len(Proved!Handed[r]) :
                                   Proved!Handed[r][n] = q
      BY <3>1 DEF Proved!ExactlyOnce
    <3>3. executed[r] \in Seq(Query)
      BY DEF FrontInv, TypeOK, ReplicaTypeOK
    <3>4. executed[r] \o <<>> = executed[r]
      BY <3>3
    <3>5. Proved!Handed[r] = executed[r]
      BY <2>2, <3>4 DEF Proved!Handed
    <3>6. \E n \in 1..Len(executed[r]) : executed[r][n] = q
      BY <3>2, <3>5
    <3> QED BY <3>3, <3>6 DEF Range
  <2> QED BY <2>1, <2>3
<1> QED BY <1>1, FrontInvariant, DrainInvariant, ExactlyOnceHere, PTL
-----------------------------------------------------------------------------
(* The running totals.  main sets the cost of the query it is about to     *)
(* queue and of no other: for the sums of the queues to stay what they     *)
(* are, the invariant must say that only submitted queries are queued.     *)

CostsTotal(c, s) == TotalOf([k \in 1..Len(s) |-> c[s[k]]])

LEMMA CostsTotalAppend ==
    ASSUME NEW c \in [Query -> Int], NEW s \in Seq(Query), NEW q \in Query
    PROVE  CostsTotal(c, Append(s, q)) = CostsTotal(c, s) + c[q]
<1> DEFINE f == [k \in 1..Len(s) |-> c[s[k]]]
           g == [k \in 1..Len(Append(s, q)) |-> c[Append(s, q)[k]]]
<1>1. f \in Seq(Int) /\ c[q] \in Int
  OBVIOUS
<1>2. g = Append(f, c[q])
  OBVIOUS
<1> HIDE DEF f, g
<1>3. TotalOf(g) = TotalOf(f) + c[q]
  BY <1>1, <1>2, TotalOfAppend
<1> QED BY <1>3 DEF CostsTotal, f, g

LEMMA CostsTotalTail ==
    ASSUME NEW c \in [Query -> Int], NEW s \in Seq(Query), s # <<>>
    PROVE  CostsTotal(c, s) = c[Head(s)] + CostsTotal(c, Tail(s))
<1> DEFINE f == [k \in 1..Len(s) |-> c[s[k]]]
           g == [k \in 1..Len(Tail(s)) |-> c[Tail(s)[k]]]
<1>1. f \in Seq(Int) /\ f # <<>> /\ Head(f) = c[Head(s)]
  OBVIOUS
<1>2. g = Tail(f)
  OBVIOUS
<1> HIDE DEF f, g
<1>3. TotalOf(f) = Head(f) + TotalOf(g)
  BY <1>1, <1>2, TotalOfTail
<1> QED BY <1>1, <1>3 DEF CostsTotal, f, g

LEMMA CostsTotalSame ==
    ASSUME NEW c, NEW d, NEW s, \A k \in 1..Len(s) : c[s[k]] = d[s[k]]
    PROVE  CostsTotal(c, s) = CostsTotal(d, s)
  BY DEF CostsTotal

LEMMA CostsTotalType ==
    ASSUME NEW c \in [Query -> Int], NEW s \in Seq(Query)
    PROVE  CostsTotal(c, s) \in Int
<1> DEFINE f == [k \in 1..Len(s) |-> c[s[k]]]
<1>1. f \in Seq(Int)
  OBVIOUS
<1> HIDE DEF f
<1>2. TotalOf(f) \in Int
  BY <1>1, TotalType
<1> QED BY <1>2 DEF CostsTotal, f

(* The queries totalCost stands for.                                       *)
Charged(r) == IF wpc[r] = "pop" THEN Tail(Q2[r]) ELSE Q2[r]

LedgerInv ==
    \A r \in Replicas : /\ \A k \in 1..Len(Q2[r]) : Q2[r][k] \in 1..it
                        /\ totalCost[r] = CostsTotal(cost, Charged(r))

LEMMA LedgerInit == DriverInit => LedgerInv
<1> SUFFICES ASSUME DriverInit, NEW r \in Replicas
             PROVE  /\ \A k \in 1..Len(Q2[r]) : Q2[r][k] \in 1..it
                    /\ totalCost[r] = CostsTotal(cost, Charged(r))
  BY DEF LedgerInv
<1>1. Q2[r] = <<>> /\ Charged(r) = <<>> /\ totalCost[r] = 0
  BY DEF DriverInit, ReplicaInit, Charged
<1>2. [k \in 1..0 |-> cost[<<>>[k]]] = <<>>
  OBVIOUS
<1>3. CostsTotal(cost, <<>>) = 0
  BY <1>2, TotalOfNone DEF CostsTotal
<1> QED BY <1>1, <1>3

(* A replica whose queue, total and worker are where they were, and whose  *)
(* queries cost what they cost, keeps its part of the invariant.           *)
LEMMA LedgerKept ==
    ASSUME LedgerInv, NEW r \in Replicas, Q2[r] \in Seq(Query),
           Q2'[r] = Q2[r], totalCost'[r] = totalCost[r],
           (wpc'[r] = "pop") <=> (wpc[r] = "pop"),
           wpc[r] = "pop" => Q2[r] # <<>>,
           \A q \in 1..it : cost'[q] = cost[q]
    PROVE  totalCost'[r] = CostsTotal(cost', Charged(r)')
<1>1. Charged(r)' = Charged(r)
  BY DEF Charged
<1>2. \A k \in 1..Len(Charged(r)) : Charged(r)[k] \in 1..it
  <2>1. \A k \in 1..Len(Q2[r]) : Q2[r][k] \in 1..it
    BY DEF LedgerInv
  <2>2. Q2[r] # <<>> => \A k \in 1..Len(Tail(Q2[r])) :
                           Tail(Q2[r])[k] = Q2[r][k + 1] /\ k + 1 \in 1..Len(Q2[r])
    OBVIOUS
  <2> QED BY <2>1, <2>2 DEF Charged
<1>3. CostsTotal(cost', Charged(r)) = CostsTotal(cost, Charged(r))
  BY <1>2, CostsTotalSame
<1>4. totalCost[r] = CostsTotal(cost, Charged(r))
  BY DEF LedgerInv
<1> QED BY <1>1, <1>3, <1>4

(* The worker's subtraction and its pop, which the invariant tells apart.  *)
LEMMA LedgerWorker ==
    ASSUME FrontInv, LedgerInv, NEW p \in Replicas, Worker(p), UNCHANGED mainVars
    PROVE  LedgerInv'
<1>1. it' = it /\ cost' = cost /\ \A r \in Replicas : Q2[r] \in Seq(Query)
  BY DEF mainVars, Worker, Poll, FindEmpty, TakeFront, StartProcess, ExecuteQuery,
         LockToRemove, ReduceTotal, PopFront, LogDone, selectVars, FrontInv, TypeOK,
         ReplicaTypeOK
<1>2. \A r \in Replicas : wpc[r] \in {"uncost", "pop"} => Q2[r] # <<>>
  BY DEF FrontInv, RemovesWhatItRan
<1>3. \A r \in Replicas : r # p => /\ Q2'[r] = Q2[r] /\ totalCost'[r] = totalCost[r]
                                   /\ wpc'[r] = wpc[r]
  BY DEF Worker, Poll, FindEmpty, TakeFront, StartProcess, ExecuteQuery, Goto,
         LockToRemove, ReduceTotal, PopFront, LogDone, FrontInv, TypeOK, ReplicaTypeOK
<1>4. CASE ReduceTotal(p) 
  <2>1. Q2'[p] = Q2[p] /\ wpc[p] = "uncost" /\ wpc'[p] = "pop"
    BY <1>4 DEF ReduceTotal, Goto, FrontInv, TypeOK, ReplicaTypeOK
  <2>2. totalCost'[p] = totalCost[p] - cost[Head(Q2[p])]
    BY <1>4 DEF ReduceTotal, ToRemove, FrontInv, TypeOK, ReplicaTypeOK
  <2>3. cost \in [Query -> Int] /\ Head(Q2[p]) \in Query /\ Tail(Q2[p]) \in Seq(Query)
    BY <1>1, <1>2, <2>1 DEF FrontInv, TypeOK, ReplicaTypeOK
  <2>4. Charged(p) = Q2[p] /\ Charged(p)' = Tail(Q2[p])
    BY <2>1 DEF Charged
  <2>5. totalCost[p] = CostsTotal(cost, Q2[p])
    BY <2>4 DEF LedgerInv
  <2>6. CostsTotal(cost, Q2[p]) = cost[Head(Q2[p])] + CostsTotal(cost, Tail(Q2[p]))
    BY <1>1, <1>2, <2>1, <2>3, CostsTotalTail
  <2>7. CostsTotal(cost, Tail(Q2[p])) \in Int
    BY <2>3, CostsTotalType
  <2>8. totalCost'[p] = CostsTotal(cost, Tail(Q2[p]))
    BY <2>2, <2>3, <2>5, <2>6, <2>7
  <2>9. totalCost'[p] = CostsTotal(cost', Charged(p)')
    BY <1>1, <2>4, <2>8
  <2>10. \A k \in 1..Len(Q2'[p]) : Q2'[p][k] \in 1..it
    BY <2>1 DEF LedgerInv
  <2> QED BY <1>1, <1>2, <1>3, <2>9, <2>10, LedgerKept DEF LedgerInv
<1>5. CASE PopFront(p)
  <2>1. Q2'[p] = Tail(Q2[p]) /\ wpc[p] = "pop" /\ wpc'[p] = "log" /\ totalCost' = totalCost
    BY <1>5 DEF PopFront, Pop, Goto, FrontInv, TypeOK, ReplicaTypeOK
  <2>2. totalCost'[p] = CostsTotal(cost', Charged(p)')
    <3>1. Charged(p) = Tail(Q2[p]) /\ Charged(p)' = Tail(Q2[p])
      BY <2>1 DEF Charged
    <3> QED BY <1>1, <2>1, <3>1 DEF LedgerInv
  <2>3. \A k \in 1..Len(Tail(Q2[p])) :
           Tail(Q2[p])[k] = Q2[p][k + 1] /\ k + 1 \in 1..Len(Q2[p])
    BY <1>1, <1>2, <2>1
  <2>4. \A k \in 1..Len(Q2'[p]) : Q2'[p][k] \in 1..it
    BY <2>1, <2>3 DEF LedgerInv
  <2> QED BY <1>1, <1>2, <1>3, <2>2, <2>4, LedgerKept DEF LedgerInv
<1>6. CASE ~ReduceTotal(p) /\ ~PopFront(p)
  <2>1. /\ Q2' = Q2 /\ totalCost' = totalCost
        /\ (wpc'[p] = "pop") <=> (wpc[p] = "pop")
    BY <1>6 DEF Worker, Poll, FindEmpty, TakeFront, StartProcess, ExecuteQuery, Goto,
                LockToRemove, LogDone, FrontInv, TypeOK, ReplicaTypeOK
  <2> QED BY <1>1, <1>2, <1>3, <2>1, LedgerKept DEF LedgerInv
<1> QED BY <1>4, <1>5, <1>6

(* addRequest adds the query and its cost together, while the worker is    *)
(* not between its two steps: main has the mutex.                          *)
LEMMA LedgerPush ==
    ASSUME FrontInv, MutexInv, LedgerInv, Push
    PROVE  LedgerInv'
<1> DEFINE s == Q2[target]
           e == Current
<1>1. s \in Seq(Query) /\ e \in Query /\ target \in Replicas /\ it \in Nat
      /\ e = it + 1 /\ cost \in [Query -> Int]
  BY ReplicaAssumption
     DEF FrontInv, TypeOK, ReplicaTypeOK, Push, At, Current, Query
<1>2. Q2' = [Q2 EXCEPT ![target] = Append(s, e)] /\ wpc' = wpc /\ it' = it + 1
      /\ cost' = cost /\ totalCost' = [totalCost EXCEPT ![target] = @ + cost[e]]
      /\ target' = target
  BY DEF Push, AddRequest, PushBack, workerVars
<1>3. wpc[target] # "pop"
  BY <1>1 DEF MutexInv, WorkerOwnsMutex, MainHolds, Push, AddRequest, At
<1>4. Q2'[target] = Append(s, e) /\ totalCost'[target] = totalCost[target] + cost[e]
  BY <1>1, <1>2 DEF FrontInv, TypeOK, ReplicaTypeOK
<1>5. \A r \in Replicas : r # target => Q2'[r] = Q2[r] /\ totalCost'[r] = totalCost[r]
  BY <1>2 DEF FrontInv, TypeOK, ReplicaTypeOK
<1>6. totalCost'[target] = CostsTotal(cost', Charged(target)')
  <2>1. Charged(target) = s
    BY <1>3 DEF Charged
  <2>2. totalCost[target] = CostsTotal(cost, s)
    BY <1>1, <2>1 DEF LedgerInv
  <2> HIDE DEF s, e
  <2>3. Charged(target)' = Append(s, e)
    BY <1>2, <1>3, <1>4 DEF Charged
  <2> QED BY <1>1, <1>2, <1>4, <2>2, <2>3, CostsTotalAppend
<1>7. \A k \in 1..Len(Q2'[target]) : Q2'[target][k] \in 1..it'
  <2>1. \A k \in 1..Len(s) : s[k] \in 1..it
    BY <1>1 DEF LedgerInv
  <2> HIDE DEF s, e
  <2>2. \A k \in 1..Len(Append(s, e)) : \/ k \in 1..Len(s) /\ Append(s, e)[k] = s[k]
                                        \/ Append(s, e)[k] = e
    BY <1>1
  <2>3. \A k \in 1..Len(Append(s, e)) : Append(s, e)[k] \in 1..(it + 1)
    BY <1>1, <2>1, <2>2
  <2> QED BY <1>2, <1>4, <2>3
<1>8. ASSUME NEW r \in Replicas, r # target
      PROVE  /\ \A k \in 1..Len(Q2'[r]) : Q2'[r][k] \in 1..it'
             /\ totalCost'[r] = CostsTotal(cost', Charged(r)')
  <2>1. Q2[r] \in Seq(Query) /\ (wpc[r] = "pop" => Q2[r] # <<>>)
    BY DEF FrontInv, TypeOK, ReplicaTypeOK, RemovesWhatItRan
  <2>2. \A k \in 1..Len(Q2[r]) : Q2[r][k] \in 1..it
    BY DEF LedgerInv
  <2> QED BY <1>1, <1>2, <1>5, <1>8, <2>1, <2>2, LedgerKept
<1> QED BY <1>2, <1>6, <1>7, <1>8 DEF LedgerInv

LEMMA LedgerStep ==
    ASSUME FrontInv, MutexInv, LedgerInv, [DriverNext]_driverVars
    PROVE  LedgerInv'
<1>1. CASE Workers
  BY <1>1, LedgerWorker DEF Workers
<1>2. CASE Push
  BY <1>2, LedgerPush
<1>3. CASE ~Workers /\ ~Push
  <2>1. Q2' = Q2 /\ it' = it /\ wpc' = wpc /\ totalCost' = totalCost
    BY <1>3 DEF DriverNext, MainStep, Balancer, Clock, Tick, EnterAddQuery,
                EnterAddInsertQuery, LockToAdd, EndLoop, Report, ReportPastEnd,
                LockToCount, CountActive, Exit, Crash, BalancerLock, BalancerUnlock,
                Choose, driverVars, replicaVars, mainVars, workerVars
  <2>2. \A q \in 1..it : cost'[q] = cost[q]
    <3>1. cost' = cost \/ \E c \in Costs : cost' = [cost EXCEPT ![it + 1] = c]
      BY <1>3 DEF DriverNext, MainStep, Balancer, Clock, Tick, EnterAddQuery,
                  EnterAddInsertQuery, LockToAdd, EndLoop, Report, ReportPastEnd,
                  LockToCount, CountActive, Exit, Crash, BalancerLock,
                  BalancerUnlock, Choose, Current, driverVars, replicaVars,
                  mainVars, selectVars
    <3>2. cost \in [Query -> Int] /\ 1..it \subseteq Query /\ it \in Nat
      BY ReplicaAssumption DEF FrontInv, TypeOK, ReplicaTypeOK, Query
    <3> QED BY <3>1, <3>2
  <2>3. \A r \in Replicas : Q2[r] \in Seq(Query) /\ (wpc[r] = "pop" => Q2[r] # <<>>)
    BY DEF FrontInv, TypeOK, ReplicaTypeOK, RemovesWhatItRan
  <2>4. \A r \in Replicas : totalCost'[r] = CostsTotal(cost', Charged(r)')
    BY <2>1, <2>2, <2>3, LedgerKept
  <2> QED BY <2>1, <2>4 DEF LedgerInv
<1> QED BY <1>1, <1>2, <1>3

LEMMA LedgerInvariant == DriverSafety => []LedgerInv
  BY LedgerInit, LedgerStep, FrontInvariant, MutexInvariant, PTL DEF DriverSafety

(* A replica's totalCost is the sum of what its queries cost, all of those *)
(* queued, but for the moment between the subtraction and the pop: for any *)
(* balancer, any costs and any interleaving (database.cpp 461-466, 487).   *)
THEOREM TotalIsWhatIsQueued == DriverSafety => []CostLedger
<1>1. ASSUME NEW s PROVE SumOfCosts(s) = CostsTotal(cost, s)
  BY DEF SumOfCosts, CostsOf, CostsTotal
<1>2. LedgerInv => CostLedger
  BY <1>1 DEF LedgerInv, CostLedger, Charged
<1> QED BY <1>2, LedgerInvariant, PTL
-----------------------------------------------------------------------------
(* The log and the times.  The log is what was executed without the query  *)
(* the worker still has to report; time stamps grow with the index of the  *)
(* query and along what a replica executed, and none is ahead of the clock *)
(* or of the query being executed.                                         *)

LogInv ==
    \A r \in Replicas :
        executed[r] = IF wpc[r] \in {"remove", "uncost", "pop", "log"}
                      THEN Append(doneLog[r], top[r]) ELSE doneLog[r]

TimesInv ==
    /\ \A q \in 1..it : 0 <= created[q] /\ created[q] <= now
    /\ \A p, q \in 1..it : p <= q => created[p] <= created[q]
    /\ \A r \in Replicas : \A n \in 1..Len(executed[r]) :
          /\ created[executed[r][n]] <= startProcessing[executed[r][n]]
          /\ startProcessing[executed[r][n]] <= now
          /\ wpc[r] = "exec" => startProcessing[executed[r][n]] <= startProcessing[top[r]]
    /\ \A r \in Replicas : \A n, j \in 1..Len(executed[r]) :
          n <= j => startProcessing[executed[r][n]] <= startProcessing[executed[r][j]]
    /\ \A r \in Replicas : wpc[r] = "exec" =>
          created[top[r]] <= startProcessing[top[r]] /\ startProcessing[top[r]] <= now

LEMMA LogInvariant == DriverSafety => []LogInv
<1>1. DriverInit => LogInv
  BY DEF DriverInit, ReplicaInit, LogInv
<1>2. FrontInv /\ LogInv /\ [DriverNext]_driverVars => LogInv'
  <2> SUFFICES ASSUME FrontInv, LogInv, [DriverNext]_driverVars PROVE LogInv'
    OBVIOUS
  <2>1. ASSUME NEW p \in Replicas, Worker(p) PROVE LogInv'
    <3> USE DEF FrontInv, TypeOK, ReplicaTypeOK, LogInv, Goto
    <3>1. CASE Poll(p) \/ FindEmpty(p) \/ StartProcess(p) \/ LockToRemove(p)
               \/ ReduceTotal(p) \/ PopFront(p)
      BY <3>1 DEF Poll, FindEmpty, StartProcess, LockToRemove, ReduceTotal, PopFront
    <3>2. CASE TakeFront(p)
      BY <3>2 DEF TakeFront
    <3>3. CASE ExecuteQuery(p)
      BY <3>3 DEF ExecuteQuery
    <3>4. CASE LogDone(p)
      BY <3>4 DEF LogDone, RemovesWhatItRan
    <3> QED BY <2>1, <3>1, <3>2, <3>3, <3>4 DEF Worker
  <2>2. CASE ~Workers
    <3>1. wpc' = wpc /\ top' = top /\ executed' = executed /\ doneLog' = doneLog
      BY <2>2 DEF DriverNext, MainStep, Balancer, Clock, Tick, EnterAddQuery,
                  EnterAddInsertQuery, LockToAdd, Push, EndLoop, Report, ReportPastEnd,
                  LockToCount, CountActive, Exit, Crash, BalancerLock, BalancerUnlock,
                  Choose, driverVars, replicaVars, mainVars, workerVars
    <3> QED BY <3>1 DEF LogInv
  <2> QED BY <2>1, <2>2 DEF Workers
<1> QED BY <1>1, <1>2, FrontInvariant, PTL DEF DriverSafety

LEMMA LogIsBehindByOne == FrontInv /\ LogInv => LogFollowsExecution
<1> SUFFICES ASSUME FrontInv, LogInv, NEW r \in Replicas
             PROVE  /\ IsPrefix(doneLog[r], executed[r])
                    /\ Len(executed[r]) - Len(doneLog[r]) \in 0..1
  BY DEF LogFollowsExecution
<1> DEFINE s == doneLog[r]
           e == top[r]
<1>1. s \in Seq(Query)
  BY DEF FrontInv, TypeOK, ReplicaTypeOK
<1>2. executed[r] = s \/ (executed[r] = Append(s, e) /\ e \in Query)
  BY DEF LogInv, FrontInv, WorksOnAQuery
<1> HIDE DEF s, e
<1>3. CASE executed[r] = s
  BY <1>1, <1>3 DEF IsPrefix, s
<1>4. CASE executed[r] = Append(s, e) /\ e \in Query
  <2>1. Len(Append(s, e)) = Len(s) + 1 /\ Len(s) \in Nat
    BY <1>1, <1>4
  <2>2. SubSeq(s, 1, Len(s)) = SubSeq(Append(s, e), 1, Len(s))
    BY <1>1, <1>4
  <2> QED BY <1>4, <2>1, <2>2 DEF IsPrefix, s
<1> QED BY <1>2, <1>3, <1>4

(* Where a replica's queries are in the order it was handed them.          *)
LEMMA ExecutedIsHanded ==
    ASSUME FrontInv, NEW r \in Replicas
    PROVE  /\ Len(executed[r]) \in Nat /\ Len(Proved!Handed[r]) \in Nat
           /\ Len(executed[r]) <= Len(Proved!Handed[r])
           /\ \A n \in 1..Len(executed[r]) : Proved!Handed[r][n] = executed[r][n]
           /\ wpc[r] \in {"start", "exec"} =>
                 /\ Len(executed[r]) + 1 <= Len(Proved!Handed[r])
                 /\ Proved!Handed[r][Len(executed[r]) + 1] = top[r]
<1> DEFINE a == executed[r]
           b == Pending[r]
<1>1. a \in Seq(Query)
  BY DEF FrontInv, TypeOK, ReplicaTypeOK
<1>2. /\ b \in Seq(Query)
      /\ wpc[r] \in {"start", "exec"} => b # <<>> /\ Head(b) = top[r]
  BY SMTT(30) DEF Pending, FrontInv, TypeOK, ReplicaTypeOK, RemovesWhatItRan
<1>3. Proved!Handed[r] = a \o b
  BY DEF Proved!Handed
<1> HIDE DEF a, b
<1>4. /\ Len(a) \in Nat /\ Len(b) \in Nat /\ Len(a \o b) = Len(a) + Len(b)
      /\ \A n \in 1..Len(a) : (a \o b)[n] = a[n]
      /\ b # <<>> => Len(b) >= 1 /\ (a \o b)[Len(a) + 1] = Head(b)
  BY <1>1, <1>2
<1> QED BY <1>2, <1>3, <1>4 DEF a

(* A query that is started or being executed was submitted, was not run    *)
(* before by any replica, and is the front of no other.                    *)
LEMMA StartedOnce ==
    ASSUME FrontInv, Proved!Bounded, Proved!ExactlyOnce
    PROVE  /\ \A r \in Replicas : \A n \in 1..Len(executed[r]) : executed[r][n] \in 1..it
           /\ \A r \in Replicas : wpc[r] \in {"start", "exec"} =>
                 /\ top[r] \in 1..it
                 /\ \A s \in Replicas : \A n \in 1..Len(executed[s]) :
                       executed[s][n] # top[r]
                 /\ \A s \in Replicas : s # r /\ wpc[s] \in {"start", "exec"} =>
                       top[s] # top[r]
<1> DEFINE H == Proved!Handed
<1>1. \A r \in Replicas : \A n \in 1..Len(H[r]) : H[r][n] \in 1..it
  BY DEF Proved!Bounded
<1>2. \A r, s \in Replicas : \A n \in 1..Len(H[r]), j \in 1..Len(H[s]) :
         H[r][n] = H[s][j] => r = s /\ n = j
  BY DEF Proved!ExactlyOnce
<1>3. \A r \in Replicas :
         /\ Len(executed[r]) \in Nat /\ Len(H[r]) \in Nat
         /\ Len(executed[r]) <= Len(H[r])
         /\ \A n \in 1..Len(executed[r]) : H[r][n] = executed[r][n]
         /\ wpc[r] \in {"start", "exec"} => /\ Len(executed[r]) + 1 <= Len(H[r])
                                            /\ H[r][Len(executed[r]) + 1] = top[r]
  BY ExecutedIsHanded
<1> HIDE DEF H
<1>4. \A r \in Replicas : \A n \in 1..Len(executed[r]) : n \in 1..Len(H[r])
  BY <1>3
<1>5. \A r \in Replicas : wpc[r] \in {"start", "exec"} =>
         Len(executed[r]) + 1 \in 1..Len(H[r])
  BY <1>3
<1>6. ASSUME NEW r \in Replicas, wpc[r] \in {"start", "exec"}
      PROVE  /\ top[r] \in 1..it
             /\ \A s \in Replicas : \A n \in 1..Len(executed[s]) : executed[s][n] # top[r]
             /\ \A s \in Replicas : s # r /\ wpc[s] \in {"start", "exec"} => top[s] # top[r]
  <2>1. top[r] = H[r][Len(executed[r]) + 1] /\ Len(executed[r]) + 1 \in 1..Len(H[r])
    BY <1>3, <1>5, <1>6
  <2>2. ASSUME NEW s \in Replicas, NEW n \in 1..Len(executed[s]), executed[s][n] = top[r]
        PROVE  FALSE
    <3>1. H[s][n] = H[r][Len(executed[r]) + 1] /\ n \in 1..Len(H[s])
      BY <1>3, <1>4, <2>1, <2>2
    <3>2. s = r /\ n = Len(executed[r]) + 1
      BY <1>2, <2>1, <3>1
    <3> QED BY <1>3, <3>2
  <2>3. ASSUME NEW s \in Replicas, s # r, wpc[s] \in {"start", "exec"}, top[s] = top[r]
        PROVE  FALSE
    <3>1. top[s] = H[s][Len(executed[s]) + 1] /\ Len(executed[s]) + 1 \in 1..Len(H[s])
      BY <1>3, <1>5, <2>3
    <3>2. H[s][Len(executed[s]) + 1] = H[r][Len(executed[r]) + 1]
      BY <2>1, <2>3, <3>1
    <3>3. s = r
      BY <1>2, <2>1, <3>1, <3>2
    <3> QED BY <2>3, <3>3
  <2> QED BY <1>1, <2>1, <2>2, <2>3
<1> QED BY <1>1, <1>3, <1>4, <1>6

LEMMA TimesWorker ==
    ASSUME FrontInv, Proved!Bounded, Proved!ExactlyOnce, TimesInv,
           NEW p \in Replicas, Worker(p), UNCHANGED mainVars
    PROVE  TimesInv'
<1>1. now' = now /\ created' = created /\ it' = it
  BY DEF mainVars, Worker, Poll, FindEmpty, TakeFront, StartProcess, ExecuteQuery,
         LockToRemove, ReduceTotal, PopFront, LogDone, selectVars
<1>2. now \in Nat /\ it \in Nat /\ created \in [Query -> Int]
      /\ startProcessing \in [Query -> Int] /\ 1..it \subseteq Query
      /\ executed \in [Replicas -> Seq(Query)]
  BY ReplicaAssumption DEF FrontInv, TypeOK, ReplicaTypeOK, Query
<1>3. CASE StartProcess(p)
  <2> DEFINE t == top[p]
  <2>1. /\ wpc[p] = "start" /\ executed' = executed /\ top' = top
        /\ wpc'[p] = "exec" /\ \A r \in Replicas : r # p => wpc'[r] = wpc[r]
        /\ startProcessing' = [startProcessing EXCEPT ![t] = now]
    BY <1>3 DEF StartProcess, Goto, FrontInv, TypeOK, ReplicaTypeOK
  <2>2. /\ \A r \in Replicas : \A n \in 1..Len(executed[r]) :
              executed[r][n] \in 1..it /\ executed[r][n] # t
        /\ t \in 1..it
        /\ \A r \in Replicas : r # p /\ wpc[r] = "exec" => top[r] \in 1..it /\ top[r] # t
    BY <2>1, StartedOnce
  <2> HIDE DEF t
  <2>3. startProcessing'[t] = now
        /\ \A q \in 1..it : q # t => startProcessing'[q] = startProcessing[q]
    BY <1>2, <2>1, <2>2
  <2>4. \A r \in Replicas : \A n \in 1..Len(executed[r]) :
           startProcessing'[executed[r][n]] = startProcessing[executed[r][n]]
    BY <2>2, <2>3
  <2>5. \A r \in Replicas : wpc'[r] = "exec" =>
           \/ r = p
           \/ wpc[r] = "exec" /\ startProcessing'[top[r]] = startProcessing[top[r]]
    BY <2>1, <2>2, <2>3
  <2>6. ASSUME NEW r \in Replicas, NEW k \in 1..Len(executed[r])
        PROVE  /\ created'[executed'[r][k]] <= startProcessing'[executed'[r][k]]
               /\ startProcessing'[executed'[r][k]] <= now'
               /\ wpc'[r] = "exec" => startProcessing'[executed'[r][k]]
                                        <= startProcessing'[top'[r]]
    BY <1>1, <2>1, <2>3, <2>4, <2>5 DEF TimesInv, t
  <2>7. ASSUME NEW r \in Replicas, wpc'[r] = "exec"
        PROVE  /\ created'[top'[r]] <= startProcessing'[top'[r]]
               /\ startProcessing'[top'[r]] <= now'
    <3>1. CASE r = p
      <4>1. created[t] <= now
        BY <2>2 DEF TimesInv
      <4> QED BY <1>1, <1>2, <2>1, <2>3, <3>1, <4>1 DEF t
    <3>2. CASE r # p
      <4>1. wpc[r] = "exec" /\ startProcessing'[top[r]] = startProcessing[top[r]]
        BY <2>5, <2>7, <3>2
      <4>2. created[top[r]] <= startProcessing[top[r]] /\ startProcessing[top[r]] <= now
        BY <4>1 DEF TimesInv
      <4> QED BY <1>1, <2>1, <4>1, <4>2
    <3> QED BY <3>1, <3>2
  <2> QED BY <1>1, <2>1, <2>4, <2>6, <2>7 DEF TimesInv
<1>4. CASE ExecuteQuery(p)
  <2> DEFINE t == top[p]
             e == executed[p]
  <2>1. /\ wpc[p] = "exec" /\ startProcessing' = startProcessing /\ top' = top
        /\ wpc'[p] # "exec" /\ \A r \in Replicas : r # p => wpc'[r] = wpc[r]
        /\ executed'[p] = Append(e, t)
        /\ \A r \in Replicas : r # p => executed'[r] = executed[r]
    <3>1. wpc \in [Replicas -> WorkerPC]
      BY DEF FrontInv, TypeOK, ReplicaTypeOK
    <3> QED BY <1>2, <1>4, <3>1 DEF ExecuteQuery, Goto, selectVars
  <2>2. e \in Seq(Query) /\ t \in Query
    BY <1>2, <2>1, StartedOnce
  <2>3. created[t] <= startProcessing[t] /\ startProcessing[t] <= now
        /\ \A k \in 1..Len(e) : startProcessing[e[k]] <= startProcessing[t]
    BY <2>1 DEF TimesInv
  <2> HIDE DEF t, e
  <2>4. \A k \in 1..Len(Append(e, t)) : \/ k \in 1..Len(e) /\ Append(e, t)[k] = e[k]
                                        \/ k = Len(e) + 1 /\ Append(e, t)[k] = t
    BY <2>2
  <2>5. /\ \A k \in 1..Len(e) : /\ created[e[k]] <= startProcessing[e[k]]
                                /\ startProcessing[e[k]] <= now
        /\ \A k, l \in 1..Len(e) : k <= l => startProcessing[e[k]] <= startProcessing[e[l]]
    BY DEF TimesInv, e
  <2>6. Len(e) \in Nat
    BY <2>2
  <2>7. \A k \in 1..Len(Append(e, t)) :
           /\ created[Append(e, t)[k]] <= startProcessing[Append(e, t)[k]]
           /\ startProcessing[Append(e, t)[k]] <= now
    BY <2>3, <2>4, <2>5
  <2>8. \A k, l \in 1..Len(Append(e, t)) :
           k <= l => startProcessing[Append(e, t)[k]] <= startProcessing[Append(e, t)[l]]
    <3> SUFFICES ASSUME NEW k \in 1..Len(Append(e, t)), NEW l \in 1..Len(Append(e, t)), k <= l
                 PROVE  startProcessing[Append(e, t)[k]] <= startProcessing[Append(e, t)[l]]
      OBVIOUS
    <3>1. startProcessing[t] \in Int
      BY <1>2, <2>2
    <3>2. CASE k \in 1..Len(e)
      BY <2>3, <2>4, <2>5, <3>2
    <3>3. CASE k = Len(e) + 1
      <4>1. l = Len(e) + 1
        BY <2>4, <2>6, <3>3
      <4> QED BY <2>4, <2>6, <3>1, <3>3, <4>1
    <3> QED BY <2>4, <3>2, <3>3
  <2>9. ASSUME NEW r \in Replicas, NEW k \in 1..Len(executed'[r])
        PROVE  /\ created'[executed'[r][k]] <= startProcessing'[executed'[r][k]]
               /\ startProcessing'[executed'[r][k]] <= now'
               /\ wpc'[r] = "exec" => startProcessing'[executed'[r][k]]
                                        <= startProcessing'[top'[r]]
    BY <1>1, <2>1, <2>7 DEF TimesInv
  <2>10. ASSUME NEW r \in Replicas, NEW k \in 1..Len(executed'[r]),
                NEW l \in 1..Len(executed'[r]), k <= l
         PROVE  startProcessing'[executed'[r][k]] <= startProcessing'[executed'[r][l]]
    BY <2>1, <2>8, <2>10 DEF TimesInv
  <2> QED BY <1>1, <2>1, <2>9, <2>10 DEF TimesInv
<1>5. CASE ~StartProcess(p) /\ ~ExecuteQuery(p)
  <2>1. executed' = executed /\ startProcessing' = startProcessing
    BY <1>5 DEF Worker, Poll, FindEmpty, TakeFront, LockToRemove, ReduceTotal, PopFront,
                LogDone, selectVars
  <2>2. \A r \in Replicas : wpc'[r] = "exec" => wpc[r] = "exec" /\ top'[r] = top[r]
    BY <1>5 DEF Worker, Poll, FindEmpty, TakeFront, LockToRemove, ReduceTotal, PopFront,
                LogDone, Goto, FrontInv, TypeOK, ReplicaTypeOK
  <2> QED BY <1>1, <2>1, <2>2 DEF TimesInv
<1> QED BY <1>3, <1>4, <1>5

(* A new query is created now, no earlier than any other, and has no start *)
(* time anybody asks for.                                                  *)
LEMMA TimesPush ==
    ASSUME FrontInv, Proved!Bounded, Proved!ExactlyOnce, TimesInv, Push
    PROVE  TimesInv'
<1>1. /\ it' = it + 1 /\ created' = [created EXCEPT ![it + 1] = now]
      /\ UNCHANGED <<now, startProcessing, wpc, top, executed>>
  BY DEF Push, AddRequest, Current, workerVars
<1>2. /\ now \in Nat /\ it \in Nat /\ it + 1 \in Query /\ 1..it \subseteq Query
      /\ created \in [Query -> Int]
  BY ReplicaAssumption DEF FrontInv, TypeOK, ReplicaTypeOK, Push, At, Query
<1>3. created'[it + 1] = now /\ \A q \in 1..it : created'[q] = created[q]
  BY <1>1, <1>2
<1>4. \A q \in 1..it' : q \in 1..it \/ q = it + 1
  BY <1>1, <1>2
<1>5. /\ \A q \in 1..it' : 0 <= created'[q] /\ created'[q] <= now'
      /\ \A p, q \in 1..it' : p <= q => created'[p] <= created'[q]
  <2>1. \A q \in 1..it' : 0 <= created'[q] /\ created'[q] <= now'
    BY <1>1, <1>2, <1>3, <1>4 DEF TimesInv
  <2>2. ASSUME NEW p \in 1..it', NEW q \in 1..it', p <= q PROVE created'[p] <= created'[q]
    <3>1. CASE q = it + 1
      BY <1>1, <1>3, <2>1, <3>1
    <3>2. CASE q \in 1..it
      BY <1>2, <1>3, <1>4, <2>2, <3>2 DEF TimesInv
    <3> QED BY <1>4, <3>1, <3>2
  <2> QED BY <2>1, <2>2
<1>6. /\ \A r \in Replicas : \A n \in 1..Len(executed[r]) : executed[r][n] \in 1..it
      /\ \A r \in Replicas : wpc[r] = "exec" => top[r] \in 1..it
  BY StartedOnce
<1>7. ASSUME NEW r \in Replicas, NEW k \in 1..Len(executed[r])
      PROVE  created'[executed[r][k]] <= startProcessing[executed[r][k]]
  BY <1>3, <1>6 DEF TimesInv
<1> QED BY <1>1, <1>3, <1>5, <1>6, <1>7 DEF TimesInv

LEMMA TimesStep ==
    ASSUME FrontInv, Proved!Bounded, Proved!ExactlyOnce, TimesInv,
           [DriverNext]_driverVars
    PROVE  TimesInv'
<1>1. CASE Workers
  BY <1>1, TimesWorker DEF Workers
<1>2. CASE Push
  BY <1>2, TimesPush
<1>3. CASE ~Workers /\ ~Push
  <2>1. UNCHANGED <<it, created, startProcessing, wpc, top, executed>>
        /\ (now' = now \/ now' = now + 1)
    BY <1>3 DEF DriverNext, MainStep, Balancer, Clock, Tick, EnterAddQuery,
                EnterAddInsertQuery, LockToAdd, EndLoop, Report, ReportPastEnd,
                LockToCount, CountActive, Exit, Crash, BalancerLock, BalancerUnlock,
                Choose, driverVars, replicaVars, mainVars, selectVars, workerVars
  <2>2. /\ now \in Nat /\ created \in [Query -> Int] /\ startProcessing \in [Query -> Int]
        /\ 1..it \subseteq Query
        /\ \A r \in Replicas : \A n \in 1..Len(executed[r]) : executed[r][n] \in 1..it
        /\ \A r \in Replicas : wpc[r] = "exec" => top[r] \in 1..it
    <3>1. /\ now \in Nat /\ created \in [Query -> Int]
          /\ startProcessing \in [Query -> Int] /\ it \in 0..NumTask
      BY DEF FrontInv, TypeOK, ReplicaTypeOK
    <3>2. 1..it \subseteq Query
      BY <3>1, ReplicaAssumption DEF Query
    <3> QED BY <3>1, <3>2, StartedOnce
  <2> QED BY <2>1, <2>2, SMTT(30) DEF TimesInv
<1> QED BY <1>1, <1>2, <1>3

LEMMA HandedInOrder ==
    DriverSafety => [](Proved!Bounded /\ Proved!FirstComeFirstServed)
  BY SamePromise, DriverImplementsDispatch, Proved!BoundedInvariant,
     Proved!InSubmissionOrder, PTL DEF ImplementsDispatch, Promise!Safety, Proved!Safety

LEMMA TimesInvariant == DriverSafety => []TimesInv
<1>1. DriverInit => TimesInv
  BY DEF DriverInit, ReplicaInit, TimesInv
<1> QED BY <1>1, TimesStep, FrontInvariant, HandedInOrder, ExactlyOnceHere, PTL
           DEF DriverSafety

(* What the log tells of a replica is what it did: the done lines are what *)
(* it executed, in that order and at most one line behind; every query was *)
(* created before it was started and started in the order of creation, so  *)
(* that no waiting time is negative (database.cpp 467-476).                *)
THEOREM LogIsFaithful == DriverSafety => []LogTellsAll
<1>1. FrontInv /\ Proved!Bounded /\ Proved!FirstComeFirstServed /\ Proved!ExactlyOnce
         /\ TimesInv => ServedInOrder
  <2> SUFFICES ASSUME FrontInv, Proved!Bounded, Proved!FirstComeFirstServed,
                      Proved!ExactlyOnce, TimesInv, NEW r \in Replicas,
                      NEW k \in 1..Len(executed[r]), NEW l \in 1..Len(executed[r]), k <= l
               PROVE  /\ Unset < created[executed[r][k]]
                      /\ created[executed[r][k]] <= startProcessing[executed[r][k]]
                      /\ startProcessing[executed[r][k]] <= startProcessing[executed[r][l]]
                      /\ created[executed[r][k]] <= created[executed[r][l]]
    BY DEF ServedInOrder
  <2>1. executed[r][k] \in 1..it /\ executed[r][l] \in 1..it
    BY StartedOnce
  <2>2. executed[r][k] <= executed[r][l]
    <3>1. /\ Len(executed[r]) \in Nat /\ Len(Proved!Handed[r]) \in Nat
          /\ Len(executed[r]) <= Len(Proved!Handed[r])
          /\ Proved!Handed[r][k] = executed[r][k]
          /\ Proved!Handed[r][l] = executed[r][l]
      BY ExecutedIsHanded
    <3>2. k \in 1..Len(Proved!Handed[r]) /\ l \in 1..Len(Proved!Handed[r])
      BY <3>1
    <3>3. k < l => Proved!Handed[r][k] < Proved!Handed[r][l]
      BY <3>2 DEF Proved!FirstComeFirstServed
    <3>4. CASE k = l
      BY <2>1, <3>4
    <3>5. CASE k < l
      BY <2>1, <3>1, <3>3, <3>5
    <3> QED BY <3>4, <3>5
  <2>3. created \in [Query -> Int] /\ executed[r][k] \in Query
    <3>1. created \in [Query -> Int] /\ it \in 0..NumTask
      BY DEF FrontInv, TypeOK, ReplicaTypeOK
    <3> QED BY <2>1, <3>1, ReplicaAssumption DEF Query
  <2> QED BY <2>1, <2>2, <2>3 DEF TimesInv, Unset
<1> QED BY <1>1, LogIsBehindByOne, FrontInvariant, LogInvariant, TimesInvariant,
           HandedInOrder, ExactlyOnceHere, PTL DEF LogTellsAll
-----------------------------------------------------------------------------
(* The balancers.                                                          *)


(* Counting on by one modulo a positive number.                            *)
LEMMA NextRemainder ==
    ASSUME NEW n \in Nat \ {0}, NEW x \in Nat
    PROVE  /\ x % n \in 0..(n - 1)
           /\ (x + 1) % n = IF (x % n) + 1 >= n THEN 0 ELSE (x % n) + 1
<1>1. /\ x = n * (x \div n) + (x % n) /\ x % n \in 0..(n - 1)
      /\ x + 1 = n * ((x + 1) \div n) + ((x + 1) % n) /\ (x + 1) % n \in 0..(n - 1)
      /\ x \div n \in Int /\ (x + 1) \div n \in Int
  OBVIOUS
<1>2. \A k \in Int : \A m \in 0..(n - 1) : ((n * k) + m) % n = m
  OBVIOUS
<1>3. CASE (x % n) + 1 >= n
  <2>1. x + 1 = n * ((x \div n) + 1) + 0
    BY <1>1, <1>3
  <2>2. (n * ((x \div n) + 1) + 0) % n = 0
    BY <1>1, <1>2
  <2> QED BY <1>1, <1>3, <2>1, <2>2
<1>4. CASE (x % n) + 1 < n
  <2>1. x + 1 = n * (x \div n) + ((x % n) + 1) /\ (x % n) + 1 \in 0..(n - 1)
    BY <1>1, <1>4
  <2>2. (n * (x \div n) + ((x % n) + 1)) % n = (x % n) + 1
    BY <1>1, <1>2, <2>1
  <2> QED BY <1>1, <1>4, <2>1, <2>2
<1> QED BY <1>1, <1>3, <1>4
-----------------------------------------------------------------------------
(* RoundRobin is one of the balancers Driver allows.                       *)

LEMMA NextTurnIsAReplica == last \in Replicas => NextTurn \in Replicas
  BY ReplicaAssumption DEF Replicas, NextTurn

LEMMA RRStepIsDriverStep ==
    ASSUME last \in Replicas, [RRNext]_rrVars
    PROVE  [DriverNext]_driverVars
  BY NextTurnIsAReplica DEF RRNext, rrVars, RRAddQuery, DriverNext, Balancer

LEMMA LastInvariant == RRSafety => [](last \in Replicas)
<1>1. RRInit => last \in Replicas
  BY ReplicaAssumption DEF RRInit, Replicas
<1>2. last \in Replicas /\ [RRNext]_rrVars => (last \in Replicas)'
  BY NextTurnIsAReplica DEF RRNext, rrVars, RRAddQuery
<1> QED BY <1>1, <1>2, PTL DEF RRSafety

(* Every behaviour of the program with RoundRobin is a behaviour of Driver *)
(* with some balancer.                                                     *)
THEOREM RoundRobinIsABalancer == RRSafety => DriverSafety
<1>1. RRInit => DriverInit
  BY DEF RRInit
<1> QED BY <1>1, RRStepIsDriverStep, LastInvariant, PTL DEF RRSafety, DriverSafety

THEOREM TypeCorrectRR == RRSafety => []TypeOKRR
  BY RoundRobinIsABalancer, TypeCorrect, LastInvariant, PTL DEF TypeOKRR
-----------------------------------------------------------------------------
(* Whose turn it is: last follows the number of tasks dealt, and from      *)
(* choosing a replica until its queue has grown, last is already the one   *)
(* chosen.                                                                 *)
TurnInv == /\ last = (IF mpc \in {"add", "push"} THEN it + 1 ELSE it) % NumReplicas
           /\ mpc \in {"add", "push"} => target = last

LEMMA Counting ==
    ASSUME it \in Nat
    PROVE  /\ it % NumReplicas \in Replicas
           /\ last = it % NumReplicas => NextTurn = (it + 1) % NumReplicas
           /\ (it + 1) % NumReplicas = IF (it % NumReplicas) + 1 >= NumReplicas
                                       THEN 0 ELSE (it % NumReplicas) + 1
  BY NextRemainder, ReplicaAssumption DEF NextTurn, Replicas

LEMMA TurnInvariant == RRSafety => []TurnInv
<1>1. RRInit => TurnInv
  BY ReplicaAssumption DEF RRInit, DriverInit, TurnInv
<1>2. TypeOK /\ TurnInv /\ [RRNext]_rrVars => TurnInv'
  <2> SUFFICES ASSUME TypeOK, TurnInv, [RRNext]_rrVars PROVE TurnInv'
    OBVIOUS
  <2> USE DEF TurnInv, At
  <2>0. it \in Nat
    BY ReplicaAssumption DEF TypeOK
  <2>1. CASE RRAddQuery
    BY <2>0, <2>1, Counting DEF RRAddQuery, Choose
  <2>2. CASE Workers /\ UNCHANGED last
    BY <2>2 DEF Workers, mainVars
  <2>3. CASE Clock /\ UNCHANGED last
    BY <2>3 DEF Clock, mainVars
  <2>4. CASE MainStep /\ UNCHANGED last
    BY <2>4 DEF MainStep, EnterAddQuery, EnterAddInsertQuery, LockToAdd, Push, EndLoop,
                Report, ReportPastEnd, LockToCount, CountActive, Exit, Crash
  <2>5. CASE UNCHANGED rrVars
    BY <2>5 DEF rrVars, driverVars, mainVars
  <2> QED BY <2>1, <2>2, <2>3, <2>4, <2>5 DEF RRNext
<1> QED BY <1>1, <1>2, RoundRobinIsABalancer, TypeCorrect, PTL DEF RRSafety
-----------------------------------------------------------------------------
(* What the replicas have received.                                        *)

(* The queues' tasks as the tasks of Dispatch, which are not bounded. *)
Number == Nat \ {0}

LEMMA TasksAreNumbers == ASSUME NEW s \in Seq(Query) PROVE s \in Seq(Number)
<1>1. Query \subseteq Number
  BY DEF Query, Number
<1>2. \A j \in 1..Len(s) : s[j] \in Query
  OBVIOUS
<1> QED BY <1>1, <1>2

LEMMA AbstractTypes == FrontInv => Proved!TypeOK
<1> SUFFICES ASSUME FrontInv PROVE Proved!TypeOK
  OBVIOUS
<1> USE DEF FrontInv, TypeOK, ReplicaTypeOK
<1>1. ASSUME NEW r \in Replicas PROVE Pending[r] \in Seq(Number)
  <2>1. Q2[r] \in Seq(Query) /\ (Q2[r] # <<>> => Tail(Q2[r]) \in Seq(Query))
    OBVIOUS
  <2>2. Pending[r] \in Seq(Query)
    BY <2>1 DEF Pending, RemovesWhatItRan
  <2> QED BY <2>2, TasksAreNumbers
<1>2. ASSUME NEW r \in Replicas PROVE executed[r] \in Seq(Number)
  BY TasksAreNumbers
<1>3. it \in Nat
  BY ReplicaAssumption
<1>4. Pending = [r \in Replicas |-> Pending[r]] /\ executed = [r \in Replicas |-> executed[r]]
  BY DEF Pending
<1>5. Pending \in [Replicas -> Seq(Number)] /\ executed \in [Replicas -> Seq(Number)]
  BY <1>1, <1>2, <1>4
<1> QED BY <1>3, <1>5 DEF Proved!TypeOK, Proved!Query, Number

(* Only Push gives anybody a task: the next one, to the target.            *)
Deals == /\ target \in Replicas /\ it' = it + 1 /\ it + 1 \in Number
         /\ Received' = [Received EXCEPT ![target] = Append(@, it + 1)]

LEMMA ReceivedStep ==
    ASSUME FrontInv, [DriverNext]_driverVars
    PROVE  \/ Push /\ Deals
           \/ ~Push /\ it' = it /\ Received' = Received
<1>1. Received = Proved!Handed /\ Received' = Proved!Handed' /\ Number = Proved!Query
  BY DEF Received, Promise!Handed, Proved!Handed, Number, Proved!Query
<1>2. Proved!TypeOK
  BY AbstractTypes
<1>3. CASE Push
  <2>1. target \in Replicas /\ Proved!Submit(target)
    BY <1>3, PushIsSubmit, SamePromise
  <2>2. Proved!HandsOut(target)
    BY <1>2, <2>1, SamePromise, Proved!SubmitHandsOut
  <2> QED BY <1>1, <1>3, <2>1, <2>2 DEF Deals, Proved!HandsOut
<1>4. CASE ~Push
  <2>1. it' = it
    BY <1>4, OtherwiseNothingMoves DEF DriverNext, Workers, driverVars, mainVars
  <2>2. [Proved!Next]_Proved!vars
    BY StepIsPromised, SamePromise
  <2>3. it \in Nat
    BY ReplicaAssumption DEF FrontInv, TypeOK
  <2>4. it # it + 1
    BY <2>3
  <2>5. Proved!Handed' = Proved!Handed
    BY <1>2, <2>1, <2>2, <2>4, SamePromise, Proved!HandedStep DEF Proved!HandsOut
  <2> QED BY <1>1, <1>4, <2>1, <2>5
<1> QED BY <1>3, <1>4

LEMMA ReceivedType == FrontInv => Received \in [Replicas -> Seq(Number)]
  BY AbstractTypes, SamePromise, Proved!HandedType
     DEF Received, Promise!Handed, Proved!Handed, Number, Proved!Query
-----------------------------------------------------------------------------
(* The q-th task is with replica q % NumReplicas, for any number of        *)
(* replicas and tasks.                                                     *)
THEOREM DealtInTurn == RRSafety => []TurnByTurn
<1>1. RRInit => TurnByTurn
  BY DEF RRInit, DriverInit, ReplicaInit, TurnByTurn, Received, Promise!Handed, Pending
<1>2. FrontInv /\ TurnInv /\ last \in Replicas /\ TurnByTurn /\ [RRNext]_rrVars => TurnByTurn'
  <2> SUFFICES ASSUME FrontInv, TurnInv, TurnByTurn, [DriverNext]_driverVars
               PROVE  TurnByTurn'
    BY RRStepIsDriverStep
  <2>1. CASE ~Push /\ Received' = Received
    BY <2>1 DEF TurnByTurn
  <2>2. CASE Push /\ Deals
    <3>1. (it + 1) % NumReplicas = target
      BY <2>2 DEF TurnInv, Push, At
    <3> SUFFICES ASSUME NEW r \in Replicas, NEW j \in 1..Len(Received'[r])
                 PROVE  Received'[r][j] % NumReplicas = r
      BY DEF TurnByTurn
    <3>2. Received[r] \in Seq(Number) /\ it + 1 \in Number
      BY <2>2, ReceivedType DEF Deals
    <3>3. CASE r = target
      <4>1. Received'[r] = Append(Received[r], it + 1)
        BY <2>2, <3>3, ReceivedType DEF Deals
      <4> QED BY <3>1, <3>2, <3>3, <4>1, Proved!Appended DEF TurnByTurn
    <3>4. CASE r # target
      <4>1. Received'[r] = Received[r]
        BY <2>2, <3>4, ReceivedType DEF Deals
      <4> QED BY <4>1 DEF TurnByTurn
    <3> QED BY <3>3, <3>4
  <2> QED BY <2>1, <2>2, ReceivedStep
<1> QED BY <1>1, <1>2, TurnInvariant, LastInvariant, RoundRobinIsABalancer,
           FrontInvariant, PTL DEF RRSafety

(* How full each replica is: in the current round of dealing, which starts *)
(* with replica 1 and ends with replica 0, the replicas already served     *)
(* have one task more than the others.                                     *)
Served(r) == 0 < r /\ r <= it % NumReplicas

RoundInv == \E k \in Nat : \A r \in Replicas :
                Len(Received[r]) = IF Served(r) THEN k + 1 ELSE k

LEMMA RoundInvariant == RRSafety => []RoundInv
<1>1. RRInit => RoundInv
  <2> SUFFICES ASSUME RRInit PROVE RoundInv
    OBVIOUS
  <2>1. it % NumReplicas = 0
    BY ReplicaAssumption DEF RRInit, DriverInit
  <2>2. \A r \in Replicas : Received[r] = <<>>
    BY DEF RRInit, DriverInit, ReplicaInit, Received, Promise!Handed, Pending
  <2>3. \A r \in Replicas : ~Served(r)
    BY <2>1 DEF Served, Replicas
  <2> QED BY <2>2, <2>3 DEF RoundInv
<1>2. FrontInv /\ TurnInv /\ last \in Replicas /\ RoundInv /\ [RRNext]_rrVars => RoundInv'
  <2> SUFFICES ASSUME FrontInv, TurnInv, RoundInv, [DriverNext]_driverVars
               PROVE  RoundInv'
    BY RRStepIsDriverStep
  <2>1. CASE ~Push /\ it' = it /\ Received' = Received
    BY <2>1 DEF RoundInv, Served
  <2>2. CASE Push /\ Deals
    <3> DEFINE p == it % NumReplicas
    <3>1. it \in Nat
      BY ReplicaAssumption DEF FrontInv, TypeOK
    <3>2. /\ target = IF p + 1 >= NumReplicas THEN 0 ELSE p + 1
          /\ it' % NumReplicas = target
          /\ p \in Replicas
      BY <2>2, <3>1, Counting DEF TurnInv, Push, At, Deals
    <3>3. PICK k \in Nat : \A r \in Replicas :
             Len(Received[r]) = IF Served(r) THEN k + 1 ELSE k
      BY DEF RoundInv
    <3>4. \A r \in Replicas :
             Len(Received'[r]) = IF r = target THEN Len(Received[r]) + 1
                                               ELSE Len(Received[r])
      <4> TAKE r \in Replicas
      <4>1. Received[r] \in Seq(Number) /\ it + 1 \in Number
        BY <2>2, ReceivedType DEF Deals
      <4>2. Len(Append(Received[r], it + 1)) = Len(Received[r]) + 1
        BY <4>1, Proved!Appended
      <4>3. Received'[r] = IF r = target THEN Append(Received[r], it + 1)
                                         ELSE Received[r]
        BY <2>2, ReceivedType DEF Deals
      <4> QED BY <4>2, <4>3
    <3>5. CASE p + 1 < NumReplicas
      <4>1. \A r \in Replicas : Len(Received'[r]) = IF Served(r)' THEN k + 1 ELSE k
        BY <3>2, <3>3, <3>4, <3>5, ReplicaAssumption DEF Served, Replicas
      <4> QED BY <4>1 DEF RoundInv
    <3>6. CASE p + 1 >= NumReplicas
      <4>1. \A r \in Replicas : ~Served(r)' /\ Len(Received'[r]) = k + 1
        BY <3>2, <3>3, <3>4, <3>6, ReplicaAssumption DEF Served, Replicas
      <4> QED BY <4>1 DEF RoundInv
    <3> QED BY <3>2, <3>5, <3>6, ReplicaAssumption DEF Replicas
  <2> QED BY <2>1, <2>2, ReceivedStep
<1> QED BY <1>1, <1>2, TurnInvariant, LastInvariant, RoundRobinIsABalancer,
           FrontInvariant, PTL DEF RRSafety

(* No replica is ever two tasks ahead of another, for any number of        *)
(* replicas and tasks.                                                     *)
THEOREM DealtEvenly == RRSafety => []Balanced
<1>1. RoundInv => Balanced
  BY DEF RoundInv, Balanced
<1> QED BY <1>1, RoundInvariant, PTL
-----------------------------------------------------------------------------
(* LeastWork.                                                              *)

ScanTypes == /\ lpc \in {"ask", "answer", "chosen"}
             /\ i \in Replicas /\ best \in Replicas
             /\ mini \in Nat
             /\ snap \in [Replicas -> Nat]
             /\ mpc # "dispatch" => lpc = "ask" /\ i = 0

(* LeastWork is one of the balancers Driver allows.                        *)
LEMMA LWStepIsDriverStep ==
    ASSUME i \in Replicas, best \in Replicas, [LWNext]_lwVars
    PROVE  [DriverNext]_driverVars
  BY DEF LWNext, lwVars, LWAddQuery, Ask, Answer, AddToBest, DriverNext, Balancer

(* Where addQuery is, main is in "dispatch".                               *)
LEMMA MainStepKeepsScan ==
    ASSUME ScanTypes, Workers \/ Clock \/ MainStep, UNCHANGED scanVars
    PROVE  mpc' # "dispatch" => lpc' = "ask" /\ i' = 0
  BY DEF ScanTypes, scanVars, Workers, Clock, mainVars, MainStep, EnterAddQuery,
         EnterAddInsertQuery, LockToAdd, Push, EndLoop, Report, ReportPastEnd,
         LockToCount, CountActive, Exit, Crash, At

LEMMA ScanTypesInvariant == LWSafety => []ScanTypes
<1>1. LWInit => ScanTypes
  BY ReplicaAssumption DEF LWInit, ScanTypes, Replicas
<1>2. FrontInv /\ ScanTypes /\ [LWNext]_lwVars => ScanTypes'
  <2> SUFFICES ASSUME FrontInv, ScanTypes, [LWNext]_lwVars PROVE ScanTypes'
    OBVIOUS
  <2>0. \A r \in Replicas : Len(Q2[r]) \in Nat
    <3> TAKE r \in Replicas
    <3>1. Q2[r] \in Seq(Query)
      BY DEF FrontInv, TypeOK, ReplicaTypeOK
    <3> QED BY <3>1
  <2>1. CASE Ask
    BY <2>0, <2>1 DEF ScanTypes, Ask, BalancerLock, At, mainVars
  <2>2. CASE Answer
    <3>1. mpc' = "dispatch" /\ snap' = snap
      BY <2>2 DEF Answer, BalancerUnlock, At, mainVars
    <3>2. /\ mini' = mini \/ mini' = Len(Q2[i])
          /\ best' = best \/ best' = i
      BY <2>2 DEF Answer
    <3>3. mini' \in Nat /\ best' \in Replicas
      BY <2>0, <3>2 DEF ScanTypes
    <3>4. \/ HasNext(i) /\ lpc' = "ask" /\ i' = i + 1
          \/ lpc' = "chosen" /\ i' = i
      BY <2>2 DEF Answer
    <3>5. lpc' \in {"ask", "chosen"} /\ i' \in Replicas
      BY <3>4, ReplicaAssumption DEF ScanTypes, HasNext, Replicas
    <3> QED BY <3>1, <3>3, <3>5 DEF ScanTypes
  <2>3. CASE AddToBest
    BY <2>3, ReplicaAssumption DEF ScanTypes, AddToBest, Choose, Replicas
  <2>4. CASE (Workers \/ Clock \/ MainStep) /\ UNCHANGED scanVars
    BY <2>4, MainStepKeepsScan DEF ScanTypes, scanVars
  <2>5. CASE UNCHANGED lwVars
    BY <2>5 DEF ScanTypes, lwVars, scanVars, driverVars, mainVars
  <2> QED BY <2>1, <2>2, <2>3, <2>4, <2>5 DEF LWNext, LWAddQuery
<1>3. LWInit => FrontInv
  BY FrontInit DEF LWInit
<1>4. FrontInv /\ ScanTypes /\ [LWNext]_lwVars => FrontInv'
  BY FrontStep, LWStepIsDriverStep DEF ScanTypes
<1> QED BY <1>1, <1>2, <1>3, <1>4, PTL DEF LWSafety

(* Every behaviour of the program with LeastWork is a behaviour of Driver  *)
(* with some balancer.                                                     *)
THEOREM LeastWorkIsABalancer == LWSafety => DriverSafety
<1>1. LWInit => DriverInit
  BY DEF LWInit
<1>2. ScanTypes /\ [LWNext]_lwVars => [DriverNext]_driverVars
  BY LWStepIsDriverStep DEF ScanTypes
<1> QED BY <1>1, <1>2, ScanTypesInvariant, PTL DEF LWSafety, DriverSafety

THEOREM TypeCorrectLW == LWSafety => []TypeOKLW
<1>1. TypeOK /\ ScanTypes => TypeOKLW
  BY DEF ScanTypes, TypeOKLW
<1> QED BY <1>1, LeastWorkIsABalancer, TypeCorrect, ScanTypesInvariant, PTL
-----------------------------------------------------------------------------
(* The scan.  Once it has begun, snap bounds every queue; and mini is at   *)
(* most the snapshot of every replica looked at, and at least the length   *)
(* of the best one.                                                        *)
Begun == lpc # "ask" \/ i > 0

Looked(r) == r < i \/ lpc = "chosen"

ScanInv == /\ Begun => \A r \in Replicas : Len(Q2[r]) <= snap[r]
           /\ \A r \in Replicas : Looked(r) => Len(Q2[best]) <= mini /\ mini <= snap[r]
           /\ AddedToShortest

(* A step that leaves the scan where it is and adds nothing to a queue     *)
(* keeps it true, for lengths only shrink.                                 *)
LEMMA ScanFrame ==
    ASSUME FrontInv, ScanTypes, ScanInv, [DriverNext]_driverVars, ~Push,
           UNCHANGED scanVars, mpc' \in {"add", "push"} => mpc \in {"add", "push"},
           target' = target
    PROVE  ScanInv'
<1>1. \A r \in Replicas : /\ Len(Q2'[r]) <= Len(Q2[r])
                          /\ Len(Q2[r]) \in Nat /\ Len(Q2'[r]) \in Nat
  BY OnlyPushFills
<1>2. \A r \in Replicas : snap[r] \in Nat
  BY DEF ScanTypes
<1>3. target \in Replicas
  BY DEF FrontInv, TypeOK
<1> QED BY <1>1, <1>2, <1>3
           DEF ScanInv, ScanTypes, Begun, Looked, AddedToShortest, scanVars

LEMMA ScanInvariant == LWSafety => []ScanInv
<1>1. LWInit => ScanInv
  BY DEF LWInit, DriverInit, ScanInv, Begun, Looked, AddedToShortest, Replicas
<1>2. FrontInv /\ ScanTypes /\ ScanInv /\ [LWNext]_lwVars => ScanInv'
  <2> SUFFICES ASSUME FrontInv, ScanTypes, ScanInv, [LWNext]_lwVars PROVE ScanInv'
    OBVIOUS
  <2>0. \A r \in Replicas : Len(Q2[r]) \in Nat /\ snap[r] \in Nat
    <3> TAKE r \in Replicas
    <3>1. Q2[r] \in Seq(Query)
      BY DEF FrontInv, TypeOK, ReplicaTypeOK
    <3> QED BY <3>1 DEF ScanTypes
  <2>1. CASE Ask
    <3>1. Q2' = Q2 /\ mpc' = "dispatch" /\ i' = i /\ mini' = mini /\ best' = best
      BY <2>1 DEF Ask, BalancerLock, At, mainVars
    <3>2. \A r \in Replicas : Len(Q2[r]) <= snap'[r]
      BY <2>0, <2>1, ReplicaAssumption
         DEF Ask, ScanInv, Begun, ScanTypes, Replicas
    <3>3. i # 0 => snap' = snap
      BY <2>1 DEF Ask
    <3>4. lpc = "ask" /\ lpc' = "answer" /\ i \in Nat
      BY <2>1, ReplicaAssumption DEF Ask, ScanTypes, Replicas
    <3> QED BY <3>1, <3>2, <3>3, <3>4 DEF ScanInv, Looked, AddedToShortest, Replicas
  <2>2. CASE Answer
    <3>1. Q2' = Q2 /\ mpc' = "dispatch" /\ snap' = snap /\ lpc = "answer"
      BY <2>2 DEF Answer, BalancerUnlock, At, mainVars
    <3>2. i \in Nat /\ i < NumReplicas /\ \A r \in Replicas : r \in Nat /\ r < NumReplicas
      BY ReplicaAssumption DEF ScanTypes, Replicas
    <3>3. \A r \in Replicas : r <= i => Len(Q2[best']) <= mini' /\ mini' <= snap[r]
      <4>1. CASE Shorter
        <5>1. mini' = Len(Q2[i]) /\ best' = i
          BY <2>2, <4>1 DEF Answer
        <5> QED BY <2>0, <3>1, <3>2, <4>1, <5>1
                DEF Shorter, ScanInv, ScanTypes, Begun, Looked
      <4>2. CASE ~Shorter
        <5>1. mini' = mini /\ best' = best
          BY <2>2, <4>2 DEF Answer
        <5>2. 0 \in Replicas /\ 0 < i /\ mini <= Len(Q2[i])
          BY <2>0, <3>2, <4>2, ReplicaAssumption DEF Shorter, ScanTypes, Replicas
        <5> QED BY <2>0, <3>1, <3>2, <5>1, <5>2
                DEF ScanInv, ScanTypes, Begun, Looked
      <4> QED BY <4>1, <4>2
    <3>4. \A r \in Replicas : Looked(r)' => r <= i
      BY <2>2, <3>2, ReplicaAssumption DEF Answer, Looked, HasNext
    <3> QED BY <3>1, <3>3, <3>4 DEF ScanInv, Begun, AddedToShortest
  <2>3. CASE AddToBest
    <3>1. Q2' = Q2 /\ target' = best /\ snap' = snap /\ lpc = "chosen"
          /\ lpc' = "ask" /\ i' = 0
      BY <2>3 DEF AddToBest, Choose
    <3>2. \A r \in Replicas : Len(Q2[best]) <= snap[r]
      BY <2>0, <3>1 DEF ScanInv, ScanTypes, Looked
    <3> QED BY <3>1, <3>2 DEF ScanInv, Begun, Looked, AddedToShortest, Replicas
  <2>4. CASE (Workers \/ Clock \/ MainStep) /\ UNCHANGED scanVars /\ ~Push
    <3>1. /\ mpc' \in {"add", "push"} => mpc \in {"add", "push"}
          /\ target' = target
      BY <2>4 DEF Workers, Clock, mainVars, MainStep, EnterAddQuery,
         EnterAddInsertQuery, LockToAdd, EndLoop, Report, ReportPastEnd,
         LockToCount, CountActive, Exit, Crash, At
    <3> QED BY <2>4, <3>1, ScanFrame DEF DriverNext
  <2>5. CASE Push /\ UNCHANGED scanVars
    <3>1. mpc = "push" /\ mpc' = "loop"
      BY <2>5 DEF Push, At
    <3>2. ~Begun' /\ \A r \in Replicas : ~Looked(r)'
      BY <2>5, <3>1 DEF ScanTypes, Begun, Looked, scanVars, Replicas
    <3> QED BY <3>1, <3>2 DEF ScanInv, AddedToShortest
  <2>6. CASE UNCHANGED lwVars
    BY <2>6 DEF lwVars, scanVars, driverVars, replicaVars, mainVars, ScanInv, Begun,
                Looked, AddedToShortest
  <2> QED BY <2>1, <2>2, <2>3, <2>4, <2>5, <2>6 DEF LWNext, LWAddQuery
<1> QED BY <1>1, <1>2, ScanTypesInvariant, LeastWorkIsABalancer, FrontInvariant, PTL
           DEF LWSafety

(* The queue a task is added to is, when it is added, no longer than any   *)
(* queue was when the scan began, for any number of replicas and tasks.    *)
THEOREM ShortEnough == LWSafety => []AddedToShortest
  BY ScanInvariant, PTL DEF ScanInv
-----------------------------------------------------------------------------
(* The program that chooses: what is proved of each alone holds of it, for *)
(* it never changes its mind.                                              *)

LEMMA ChosenOnce ==
    /\ Init => balancer = "R" \/ balancer = "L"
    /\ balancer = "R" /\ [Next]_vars => (balancer = "R")'
    /\ balancer = "L" /\ [Next]_vars => (balancer = "L")'
  BY DEF Init, Next, vars

LEMMA StepOfOne ==
    /\ balancer = "R" /\ [Next]_vars => [RRNext]_rrVars
    /\ balancer = "L" /\ [Next]_vars => [LWNext]_lwVars
  BY DEF Next, vars, rrVars, lwVars

LEMMA EitherOfThem ==
    Safety => \/ RRSafety /\ [](balancer = "R")
              \/ LWSafety /\ [](balancer = "L")
<1>1. Init => RRInit /\ LWInit
  BY DEF Init
<1> QED BY <1>1, ChosenOnce, StepOfOne, PTL DEF Safety, RRSafety, LWSafety

(* Whichever balancer main chooses, the program is one of Driver's (main   *)
(* 87-91).                                                                 *)
THEOREM AnyBalancer == Safety => DriverSafety
  BY EitherOfThem, RoundRobinIsABalancer, LeastWorkIsABalancer, PTL

(* RoundRobin deals the tasks in turn, for any number of replicas and      *)
(* tasks (round-robin.cpp 8-16).                                           *)
THEOREM RoundRobinDeals == Safety => []DealsInTurn
<1>1. TurnByTurn \/ balancer = "L" => DealsInTurn
  BY DEF DealsInTurn
<1> QED BY <1>1, EitherOfThem, DealtInTurn, PTL

(* LeastWork adds a task to a queue no longer than any was when it began   *)
(* to ask, for any number of replicas and tasks (least-work.cpp 7-24).     *)
THEOREM LeastWorkAdds == Safety => []AddsToShortest
<1>1. AddedToShortest \/ balancer = "R" => AddsToShortest
  BY DEF AddsToShortest
<1> QED BY <1>1, EitherOfThem, ShortEnough, PTL
-----------------------------------------------------------------------------
(* Where addQuery is: its indices are replicas, what it has planned are    *)
(* costs, and outside "dispatch" it is at its beginning.                   *)
PriceTypes == /\ spc \in {"clock", "total", "lock", "inspect", "chosen"}
              /\ si \in Replicas /\ id \in Replicas
              /\ spc # "clock" => planned \in [Replicas -> Costs]
              /\ spc = "clock" => si = 0
              /\ mpc # "dispatch" => spc = "clock"

(* What Smart does to the variables of Driver, a balancer may do.          *)
LEMMA SmartStepIsDriverStep ==
    ASSUME PriceTypes, [SmartNext]_smartVars
    PROVE  [DriverNext]_driverVars
<1>1. CASE ReadClock \/ ReadTotal
  BY <1>1 DEF ReadClock, ReadTotal
<1>2. CASE LockToInspect \/ Inspect
  BY <1>2 DEF PriceTypes, LockToInspect, Inspect, DriverNext, Balancer
<1>3. CASE AddToCheapest
  <2>1. FinalCost \in Costs
    BY <1>3 DEF PriceTypes, AddToCheapest, FinalCost
  <2> QED BY <1>3, <2>1 DEF PriceTypes, AddToCheapest, DriverNext, Balancer
<1>4. CASE (Workers \/ Clock \/ MainStep) /\ UNCHANGED priceVars
  BY <1>4 DEF DriverNext
<1>5. CASE Ended /\ UNCHANGED smartVars
  BY <1>5 DEF smartVars
<1>6. CASE UNCHANGED smartVars
  BY <1>6 DEF smartVars
<1> QED BY <1>1, <1>2, <1>3, <1>4, <1>5, <1>6 DEF SmartNext, AddQuery

LEMMA PriceTypesInvariant == SmartSafety => []PriceTypes
<1>1. SmartInit => PriceTypes
  BY ReplicaAssumption DEF SmartInit, PriceTypes, Replicas
<1>2. PriceTypes /\ [SmartNext]_smartVars => PriceTypes'
  <2> SUFFICES ASSUME PriceTypes, [SmartNext]_smartVars PROVE PriceTypes'
    OBVIOUS
  <2>1. CASE ReadClock
    BY <2>1 DEF PriceTypes, ReadClock, At, driverVars, mainVars
  <2>2. CASE ReadTotal
    BY <2>2 DEF PriceTypes, ReadTotal, At, driverVars, mainVars
  <2>3. CASE LockToInspect
    BY <2>3 DEF PriceTypes, LockToInspect, BalancerLock, At, mainVars
  <2>4. CASE Inspect
    <3>1. mpc' = "dispatch" /\ planned' = planned /\ spc # "clock"
      BY <2>4 DEF Inspect, BalancerUnlock, At, mainVars
    <3>2. id' = si \/ id' = id
      BY <2>4 DEF Inspect
    <3>3. \/ HasNext(si) /\ spc' = "total" /\ si' = si + 1
          \/ spc' = "chosen" /\ si' = si
      BY <2>4 DEF Inspect
    <3>4. spc' \in {"total", "chosen"} /\ si' \in Replicas
      BY <3>3, ReplicaAssumption DEF PriceTypes, HasNext, Replicas
    <3> QED BY <3>1, <3>2, <3>4 DEF PriceTypes
  <2>5. CASE AddToCheapest
    BY <2>5, ReplicaAssumption DEF PriceTypes, AddToCheapest, Choose, Replicas
  <2>6. CASE (Workers \/ Clock \/ MainStep) /\ UNCHANGED priceVars
    <3>1. mpc' # "dispatch" => spc = "clock"
      BY <2>6 DEF PriceTypes, Workers, Clock, mainVars, MainStep, EnterAddQuery,
             EnterAddInsertQuery, LockToAdd, Push, EndLoop, Report, ReportPastEnd,
             LockToCount, CountActive, Exit, Crash, At
    <3> QED BY <2>6, <3>1 DEF PriceTypes, priceVars
  <2>7. CASE UNCHANGED smartVars
    BY <2>7 DEF PriceTypes, smartVars, priceVars, driverVars, mainVars
  <2> QED BY <2>1, <2>2, <2>3, <2>4, <2>5, <2>6, <2>7 DEF SmartNext, AddQuery
<1> QED BY <1>1, <1>2, PTL DEF SmartSafety

(* Every behaviour of the program with Smart is a behaviour of Driver with *)
(* some balancer, garbage in the start times or not (smart.cpp 19-67).     *)
THEOREM SmartIsABalancer == SmartSafety => DriverSafety
<1>1. SmartInit => DriverInit
  BY DEF SmartInit
<1>2. PriceTypes /\ [SmartNext]_smartVars => [DriverNext]_driverVars
  BY SmartStepIsDriverStep
<1> QED BY <1>1, <1>2, PriceTypesInvariant, PTL DEF SmartSafety, DriverSafety

(* So with Smart, too, a worker removes what it ran, every task is in one  *)
(* place, nothing is killed by the exit, and totals and log are right.     *)
THEOREM SmartKeepsTasks ==
    SmartSafety => [](/\ RemovesWhatItRan /\ ExactlyOnce /\ ExitMeansDrained
                 /\ CostLedger /\ LogTellsAll)
  BY SmartIsABalancer, WorkerRemovesWhatItRan, EachTaskInOnePlace,
     NothingIsKilledByExit, TotalIsWhatIsQueued, LogIsFaithful, PTL
-----------------------------------------------------------------------------
(* The scan.  For the choice to be the smallest estimate, id must name a   *)
(* replica already looked at, and the smallest so far.                     *)

PriceValues == /\ planned \in [Replicas -> Int]
              /\ estimate \in [Replicas -> Int]
              /\ curr_time \in Int
              /\ cost \in [Query -> Nat]

BestSoFar ==
    /\ spc \in {"total", "lock", "inspect"} /\ si > 0 =>
          id < si /\ \A r \in 0..(si - 1) : estimate[id] <= estimate[r]
    /\ spc = "chosen" => \A r \in Replicas : estimate[id] <= estimate[r]
    /\ ChargedWhereCheapest

(* What the clock, the workers and main do outside addQuery.               *)
LEMMA OtherStep ==
    ASSUME PriceTypes, (Workers \/ Clock \/ MainStep) /\ UNCHANGED priceVars
    PROVE  /\ UNCHANGED <<spc, si, curr_time, planned, estimate, id>>
           /\ UNCHANGED cost /\ UNCHANGED target
           /\ spc # "clock" => mpc' = mpc
           /\ mpc' \in {"add", "push"} => mpc \in {"add", "push"} /\ it' = it
  BY DEF PriceTypes, priceVars, Workers, Worker, Poll, FindEmpty, TakeFront, StartProcess,
         ExecuteQuery, LockToRemove, ReduceTotal, PopFront, LogDone, Clock, Tick,
         MainStep, EnterAddQuery, EnterAddInsertQuery, LockToAdd, Push, AddRequest,
         EndLoop, Report, ReportPastEnd, LockToCount, CountActive, Exit, Crash, At,
         replicaVars, mainVars, selectVars

(* Looking into a replica changes its estimate only, to an integer.        *)
LEMMA InspectStep ==
    ASSUME TypeOK, PriceTypes, PriceValues, Inspect
    PROVE  /\ spc = "inspect" /\ UNCHANGED <<planned, curr_time, cost, Q2, wpc, it, mpc, target>>
           /\ mpc = "dispatch" /\ MainHolds(si)
           /\ \E e \in Adjusted(estimate[si]) :
                 /\ e \in Int
                 /\ estimate' = [estimate EXCEPT ![si] = e]
                 /\ id' = IF si = 0 \/ e < estimate[id] THEN si ELSE id
           /\ \/ spc' = "total" /\ si' = si + 1
              \/ spc' = "chosen" /\ si' = si /\ si = NumReplicas - 1
<1>1. PICK e \in Adjusted(estimate[si]) :
         /\ estimate' = [estimate EXCEPT ![si] = e]
         /\ id' = IF si = 0 \/ e < estimate[id] THEN si ELSE id
  BY DEF Inspect
<1>2. e \in Int
  <2>1. estimate[si] \in Int /\ curr_time \in Int /\ Q2[si] \in Seq(Query)
    BY DEF PriceTypes, PriceValues, TypeOK, ReplicaTypeOK
  <2>2. CASE Q2[si] = <<>>
    BY <1>1, <2>1, <2>2 DEF Adjusted
  <2>3. CASE Q2[si] # <<>>
    <3>1. Head(Q2[si]) \in Query
      BY <2>1, <2>3
    <3>2. cost[Head(Q2[si])] \in Int /\ StartTimes(Head(Q2[si])) \subseteq Int
      BY <3>1, SmartAssumption DEF PriceValues, StartTimes, TypeOK, ReplicaTypeOK
    <3> QED BY <1>1, <2>1, <2>3, <3>2 DEF Adjusted, Abs
  <2> QED BY <2>2, <2>3
<1>3. si \in 0..(NumReplicas - 1) /\ NumReplicas \in Nat
  BY ReplicaAssumption DEF PriceTypes, Replicas
<1>4. \/ spc' = "total" /\ si' = si + 1
      \/ spc' = "chosen" /\ si' = si /\ si = NumReplicas - 1
  BY <1>3 DEF Inspect, HasNext
<1>5. /\ spc = "inspect" /\ UNCHANGED <<planned, curr_time, cost, Q2, wpc, it, mpc, target>>
      /\ mpc = "dispatch" /\ MainHolds(si)
  BY DEF Inspect, BalancerUnlock, At, selectVars, workerVars, mainVars
<1> QED BY <1>1, <1>2, <1>4, <1>5

LEMMA PriceValuesInvariant == SmartSafety => []PriceValues
<1>1. SmartInit => PriceValues
  BY DEF SmartInit, DriverInit, ReplicaInit, PriceValues
<1>2. TypeOK /\ PriceTypes /\ PriceValues /\ [SmartNext]_smartVars => PriceValues'
  <2> SUFFICES ASSUME TypeOK, PriceTypes, PriceValues, [SmartNext]_smartVars PROVE PriceValues'
    OBVIOUS
  <2>1. CASE ReadClock
    <3>1. planned' \in [Replicas -> Costs] /\ curr_time' = now
          /\ UNCHANGED estimate /\ UNCHANGED cost
      BY <2>1 DEF ReadClock, driverVars, replicaVars, selectVars
    <3>2. now \in Int
      BY DEF TypeOK, ReplicaTypeOK
    <3>3. planned' \in [Replicas -> Int]
      <4>1. \A c \in Costs : c \in Int
        BY SmartAssumption
      <4> QED BY <3>1, <4>1
    <3> QED BY <3>1, <3>2, <3>3 DEF PriceValues
  <2>2. CASE ReadTotal
    <3>1. totalCost[si] + planned[si] \in Int
      <4>1. totalCost \in [Replicas -> Int]
        BY DEF TypeOK, ReplicaTypeOK
      <4> QED BY <4>1 DEF PriceTypes, PriceValues
    <3> QED BY <2>2, <3>1 DEF PriceValues, ReadTotal, driverVars, replicaVars, selectVars
  <2>3. CASE LockToInspect
    BY <2>3 DEF PriceValues, LockToInspect, BalancerLock, selectVars
  <2>4. CASE Inspect
    BY <2>4, InspectStep DEF PriceValues
  <2>5. CASE AddToCheapest
    <3>1. FinalCost \in Nat
      BY <2>5, SmartAssumption DEF PriceTypes, AddToCheapest, FinalCost
    <3> QED BY <2>5, <3>1 DEF PriceValues, AddToCheapest, Choose
  <2>6. CASE (Workers \/ Clock \/ MainStep) /\ UNCHANGED priceVars
    BY <2>6, OtherStep DEF PriceValues
  <2>7. CASE UNCHANGED smartVars
    BY <2>7 DEF PriceValues, smartVars, priceVars, driverVars, replicaVars, selectVars
  <2> QED BY <2>1, <2>2, <2>3, <2>4, <2>5, <2>6, <2>7 DEF SmartNext, AddQuery
<1> QED BY <1>1, <1>2, PriceTypesInvariant, SmartIsABalancer, TypeCorrect, PTL DEF SmartSafety

LEMMA BestInspect ==
    ASSUME TypeOK, PriceTypes, PriceValues, BestSoFar, Inspect
    PROVE  BestSoFar'
<1>1. PICK e \in Int : /\ estimate' = [estimate EXCEPT ![si] = e]
                       /\ id' = IF si = 0 \/ e < estimate[id] THEN si ELSE id
  BY InspectStep
<1>2. si \in 0..(NumReplicas - 1) /\ NumReplicas \in Nat /\ Replicas = 0..(NumReplicas - 1)
      /\ estimate \in [Replicas -> Int]
  BY ReplicaAssumption DEF PriceTypes, PriceValues, Replicas
<1>3. si > 0 => id \in 0..(si - 1) /\ \A r \in 0..(si - 1) : estimate[id] <= estimate[r]
  BY <1>2, InspectStep DEF BestSoFar, PriceTypes
<1>4. /\ estimate'[si] = e
      /\ \A r \in 0..(si - 1) : estimate'[r] = estimate[r] /\ estimate[r] \in Int
  BY <1>1, <1>2
<1>5. id' \in 0..si /\ \A r \in 0..si : estimate'[id'] <= estimate'[r]
  <2>1. CASE si = 0 \/ e < estimate[id]
    <3>1. id' = si
      BY <1>1, <2>1
    <3>2. \A r \in 0..(si - 1) : e <= estimate[r]
      BY <1>2, <1>3, <1>4, <2>1
    <3> QED BY <1>2, <1>4, <3>1, <3>2
  <2>2. CASE si # 0 /\ ~(e < estimate[id])
    <3>1. id' = id /\ id \in 0..(si - 1) /\ estimate'[id] = estimate[id]
      BY <1>1, <1>2, <1>3, <1>4, <2>2
    <3>2. estimate[id] <= e
      BY <1>4, <2>2, <3>1
    <3> QED BY <1>2, <1>3, <1>4, <3>1, <3>2
  <2> QED BY <2>1, <2>2
<1>6. mpc' = "dispatch"
  BY InspectStep
<1>7. \/ spc' = "total" /\ si' = si + 1
      \/ spc' = "chosen" /\ si' = si /\ si = NumReplicas - 1
  BY InspectStep
<1> QED BY <1>2, <1>5, <1>6, <1>7 DEF BestSoFar, ChargedWhereCheapest

LEMMA BestInvariant == SmartSafety => []BestSoFar
<1>1. SmartInit => BestSoFar
  BY DEF SmartInit, DriverInit, BestSoFar, ChargedWhereCheapest
<1>2. TypeOK /\ PriceTypes /\ PriceValues /\ BestSoFar /\ [SmartNext]_smartVars => BestSoFar'
  <2> SUFFICES ASSUME TypeOK, PriceTypes, PriceValues, BestSoFar, [SmartNext]_smartVars
               PROVE  BestSoFar'
    OBVIOUS
  <2>1. CASE ReadClock
    BY <2>1 DEF PriceTypes, BestSoFar, ChargedWhereCheapest, ReadClock, At, driverVars, mainVars
  <2>2. CASE ReadTotal
    <3>1. /\ spc' = "lock" /\ si' = si /\ id' = id /\ mpc' = "dispatch" /\ spc = "total"
          /\ estimate' = [estimate EXCEPT ![si] = totalCost[si] + planned[si]]
      BY <2>2 DEF ReadTotal, At, driverVars, mainVars
    <3>2. si \in Nat /\ id \in Nat /\ \A r \in 0..(si - 1) : r \in Replicas
      BY ReplicaAssumption DEF PriceTypes, Replicas
    <3>3. \A r \in 0..(si - 1) : estimate'[r] = estimate[r]
      BY <3>1, <3>2 DEF PriceValues
    <3>4. si > 0 => id < si /\ \A r \in 0..(si - 1) : estimate'[id] <= estimate'[r]
      BY <3>1, <3>2, <3>3 DEF BestSoFar
    <3> QED BY <3>1, <3>4 DEF BestSoFar, ChargedWhereCheapest
  <2>3. CASE LockToInspect
    BY <2>3 DEF BestSoFar, ChargedWhereCheapest, LockToInspect, BalancerLock, At, mainVars
  <2>4. CASE Inspect
    BY <2>4, BestInspect
  <2>5. CASE AddToCheapest
    <3>1. /\ spc = "chosen" /\ spc' = "clock" /\ target' = id /\ it' = it
          /\ cost' = [cost EXCEPT ![it + 1] = planned[id]]
          /\ UNCHANGED <<planned, estimate>>
      BY <2>5 DEF AddToCheapest, Choose, FinalCost, Current
    <3>2. it + 1 \in Query
      BY <2>5, ReplicaAssumption DEF AddToCheapest, Choose, At, TypeOK, Query
    <3>3. cost'[it + 1] = planned[id]
      BY <3>1, <3>2 DEF PriceValues
    <3> QED BY <3>1, <3>3 DEF BestSoFar, ChargedWhereCheapest, Current
  <2>6. CASE (Workers \/ Clock \/ MainStep) /\ UNCHANGED priceVars
    BY <2>6, OtherStep DEF BestSoFar, ChargedWhereCheapest, Current
  <2>7. CASE UNCHANGED smartVars
    BY <2>7 DEF BestSoFar, ChargedWhereCheapest, Current, smartVars, priceVars, driverVars,
                replicaVars, selectVars, mainVars
  <2> QED BY <2>1, <2>2, <2>3, <2>4, <2>5, <2>6, <2>7 DEF SmartNext, AddQuery
<1> QED BY <1>1, <1>2, PriceTypesInvariant, PriceValuesInvariant, SmartIsABalancer,
           TypeCorrect, PTL DEF SmartSafety

(* The query goes where its estimate was smallest and is charged at what   *)
(* it costs there, for any pool, any costs and any garbage in the start    *)
(* times (smart.cpp 53-57, 64-66).                                         *)
THEOREM ChargedAtTheCheapest == SmartSafety => []ChargedWhereCheapest
  BY BestInvariant, PTL DEF BestSoFar
-----------------------------------------------------------------------------
(* The estimates.  A worker only ever makes a replica's backlog smaller;   *)
(* an estimate that is not complete, because addQuery has read totalCost   *)
(* and not yet looked at the queue, covers what totalCost stands for.      *)

EstimateInv ==
    /\ \A r \in Estimated : estimate[r] >= planned[r] + CostsTotal(cost, Waiting(r))
    /\ spc \in {"lock", "inspect"} =>
          estimate[si] >= planned[si] + CostsTotal(cost, Charged(si))

LEMMA TailCostsLess ==
    ASSUME NEW c \in [Query -> Nat], NEW s \in Seq(Query), s # <<>>
    PROVE  /\ CostsTotal(c, s) \in Int /\ CostsTotal(c, Tail(s)) \in Int
           /\ CostsTotal(c, Tail(s)) <= CostsTotal(c, s)
<1>1. c \in [Query -> Int] /\ Head(s) \in Query /\ Tail(s) \in Seq(Query)
  OBVIOUS
<1>2. CostsTotal(c, s) \in Int /\ CostsTotal(c, Tail(s)) \in Int
  BY <1>1, CostsTotalType
<1>3. CostsTotal(c, s) = c[Head(s)] + CostsTotal(c, Tail(s)) /\ c[Head(s)] \in Nat
  BY <1>1, CostsTotalTail
<1> QED BY <1>2, <1>3

LEMMA BacklogType ==
    ASSUME TypeOK, PriceValues, RemovesWhatItRan, NEW r \in Replicas
    PROVE  /\ Waiting(r) \in Seq(Query) /\ Charged(r) \in Seq(Query)
           /\ CostsTotal(cost, Waiting(r)) \in Int /\ CostsTotal(cost, Charged(r)) \in Int
<1>1. Q2[r] \in Seq(Query) /\ (wpc[r] = "pop" => Q2[r] # <<>>)
  BY DEF TypeOK, ReplicaTypeOK, RemovesWhatItRan
<1>2. Waiting(r) \in Seq(Query) /\ Charged(r) \in Seq(Query)
  BY <1>1 DEF Waiting, Charged
<1>3. cost \in [Query -> Int]
  BY DEF PriceValues
<1> QED BY <1>2, <1>3, CostsTotalType

LEMMA BacklogShrinks ==
    ASSUME FrontInv, PriceValues, NEW p \in Replicas, Worker(p), NEW r \in Replicas
    PROVE  /\ CostsTotal(cost', Waiting(r)') \in Int
           /\ CostsTotal(cost', Waiting(r)') <= CostsTotal(cost, Waiting(r))
           /\ CostsTotal(cost', Charged(r)') \in Int
           /\ CostsTotal(cost', Charged(r)') <= CostsTotal(cost, Charged(r))
<1>1. cost' = cost /\ cost \in [Query -> Nat] /\ Q2[r] \in Seq(Query)
  BY DEF PriceValues, FrontInv, TypeOK, ReplicaTypeOK, Worker, Poll, FindEmpty, TakeFront,
         StartProcess, ExecuteQuery, LockToRemove, ReduceTotal, PopFront, LogDone,
         selectVars
<1>2. /\ CostsTotal(cost, Waiting(r)) \in Int /\ CostsTotal(cost, Charged(r)) \in Int
      /\ Waiting(r) \in Seq(Query)
  BY BacklogType DEF FrontInv
<1>3. CASE Q2'[r] = Q2[r] /\ (wpc'[r] = "pop" <=> wpc[r] = "pop")
  <2>1. Waiting(r)' = Waiting(r) /\ Charged(r)' = Charged(r)
    BY <1>3 DEF Waiting, Charged
  <2> QED BY <1>1, <1>2, <2>1
<1>4. CASE Q2'[r] = Q2[r] /\ wpc[r] = "uncost" /\ wpc'[r] = "pop"
  <2>1. Q2[r] # <<>>
    BY <1>4 DEF FrontInv, RemovesWhatItRan
  <2>2. Waiting(r)' = Waiting(r) /\ Charged(r) = Q2[r] /\ Charged(r)' = Tail(Q2[r])
    BY <1>4 DEF Waiting, Charged
  <2>3. /\ CostsTotal(cost, Tail(Q2[r])) \in Int
        /\ CostsTotal(cost, Tail(Q2[r])) <= CostsTotal(cost, Q2[r])
    BY <1>1, <2>1, TailCostsLess
  <2> QED BY <1>1, <1>2, <2>2, <2>3
<1>5. CASE Q2'[r] = Tail(Q2[r]) /\ wpc[r] = "pop" /\ wpc'[r] = "log"
  <2>1. Q2[r] # <<>>
    BY <1>5 DEF FrontInv, RemovesWhatItRan
  <2>2. Charged(r)' = Charged(r) /\ Waiting(r) = Tail(Q2[r])
    BY <1>5, <2>1 DEF Charged, Waiting
  <2>3. CASE Waiting(r) = <<>>
    <3>1. Waiting(r)' = Waiting(r)
      BY <1>5, <2>2, <2>3 DEF Waiting
    <3> QED BY <1>1, <1>2, <2>2, <3>1
  <2>4. CASE Waiting(r) # <<>>
    <3>1. Waiting(r)' = Tail(Waiting(r))
      BY <1>5, <2>2, <2>4 DEF Waiting
    <3>2. /\ CostsTotal(cost, Tail(Waiting(r))) \in Int
          /\ CostsTotal(cost, Tail(Waiting(r))) <= CostsTotal(cost, Waiting(r))
      BY <1>1, <1>2, <2>4, TailCostsLess
    <3> QED BY <1>1, <1>2, <2>2, <3>1, <3>2
  <2> QED BY <2>3, <2>4
<1>6. \/ Q2'[r] = Q2[r] /\ (wpc'[r] = "pop" <=> wpc[r] = "pop")
      \/ Q2'[r] = Q2[r] /\ wpc[r] = "uncost" /\ wpc'[r] = "pop"
      \/ Q2'[r] = Tail(Q2[r]) /\ wpc[r] = "pop" /\ wpc'[r] = "log"
  BY DEF FrontInv, TypeOK, ReplicaTypeOK, Worker, Poll, FindEmpty, TakeFront, Goto,
         StartProcess, ExecuteQuery, LockToRemove, ReduceTotal, PopFront, Pop, LogDone
<1> QED BY <1>3, <1>4, <1>5, <1>6

(* addQuery looks at the queue with the mutex locked: the worker is not    *)
(* half-way through removing, and subtracting the front's cost leaves at   *)
(* least what waits behind it, whatever its start time is read as.         *)
LEMMA EstimateInspect ==
    ASSUME FrontInv, MutexInv, PriceTypes, PriceValues, EstimateInv, Inspect
    PROVE  EstimateInv'
<1> USE DEF FrontInv
<1>1. PICK e \in Adjusted(estimate[si]) : e \in Int /\ estimate' = [estimate EXCEPT ![si] = e]
  BY InspectStep
<1>2. /\ si \in 0..(NumReplicas - 1) /\ NumReplicas \in Nat
      /\ Replicas = 0..(NumReplicas - 1) /\ si \in Replicas
  BY ReplicaAssumption DEF PriceTypes, Replicas
<1>3. /\ estimate \in [Replicas -> Int] /\ planned \in [Replicas -> Int]
      /\ cost \in [Query -> Nat] /\ curr_time \in Int
  BY DEF PriceValues
<1>4. spc = "inspect" /\ UNCHANGED <<planned, curr_time, cost, Q2, wpc, it, mpc, target>>
      /\ mpc = "dispatch" /\ MainHolds(si)
  BY InspectStep
<1>5. \A r \in Replicas : Waiting(r)' = Waiting(r)
  BY <1>4 DEF Waiting
<1>6. Q2[si] \in Seq(Query) /\ wpc[si] # "pop"
  BY <1>2, <1>4 DEF TypeOK, ReplicaTypeOK, MutexInv, WorkerOwnsMutex, MainHolds
<1>7. Charged(si) = Q2[si]
  BY <1>6 DEF Charged
<1>8. estimate[si] >= planned[si] + CostsTotal(cost, Q2[si])
  BY <1>4, <1>7 DEF EstimateInv
<1>9. CostsTotal(cost, Q2[si]) \in Int
  BY <1>2, <1>7, BacklogType
<1>10. e >= planned[si] + CostsTotal(cost, Waiting(si))
  <2>1. CASE Q2[si] = <<>>
    BY <1>1, <1>8, <2>1 DEF Adjusted, Waiting
  <2>2. CASE Q2[si] # <<>>
    <3> DEFINE f == Head(Q2[si])
    <3>1. f \in Query /\ Tail(Q2[si]) \in Seq(Query)
      BY <1>6, <2>2
    <3>2. cost[f] \in Nat /\ StartTimes(f) \subseteq Int
      BY <1>3, <3>1, SmartAssumption DEF StartTimes, TypeOK, ReplicaTypeOK
    <3>3. PICK t \in StartTimes(f) :
             e = estimate[si] - cost[f] + Abs(cost[f] - (curr_time - t))
      BY <1>1, <2>2 DEF Adjusted
    <3> HIDE DEF f
    <3>4. t \in Int /\ cost[f] - (curr_time - t) \in Int /\ estimate[si] \in Int
      BY <1>2, <1>3, <3>2
    <3>5. e >= estimate[si] - cost[f]
      <4> DEFINE x == cost[f] - (curr_time - t)
      <4>1. x \in Int
        BY <3>4
      <4>2. e = estimate[si] - cost[f] + Abs(x)
        BY <3>3
      <4> HIDE DEF x
      <4>3. Abs(x) \in Int /\ Abs(x) >= 0
        BY <4>1 DEF Abs
      <4> QED BY <3>2, <3>4, <4>2, <4>3
    <3>6. CostsTotal(cost, Q2[si]) = cost[f] + CostsTotal(cost, Tail(Q2[si]))
      BY <1>3, <1>6, <2>2, CostsTotalTail DEF f
    <3>7. CostsTotal(cost, Tail(Q2[si])) \in Int
      BY <1>3, <1>6, <2>2, TailCostsLess
    <3>8. Waiting(si) = Tail(Q2[si])
      BY <2>2 DEF Waiting
    <3> QED BY <1>1, <1>2, <1>3, <1>8, <1>9, <3>2, <3>5, <3>6, <3>7, <3>8
  <2> QED BY <2>1, <2>2
<1>11. \A r \in 0..(si - 1) : estimate[r] >= planned[r] + CostsTotal(cost, Waiting(r))
  BY <1>4 DEF EstimateInv, Estimated
<1>12. \A r \in 0..si : estimate'[r] >= planned'[r] + CostsTotal(cost', Waiting(r)')
  <2> TAKE r \in 0..si
  <2>1. r \in Replicas /\ (r = si \/ r \in 0..(si - 1))
    BY <1>2
  <2>2. CASE r = si
    BY <1>1, <1>2, <1>3, <1>4, <1>5, <1>10, <2>2
  <2>3. CASE r \in 0..(si - 1)
    BY <1>1, <1>2, <1>3, <1>4, <1>5, <1>11, <2>1, <2>3
  <2> QED BY <2>1, <2>2, <2>3
<1>13. \/ spc' = "total" /\ si' = si + 1
       \/ spc' = "chosen" /\ si' = si /\ si = NumReplicas - 1
  BY InspectStep
<1>14. Estimated' = 0..si
  BY <1>2, <1>4, <1>13 DEF Estimated
<1> QED BY <1>12, <1>13, <1>14 DEF EstimateInv

(* What leaves all queues as they are, or removes, keeps every estimate.   *)
LEMMA EstimateKept ==
    ASSUME FrontInv, PriceTypes, PriceValues, EstimateInv,
           UNCHANGED <<si, planned, estimate>>, si \in Replicas,
           Estimated' \subseteq Estimated,
           spc' \in {"lock", "inspect"} => spc \in {"lock", "inspect"},
           \A r \in Replicas :
              /\ CostsTotal(cost', Waiting(r)') \in Int
              /\ CostsTotal(cost', Waiting(r)') <= CostsTotal(cost, Waiting(r))
              /\ CostsTotal(cost', Charged(r)') \in Int
              /\ CostsTotal(cost', Charged(r)') <= CostsTotal(cost, Charged(r))
    PROVE  EstimateInv'
<1>1. \A r \in Replicas : /\ CostsTotal(cost, Waiting(r)) \in Int
                          /\ CostsTotal(cost, Charged(r)) \in Int
                          /\ planned[r] \in Int /\ estimate[r] \in Int
  BY BacklogType DEF FrontInv, PriceValues
<1>2. Estimated \subseteq Replicas
  BY ReplicaAssumption DEF Estimated, PriceTypes, Replicas
<1>3. ASSUME NEW r \in Estimated'
      PROVE  estimate'[r] >= planned'[r] + CostsTotal(cost', Waiting(r)')
  <2>1. r \in Replicas /\ estimate[r] >= planned[r] + CostsTotal(cost, Waiting(r))
    BY <1>2 DEF EstimateInv
  <2> QED BY <1>1, <2>1
<1>4. ASSUME spc' \in {"lock", "inspect"}
      PROVE  estimate'[si] >= planned'[si] + CostsTotal(cost', Charged(si)')
  <2>1. estimate[si] >= planned[si] + CostsTotal(cost, Charged(si))
    BY <1>4 DEF EstimateInv
  <2> QED BY <1>1, <2>1
<1> QED BY <1>3, <1>4 DEF EstimateInv, Charged

LEMMA EstimateStep ==
    ASSUME FrontInv, MutexInv, LedgerInv, PriceTypes, PriceValues, EstimateInv,
           [SmartNext]_smartVars
    PROVE  EstimateInv'
<1>1. \A r \in Replicas :
         CostsTotal(cost, Waiting(r)) \in Int /\ CostsTotal(cost, Charged(r)) \in Int
  BY BacklogType DEF FrontInv
<1>2. si \in Replicas
  BY DEF PriceTypes
<1>3. ASSUME UNCHANGED <<si, planned, estimate, cost, Q2, wpc>>,
             Estimated' \subseteq Estimated,
             spc' \in {"lock", "inspect"} => spc \in {"lock", "inspect"}
      PROVE  EstimateInv'
  <2>1. \A r \in Replicas : Waiting(r)' = Waiting(r) /\ Charged(r)' = Charged(r)
    BY <1>3 DEF Waiting, Charged
  <2>2. \A r \in Replicas :
           /\ CostsTotal(cost', Waiting(r)') \in Int
           /\ CostsTotal(cost', Waiting(r)') <= CostsTotal(cost, Waiting(r))
           /\ CostsTotal(cost', Charged(r)') \in Int
           /\ CostsTotal(cost', Charged(r)') <= CostsTotal(cost, Charged(r))
    BY <1>1, <1>3, <2>1
  <2> QED BY <1>2, <1>3, <2>2, EstimateKept
<1>4. CASE ReadClock
  <2>1. spc' = "total" /\ si' = 0 /\ mpc' = "dispatch"
    BY <1>4 DEF PriceTypes, ReadClock, At, driverVars, mainVars
  <2>2. Estimated' = {}
    BY <2>1 DEF Estimated
  <2> QED BY <2>1, <2>2 DEF EstimateInv
<1>5. CASE ReadTotal
  <2>1. /\ spc = "total" /\ spc' = "lock" /\ mpc = "dispatch" /\ mpc' = "dispatch"
        /\ estimate' = [estimate EXCEPT ![si] = totalCost[si] + planned[si]]
        /\ UNCHANGED <<si, planned, cost, Q2, wpc>>
    BY <1>5 DEF ReadTotal, At, driverVars, replicaVars, mainVars, selectVars, workerVars
  <2>2. /\ si \in 0..(NumReplicas - 1) /\ NumReplicas \in Nat
        /\ Replicas = 0..(NumReplicas - 1)
    BY <1>2, ReplicaAssumption DEF Replicas
  <2>3. estimate'[si] = totalCost[si] + planned[si]
        /\ \A r \in 0..(si - 1) : estimate'[r] = estimate[r]
    BY <2>1, <2>2 DEF PriceValues
  <2>4. \A r \in Replicas : Waiting(r)' = Waiting(r) /\ Charged(r)' = Charged(r)
    BY <2>1 DEF Waiting, Charged
  <2>5. Estimated = 0..(si - 1) /\ Estimated' = 0..(si - 1)
    BY <2>1 DEF Estimated
  <2>6. ASSUME NEW r \in Estimated'
        PROVE  estimate'[r] >= planned'[r] + CostsTotal(cost', Waiting(r)')
    <3>1. r \in Replicas /\ estimate[r] >= planned[r] + CostsTotal(cost, Waiting(r))
      BY <2>2, <2>5 DEF EstimateInv
    <3> QED BY <2>1, <2>3, <2>4, <2>5, <3>1
  <2>7. estimate'[si] >= planned'[si] + CostsTotal(cost', Charged(si)')
    <3>1. totalCost[si] = CostsTotal(cost, Charged(si)) /\ planned[si] \in Int
      BY <1>2 DEF LedgerInv, PriceValues
    <3> QED BY <1>1, <1>2, <2>1, <2>3, <2>4, <3>1
  <2> QED BY <2>1, <2>6, <2>7 DEF EstimateInv, Charged
<1>6. CASE LockToInspect
  <2>1. /\ spc = "lock" /\ spc' = "inspect" /\ UNCHANGED <<si, planned, estimate, cost, Q2, wpc>>
        /\ mpc = "dispatch" /\ mpc' = mpc
    BY <1>6 DEF LockToInspect, BalancerLock, At, mainVars, selectVars, workerVars
  <2> QED BY <1>3, <2>1 DEF Estimated
<1>7. CASE Inspect
  BY <1>7, EstimateInspect
<1>8. CASE AddToCheapest
  <2>1. /\ spc = "chosen" /\ spc' = "clock" /\ mpc' = "add"
        /\ cost' = [cost EXCEPT ![it + 1] = FinalCost]
        /\ UNCHANGED <<planned, estimate, Q2, wpc>>
    BY <1>8 DEF AddToCheapest, Choose, Current, workerVars
  <2>2. Estimated = Replicas /\ Estimated' = Replicas
    BY <2>1 DEF Estimated
  <2>3. ASSUME NEW r \in Replicas
        PROVE  CostsTotal(cost', Waiting(r)') = CostsTotal(cost, Waiting(r))
    <3>1. Q2[r] \in Seq(Query) /\ it \in 0..NumTask /\ cost \in [Query -> Nat]
      BY DEF FrontInv, TypeOK, ReplicaTypeOK, PriceValues
    <3>0. it \in Nat /\ 1..it \subseteq Query
      BY <3>1, ReplicaAssumption DEF Query
    <3>2. \A k \in 1..Len(Q2[r]) : Q2[r][k] \in 1..it
      BY DEF LedgerInv
    <3>3. \A k \in 1..Len(Waiting(r)) : Waiting(r)[k] \in 1..it
      <4>1. CASE Q2[r] = <<>>
        BY <4>1 DEF Waiting
      <4>2. CASE Q2[r] # <<>>
        <5>1. \A k \in 1..Len(Tail(Q2[r])) :
                 k + 1 \in 1..Len(Q2[r]) /\ Tail(Q2[r])[k] = Q2[r][k + 1]
          BY <3>1, <4>2
        <5>2. Waiting(r) = Tail(Q2[r])
          BY <4>2 DEF Waiting
        <5> QED BY <3>2, <5>1, <5>2
      <4> QED BY <4>1, <4>2
    <3>4. \A q \in 1..it : cost'[q] = cost[q]
      BY <2>1, <3>0, <3>1
    <3>5. CostsTotal(cost', Waiting(r)) = CostsTotal(cost, Waiting(r))
      BY <3>3, <3>4, CostsTotalSame
    <3>6. Waiting(r)' = Waiting(r)
      BY <2>1 DEF Waiting
    <3> QED BY <3>5, <3>6
  <2> QED BY <2>1, <2>2, <2>3 DEF EstimateInv
<1>9. CASE (Workers \/ Clock \/ MainStep) /\ UNCHANGED priceVars
  <2>1. /\ UNCHANGED <<spc, si, planned, estimate, cost>>
        /\ spc # "clock" => mpc' = mpc
        /\ mpc' \in {"add", "push"} => mpc \in {"add", "push"}
    BY <1>9, OtherStep
  <2>2. Estimated' \subseteq Estimated
    BY <2>1 DEF Estimated
  <2>3. CASE Workers
    BY <1>2, <2>1, <2>2, <2>3, BacklogShrinks, EstimateKept DEF Workers
  <2>4. CASE Push
    <3>1. mpc' = "loop" /\ spc' = "clock"
      BY <2>1, <2>4 DEF Push, At, PriceTypes
    <3> QED BY <3>1 DEF EstimateInv, Estimated
  <2>5. CASE (Clock \/ MainStep) /\ ~Push
    BY <1>3, <2>1, <2>2, <2>5, OtherwiseNothingMoves
  <2> QED BY <1>9, <2>3, <2>4, <2>5
<1>10. CASE Ended /\ UNCHANGED smartVars
  BY <1>3, <1>10 DEF smartVars, priceVars, driverVars, replicaVars, mainVars, selectVars,
                     workerVars, Estimated
<1>11. CASE UNCHANGED smartVars
  BY <1>3, <1>11 DEF smartVars, priceVars, driverVars, replicaVars, mainVars, selectVars,
                     workerVars, Estimated
<1> QED BY <1>4, <1>5, <1>6, <1>7, <1>8, <1>9, <1>10, <1>11 DEF SmartNext, AddQuery

(* An estimate covers the new query and everything that waits behind the   *)
(* query being run, whatever the worker does between the unlocked read of  *)
(* totalCost and the locked look at the queue, for any costs and any       *)
(* garbage in the start times (smart.cpp 36-51).                           *)
THEOREM EstimatesCoverBacklog == SmartSafety => []NeverUnderestimates
<1>1. SmartInit => EstimateInv
  BY DEF SmartInit, DriverInit, EstimateInv, Estimated
<1>2. EstimateInv => NeverUnderestimates
  BY DEF EstimateInv, NeverUnderestimates, SumOfCosts, CostsOf, CostsTotal
<1> QED BY <1>1, <1>2, EstimateStep, FrontInvariant, MutexInvariant, LedgerInvariant,
           PriceTypesInvariant, PriceValuesInvariant, SmartIsABalancer, PTL DEF SmartSafety
=============================================================================
