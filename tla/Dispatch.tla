------------------------------ MODULE Dispatch ------------------------------
(***************************************************************************)
(* What the load generator promises, without threads, locks or costs:      *)
(* main hands tasks 1, 2, ... to replicas, and every replica works through *)
(* what it was handed in order, each task once.  Driver.tla is shown to    *)
(* implement this module.                                                  *)
(***************************************************************************)
EXTENDS Naturals, Sequences

CONSTANTS Replicas,  (* the pool main dispatches to *)
          NumTask    (* how many queries main submits *)

VARIABLES submitted,  (* how many tasks have been handed out *)
          queue,      (* tasks handed to a replica and not yet run there *)
          completed   (* tasks a replica has run, oldest first *)

vars == <<submitted, queue, completed>>

Query == Nat \ {0}
-----------------------------------------------------------------------------
Init == /\ submitted = 0
        /\ queue = [r \in Replicas |-> <<>>]
        /\ completed = [r \in Replicas |-> <<>>]

MoreTasks == submitted < NumTask

Enqueue(s, q) == Append(s, q)

Submit(r) == /\ MoreTasks
             /\ submitted' = submitted + 1
             /\ queue' = [queue EXCEPT ![r] = Enqueue(@, submitted + 1)]
             /\ UNCHANGED completed

Dequeue(s) == Tail(s)

Complete(r) == /\ queue[r] # <<>>
               /\ queue' = [queue EXCEPT ![r] = Dequeue(@)]
               /\ completed' = [completed EXCEPT ![r] = Append(@, Head(queue[r]))]
               /\ UNCHANGED submitted

Next == \E r \in Replicas : Submit(r) \/ Complete(r)

Safety == Init /\ [][Next]_vars
-----------------------------------------------------------------------------
TypeOK == /\ submitted \in Nat
          /\ queue \in [Replicas -> Seq(Query)]
          /\ completed \in [Replicas -> Seq(Query)]

(* Everything a replica was ever handed, in the order it was handed. *)
Handed == [r \in Replicas |-> completed[r] \o queue[r]]

(* Every task main has handed out is with exactly one replica, in exactly  *)
(* one place: none is lost between the queue and the worker, and none is   *)
(* run twice (Database::addRequest, Database::threadFun).                  *)
ExactlyOnce ==
    /\ \A q \in 1..submitted : \E r \in Replicas : \E i \in 1..Len(Handed[r]) :
          Handed[r][i] = q
    /\ \A r, s \in Replicas : \A i \in 1..Len(Handed[r]), j \in 1..Len(Handed[s]) :
          Handed[r][i] = Handed[s][j] => r = s /\ i = j

(* A replica runs its tasks in the order main submitted them.              *)
FirstComeFirstServed ==
    \A r \in Replicas : \A i, j \in 1..Len(Handed[r]) :
        i < j => Handed[r][i] < Handed[r][j]
=============================================================================
