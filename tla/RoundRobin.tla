----------------------------- MODULE RoundRobin -----------------------------
(***************************************************************************)
(* The program with the RoundRobin balancer.  Its addQuery touches no      *)
(* mutex: it is one step of main between a task's arrival and addRequest.  *)
(***************************************************************************)
EXTENDS Driver

VARIABLE last  (* RoundRobin::last *)

rrVars == <<driverVars, last>>

RRInit == DriverInit /\ last = 0

(* Mutant: last is not advanced. *)
NoAdvance == last

NextTurn == IF last + 1 >= NumReplicas THEN 0 ELSE last + 1

(* RoundRobin::addQuery up to its call of addRequest.  Nothing in it, nor  *)
(* in the Select it creates, sets _cost: the field is whatever was there.  *)
RRAddQuery == /\ last' = NextTurn
              /\ \E c \in Costs : Choose(NextTurn, c)

RRNext == \/ RRAddQuery
          \/ (Workers \/ Clock \/ MainStep) /\ UNCHANGED last
          \/ Ended /\ UNCHANGED rrVars

RRSafety == RRInit /\ [][RRNext]_rrVars
-----------------------------------------------------------------------------
TypeOKRR == TypeOK /\ last \in Replicas

(* Everything main has put into a replica, oldest first. *)
Received == Promise!Handed

(* The q-th task goes to replica q % NumReplicas, whatever the workers do  *)
(* meanwhile.  The first task goes to replica 1: last starts at 0 and is   *)
(* advanced before it is used (round-robin.cpp 5, 9-10, 16).               *)
TurnByTurn == \A r \in Replicas : \A i \in 1..Len(Received[r]) :
                  Received[r][i] % NumReplicas = r

(* No replica is ever two tasks ahead of another.                          *)
Balanced == \A r, s \in Replicas : Len(Received[r]) - Len(Received[s]) <= 1
=============================================================================
