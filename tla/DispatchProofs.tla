--------------------------- MODULE DispatchProofs ---------------------------
(***************************************************************************)
(* Proofs about the abstract dispatcher.  Handed[r], what replica r was    *)
(* ever given, is the key: completing a task moves it within Handed[r]     *)
(* without changing the sequence, and submitting one appends a number      *)
(* larger than all before.                                                 *)
(***************************************************************************)
EXTENDS Dispatch, TLAPS

(* The elements of a sequence with one element appended.                   *)
LEMMA Appended ==
    ASSUME NEW S, NEW s \in Seq(S), NEW e \in S
    PROVE  /\ Append(s, e) \in Seq(S)
           /\ Len(Append(s, e)) = Len(s) + 1
           /\ Len(s) \in Nat
           /\ Append(s, e)[Len(s) + 1] = e
           /\ \A i \in 1..Len(s) : Append(s, e)[i] = s[i]
           /\ \A i \in 1..Len(Append(s, e)) : i = Len(s) + 1 \/ i \in 1..Len(s)
  OBVIOUS

(* Taking the head off one sequence and appending it to another leaves     *)
(* their concatenation unchanged.                                          *)
LEMMA MoveHead ==
    ASSUME NEW S, NEW a \in Seq(S), NEW b \in Seq(S), b # <<>>
    PROVE  Append(a, Head(b)) \o Tail(b) = a \o b
<1> DEFINE c == Append(a, Head(b)) \o Tail(b)
<1>1. /\ c \in Seq(S) /\ a \o b \in Seq(S)
      /\ Len(c) = Len(a) + Len(b) /\ Len(a \o b) = Len(a) + Len(b)
  OBVIOUS
<1>2. \A i \in 1..Len(c) : c[i] = (a \o b)[i]
  OBVIOUS
<1> QED BY <1>1, <1>2

(* Appending to the second of two sequences appends to both together.      *)
LEMMA AppendRight ==
    ASSUME NEW S, NEW a \in Seq(S), NEW b \in Seq(S), NEW e \in S
    PROVE  a \o Append(b, e) = Append(a \o b, e)
<1> DEFINE c == a \o Append(b, e)
           d == Append(a \o b, e)
<1>1. /\ c \in Seq(S) /\ d \in Seq(S)
      /\ Len(c) = Len(a) + Len(b) + 1 /\ Len(d) = Len(a) + Len(b) + 1
  OBVIOUS
<1>2. \A i \in 1..Len(c) : c[i] = d[i]
  OBVIOUS
<1> QED BY <1>1, <1>2

(* The variables always have their types: a replica that completes a task  *)
(* has one (Database::removeQueryFromQueue).                               *)
THEOREM TypeCorrect == Safety => []TypeOK
<1>1. Init => TypeOK
  BY DEF Init, TypeOK, Query
<1>2. TypeOK /\ [Next]_vars => TypeOK'
  <2> SUFFICES ASSUME TypeOK, [Next]_vars PROVE TypeOK'
    OBVIOUS
  <2> USE DEF TypeOK, Query
  <2>1. ASSUME NEW r \in Replicas, Submit(r) PROVE TypeOK'
    BY <2>1 DEF Submit, Enqueue
  <2>2. ASSUME NEW r \in Replicas, Complete(r) PROVE TypeOK'
    <3>1. Head(queue[r]) \in Query /\ Tail(queue[r]) \in Seq(Query)
      BY <2>2 DEF Complete
    <3> QED BY <2>2, <3>1 DEF Complete, Dequeue
  <2>3. CASE UNCHANGED vars
    BY <2>3 DEF vars
  <2> QED BY <2>1, <2>2, <2>3 DEF Next
<1> QED BY <1>1, <1>2, PTL DEF Safety

(* What a step does to Handed: nothing, or the next task is appended to    *)
(* what one replica was handed.                                            *)
HandsOut(r) == /\ submitted' = submitted + 1
               /\ submitted + 1 \in Query
               /\ Handed' = [Handed EXCEPT ![r] = Append(@, submitted + 1)]

LEMMA HandedType == TypeOK => Handed \in [Replicas -> Seq(Query)]
  BY DEF TypeOK, Handed

LEMMA SubmitHandsOut ==
    ASSUME TypeOK, NEW r \in Replicas, Submit(r)
    PROVE  HandsOut(r)
<1>1. queue[r] \in Seq(Query) /\ completed[r] \in Seq(Query)
  BY DEF TypeOK
<1>2. submitted + 1 \in Query
  BY DEF TypeOK, Query
<1>3. completed[r] \o Append(queue[r], submitted + 1)
          = Append(completed[r] \o queue[r], submitted + 1)
  <2> DEFINE a == completed[r]
             b == queue[r]
             q == submitted + 1
  <2>1. a \in Seq(Query) /\ b \in Seq(Query) /\ q \in Query
    BY <1>1, <1>2
  <2> HIDE DEF a, b, q
  <2>2. a \o Append(b, q) = Append(a \o b, q)
    BY <2>1, AppendRight
  <2> QED BY <2>2 DEF a, b, q
<1>4. \A s \in Replicas :
         completed'[s] \o queue'[s] = IF s = r THEN Append(Handed[r], submitted + 1)
                                               ELSE Handed[s]
  BY <1>3 DEF Submit, Enqueue, TypeOK, Handed
<1> HIDE DEF Query
<1> QED BY <1>2, <1>4 DEF Submit, Handed, HandsOut

LEMMA CompleteKeeps ==
    ASSUME TypeOK, NEW r \in Replicas, Complete(r)
    PROVE  submitted' = submitted /\ Handed' = Handed
<1>1. queue[r] \in Seq(Query) /\ completed[r] \in Seq(Query) /\ queue[r] # <<>>
  BY DEF TypeOK, Complete
<1>2. Append(completed[r], Head(queue[r])) \o Tail(queue[r])
          = completed[r] \o queue[r]
  BY <1>1, MoveHead
<1> QED BY <1>2 DEF Complete, Dequeue, TypeOK, Handed

LEMMA HandedStep ==
    ASSUME TypeOK, [Next]_vars
    PROVE  \/ submitted' = submitted /\ Handed' = Handed
           \/ \E r \in Replicas : HandsOut(r)
<1>1. CASE UNCHANGED vars
  BY <1>1 DEF vars, Handed
<1> QED BY <1>1, SubmitHandsOut, CompleteKeeps DEF Next

(* The elements of Handed after a task has been handed out.                *)
LEMMA HandedOut ==
    ASSUME TypeOK, NEW p \in Replicas, HandsOut(p)
    PROVE  \A r \in Replicas :
              /\ \A i \in 1..Len(Handed[r]) :
                    i \in 1..Len(Handed'[r]) /\ Handed'[r][i] = Handed[r][i]
              /\ \A i \in 1..Len(Handed'[r]) :
                    \/ i \in 1..Len(Handed[r]) /\ Handed'[r][i] = Handed[r][i]
                    \/ r = p /\ i = Len(Handed[r]) + 1 /\ Handed'[r][i] = submitted + 1
              /\ Len(Handed[r]) \in Nat
              /\ \E i \in 1..Len(Handed'[p]) : Handed'[p][i] = submitted + 1
<1>1. Handed \in [Replicas -> Seq(Query)] /\ submitted + 1 \in Query
  BY HandedType DEF HandsOut
<1>2. Handed'[p] = Append(Handed[p], submitted + 1)
  BY <1>1 DEF HandsOut
<1>3. \A r \in Replicas \ {p} : Handed'[r] = Handed[r]
  BY <1>1 DEF HandsOut
<1>4. /\ Len(Handed'[p]) = Len(Handed[p]) + 1
      /\ Handed'[p][Len(Handed[p]) + 1] = submitted + 1
      /\ \A i \in 1..Len(Handed[p]) : Handed'[p][i] = Handed[p][i]
  BY <1>1, <1>2, Appended
<1>5. \A r \in Replicas : Len(Handed[r]) \in Nat
  <2> TAKE r \in Replicas
  <2>1. Handed[r] \in Seq(Query)
    BY <1>1
  <2> QED BY <2>1
<1> SUFFICES ASSUME NEW r \in Replicas
             PROVE  /\ \A i \in 1..Len(Handed[r]) :
                          i \in 1..Len(Handed'[r]) /\ Handed'[r][i] = Handed[r][i]
                    /\ \A i \in 1..Len(Handed'[r]) :
                          \/ i \in 1..Len(Handed[r]) /\ Handed'[r][i] = Handed[r][i]
                          \/ /\ r = p /\ i = Len(Handed[r]) + 1
                             /\ Handed'[r][i] = submitted + 1
  BY <1>4, <1>5, SMTT(30)
<1>6. CASE r = p
  BY <1>4, <1>5, <1>6
<1>7. CASE r # p
  BY <1>3, <1>5, <1>7
<1> QED BY <1>6, <1>7

(* What makes the properties inductive: only tasks already submitted have  *)
(* been handed to anybody.                                                 *)
Bounded == \A r \in Replicas : \A i \in 1..Len(Handed[r]) :
               Handed[r][i] \in 1..submitted

LEMMA BoundedInvariant == Safety => []Bounded
<1>1. Init => Bounded
  BY DEF Init, Bounded, Handed
<1>2. TypeOK /\ Bounded /\ [Next]_vars => Bounded'
  <2> SUFFICES ASSUME TypeOK, Bounded, [Next]_vars PROVE Bounded'
    OBVIOUS
  <2>1. CASE submitted' = submitted /\ Handed' = Handed
    BY <2>1 DEF Bounded
  <2>2. ASSUME NEW p \in Replicas, HandsOut(p) PROVE Bounded'
    BY <2>2, HandedOut DEF Bounded, HandsOut, TypeOK
  <2> QED BY <2>1, <2>2, HandedStep
<1> QED BY <1>1, <1>2, TypeCorrect, PTL DEF Safety

(* Every replica runs its tasks in the order they were submitted, for any  *)
(* number of replicas and tasks.                                           *)
THEOREM InSubmissionOrder == Safety => []FirstComeFirstServed
<1>1. Init => FirstComeFirstServed
  BY DEF Init, FirstComeFirstServed, Handed
<1>2. TypeOK /\ Bounded /\ FirstComeFirstServed /\ [Next]_vars
        => FirstComeFirstServed'
  <2> SUFFICES ASSUME TypeOK, Bounded, FirstComeFirstServed, [Next]_vars
               PROVE  FirstComeFirstServed'
    OBVIOUS
  <2>1. CASE submitted' = submitted /\ Handed' = Handed
    BY <2>1 DEF FirstComeFirstServed
  <2>2. ASSUME NEW p \in Replicas, HandsOut(p) PROVE FirstComeFirstServed'
    <3> SUFFICES ASSUME NEW r \in Replicas,
                        NEW i \in 1..Len(Handed'[r]), NEW j \in 1..Len(Handed'[r]),
                        i < j
                 PROVE  Handed'[r][i] < Handed'[r][j]
      BY DEF FirstComeFirstServed
    <3>1. i \in 1..Len(Handed[r]) /\ Handed'[r][i] = Handed[r][i]
      BY <2>2, HandedOut
    <3>2. Handed[r][i] < submitted + 1
      BY <3>1 DEF Bounded, TypeOK
    <3>3. CASE j \in 1..Len(Handed[r]) /\ Handed'[r][j] = Handed[r][j]
      BY <3>1, <3>3 DEF FirstComeFirstServed
    <3>4. CASE Handed'[r][j] = submitted + 1
      BY <3>1, <3>2, <3>4
    <3> QED BY <2>2, <3>3, <3>4, HandedOut
  <2> QED BY <2>1, <2>2, HandedStep
<1> QED BY <1>1, <1>2, TypeCorrect, BoundedInvariant, PTL DEF Safety

(* Nothing submitted is lost or run twice, for any number of replicas and  *)
(* tasks.                                                                  *)
THEOREM NothingLostNothingTwice == Safety => []ExactlyOnce
<1> DEFINE Present == \A q \in 1..submitted : \E r \in Replicas :
                        \E i \in 1..Len(Handed[r]) : Handed[r][i] = q
           Unique == \A r, s \in Replicas : \A i \in 1..Len(Handed[r]),
                                               j \in 1..Len(Handed[s]) :
                        Handed[r][i] = Handed[s][j] => r = s /\ i = j
<1>1. Init => ExactlyOnce
  BY DEF Init, ExactlyOnce, Handed
<1>2. TypeOK /\ Bounded /\ ExactlyOnce /\ [Next]_vars => ExactlyOnce'
  <2> SUFFICES ASSUME TypeOK, Bounded, Present, Unique, [Next]_vars
               PROVE  Present' /\ Unique'
    BY DEF ExactlyOnce
  <2>1. CASE submitted' = submitted /\ Handed' = Handed
    BY <2>1
  <2>2. ASSUME NEW p \in Replicas, HandsOut(p) PROVE Present'
    <3> SUFFICES ASSUME NEW q \in 1..submitted'
                 PROVE  \E r \in Replicas : \E i \in 1..Len(Handed'[r]) :
                            Handed'[r][i] = q
      OBVIOUS
    <3>1. q \in 1..submitted \/ q = submitted + 1
      BY <2>2 DEF HandsOut, TypeOK
    <3>2. CASE q = submitted + 1
      BY <2>2, <3>2, HandedOut
    <3>3. CASE q \in 1..submitted
      <4>1. PICK r \in Replicas : \E i \in 1..Len(Handed[r]) : Handed[r][i] = q
        BY <3>3
      <4>2. PICK i \in 1..Len(Handed[r]) : Handed[r][i] = q
        BY <4>1
      <4>3. i \in 1..Len(Handed'[r]) /\ Handed'[r][i] = q
        BY <2>2, <4>2, HandedOut
      <4> QED BY <4>3
    <3> QED BY <3>1, <3>2, <3>3
  <2>3. ASSUME NEW p \in Replicas, HandsOut(p) PROVE Unique'
    <3> SUFFICES ASSUME NEW r \in Replicas, NEW s \in Replicas,
                        NEW i \in 1..Len(Handed'[r]), NEW j \in 1..Len(Handed'[s]),
                        Handed'[r][i] = Handed'[s][j]
                 PROVE  r = s /\ i = j
      OBVIOUS
    <3>1. \A t \in Replicas : \A k \in 1..Len(Handed[t]) :
             Handed[t][k] # submitted + 1
      <4>1. submitted \in Nat
        BY DEF TypeOK
      <4> QED BY <4>1 DEF Bounded
    <3> HIDE DEF Present, Unique
    <3>0. \A t \in Replicas : \A k \in 1..Len(Handed'[t]) :
             \/ k \in 1..Len(Handed[t]) /\ Handed'[t][k] = Handed[t][k]
             \/ t = p /\ k = Len(Handed[t]) + 1 /\ Handed'[t][k] = submitted + 1
      BY <2>3, HandedOut
    <3>2. CASE i \in 1..Len(Handed[r]) /\ Handed'[r][i] = Handed[r][i]
      <4>1. j \in 1..Len(Handed[s]) /\ Handed'[s][j] = Handed[s][j]
        BY <3>0, <3>1, <3>2
      <4>2. Handed[r][i] = Handed[s][j]
        BY <3>2, <4>1
      <4> QED BY <3>2, <4>1, <4>2 DEF Unique
    <3>3. CASE r = p /\ i = Len(Handed[r]) + 1 /\ Handed'[r][i] = submitted + 1
      <4>1. s = p /\ j = Len(Handed[s]) + 1
        BY <3>0, <3>1, <3>3
      <4> QED BY <3>3, <4>1
    <3> QED BY <3>0, <3>2, <3>3
  <2> QED BY <2>1, <2>2, <2>3, HandedStep
<1> QED BY <1>1, <1>2, TypeCorrect, BoundedInvariant, PTL DEF Safety
=============================================================================
