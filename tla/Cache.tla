-------------------------------- MODULE Cache -------------------------------
(***************************************************************************)
(* The model each Database keeps of what its server has in shared_buffers  *)
(* (class Cache), and the estimate getLoadingCost makes from it.  Only     *)
(* main uses it: addRequest loads what a plan touches, under the replica's *)
(* mutex, and the Smart balancer asks how much of a plan is loaded.        *)
(*                                                                         *)
(* Loading always ends with removeOld, whose loop is modelled round by     *)
(* round: it goes on until enough has been evicted, and for some sizes of  *)
(* the cache it never is.                                                  *)
(***************************************************************************)
EXTENDS Integers, FiniteSets, FiniteSetsExt, Totals

CONSTANTS Tables, Indexes,
          TableSize,  (* Table::getSize *)
          IndexSize,  (* Index::getSize *)
          Hash,       (* Index::getHash, all that distinguishes two indexes *)
          Scale,      (* 100000: a plan that reads rows through an index is *)
                      (* taken to load one Scale-th of the table *)
          Fetch,      (* 400 * BLOCK_SIZE: what reduceRatio takes off a table; *)
                      (* a block is 32 kB at most *)
          MaxSizes,   (* what database->getCacheSize() may be *)
          Plans,      (* what getResource yields: tables scanned in full, *)
                      (* indexes, and tables read through an index *)
          Exact,      (* integers up to here are floats: 2^24 in the code *)
          Spacings,   (* the distances of neighbouring floats: 1, 2, 4, 8... *)
          MaxLoads    (* bound on time_idx, for TLC only *)

ASSUME CacheAssumption == /\ IsFiniteSet(Tables) /\ IsFiniteSet(Indexes)
                          /\ TableSize \in [Tables -> Nat]
                          /\ IndexSize \in [Indexes -> Nat \ {0}]
                          /\ \A x \in Indexes : Hash[x] \notin Tables
                          /\ {Scale, Fetch} \subseteq Nat \ {0}
                          /\ Plans \subseteq [full : SUBSET Tables,
                                              idx : SUBSET Indexes,
                                              retr : SUBSET Tables]
                          /\ MaxSizes \subseteq Int /\ Exact \in Nat /\ MaxLoads \in Nat
                          /\ Fetch <= Exact

IndexKeys == {Hash[x] : x \in Indexes}

(* The most there can be in the cache under a key. *)
LargestAt(k) == IF k \in Tables THEN TableSize[k]
                ELSE Max({IndexSize[x] : x \in {y \in Indexes : Hash[y] = k}})

(* Floats lie as far apart as a power of two, the farther the larger they  *)
(* are; and Fetch, 2^14 * 25 at the least, is a multiple of those powers   *)
(* as long as all the data there is, and shared_buffers, are within 2^38.  *)
ASSUME RoundingAssumption ==
    /\ 1 \in Spacings /\ Spacings \subseteq Nat \ {0}
    /\ \A u \in Spacings \ {1} : u % 2 = 0 /\ u \div 2 \in Spacings
    /\ \A u \in Spacings : \A v \in Spacings : v <= u => u % v = 0
    /\ \A u \in Spacings : Fetch % u = 0
    /\ Exact % 2 = 0
    /\ \E u \in Spacings :
          /\ \A m \in MaxSizes : m + Fetch < u * Exact
          /\ \A S \in SUBSET (Tables \cup IndexKeys) :
                SumOver(S, [k \in S |-> LargestAt(k)]) < u * Exact

VARIABLES max_size,  (* of this database's cache *)
          nodes,     (* Cache::nodes: key |-> its size and time_idx *)
          time_idx,  (* Cache::time_idx *)
          total,     (* Cache::total_size; every removeOld computes it afresh *)
          pc,        (* where main is in removeOld *)
          passes,    (* calls of removeOld still to make *)
          newest     (* history: the key last inserted; None after a hit *)

vars == <<max_size, nodes, time_idx, total, pc, passes, newest>>

None == "none"

Init == /\ max_size \in MaxSizes
        /\ nodes = [k \in {} |-> <<>>]
        /\ time_idx = 0
        /\ total = 0
        /\ pc = "idle"
        /\ passes = 0
        /\ newest = None
-----------------------------------------------------------------------------
(* Arithmetic.                                                             *)

Sum(f) == SumOver(DOMAIN f, [k \in DOMAIN f |-> f[k].size])

(* The distance of neighbouring floats near x. *)
Ulp(x) == Min({u \in Spacings : x < u * Exact})

(* An integer converted to float: to nearest, ties to even. *)
Float(x) == LET u == Ulp(x)
                down == x \div u
                up == 2 * (x % u) > u \/ (2 * (x % u) = u /\ down % 2 = 1)
            IN  u * (IF up THEN down + 1 ELSE down)
-----------------------------------------------------------------------------
(* A node is made with the time that addNode has just advanced. *)
Node(size) == [size |-> size, time_idx |-> time_idx + 1]

IndexNode(x) == Node(IndexSize[x])

TableNode(t, full) == Node(IF full THEN TableSize[t] ELSE TableSize[t] \div Scale)

(* addNode: std::set keeps the node it has under that key, if any.         *)
Insert(k, node) == IF k \in DOMAIN nodes
                   THEN /\ newest' = None
                        /\ UNCHANGED nodes
                   ELSE /\ newest' = k
                        /\ nodes' = [j \in DOMAIN nodes \cup {k} |->
                                       IF j = k THEN node ELSE nodes[j]]

StartLoad(n) == /\ pc = "idle"
                /\ time_idx < MaxLoads
                /\ time_idx' = time_idx + 1
                /\ pc' = "measure"
                /\ passes' = n
                /\ UNCHANGED <<max_size, total>>

AddIndex(x) == /\ StartLoad(1)
               /\ Insert(Hash[x], IndexNode(x))

(* Cache::getSize: a node of size 0 looks like no node. *)
StatusLoaded(t) == IF t \in DOMAIN nodes THEN nodes[t].size ELSE 0

(* Mutant: incrementTable grows the node that is in the cache, by ten      *)
(* blocks, and to no less than the table's size.                           *)
IncrementStored(t) == nodes' = [nodes EXCEPT ![t].size =
                                   IF @ + 1 > TableSize[t] THEN @ + 1 ELSE TableSize[t]]

(* incrementTable works on the node addNode has just made, not on the one  *)
(* in the cache: the cache is left as it is, except for the time.          *)
IncrementTable(t) == UNCHANGED nodes

AddTable(t, full) ==
    /\ StartLoad(2)
    /\ IF StatusLoaded(t) # 0
       THEN newest' = None /\ IncrementTable(t)
       ELSE Insert(t, TableNode(t, full))
-----------------------------------------------------------------------------
(* removeOld.                                                              *)

Measure == /\ pc = "measure"
           /\ total' = Sum(nodes)
           /\ pc' = "check"
           /\ UNCHANGED <<max_size, nodes, time_idx, passes, newest>>

TooFull == total >= max_size

Fits == /\ pc = "check"
        /\ ~TooFull
        /\ passes' = passes - 1
        /\ pc' = IF passes > 1 THEN "measure" ELSE "idle"
        /\ UNCHANGED <<max_size, nodes, time_idx, total, newest>>

(* Mutant: the most recent node. *)
Youngest == CHOOSE k \in DOMAIN nodes :
                \A j \in DOMAIN nodes : nodes[j].time_idx <= nodes[k].time_idx

Oldest == CHOOSE k \in DOMAIN nodes :
              \A j \in DOMAIN nodes : nodes[k].time_idx <= nodes[j].time_idx

(* Mutant: nodes.erase is forgotten. *)
DropNothing(k) == nodes

Drop(k) == [j \in DOMAIN nodes \ {k} |-> nodes[j]]

(* Mutant: the node stays as large as it was. *)
ReduceNothing(k) == nodes

Reduce(k) == [nodes EXCEPT ![k].size = @ - Fetch]

LargerThanFetch(k) == Float(nodes[k].size) > Fetch

(* Indexes go whole, tables one Fetch at a time, until there is too little *)
(* left to take.  The new total is computed in floating point.             *)
Evict == /\ pc = "check"
         /\ TooFull
         /\ DOMAIN nodes # {}
         /\ IF Oldest \notin IndexKeys /\ LargerThanFetch(Oldest)
            THEN /\ nodes' = Reduce(Oldest)
                 /\ total' = Float(Float(Sum(nodes)) - Fetch)
            ELSE /\ nodes' = Drop(Oldest)
                 /\ total' = Sum(nodes')
         /\ UNCHANGED <<max_size, time_idx, pc, passes, newest>>

(* With nothing left to evict and no room for nothing, main loops forever, *)
(* holding the replica's mutex.                                            *)
Stuck == pc = "check" /\ TooFull /\ DOMAIN nodes = {}

RemoveOld == Measure \/ Fits \/ Evict

Next == \/ \E x \in Indexes : AddIndex(x)
        \/ \E t \in Tables, full \in BOOLEAN : AddTable(t, full)
        \/ RemoveOld
        \/ Stuck /\ UNCHANGED vars

Safety == Init /\ [][Next]_vars

(* main does nothing else meanwhile and waits for nobody. *)
Spec == Safety /\ WF_vars(RemoveOld)
-----------------------------------------------------------------------------
(* The estimate: Database::getCurrRamLoaded and Select::getLoadingCost.    *)
(* An index counts as loaded whether it is or not.                         *)

RamLoaded(plan) ==
    SumOver(plan.full, [t \in plan.full |-> StatusLoaded(t)])
    + SumOver(plan.idx, [x \in plan.idx |-> IndexSize[x]])
    + SumOver(plan.retr, [t \in plan.retr |-> StatusLoaded(t) \div Scale])

PlanSize(plan) ==
    SumOver(plan.full, [t \in plan.full |-> TableSize[t]])
    + SumOver(plan.idx, [x \in plan.idx |-> IndexSize[x]])
    + SumOver(plan.retr, [t \in plan.retr |-> TableSize[t] \div Scale])
-----------------------------------------------------------------------------
(* When removeOld is done the cache is smaller than shared_buffers, up to  *)
(* the rounding of the total from which reduceRatio subtracts (116), which *)
(* may make the loop of line 66 stop early.                                *)
WithinBudget ==
    pc = "idle" /\ max_size > 0 => Sum(nodes) < max_size + Ulp(max_size + Fetch)

(* What a plan finds loaded is never less than nothing, although tables    *)
(* are reduced by a fixed amount, and never more than what it needs, so    *)
(* that getLoadingCost's factor 1 - loaded / (2 * needed) stays between a  *)
(* half and one, and no cost is ever negative (result.cpp 150-154).        *)
LoadingCostInRange ==
    /\ \A t \in Tables : StatusLoaded(t) >= 0
    /\ \A plan \in Plans : RamLoaded(plan) <= PlanSize(plan)

(* Eviction is by age: what has just been inserted goes only after         *)
(* everything else has gone.                                               *)
NewestLeavesLast ==
    newest # None /\ newest \notin DOMAIN nodes => DOMAIN nodes = {}

(* removeOld ends, if there is any shared_buffers at all; and if there is  *)
(* none, or its size came out negative, the first load never ends.         *)
LoadingEnds == /\ (pc # "idle" /\ max_size > 0) ~> pc = "idle"
               /\ (pc # "idle" /\ max_size <= 0) ~> [](pc # "idle")
=============================================================================
