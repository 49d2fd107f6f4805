----------------------------- MODULE SelectTree -----------------------------
(***************************************************************************)
(* The globals of the parser while it reads queries with sub-selects, the  *)
(* tree of Selects that results, and what getResource collects from it.    *)
(*                                                                         *)
(* The grammar is a walk: from each point of a select whatever may come    *)
(* next comes.  The stack of select_states (sp) is as high as depth and is *)
(* not kept; a Select is known by the number of its SELECT in the text.    *)
(***************************************************************************)
EXTENDS Integers, FiniteSets, SequencesExt

CONSTANTS MaxSelects,  (* SELECTs in one query *)
          MaxQueries,  (* queries parsed, one after the other *)
          MaxAsked,    (* times getResource is called for a query *)
          Resources    (* what one plan reads: records [full, indexes, retr] *)

ASSUME SelectTreeAssumption ==
    /\ MaxSelects \in Nat \ {0} /\ MaxQueries \in Nat \ {0} /\ MaxAsked \in Nat
    /\ \A r \in Resources : r.full \cap r.retr = {}

VARIABLES depth, corr_stack, select_stack,
          open,           (* the selects being read: what yacc has on its stack *)
          selects,        (* the Selects of the query that have been made *)
          within,         (* for each SELECT of the query, what it is to which other *)
          outer,          (* those that name a column none of their tables has *)
          select_result,  (* the outermost Select, or 0 *)
          parsed,         (* queries parsed so far *)
          asked,          (* calls of getResource for the last of them *)
          pc

parser == <<depth, corr_stack, select_stack>>
text   == <<within, outer>>
vars   == <<parser, open, selects, text, select_result, parsed, asked, pc>>

Depths == 0..MaxSelects
-----------------------------------------------------------------------------
Top == Last(open)

(* What is known of a select until it is made: the part being read, what   *)
(* the select is to the one around it, the sub-selects of its list, that   *)
(* in FROM and the select after UNION, if there are any.                   *)
Opened(id, role) == [id |-> id, part |-> "list", role |-> role, list |-> <<>>,
                     from |-> 0, union |-> 0]

Init == /\ depth = 0
        /\ corr_stack = [d \in Depths |-> FALSE]
        /\ select_stack = [d \in Depths |-> <<>>]
        /\ open = <<>> /\ selects = <<>>
        /\ within = <<>> /\ outer = {}
        /\ select_result = 0
        /\ parsed = 0 /\ asked = 0
        /\ pc = "idle"

(* parse: sp is set back, depth and the stacks are as they were left.      *)
Parse == /\ pc = "idle"
         /\ parsed < MaxQueries
         /\ pc' = "parsing"
         /\ open' = <<>> /\ selects' = <<>> /\ within' = <<>> /\ outer' = {}
         /\ asked' = 0
         /\ UNCHANGED <<parser, select_result, parsed>>

(* Where a SELECT may come, and what it is there.                          *)
Roles == IF open = <<>> THEN IF within = <<>> THEN {"command"} ELSE {}
         ELSE CASE Top.part = "list" -> {"list"}
                [] Top.part = "from" -> IF Top.from = 0 THEN {"from"} ELSE {}
                [] Top.part = "where" -> {"condition"}
                [] Top.part = "made" -> IF Top.union = 0 THEN {"union", "union all"} ELSE {}

(* Mutant: corr_stack is not reset. *)
KeepCorr(d) == corr_stack

ResetCorr(d) == [corr_stack EXCEPT ![d] = FALSE]

(* select_word *)
SelectWord ==
    /\ pc = "parsing"
    /\ Len(within) < MaxSelects
    /\ depth' = depth + 1
    /\ corr_stack' = ResetCorr(depth')
    /\ \E role \in Roles :
          /\ open' = Append(open, Opened(Len(within) + 1, role))
          /\ within' = Append(within, [as |-> role, of |-> IF open = <<>> THEN 0 ELSE Top.id])
    /\ UNCHANGED <<select_stack, selects, outer, select_result, parsed, asked, pc>>

(* Mutant: the sub-selects after the first are dropped. *)
ChainNone(ss, list) == ss

NextIn(list, s) == list[SelectInSeq(list, LAMBDA t : t = s) + 1]

(* The select list is complete.  It is reduced from its end: each sub-     *)
(* select becomes a sibling of the one before it, and the first stands for *)
(* all of them.                                                            *)
ChainSiblings(ss, list) ==
    [s \in DOMAIN ss |->
       IF s \in ToSet(Front(list))
       THEN [ss[s] EXCEPT !.siblings = Append(@, NextIn(list, s))]
       ELSE ss[s]]

ProjectionClause ==
    /\ pc = "parsing" /\ open # <<>> /\ Top.part = "list"
    /\ selects' = IF Len(Top.list) > 1 THEN ChainSiblings(selects, Top.list) ELSE selects
    /\ open' = [open EXCEPT ![Len(open)].part = "from"]
    /\ UNCHANGED <<parser, text, select_result, parsed, asked, pc>>

(* Tables, or one sub-select.                                              *)
FromClause == /\ pc = "parsing" /\ open # <<>> /\ Top.part = "from"
              /\ open' = [open EXCEPT ![Len(open)].part = "where"]
              /\ UNCHANGED <<parser, selects, text, select_result, parsed, asked, pc>>

(* A column in a condition that belongs to none of the select's tables.    *)
(* After a sub-select in FROM columns are still taken for those of the     *)
(* select list, which are not looked up.                                   *)
UnknownColumn == /\ pc = "parsing" /\ open # <<>> /\ Top.part = "where"
                 /\ Top.from = 0 /\ Top.id \notin outer
                 /\ corr_stack' = [corr_stack EXCEPT ![depth] = TRUE]
                 /\ outer' = outer \cup {Top.id}
                 /\ UNCHANGED <<depth, select_stack, open, selects, within, select_result,
                                 parsed, asked, pc>>

(* The sub-select of the list.  With WHERE, GROUP BY and HAVING one that   *)
(* does not depend on the row is a sibling; otherwise it is a kid.         *)
AddFromList(s, id, grouped) ==
    IF grouped /\ ~ selects[id].correlated THEN [s EXCEPT !.siblings = Append(@, id)]
    ELSE [s EXCEPT !.kids = Append(@, id)]

(* A Select: own is what its plan reads, resource what it has collected.   *)
NewSelect(own) == [kids |-> <<>>, siblings |-> <<>>, correlated |-> FALSE,
                   own |-> own, resource |-> own]

MakeSelect(id, s) == [t \in DOMAIN selects \cup {id} |-> IF t = id THEN s ELSE selects[t]]

(* select_options: the Select is constructed, planned and all.  With a     *)
(* sub-select in FROM the plan is that one's, and the rest of it is not    *)
(* looked at.                                                              *)
SelectOptions ==
    /\ pc = "parsing" /\ open # <<>> /\ Top.part = "where"
    /\ \E own \in IF Top.from = 0 THEN Resources ELSE {selects[Top.from].own}, grouped \in BOOLEAN :
          LET s == NewSelect(own)
          IN selects' = MakeSelect(Top.id, IF Top.list = <<>> THEN s
                                           ELSE AddFromList(s, Head(Top.list), grouped))
    /\ open' = [open EXCEPT ![Len(open)].part = "made"]
    /\ UNCHANGED <<parser, text, select_result, parsed, asked, pc>>

ClearKids(stack) == [stack EXCEPT ![depth] = <<>>]

PushForOuter(stack, id) == [stack EXCEPT ![depth - 1] = Append(@, id)]

(* select_statement, and what the rule around it does with the result.     *)
SelectStatement ==
    /\ pc = "parsing" /\ open # <<>> /\ Top.part = "made"
    /\ LET id == Top.id
           role == Top.role
           k == Len(open) - 1
           made == [selects[id] EXCEPT
                      !.kids = @ \o select_stack[depth],
                      !.siblings = IF Top.union = 0 THEN @ ELSE Append(@, Top.union),
                      !.correlated = corr_stack[depth] \/ role = "union all"]
       IN /\ selects' = MakeSelect(id, made)
          /\ select_stack' = IF role = "condition" THEN PushForOuter(ClearKids(select_stack), id)
                             ELSE ClearKids(select_stack)
          /\ open' = CASE role = "command"   -> <<>>
                       [] role = "condition" -> Front(open)
                       [] role = "list" -> [Front(open) EXCEPT ![k].list = Append(@, id)]
                       [] role = "from" -> [Front(open) EXCEPT ![k].from = id]
                       [] OTHER -> [Front(open) EXCEPT ![k].union = id]
          /\ select_result' = IF role = "command" THEN id ELSE select_result
          /\ pc' = IF role = "command" THEN "idle" ELSE pc
          /\ parsed' = IF role = "command" THEN parsed + 1 ELSE parsed
    /\ depth' = depth - 1
    /\ UNCHANGED <<corr_stack, text, asked>>

(* parse returns null; process_query (config.cpp 31) follows the pointer.  *)
SyntaxError == /\ pc = "parsing"
               /\ pc' = "crashed"
               /\ UNCHANGED <<parser, open, selects, text, select_result, parsed, asked>>
-----------------------------------------------------------------------------
(* Mutant: only the tables of the sub-select. *)
MergeFirst(A, B) == [A EXCEPT !.indexes = @ \cup B.indexes]

(* Mutant: the tables of both, but only those B scans are left out. *)
MergeBoth(A, B) == [full |-> A.full \cup B.full, indexes |-> A.indexes \cup B.indexes,
                    retr |-> (A.retr \cup B.retr) \ B.full]

(* mergeResource.  The tables fetched through indexes are those of A.      *)
Merge(A, B) == [full    |-> A.full \cup B.full,
                indexes |-> A.indexes \cup B.indexes,
                retr    |-> A.retr \ (A.full \cup B.full)]

Children(s) == selects[s].siblings \o selects[s].kids

(* getResource of s merges those of its siblings and of its kids into what *)
(* resouce holds, and keeps the result there.                              *)
Collected ==
    LET collected[s \in DOMAIN selects] ==
            LET kids == Children(s)
                merged[j \in 0..Len(kids)] ==
                    IF j = 0 THEN selects[s].resource
                    ELSE Merge(collected[kids[j]], merged[j - 1])
            IN  merged[Len(kids)]
    IN  collected

(* The selects s leads to: they are in every set that has s and, with a    *)
(* select, its children.                                                   *)
Tree(s) == {t \in DOMAIN selects :
               \A ss \in SUBSET DOMAIN selects :
                  s \in ss /\ (\A p \in ss : ToSet(Children(p)) \subseteq ss) => t \in ss}

(* Once for the cost (smart.cpp 33, 64), and again for what addRequest     *)
(* loads in the cache (database.cpp 495).                                  *)
GetResource ==
    /\ pc = "idle" /\ selects # <<>> /\ asked < MaxAsked
    /\ LET tree == Tree(select_result)
           collected == Collected
       IN  selects' = [s \in DOMAIN selects |->
                         IF s \in tree THEN [selects[s] EXCEPT !.resource = collected[s]]
                         ELSE selects[s]]
    /\ asked' = asked + 1
    /\ UNCHANGED <<parser, open, text, select_result, parsed, pc>>

Next == \/ Parse \/ SelectWord \/ ProjectionClause \/ FromClause \/ UnknownColumn
        \/ SelectOptions \/ SelectStatement \/ SyntaxError \/ GetResource

Spec == Init /\ [][Next]_vars
-----------------------------------------------------------------------------
Read == pc = "idle" /\ parsed > 0

Parents(s) == {p \in DOMAIN selects : s \in ToSet(Children(p))}

(* Every sub-select is in the tree once, with the select whose text it is  *)
(* in or, in a select list, the sub-select before it; those in FROM are    *)
(* not in it.                                                              *)
SubselectsAtHome ==
    Read => \A s \in DOMAIN selects :
              /\ IsInjective(Children(s))
              /\ Cardinality(Parents(s)) =
                    IF within[s].as \in {"command", "from"} THEN 0 ELSE 1
              /\ \A p \in Parents(s) :
                    p = within[s].of \/ (within[s].as = "list" /\ within[p] = within[s])

(* A select counts as correlated, to be run for every row, exactly if it   *)
(* names a column it does not have itself or comes after UNION ALL.        *)
CorrelatedIfOuter ==
    Read => \A s \in DOMAIN selects :
                 selects[s].correlated = (s \in outer \/ within[s].as = "union all")

(* What a Select answers when it is asked first, for its cost, it answers  *)
(* again when the cache is loaded.                                         *)
SameAnswer == [][asked' = 2 => selects' = selects]_vars

(* The tables and indexes any plan of the tree reads are all known to the  *)
(* outermost Select, and no table it reads from end to end is counted      *)
(* among those fetched through an index as well.                           *)
AllScansKnown ==
    Read /\ asked > 0 =>
       LET r == selects[select_result].resource
           tree == Tree(select_result)
       IN /\ r.full = UNION {selects[s].own.full : s \in tree}
          /\ r.indexes = UNION {selects[s].own.indexes : s \in tree}
          /\ r.full \cap r.retr = {}
=============================================================================
