-------------------------- MODULE SelectTreeProofs --------------------------
(***************************************************************************)
(* The tree of Selects proved, for any number of sub-selects and queries,  *)
(* and whatever plans read: every sub-select is where it belongs, it is    *)
(* run for every row if and only if it has to be, and what the outermost   *)
(* Select answers to getResource is complete and stays what it was.        *)
(***************************************************************************)
EXTENDS SelectTree, TotalsProofs

Ids == 1..Len(within)

IsOpen(s) == \E j \in 1..Len(open) : open[j].id = s

(* A Select that has been made, and is read to its end.                    *)
Closed == {s \in DOMAIN selects : ~ IsOpen(s)}

Parts == {"list", "from", "where", "made"}
RoleNames == {"command", "list", "from", "condition", "union", "union all"}

Frames == [id : Nat, part : Parts, role : RoleNames, list : Seq(Nat), from : Nat, union : Nat]

IsSelect(s) == /\ DOMAIN s = {"kids", "siblings", "correlated", "own", "resource"}
               /\ s = [f \in DOMAIN s |-> s[f]]
               /\ s.kids \in Seq(Nat) /\ s.siblings \in Seq(Nat)

AreSelects(ss) == /\ ss = [s \in DOMAIN ss |-> ss[s]]
                  /\ \A s \in DOMAIN ss : IsSelect(ss[s])

(* The part of an open select that a sub-select is read in.                *)
PartOfRole(role) == CASE role = "list" -> "list"
                      [] role = "from" -> "from"
                      [] role = "condition" -> "where"
                      [] role \in {"union", "union all"} -> "made"

ParserTypes ==
    /\ open \in Seq(Frames)
    /\ depth = Len(open) /\ Len(open) <= MaxSelects
    /\ corr_stack \in [Depths -> BOOLEAN]
    /\ select_stack \in [Depths -> Seq(Nat)]
    /\ within \in Seq([as : RoleNames, of : Nat]) /\ Len(within) <= MaxSelects
    /\ outer \subseteq Ids
    /\ AreSelects(selects) /\ DOMAIN selects \subseteq Ids
    /\ pc \in {"idle", "parsing", "crashed"} /\ (pc = "idle" => open = <<>>)

(* A select that is read within another, at the place its role is named    *)
(* after.                                                                  *)
Nests(f, g) == /\ within[g.id].of = f.id
               /\ f.part = PartOfRole(g.role)
               /\ g.role = "from" => f.from = 0
               /\ g.role \in {"union", "union all"} => f.union = 0

FramesMatch ==
    \A j \in 1..Len(open) : /\ open[j].id \in j..Len(within)
                           /\ within[open[j].id].as = open[j].role
                           /\ (open[j].role = "command") = (j = 1)

MadeAreMade == \A j \in 1..Len(open) : (open[j].part = "made") = (open[j].id \in DOMAIN selects)

FramesNest == \A j \in 1..(Len(open) - 1) : Nests(open[j], open[j + 1])

IdsGrow == \A j, k \in 1..Len(open) : j < k => open[j].id < open[k].id

OpenInOrder == FramesMatch /\ MadeAreMade /\ FramesNest /\ IdsGrow

(* What corr_stack holds of a select that is being read, its Select keeps. *)
CorrelatedInv ==
    /\ \A j \in 1..Len(open) : corr_stack[j] = (open[j].id \in outer)
    /\ \A s \in Closed : selects[s].correlated = (s \in outer \/ within[s].as = "union all")

(* The sub-selects that wait for their place in the tree: those of the     *)
(* list until they are chained, then the first of them until the Select is *)
(* made, those of conditions, and the select after UNION.                  *)
HeldInList(f) == CASE f.part = "list" -> ToSet(f.list)
                   [] f.part \in {"from", "where"} /\ f.list # <<>> -> {f.list[1]}
                   [] OTHER -> {}

HeldIn(j) == HeldInList(open[j]) \cup ToSet(select_stack[j]) \cup ({open[j].union} \ {0})

Held == UNION {HeldIn(j) : j \in 1..Len(open)}

Increasing(list) == \A m, n \in 1..Len(list) : m < n => list[m] < list[n]

ListsWait ==
    \A j \in 1..Len(open) :
       /\ Increasing(open[j].list)
       /\ \A c \in ToSet(open[j].list) :
             /\ c \in Closed /\ within[c].as = "list" /\ within[c].of = open[j].id
             /\ j < Len(open) => c < open[j + 1].id

ConditionsWait ==
    \A j \in 1..Len(open) :
       /\ IsInjective(select_stack[j])
       /\ \A c \in ToSet(select_stack[j]) :
             c \in Closed /\ within[c].as = "condition" /\ within[c].of = open[j].id

UnionsWait ==
    \A j \in 1..Len(open) : open[j].union # 0 =>
       LET c == open[j].union
       IN  /\ c \in Closed /\ within[c].as \in {"union", "union all"}
           /\ within[c].of = open[j].id /\ open[j].part = "made"

FromsMade == \A j \in 1..Len(open) : open[j].from # 0 => open[j].from \in Closed

StacksClear == \A d \in Depths \ 1..Len(open) : select_stack[d] = <<>>

OuterFirst == \A s \in Ids : within[s].of < s

WaitInOrder == ListsWait /\ ConditionsWait /\ UnionsWait /\ FromsMade /\ StacksClear /\ OuterFirst

(* Where a sub-select is.                                                  *)
Suits(p, c) == /\ within[c].as \notin {"command", "from"}
               /\ p < c
               /\ p = within[c].of \/ (within[c].as = "list" /\ within[p] = within[c])

ChildrenSuit ==
    \A p \in DOMAIN selects :
       /\ IsInjective(Children(p))
       /\ \A c \in ToSet(Children(p)) : c \in Closed /\ c \notin Held /\ Suits(p, c)

OneParent ==
    \A p, q \in DOMAIN selects : \A c \in ToSet(Children(p)) \cap ToSet(Children(q)) : p = q

EachHasAParent ==
    \A c \in Closed \ Held :
       within[c].as \in {"command", "from"} \/ \E p \in DOMAIN selects : c \in ToSet(Children(p))

AtHome == ChildrenSuit /\ OneParent /\ EachHasAParent
-----------------------------------------------------------------------------
(* What the actions do to the selects being read.                          *)

(* Going on to the next part of a select changes nothing else of it.       *)
LEMMA NextPart ==
    ASSUME ParserTypes, open # <<>>, NEW p \in Parts,
           open' = [open EXCEPT ![Len(open)].part = p]
    PROVE  /\ open' \in Seq(Frames) /\ Len(open') = Len(open) /\ DOMAIN open' = 1..Len(open)
           /\ Len(open) \in Nat \ {0} /\ DOMAIN open = 1..Len(open)
           /\ \A j \in 1..Len(open) :
                 /\ open'[j].id = open[j].id /\ open'[j].role = open[j].role
                 /\ open'[j].list = open[j].list /\ open'[j].from = open[j].from
                 /\ open'[j].union = open[j].union
                 /\ open'[j].part = IF j = Len(open) THEN p ELSE open[j].part
<1>1. open \in Seq(Frames) /\ Len(open) \in Nat \ {0} /\ Len(open) \in 1..Len(open)
      /\ DOMAIN open = 1..Len(open)
  BY DEF ParserTypes
<1> DEFINE f == [open[Len(open)] EXCEPT !.part = p]
<1>2. open[Len(open)] \in Frames
  BY <1>1
<1>3. /\ f \in Frames
      /\ f.id = open[Len(open)].id /\ f.role = open[Len(open)].role
      /\ f.list = open[Len(open)].list /\ f.from = open[Len(open)].from
      /\ f.union = open[Len(open)].union /\ f.part = p
  BY <1>2 DEF Frames
<1>4. open' = [open EXCEPT ![Len(open)] = f]
  OBVIOUS
<1> HIDE DEF f
<1>5. open' \in Seq(Frames) /\ Len(open') = Len(open) /\ DOMAIN open' = 1..Len(open)
  BY <1>1, <1>3, <1>4
<1>6. \A j \in 1..Len(open) : open'[j] = IF j = Len(open) THEN f ELSE open[j]
  BY <1>1, <1>4
<1> QED BY <1>1, <1>3, <1>5, <1>6

(* So the order in which selects are open is not changed, if Top's Select  *)
(* is made when it should be.                                              *)
LEMMA NextPartInOrder ==
    ASSUME ParserTypes, OpenInOrder, open # <<>>, NEW p \in Parts,
           open' = [open EXCEPT ![Len(open)].part = p], UNCHANGED within,
           \A s \in Nat : s \in DOMAIN selects' <=>
               s \in DOMAIN selects \/ (p = "made" /\ s = Top.id),
           Top.part # "made"
    PROVE  OpenInOrder'
<1> DEFINE n == Len(open)
<1>1. /\ Len(open') = n /\ DOMAIN open' = 1..n /\ n \in Nat \ {0} /\ DOMAIN open = 1..n
      /\ \A j \in 1..n :
                 /\ open'[j].id = open[j].id /\ open'[j].role = open[j].role
                 /\ open'[j].list = open[j].list /\ open'[j].from = open[j].from
                 /\ open'[j].union = open[j].union
                 /\ open'[j].part = IF j = n THEN p ELSE open[j].part
  BY NextPart
<1>2. Top.id = open[n].id /\ open[n].part # "made" /\ n \in 1..n
  BY <1>1 DEF Top, Last
<1> HIDE DEF n
<1>3. \A j \in 1..n : j # n => open[j].id # open[n].id /\ open[j].id \in Nat /\ j < n
  BY <1>1, <1>2 DEF OpenInOrder, IdsGrow, FramesMatch
<1>4. open[n].id \notin DOMAIN selects /\ open[n].id \in Nat
  BY <1>1, <1>2 DEF OpenInOrder, MadeAreMade, FramesMatch
<1>5. MadeAreMade'
  <2> SUFFICES ASSUME NEW j \in 1..n
               PROVE  (open'[j].part = "made") = (open'[j].id \in DOMAIN selects')
    BY <1>1 DEF MadeAreMade
  <2>1. CASE j = n
    BY <1>1, <1>2, <1>4, <2>1
  <2>2. CASE j # n
    <3>1. (open[j].part = "made") = (open[j].id \in DOMAIN selects)
      BY <1>1 DEF OpenInOrder, MadeAreMade
    <3> QED BY <1>1, <1>2, <1>3, <2>2, <3>1
  <2> QED BY <2>1, <2>2
<1>6. FramesMatch'
  BY <1>1 DEF OpenInOrder, FramesMatch
<1>7. FramesNest'
  <2> SUFFICES ASSUME NEW j \in 1..(n - 1)
               PROVE  /\ within[open'[j + 1].id].of = open'[j].id
                      /\ open'[j].part = PartOfRole(open'[j + 1].role)
                      /\ open'[j + 1].role = "from" => open'[j].from = 0
                      /\ open'[j + 1].role \in {"union", "union all"} => open'[j].union = 0
    BY <1>1 DEF FramesNest, Nests
  <2>1. j \in 1..n /\ j + 1 \in 1..n /\ j # n
    BY <1>1
  <2>2. Nests(open[j], open[j + 1])
    BY <1>1 DEF OpenInOrder, FramesNest
  <2> QED BY <1>1, <2>1, <2>2 DEF Nests
<1>8. IdsGrow'
  BY <1>1 DEF OpenInOrder, IdsGrow
<1> QED BY <1>5, <1>6, <1>7, <1>8 DEF OpenInOrder

(* A new select is read in the one that is open, if there is one.          *)
LEMMA WordOpens ==
    ASSUME ParserTypes, OpenInOrder, SelectWord
    PROVE  /\ \E role \in RoleNames :
                 /\ open' = Append(open, Opened(Len(within) + 1, role))
                 /\ within' = Append(within, [as |-> role, of |-> IF open = <<>> THEN 0 ELSE Top.id])
                 /\ (role = "command") = (open = <<>>)
                 /\ open # <<>> =>
                       /\ Top.part = PartOfRole(role)
                       /\ role = "from" => Top.from = 0
                       /\ role \in {"union", "union all"} => Top.union = 0
           /\ Len(within) < MaxSelects /\ Len(open) <= Len(within)
<1>1. PICK role \in Roles :
          /\ open' = Append(open, Opened(Len(within) + 1, role))
          /\ within' = Append(within, [as |-> role, of |-> IF open = <<>> THEN 0 ELSE Top.id])
  BY DEF SelectWord
<1>2. CASE open = <<>>
  <2>1. role = "command"
    BY <1>2 DEF Roles
  <2>2. Len(open) <= Len(within)
    BY <1>2 DEF ParserTypes
  <2> QED BY <1>1, <1>2, <2>1, <2>2 DEF SelectWord, RoleNames
<1>3. CASE open # <<>>
  <2>1. Top \in Frames /\ Len(open) \in 1..Len(open)
    BY <1>3 DEF ParserTypes, Top, Last
  <2>2. Top.part \in Parts
    BY <2>1 DEF Frames
  <2>3. /\ role \in RoleNames \ {"command"}
        /\ Top.part = PartOfRole(role)
        /\ role = "from" => Top.from = 0
        /\ role \in {"union", "union all"} => Top.union = 0
    <3>1. CASE Top.part = "list"
      BY <1>3, <3>1 DEF Roles, PartOfRole, RoleNames
    <3>2. CASE Top.part = "from"
      BY <1>3, <3>2 DEF Roles, PartOfRole, RoleNames
    <3>3. CASE Top.part = "where"
      BY <1>3, <3>3 DEF Roles, PartOfRole, RoleNames
    <3>4. CASE Top.part = "made"
      BY <1>3, <3>4 DEF Roles, PartOfRole, RoleNames
    <3> QED BY <2>2, <3>1, <3>2, <3>3, <3>4 DEF Parts
  <2>4. Len(open) <= Len(within)
    BY <2>1 DEF OpenInOrder, FramesMatch, ParserTypes
  <2> QED BY <1>1, <1>3, <2>3, <2>4 DEF SelectWord
<1> QED BY <1>2, <1>3

(* A select is opened within the one being read, as the next of the text.  *)
LEMMA WordKeepsTypes ==
    ASSUME ParserTypes, OpenInOrder, SelectWord
    PROVE  ParserTypes' /\ OpenInOrder'
<1> DEFINE n == Len(open)
           w == Len(within)
<1>1. PICK role \in RoleNames :
                 /\ open' = Append(open, Opened(w + 1, role))
                 /\ within' = Append(within, [as |-> role, of |-> IF open = <<>> THEN 0 ELSE Top.id])
                 /\ (role = "command") = (open = <<>>)
                 /\ open # <<>> =>
                       /\ Top.part = PartOfRole(role)
                       /\ role = "from" => Top.from = 0
                       /\ role \in {"union", "union all"} => Top.union = 0
  BY WordOpens
<1>2. w < MaxSelects /\ n <= w /\ n \in Nat /\ w \in Nat /\ MaxSelects \in Nat
      /\ n = Len(open) /\ w = Len(within)
  <2>1. n \in Nat /\ w \in Nat
    BY DEF ParserTypes
  <2> QED BY <2>1, WordOpens, SelectTreeAssumption
<1> DEFINE f == Opened(w + 1, role)
           m == [as |-> role, of |-> IF open = <<>> THEN 0 ELSE Top.id]
<1>3. /\ f \in Frames /\ f.id = w + 1 /\ f.role = role /\ f.part = "list"
      /\ f.from = 0 /\ f.union = 0 /\ f.list = <<>>
  BY <1>2 DEF Opened, Frames, Parts
<1>4. open # <<>> => Top = open[n] /\ open[n] \in Frames /\ n \in 1..n
  BY <1>2 DEF Top, Last, ParserTypes
<1>5. m \in [as : RoleNames, of : Nat] /\ m.as = role /\ (open # <<>> => m.of = open[n].id)
  BY <1>4 DEF Frames
<1>6. open' = Append(open, f) /\ within' = Append(within, m)
  BY <1>1
<1> HIDE DEF f, m, n, w
<1>7. /\ open' \in Seq(Frames) /\ Len(open') = n + 1 /\ open'[n + 1] = f
      /\ \A j \in 1..n : open'[j] = open[j]
  BY <1>6, <1>2, <1>3 DEF ParserTypes
<1>8. /\ within' \in Seq([as : RoleNames, of : Nat]) /\ Len(within') = w + 1
      /\ within'[w + 1] = m
      /\ \A s \in 1..w : within'[s] = within[s]
  BY <1>6, <1>2, <1>5 DEF ParserTypes
<1>9. ParserTypes'
  <2>1. depth' = n + 1 /\ depth' \in Depths
    <3>1. depth' = depth + 1 /\ depth = Len(open)
      BY DEF SelectWord, ParserTypes
    <3> QED BY <1>2, <3>1 DEF Depths
  <2>2. corr_stack' \in [Depths -> BOOLEAN]
    BY <2>1 DEF SelectWord, ParserTypes, ResetCorr
  <2>3. UNCHANGED <<selects, outer, select_stack, pc>> /\ pc = "parsing"
    BY DEF SelectWord
  <2>4. outer' \subseteq Ids' /\ DOMAIN selects \subseteq Ids' /\ AreSelects(selects)
    BY <1>2, <1>8, <2>3 DEF ParserTypes, Ids
  <2>5. open' \in Seq(Frames)' /\ within' \in Seq([as : RoleNames, of : Nat])'
    BY <1>7, <1>8
  <2> QED BY <1>2, <1>7, <1>8, <2>1, <2>2, <2>3, <2>4, <2>5 DEF ParserTypes
<1>10. Len(open') - 1 = n
  BY <1>2, <1>7
<1>11. \A j \in 1..n : open[j].id \in j..w
  BY <1>2 DEF OpenInOrder, FramesMatch
<1>12. FramesMatch'
  <2> SUFFICES ASSUME NEW j \in 1..(n + 1)
               PROVE  /\ open'[j].id \in j..(w + 1)
                      /\ within'[open'[j].id].as = open'[j].role
                      /\ (open'[j].role = "command") = (j = 1)
    BY <1>7, <1>8 DEF FramesMatch
  <2>1. CASE j = n + 1
    <3>1. (open = <<>>) = (n = 0)
      BY <1>2 DEF ParserTypes
    <3>2. open'[j] = f /\ within'[f.id] = m /\ f.id \in j..(w + 1)
      BY <1>2, <1>3, <1>7, <1>8, <2>1
    <3>3. (role = "command") = (j = 1)
      <4>1. (j = 1) = (n = 0)
        BY <1>2, <2>1
      <4> QED BY <1>1, <3>1, <4>1
    <3> QED BY <1>3, <1>5, <3>2, <3>3
  <2>2. CASE j \in 1..n
    <3>1. open'[j] = open[j] /\ j \in 1..Len(open)
      BY <1>2, <1>7, <2>2
    <3>2. /\ open[j].id \in j..w /\ within[open[j].id].as = open[j].role
          /\ (open[j].role = "command") = (j = 1)
      BY <1>2, <3>1 DEF OpenInOrder, FramesMatch
    <3>3. within'[open[j].id] = within[open[j].id] /\ open[j].id \in j..(w + 1)
      BY <1>2, <1>8, <2>2, <3>2
    <3> QED BY <3>1, <3>2, <3>3
  <2> QED BY <1>2, <2>1, <2>2
<1>13. MadeAreMade'
  <2> SUFFICES ASSUME NEW j \in 1..(n + 1)
               PROVE  (open'[j].part = "made") = (open'[j].id \in DOMAIN selects)
    BY <1>7 DEF MadeAreMade, SelectWord
  <2>1. CASE j = n + 1
    <3>1. w + 1 \notin DOMAIN selects
      BY <1>2 DEF ParserTypes, Ids
    <3> QED BY <1>3, <1>7, <2>1, <3>1
  <2>2. CASE j \in 1..n
    <3>1. open'[j] = open[j] /\ j \in 1..Len(open)
      BY <1>2, <1>7, <2>2
    <3> QED BY <3>1 DEF OpenInOrder, MadeAreMade
  <2> QED BY <1>2, <2>1, <2>2
<1>14. FramesNest'
  <2> SUFFICES ASSUME NEW j \in 1..n
               PROVE  /\ within'[open'[j + 1].id].of = open'[j].id
                      /\ open'[j].part = PartOfRole(open'[j + 1].role)
                      /\ open'[j + 1].role = "from" => open'[j].from = 0
                      /\ open'[j + 1].role \in {"union", "union all"} => open'[j].union = 0
    BY <1>10 DEF FramesNest, Nests
  <2>1. CASE j = n
    <3>1. open # <<>>
      BY <1>2, <2>1 DEF ParserTypes
    <3> QED BY <1>1, <1>3, <1>4, <1>5, <1>7, <1>8, <2>1, <3>1
  <2>2. CASE j # n
    <3>1. Nests(open[j], open[j + 1]) /\ j \in 1..n /\ j + 1 \in 1..n
      BY <1>2, <2>2 DEF OpenInOrder, FramesNest
    <3>2. open[j + 1].id \in 1..w
      BY <1>2, <1>11, <3>1
    <3>3. open'[j] = open[j] /\ open'[j + 1] = open[j + 1]
          /\ within'[open[j + 1].id] = within[open[j + 1].id]
      BY <1>7, <1>8, <3>1, <3>2
    <3> QED BY <3>1, <3>3 DEF Nests
  <2> QED BY <2>1, <2>2
<1>15. IdsGrow'
  <2>1. \A j \in 1..n : open'[j].id \in 1..w /\ open'[j] = open[j]
    BY <1>2, <1>7, <1>11
  <2> QED BY <1>2, <1>3, <1>7, <2>1 DEF OpenInOrder, IdsGrow
<1> QED BY <1>9, <1>12, <1>13, <1>14, <1>15 DEF OpenInOrder

-----------------------------------------------------------------------------
(* What the actions do to the Selects.                                     *)

(* In an increasing list each element is found where it is.                *)
LEMMA FoundWhereItIs ==
    ASSUME NEW list \in Seq(Nat), Increasing(list)
    PROVE  /\ \A m \in 1..Len(list) : NextIn(list, list[m]) = list[m + 1]
           /\ \A s : s \in ToSet(Front(list)) <=> \E m \in 1..(Len(list) - 1) : s = list[m]
           /\ \A m, n \in 1..Len(list) : list[m] = list[n] => m = n
<1>1. \A m, n \in 1..Len(list) : list[m] = list[n] => m = n
  <2> SUFFICES ASSUME NEW m \in 1..Len(list), NEW n \in 1..Len(list), m # n
               PROVE  list[m] # list[n]
    OBVIOUS
  <2>1. list[m] \in Nat /\ list[n] \in Nat
    OBVIOUS
  <2>2. m < n \/ n < m
    OBVIOUS
  <2> QED BY <2>1, <2>2 DEF Increasing
<1>2. ASSUME NEW m \in 1..Len(list)
      PROVE  NextIn(list, list[m]) = list[m + 1]
  <2>1. {i \in 1..Len(list) : list[i] = list[m]} = {m}
    BY <1>1
  <2>2. Min({m}) = m
    BY DEF Min
  <2> QED BY <2>1, <2>2 DEF NextIn, SelectInSeq
<1>3. ASSUME NEW s
      PROVE  s \in ToSet(Front(list)) <=> \E m \in 1..(Len(list) - 1) : s = list[m]
  <2>1. CASE list = <<>>
    BY <2>1 DEF ToSet, Front
  <2>2. CASE list # <<>>
    <3>1. DOMAIN Front(list) = 1..(Len(list) - 1)
          /\ \A m \in 1..(Len(list) - 1) : Front(list)[m] = list[m]
      BY <2>2 DEF Front
    <3> QED BY <3>1 DEF ToSet
  <2> QED BY <2>1, <2>2
<1> QED BY <1>1, <1>2, <1>3

(* Every Select of a list but the last has the next one appended to its    *)
(* siblings; the other Selects, and everything else, stay as they are.     *)
Chained(cs, ss, list) ==
    \A s \in DOMAIN ss :
       /\ cs[s].kids = ss[s].kids /\ cs[s].correlated = ss[s].correlated
       /\ cs[s].own = ss[s].own /\ cs[s].resource = ss[s].resource
       /\ (\A m \in 1..(Len(list) - 1) : s # list[m]) => cs[s].siblings = ss[s].siblings
       /\ \A m \in 1..(Len(list) - 1) :
             s = list[m] => cs[s].siblings = Append(ss[s].siblings, list[m + 1])

(* Chaining a list appends to each of its Selects the next one.            *)
LEMMA ChainIs ==
    ASSUME NEW ss, AreSelects(ss), NEW list \in Seq(Nat), Increasing(list),
           NEW cs, cs = ChainSiblings(ss, list)
    PROVE  AreSelects(cs) /\ DOMAIN cs = DOMAIN ss /\ Chained(cs, ss, list)
<1>1. DOMAIN cs = DOMAIN ss
  BY DEF ChainSiblings
<1>2. cs = [s \in DOMAIN cs |-> cs[s]]
  BY DEF ChainSiblings
<1>3. ASSUME NEW s \in DOMAIN ss
      PROVE  /\ IsSelect(cs[s])
             /\ cs[s].kids = ss[s].kids /\ cs[s].correlated = ss[s].correlated
             /\ cs[s].own = ss[s].own /\ cs[s].resource = ss[s].resource
             /\ (\A m \in 1..(Len(list) - 1) : s # list[m]) => cs[s].siblings = ss[s].siblings
             /\ \A m \in 1..(Len(list) - 1) :
                   s = list[m] => cs[s].siblings = Append(ss[s].siblings, list[m + 1])
  <2>1. IsSelect(ss[s])
    BY DEF AreSelects
  <2>2. CASE s \notin ToSet(Front(list))
    <3>1. cs[s] = ss[s]
      BY <2>2 DEF ChainSiblings
    <3>2. \A m \in 1..(Len(list) - 1) : s # list[m]
      BY <2>2, FoundWhereItIs
    <3> QED BY <2>1, <3>1, <3>2
  <2>3. CASE s \in ToSet(Front(list))
    <3>1. PICK m \in 1..(Len(list) - 1) : s = list[m]
      BY <2>3, FoundWhereItIs
    <3>2. m \in 1..Len(list) /\ m + 1 \in 1..Len(list) /\ list[m + 1] \in Nat
      BY <3>1
    <3>3. NextIn(list, s) = list[m + 1]
      BY <3>1, <3>2, FoundWhereItIs
    <3>4. cs[s] = [ss[s] EXCEPT !.siblings = Append(@, list[m + 1])]
      BY <2>3, <3>3 DEF ChainSiblings
    <3>5. \A n \in 1..(Len(list) - 1) : s = list[n] => n = m
      <4> SUFFICES ASSUME NEW n \in 1..(Len(list) - 1), s = list[n] PROVE n = m
        OBVIOUS
      <4>1. n \in 1..Len(list) /\ list[n] = list[m]
        BY <3>1
      <4> QED BY <3>2, <4>1, FoundWhereItIs
    <3>6. Append(ss[s].siblings, list[m + 1]) \in Seq(Nat)
      BY <2>1, <3>2 DEF IsSelect
    <3>7. /\ IsSelect(cs[s])
          /\ cs[s].kids = ss[s].kids /\ cs[s].correlated = ss[s].correlated
          /\ cs[s].own = ss[s].own /\ cs[s].resource = ss[s].resource
          /\ cs[s].siblings = Append(ss[s].siblings, list[m + 1])
      BY <2>1, <3>4, <3>6 DEF IsSelect
    <3> QED BY <3>1, <3>5, <3>7
  <2> QED BY <2>2, <2>3
<1>4. AreSelects(cs)
  BY <1>1, <1>2, <1>3 DEF AreSelects
<1>5. Chained(cs, ss, list)
  BY <1>3 DEF Chained
<1> QED BY <1>1, <1>4, <1>5

-----------------------------------------------------------------------------
(* A select that has been read is handed to the one around it.             *)
LEMMA HandedOver ==
    ASSUME ParserTypes, OpenInOrder, SelectStatement
    PROVE  /\ Len(open) \in Nat \ {0} /\ Top = open[Len(open)] /\ Top \in Frames
           /\ Top.id \in DOMAIN selects /\ Top.id \in Nat /\ Top.part = "made"
           /\ (Top.role = "command") = (Len(open) = 1)
           /\ open' \in Seq(Frames) /\ Len(open') = Len(open) - 1
           /\ \A j \in 1..(Len(open) - 1) :
                 /\ open'[j].id = open[j].id /\ open'[j].role = open[j].role
                 /\ open'[j].part = open[j].part
                 /\ open'[j].list = IF j = Len(open) - 1 /\ Top.role = "list"
                                    THEN Append(open[j].list, Top.id) ELSE open[j].list
                 /\ open'[j].from = IF j = Len(open) - 1 /\ Top.role = "from"
                                    THEN Top.id ELSE open[j].from
                 /\ open'[j].union = IF j = Len(open) - 1 /\ Top.role \in {"union", "union all"}
                                     THEN Top.id ELSE open[j].union
<1> DEFINE n == Len(open)
           k == n - 1
           id == Top.id
           role == Top.role
<1>1. n \in Nat \ {0} /\ n \in 1..n /\ n = Len(open) /\ k = n - 1
  BY DEF SelectStatement, ParserTypes
<1>2. Top = open[n] /\ Top \in Frames
  BY <1>1 DEF Top, Last, ParserTypes
<1>3. Top.part = "made"
  BY DEF SelectStatement
<1>4. open' = CASE role = "command"   -> <<>>
             [] role = "condition" -> Front(open)
             [] role = "list" -> [Front(open) EXCEPT ![k].list = Append(@, id)]
             [] role = "from" -> [Front(open) EXCEPT ![k].from = id]
             [] OTHER -> [Front(open) EXCEPT ![k].union = id]
  BY DEF SelectStatement
<1>5. id \in Nat /\ role \in RoleNames
  BY <1>2 DEF Frames
<1>6. id \in DOMAIN selects /\ (role = "command") = (n = 1)
  BY <1>1, <1>2, <1>3 DEF OpenInOrder, FramesMatch, MadeAreMade
<1>7. /\ Front(open) \in Seq(Frames) /\ Len(Front(open)) = k
      /\ \A j \in 1..k : Front(open)[j] = open[j] /\ open[j] \in Frames
  <2>1. open \in Seq(Frames) /\ k \in Nat /\ k <= Len(open)
    BY <1>1 DEF ParserTypes
  <2>2. Front(open) = SubSeq(open, 1, k)
    BY DEF Front
  <2> HIDE DEF n, k
  <2>3. \A j \in 1..k : open[j] \in Frames
    BY <2>1
  <2> QED BY <2>1, <2>2, <2>3
<1> HIDE DEF n, k, id, role
<1>8. CASE role = "command"
  BY <1>1, <1>2, <1>4, <1>5, <1>6, <1>8, <1>3 DEF id, role
<1>9. CASE role = "condition"
  BY <1>1, <1>2, <1>4, <1>5, <1>6, <1>7, <1>9, <1>3 DEF id, role
<1>10. ASSUME NEW f \in Frames, open' = [Front(open) EXCEPT ![k] = f], k \in 1..k
      PROVE  /\ open' \in Seq(Frames) /\ Len(open') = k
             /\ \A j \in 1..k : open'[j] = IF j = k THEN f ELSE open[j]
  BY <1>7, <1>10
<1>11. role # "command" => k \in 1..k /\ open[k] \in Frames /\ Front(open)[k] = open[k]
  BY <1>1, <1>6, <1>7
<1>12. CASE role = "list"
  <2> DEFINE f == [open[k] EXCEPT !.list = Append(@, id)]
  <2>1. Append(open[k].list, id) \in Seq(Nat)
    BY <1>5, <1>11, <1>12 DEF Frames
  <2>2. /\ f \in Frames /\ f.id = open[k].id /\ f.role = open[k].role /\ f.part = open[k].part
        /\ f.list = Append(open[k].list, id) /\ f.from = open[k].from /\ f.union = open[k].union
    BY <1>11, <1>12, <2>1 DEF Frames
  <2>3. open' = [Front(open) EXCEPT ![k] = f]
    BY <1>4, <1>11, <1>12
  <2> HIDE DEF f
  <2>4. /\ open' \in Seq(Frames) /\ Len(open') = k
        /\ \A j \in 1..k : open'[j] = IF j = k THEN f ELSE open[j]
    BY <1>10, <1>11, <1>12, <2>2, <2>3
  <2>5. \A j \in 1..k :
           /\ open'[j].id = open[j].id /\ open'[j].role = open[j].role
           /\ open'[j].part = open[j].part
           /\ open'[j].list = IF j = k /\ role = "list" THEN Append(open[j].list, id) ELSE open[j].list
           /\ open'[j].from = IF j = k /\ role = "from" THEN id ELSE open[j].from
           /\ open'[j].union = IF j = k /\ role \in {"union", "union all"} THEN id ELSE open[j].union
    BY <1>12, <2>2, <2>4
  <2> QED BY <1>1, <1>2, <1>5, <1>6, <1>3, <2>4, <2>5 DEF id, role
<1>13. CASE role = "from"
  <2> DEFINE f == [open[k] EXCEPT !.from = id]
  <2>1. /\ f \in Frames /\ f.id = open[k].id /\ f.role = open[k].role /\ f.part = open[k].part
        /\ f.list = open[k].list /\ f.from = id /\ f.union = open[k].union
    BY <1>5, <1>11, <1>13 DEF Frames
  <2>2. open' = [Front(open) EXCEPT ![k] = f]
    BY <1>4, <1>11, <1>13
  <2> HIDE DEF f
  <2>3. /\ open' \in Seq(Frames) /\ Len(open') = k
        /\ \A j \in 1..k : open'[j] = IF j = k THEN f ELSE open[j]
    BY <1>10, <1>11, <1>13, <2>1, <2>2
  <2>4. \A j \in 1..k :
           /\ open'[j].id = open[j].id /\ open'[j].role = open[j].role
           /\ open'[j].part = open[j].part
           /\ open'[j].list = IF j = k /\ role = "list" THEN Append(open[j].list, id) ELSE open[j].list
           /\ open'[j].from = IF j = k /\ role = "from" THEN id ELSE open[j].from
           /\ open'[j].union = IF j = k /\ role \in {"union", "union all"} THEN id ELSE open[j].union
    BY <1>13, <2>1, <2>3
  <2> QED BY <1>1, <1>2, <1>5, <1>6, <1>3, <2>3, <2>4 DEF id, role
<1>14. CASE role \in {"union", "union all"}
  <2> DEFINE f == [open[k] EXCEPT !.union = id]
  <2>1. /\ f \in Frames /\ f.id = open[k].id /\ f.role = open[k].role /\ f.part = open[k].part
        /\ f.list = open[k].list /\ f.from = open[k].from /\ f.union = id
    BY <1>5, <1>11, <1>14 DEF Frames
  <2>2. open' = [Front(open) EXCEPT ![k] = f]
    BY <1>4, <1>11, <1>14
  <2> HIDE DEF f
  <2>3. /\ open' \in Seq(Frames) /\ Len(open') = k
        /\ \A j \in 1..k : open'[j] = IF j = k THEN f ELSE open[j]
    BY <1>10, <1>11, <1>14, <2>1, <2>2
  <2>4. \A j \in 1..k :
           /\ open'[j].id = open[j].id /\ open'[j].role = open[j].role
           /\ open'[j].part = open[j].part
           /\ open'[j].list = IF j = k /\ role = "list" THEN Append(open[j].list, id) ELSE open[j].list
           /\ open'[j].from = IF j = k /\ role = "from" THEN id ELSE open[j].from
           /\ open'[j].union = IF j = k /\ role \in {"union", "union all"} THEN id ELSE open[j].union
    BY <1>14, <2>1, <2>3
  <2> QED BY <1>1, <1>2, <1>5, <1>6, <1>3, <2>3, <2>4 DEF id, role
<1> QED BY <1>5, <1>8, <1>9, <1>12, <1>13, <1>14 DEF RoleNames

(* Its Select gets the sub-selects of conditions and the one after UNION,  *)
(* and if it is in a condition itself it waits for the one around it.      *)
LEMMA SelectCompleted ==
    ASSUME ParserTypes, OpenInOrder, SelectStatement
    PROVE  /\ AreSelects(selects') /\ DOMAIN selects' = DOMAIN selects
           /\ \A s \in DOMAIN selects \ {Top.id} : selects'[s] = selects[s]
           /\ selects'[Top.id].kids = selects[Top.id].kids \o select_stack[Len(open)]
           /\ selects'[Top.id].siblings = IF Top.union = 0 THEN selects[Top.id].siblings
                                          ELSE Append(selects[Top.id].siblings, Top.union)
           /\ selects'[Top.id].correlated = (corr_stack[Len(open)] \/ Top.role = "union all")
           /\ selects'[Top.id].own = selects[Top.id].own
           /\ selects'[Top.id].resource = selects[Top.id].resource
           /\ select_stack' \in [Depths -> Seq(Nat)]
           /\ \A d \in Depths :
                 select_stack'[d] =
                    IF d = Len(open) THEN <<>>
                    ELSE IF d = Len(open) - 1 /\ Top.role = "condition"
                         THEN Append(select_stack[d], Top.id) ELSE select_stack[d]
<1> DEFINE n == Len(open)
           id == Top.id
           s == selects[id]
           kids == s.kids \o select_stack[n]
           siblings == IF Top.union = 0 THEN s.siblings ELSE Append(s.siblings, Top.union)
           correlated == corr_stack[n] \/ Top.role = "union all"
           made == [s EXCEPT !.kids = kids, !.siblings = siblings, !.correlated = correlated]
<1>1. n \in Nat \ {0} /\ id \in Nat /\ id \in DOMAIN selects /\ Top \in Frames
  BY HandedOver
<1>2. depth = n /\ n \in Depths /\ n - 1 \in Depths /\ Depths \subseteq Nat
  BY <1>1, SelectTreeAssumption DEF ParserTypes, Depths
<1>3. IsSelect(s)
  BY <1>1 DEF ParserTypes, AreSelects
<1>4. kids \in Seq(Nat) /\ siblings \in Seq(Nat)
  <2>1. select_stack[n] \in Seq(Nat) /\ Top.union \in Nat
    BY <1>1, <1>2 DEF ParserTypes, Frames
  <2> QED BY <1>3, <2>1 DEF IsSelect
<1>5. selects' = MakeSelect(id, made)
  <2>1. depth = n
    BY <1>2
  <2> QED BY <2>1 DEF SelectStatement
<1>6. select_stack' = IF Top.role = "condition"
                      THEN [[select_stack EXCEPT ![n] = <<>>] EXCEPT ![n - 1] = Append(@, id)]
                      ELSE [select_stack EXCEPT ![n] = <<>>]
  BY <1>2 DEF SelectStatement, PushForOuter, ClearKids
<1> HIDE DEF kids, siblings, correlated
<1>7. /\ made.kids = kids /\ made.siblings = siblings /\ made.correlated = correlated
      /\ made.own = s.own /\ made.resource = s.resource
      /\ IsSelect(made)
  <2> HIDE DEF s
  <2> QED BY <1>3, <1>4 DEF IsSelect
<1> HIDE DEF made
<1>8. /\ AreSelects(selects') /\ DOMAIN selects' = DOMAIN selects
      /\ selects'[id] = made
      /\ \A t \in DOMAIN selects \ {id} : selects'[t] = selects[t]
  <2>1. AreSelects(selects)
    BY DEF ParserTypes
  <2>2. /\ AreSelects(MakeSelect(id, made)) /\ DOMAIN MakeSelect(id, made) = DOMAIN selects \cup {id}
        /\ MakeSelect(id, made)[id] = made
        /\ \A t \in DOMAIN selects \ {id} : MakeSelect(id, made)[t] = selects[t]
    BY <1>7, <2>1 DEF MakeSelect, AreSelects
  <2> QED BY <1>1, <1>5, <2>2
<1>9. /\ select_stack' \in [Depths -> Seq(Nat)]
      /\ \A d \in Depths :
            select_stack'[d] =
               IF d = n THEN <<>>
               ELSE IF d = n - 1 /\ Top.role = "condition"
                    THEN Append(select_stack[d], id) ELSE select_stack[d]
  <2>1. select_stack \in [Depths -> Seq(Nat)] /\ <<>> \in Seq(Nat) /\ n # n - 1
    BY <1>1 DEF ParserTypes
  <2>2. Append(select_stack[n - 1], id) \in Seq(Nat)
    BY <1>1, <1>2, <2>1
  <2> HIDE DEF n, id
  <2>3. CASE Top.role = "condition"
    <3>1. select_stack' = [[select_stack EXCEPT ![n] = <<>>] EXCEPT ![n - 1] = Append(select_stack[n - 1], id)]
      BY <1>2, <1>6, <2>1, <2>3
    <3> QED BY <1>2, <2>1, <2>2, <2>3, <3>1
  <2>4. CASE Top.role # "condition"
    BY <1>2, <1>6, <2>1, <2>4
  <2> QED BY <2>3, <2>4
<1> QED BY <1>7, <1>8, <1>9 DEF kids, siblings, correlated

(* A statement read to its end closes the innermost select.                *)
LEMMA StatementKeepsTypes ==
    ASSUME ParserTypes, OpenInOrder, SelectStatement
    PROVE  ParserTypes' /\ OpenInOrder'
<1> DEFINE n == Len(open)
<1>1. /\ n \in Nat \ {0} /\ n = Len(open) /\ Top = open[n]
      /\ (Top.role = "command") = (n = 1)
      /\ open' \in Seq(Frames) /\ Len(open') = n - 1
      /\ \A j \in 1..(n - 1) :
                 /\ open'[j].id = open[j].id /\ open'[j].role = open[j].role
                 /\ open'[j].part = open[j].part
                 /\ j # n - 1 => open'[j].from = open[j].from /\ open'[j].union = open[j].union
  BY HandedOver
<1>2. /\ AreSelects(selects') /\ DOMAIN selects' = DOMAIN selects
      /\ select_stack' \in [Depths -> Seq(Nat)]
  BY SelectCompleted
<1>3. depth' = n - 1 /\ UNCHANGED <<corr_stack, within, outer>>
      /\ pc' = IF Top.role = "command" THEN "idle" ELSE pc
  BY DEF SelectStatement, ParserTypes, text
<1> HIDE DEF n
<1>4. ParserTypes'
  <2>1. n - 1 <= MaxSelects /\ n <= MaxSelects
    BY <1>1, SelectTreeAssumption DEF ParserTypes
  <2>2. pc' \in {"idle", "parsing", "crashed"} /\ (pc' = "idle" => open' = <<>>)
    <3>1. CASE Top.role = "command"
      <4>1. Len(open') = 0
        BY <1>1, <3>1
      <4> QED BY <1>1, <1>3, <3>1, <4>1
    <3>2. CASE Top.role # "command"
      <4>1. pc' = "parsing"
        BY <1>3, <3>2 DEF SelectStatement
      <4> QED BY <4>1
    <3> QED BY <3>1, <3>2
  <2>3. open' \in Seq(Frames)' /\ depth' = Len(open') /\ Len(open') <= MaxSelects
    BY <1>1, <1>3, <2>1
  <2>4. /\ corr_stack' \in [Depths -> BOOLEAN]
        /\ within' \in Seq([as : RoleNames, of : Nat]) /\ Len(within') <= MaxSelects
        /\ outer' \subseteq Ids' /\ DOMAIN selects' \subseteq Ids'
    BY <1>2, <1>3 DEF ParserTypes, Ids
  <2> QED BY <1>2, <2>2, <2>3, <2>4 DEF ParserTypes
<1>5. \A j \in 1..(n - 1) : j \in 1..Len(open) /\ j \in Nat
  BY <1>1
<1>6. FramesMatch'
  <2> SUFFICES ASSUME NEW j \in 1..(n - 1)
               PROVE  /\ open'[j].id \in j..Len(within)
                      /\ within[open'[j].id].as = open'[j].role
                      /\ (open'[j].role = "command") = (j = 1)
    BY <1>1, <1>3 DEF FramesMatch
  <2>1. open'[j].id = open[j].id /\ open'[j].role = open[j].role /\ j \in 1..Len(open)
    BY <1>1, <1>5
  <2> QED BY <2>1 DEF OpenInOrder, FramesMatch
<1>7. MadeAreMade'
  BY <1>1, <1>2, <1>5 DEF OpenInOrder, MadeAreMade
<1>8. IdsGrow'
  BY <1>1, <1>5 DEF OpenInOrder, IdsGrow
<1>9. FramesNest'
  <2>1. ASSUME NEW j \in 1..((n - 1) - 1)
        PROVE  /\ within[open'[j + 1].id].of = open'[j].id
               /\ open'[j].part = PartOfRole(open'[j + 1].role)
               /\ open'[j + 1].role = "from" => open'[j].from = 0
               /\ open'[j + 1].role \in {"union", "union all"} => open'[j].union = 0
    <3>1. j \in 1..(n - 1) /\ j + 1 \in 1..(n - 1) /\ j # n - 1
      BY <1>1
    <3>2. Nests(open[j], open[j + 1])
      BY <1>1, <3>1 DEF OpenInOrder, FramesNest
    <3> QED BY <1>1, <3>1, <3>2 DEF Nests
  <2> QED BY <1>1, <1>3, <2>1 DEF FramesNest, Nests
<1> QED BY <1>4, <1>6, <1>7, <1>8, <1>9 DEF OpenInOrder

(* A Select is made with the first sub-select of its list, if there is one.*)
LEMMA SelectBegun ==
    ASSUME ParserTypes, OpenInOrder, SelectOptions
    PROVE  /\ AreSelects(selects') /\ DOMAIN selects' = DOMAIN selects \cup {Top.id}
           /\ Top.id \notin DOMAIN selects /\ Top.part = "where"
           /\ \A s \in DOMAIN selects : selects'[s] = selects[s]
           /\ selects'[Top.id].resource = selects'[Top.id].own
           /\ selects'[Top.id].own \in IF Top.from = 0 THEN Resources ELSE {selects[Top.from].own}
           /\ selects'[Top.id].siblings \o selects'[Top.id].kids =
                 IF Top.list = <<>> THEN <<>> ELSE <<Head(Top.list)>>
<1> DEFINE n == Len(open)
           id == Top.id
<1>1. Top = open[n] /\ n \in 1..n /\ Top \in Frames /\ Top.part = "where" /\ open # <<>>
  BY DEF Top, Last, SelectOptions, ParserTypes
<1>2. id \notin DOMAIN selects
  BY <1>1 DEF OpenInOrder, MadeAreMade
<1>3. PICK own \in IF Top.from = 0 THEN Resources ELSE {selects[Top.from].own}, grouped \in BOOLEAN :
          LET s == NewSelect(own)
          IN selects' = MakeSelect(Top.id, IF Top.list = <<>> THEN s
                                           ELSE AddFromList(s, Head(Top.list), grouped))
  BY DEF SelectOptions
<1> DEFINE s == NewSelect(own)
           made == IF Top.list = <<>> THEN s ELSE AddFromList(s, Head(Top.list), grouped)
<1>4. selects' = MakeSelect(id, made)
  BY <1>3
<1>5. Top.list # <<>> => Head(Top.list) \in Nat
  BY <1>1 DEF Frames
<1>6. /\ IsSelect(made) /\ made.own = own /\ made.resource = own
      /\ made.siblings \o made.kids = IF Top.list = <<>> THEN <<>> ELSE <<Head(Top.list)>>
  <2> DEFINE h == Head(Top.list)
  <2>1. IsSelect(s) /\ s.own = own /\ s.resource = own /\ s.kids = <<>> /\ s.siblings = <<>>
    BY DEF NewSelect, IsSelect
  <2>2. CASE Top.list = <<>>
    BY <2>1, <2>2
  <2>3. CASE Top.list # <<>>
    <3>1. h \in Nat /\ made = AddFromList(s, h, grouped)
      BY <1>5, <2>3
    <3> HIDE DEF s, h, made
    <3>2. <<h>> \o <<>> = <<h>> /\ <<>> \o <<h>> = <<h>> /\ Append(<<>>, h) = <<h>> /\ <<h>> \in Seq(Nat)
      BY <3>1
    <3>3. CASE grouped /\ ~ selects[h].correlated
      <4>1. made = [s EXCEPT !.siblings = <<h>>]
        BY <2>1, <3>1, <3>2, <3>3 DEF AddFromList
      <4>2. IsSelect(made) /\ made.own = own /\ made.resource = own
            /\ made.siblings = <<h>> /\ made.kids = <<>>
        BY <2>1, <3>2, <4>1 DEF IsSelect
      <4> QED BY <2>3, <3>2, <4>2 DEF h
    <3>4. CASE ~ (grouped /\ ~ selects[h].correlated)
      <4>1. made = [s EXCEPT !.kids = <<h>>]
        BY <2>1, <3>1, <3>2, <3>4 DEF AddFromList
      <4>2. IsSelect(made) /\ made.own = own /\ made.resource = own
            /\ made.kids = <<h>> /\ made.siblings = <<>>
        BY <2>1, <3>2, <4>1 DEF IsSelect
      <4> QED BY <2>3, <3>2, <4>2 DEF h
    <3> QED BY <3>3, <3>4
  <2> QED BY <2>2, <2>3
<1> HIDE DEF made, s
<1>7. /\ AreSelects(selects') /\ DOMAIN selects' = DOMAIN selects \cup {id}
      /\ selects'[id] = made /\ \A t \in DOMAIN selects : selects'[t] = selects[t]
  BY <1>2, <1>4, <1>6 DEF MakeSelect, AreSelects, ParserTypes
<1> QED BY <1>1, <1>2, <1>3, <1>6, <1>7

(* The types, while selects are read part by part.                         *)
LEMMA PartsKeepTypes ==
    ASSUME ParserTypes, OpenInOrder, ListsWait, ProjectionClause \/ FromClause \/ SelectOptions
    PROVE  ParserTypes' /\ OpenInOrder'
<1>1. /\ Len(open) \in Nat \ {0} /\ open # <<>> /\ Top = open[Len(open)] /\ Top \in Frames
      /\ Top.part # "made" /\ pc = "parsing"
      /\ UNCHANGED <<depth, corr_stack, select_stack, within, outer, pc>>
  <2>1. open # <<>> /\ pc = "parsing" /\ Top.part # "made"
        /\ UNCHANGED <<depth, corr_stack, select_stack, within, outer, pc>>
    BY DEF ProjectionClause, FromClause, SelectOptions, parser, text
  <2> QED BY <2>1 DEF Top, Last, ParserTypes
<1>2. PICK p \in Parts :
         /\ open' = [open EXCEPT ![Len(open)].part = p]
         /\ AreSelects(selects')
         /\ \A s : s \in DOMAIN selects' <=> s \in DOMAIN selects \/ (p = "made" /\ s = Top.id)
  <2>1. CASE ProjectionClause
    <3>1. CASE Len(Top.list) > 1
      <4>1. selects' = ChainSiblings(selects, Top.list)
        BY <2>1, <3>1 DEF ProjectionClause
      <4>2. Top.list \in Seq(Nat) /\ Increasing(Top.list) /\ AreSelects(selects)
        BY <1>1 DEF Frames, ListsWait, ParserTypes
      <4>3. AreSelects(selects') /\ DOMAIN selects' = DOMAIN selects
        BY <4>1, <4>2, ChainIs
      <4> QED BY <2>1, <4>3 DEF ProjectionClause, Parts
    <3>2. CASE ~ Len(Top.list) > 1
      BY <2>1, <3>2 DEF ProjectionClause, Parts, ParserTypes
    <3> QED BY <3>1, <3>2
  <2>2. CASE FromClause
    BY <2>2 DEF FromClause, Parts, ParserTypes
  <2>3. CASE SelectOptions
    BY <2>3, SelectBegun DEF SelectOptions, Parts
  <2> QED BY <2>1, <2>2, <2>3
<1>3. OpenInOrder'
  BY <1>1, <1>2, NextPartInOrder
<1>4. open' \in Seq(Frames) /\ Len(open') = Len(open)
  BY <1>1, <1>2, NextPart
<1>5. Top.id \in Ids
  BY <1>1 DEF OpenInOrder, FramesMatch, Ids, ParserTypes
<1>6. DOMAIN selects' \subseteq Ids /\ Ids' = Ids
  BY <1>1, <1>2, <1>5 DEF ParserTypes, Ids
<1> QED BY <1>1, <1>2, <1>3, <1>4, <1>6 DEF ParserTypes

(* Asking for resources changes nothing but the resources.                 *)
LEMMA ResourcesOnly ==
    ASSUME ParserTypes, OpenInOrder, GetResource
    PROVE  /\ ParserTypes' /\ OpenInOrder'
           /\ DOMAIN selects' = DOMAIN selects
           /\ \A s \in DOMAIN selects :
                 /\ selects'[s].kids = selects[s].kids /\ selects'[s].siblings = selects[s].siblings
                 /\ selects'[s].correlated = selects[s].correlated
                 /\ selects'[s].own = selects[s].own
<1> DEFINE tree == Tree(select_result)
           collected == Collected
<1>1. /\ selects' = [s \in DOMAIN selects |->
                       IF s \in tree THEN [selects[s] EXCEPT !.resource = collected[s]]
                       ELSE selects[s]]
      /\ UNCHANGED <<depth, corr_stack, select_stack, open, within, outer, pc>>
  BY DEF GetResource, parser, text
<1> HIDE DEF tree, collected
<1>2. DOMAIN selects' = DOMAIN selects /\ selects' = [s \in DOMAIN selects' |-> selects'[s]]
  BY <1>1
<1>3. ASSUME NEW s \in DOMAIN selects
      PROVE  /\ IsSelect(selects'[s])
             /\ selects'[s].kids = selects[s].kids /\ selects'[s].siblings = selects[s].siblings
             /\ selects'[s].correlated = selects[s].correlated
             /\ selects'[s].own = selects[s].own
  <2>1. IsSelect(selects[s])
    BY DEF ParserTypes, AreSelects
  <2>2. CASE s \in tree
    <3>1. selects'[s] = [selects[s] EXCEPT !.resource = collected[s]]
      BY <1>1, <2>2
    <3> QED BY <2>1, <3>1 DEF IsSelect
  <2>3. CASE s \notin tree
    <3>1. selects'[s] = selects[s]
      BY <1>1, <2>3
    <3> QED BY <2>1, <3>1
  <2> QED BY <2>2, <2>3
<1>4. AreSelects(selects')
  BY <1>2, <1>3 DEF AreSelects
<1>5. ParserTypes'
  BY <1>1, <1>2, <1>4 DEF ParserTypes, Ids
<1>6. OpenInOrder'
  BY <1>1, <1>2 DEF OpenInOrder, FramesMatch, MadeAreMade, FramesNest, Nests, IdsGrow
<1> QED BY <1>2, <1>3, <1>5, <1>6

-----------------------------------------------------------------------------
(* What is read to its end, and what may have a place in the tree.         *)

(* A part of a select, a column or a new select ends none.                 *)
LEMMA NoneClosed ==
    ASSUME ParserTypes, OpenInOrder, ListsWait,
           \/ SelectWord \/ ProjectionClause \/ FromClause \/ UnknownColumn
           \/ SelectOptions \/ SyntaxError \/ GetResource
    PROVE  Closed' = Closed
<1>1. CASE SelectWord
  <2> DEFINE n == Len(open)
  <2>1. /\ n \in Nat /\ n = Len(open)
        /\ Len(open') = n + 1 /\ open'[n + 1].id = Len(within) + 1
        /\ \A j \in 1..n : open'[j] = open[j]
    <3>1. PICK role \in RoleNames : open' = Append(open, Opened(Len(within) + 1, role))
      BY <1>1, WordOpens
    <3> QED BY <3>1 DEF ParserTypes, Opened
  <2>2. Len(within) + 1 \notin DOMAIN selects /\ UNCHANGED selects
    BY <1>1 DEF SelectWord, ParserTypes, Ids
  <2> HIDE DEF n
  <2>3. ASSUME NEW s \in DOMAIN selects
        PROVE  (\E j \in 1..(n + 1) : open'[j].id = s) <=> \E j \in 1..n : open[j].id = s
    BY <2>1, <2>2
  <2> QED BY <2>1, <2>2, <2>3 DEF Closed, IsOpen
<1>2. CASE ProjectionClause \/ FromClause \/ SelectOptions
  <2>1. PICK p \in Parts : open' = [open EXCEPT ![Len(open)].part = p]
    BY <1>2 DEF ProjectionClause, FromClause, SelectOptions, Parts
  <2>2. /\ Len(open') = Len(open) /\ \A j \in 1..Len(open) : open'[j].id = open[j].id
        /\ Len(open) \in 1..Len(open) /\ Top = open[Len(open)]
    <3>1. open # <<>>
      BY <1>2 DEF ProjectionClause, FromClause, SelectOptions
    <3> QED BY <2>1, <3>1, NextPart DEF Top, Last
  <2>3. DOMAIN selects' = DOMAIN selects \/ DOMAIN selects' = DOMAIN selects \cup {Top.id}
    <3>1. CASE ProjectionClause
      BY <3>1 DEF ProjectionClause, ChainSiblings
    <3>2. CASE FromClause
      BY <3>2 DEF FromClause
    <3>3. CASE SelectOptions
      BY <3>3, SelectBegun
    <3> QED BY <1>2, <3>1, <3>2, <3>3
  <2>4. \A s : IsOpen(s)' <=> IsOpen(s)
    BY <2>2 DEF IsOpen
  <2>5. IsOpen(Top.id)
    BY <2>2 DEF IsOpen
  <2> QED BY <2>3, <2>4, <2>5 DEF Closed
<1>3. CASE UnknownColumn \/ SyntaxError
  BY <1>3 DEF UnknownColumn, SyntaxError, Closed, IsOpen
<1>4. CASE GetResource
  <2>1. DOMAIN selects' = DOMAIN selects /\ UNCHANGED open
    BY <1>4, ResourcesOnly DEF GetResource
  <2> QED BY <2>1 DEF Closed, IsOpen
<1> QED BY <1>1, <1>2, <1>3, <1>4

(* A select that is complete, with the one after its UNION, is one more.   *)
LEMMA OneClosed ==
    ASSUME ParserTypes, OpenInOrder, SelectStatement
    PROVE  Closed' = Closed \cup {Top.id} /\ Top.id \notin Closed
<1> DEFINE n == Len(open)
           id == Top.id
<1>1. /\ n \in Nat \ {0} /\ n \in 1..n /\ n = Len(open) /\ Top = open[n] /\ id \in DOMAIN selects
      /\ Len(open') = n - 1 /\ \A j \in 1..(n - 1) : open'[j].id = open[j].id
      /\ DOMAIN selects' = DOMAIN selects
  <2>1. n \in Nat \ {0} /\ n = Len(open) /\ DOMAIN selects' = DOMAIN selects
    BY HandedOver, SelectCompleted
  <2>2. Top = open[n] /\ id \in DOMAIN selects /\ Len(open') = n - 1
        /\ \A j \in 1..(n - 1) : open'[j].id = open[j].id
    BY HandedOver
  <2> HIDE DEF n, id
  <2> QED BY <2>1, <2>2
<1>2. id = open[n].id
  BY <1>1
<1> HIDE DEF n, id
<1>3. \A j \in 1..(n - 1) : j \in 1..n /\ open[j].id # id
  <2> SUFFICES ASSUME NEW j \in 1..(n - 1) PROVE j \in 1..n /\ open[j].id # id
    OBVIOUS
  <2>1. j \in 1..n /\ j < n
    BY <1>1
  <2>2. open[j].id < open[n].id /\ open[j].id \in Nat /\ open[n].id \in Nat
    <3>1. open[j].id < open[n].id
      BY <1>1, <2>1 DEF OpenInOrder, IdsGrow
    <3>2. open[j] \in Frames /\ open[n] \in Frames
      BY <1>1, <2>1 DEF ParserTypes
    <3> QED BY <3>1, <3>2 DEF Frames
  <2> QED BY <1>2, <2>1, <2>2
<1>4. \A j \in 1..n : j = n \/ j \in 1..(n - 1)
  BY <1>1
<1>5. ASSUME NEW s
      PROVE  (\E j \in 1..(n - 1) : open'[j].id = s) <=> (\E j \in 1..n : open[j].id = s) /\ s # id
  BY <1>1, <1>2, <1>3, <1>4
<1>6. Closed' = {s \in DOMAIN selects : ~ \E j \in 1..(n - 1) : open'[j].id = s}
  BY <1>1 DEF Closed, IsOpen
<1>7. Closed = {s \in DOMAIN selects : ~ \E j \in 1..n : open[j].id = s}
  BY <1>1 DEF Closed, IsOpen
<1>8. \E j \in 1..n : open[j].id = id
  BY <1>1, <1>2
<1>9. id \in DOMAIN selects
  BY <1>1
<1>10. id \notin Closed
  BY <1>7, <1>8
<1>11. ASSUME NEW s PROVE s \in Closed' <=> s \in Closed \/ s = id
  BY <1>5, <1>6, <1>7, <1>9
<1>12. Closed' = Closed \cup {id} /\ id \notin Closed
  BY <1>10, <1>11
<1> QED BY <1>12 DEF id
-----------------------------------------------------------------------------
(* Whether a select depends on the row of the one around it.               *)

(* Reading a select part by part leaves the completed ones as they are,    *)
(* but for the sub-select that follows in the list.                        *)
LEMMA PartsLeaveSelects ==
    ASSUME ParserTypes, OpenInOrder, ListsWait,
           ProjectionClause \/ FromClause \/ SelectOptions
    PROVE  /\ Len(open) \in 1..Len(open) /\ Len(open') = Len(open) /\ Top = open[Len(open)]
           /\ \A j \in 1..Len(open) : open'[j].id = open[j].id
           /\ \A s \in DOMAIN selects :
                 /\ s \in DOMAIN selects'
                 /\ selects'[s].correlated = selects[s].correlated
                 /\ selects'[s].own = selects[s].own
                 /\ selects'[s].resource = selects[s].resource
<1>1. PICK p \in Parts : open # <<>> /\ open' = [open EXCEPT ![Len(open)].part = p]
  BY DEF ProjectionClause, FromClause, SelectOptions, Parts
<1>2. /\ Len(open) \in 1..Len(open) /\ Len(open') = Len(open) /\ Top = open[Len(open)]
      /\ \A j \in 1..Len(open) : open'[j].id = open[j].id
  BY <1>1, NextPart DEF Top, Last
<1>3. Top.list \in Seq(Nat) /\ Increasing(Top.list) /\ AreSelects(selects)
  <2>1. Top \in Frames
    BY <1>2 DEF ParserTypes
  <2> QED BY <1>2, <2>1 DEF Frames, ListsWait, ParserTypes
<1>4. CASE ProjectionClause /\ Len(Top.list) > 1
  <2>1. selects' = ChainSiblings(selects, Top.list)
    BY <1>4 DEF ProjectionClause
  <2>2. DOMAIN selects' = DOMAIN selects /\ Chained(selects', selects, Top.list)
    BY <1>3, <2>1, ChainIs
  <2> QED BY <1>2, <2>2 DEF Chained
<1>5. CASE ProjectionClause /\ ~ Len(Top.list) > 1
  BY <1>2, <1>5 DEF ProjectionClause
<1>6. CASE FromClause
  BY <1>2, <1>6 DEF FromClause
<1>7. CASE SelectOptions
  BY <1>2, <1>7, SelectBegun
<1> QED BY <1>4, <1>5, <1>6, <1>7

(* What is on the stack when a select is made is what its Select keeps.    *)
LEMMA CorrelatedKept ==
    ASSUME ParserTypes, OpenInOrder, ListsWait, CorrelatedInv, [Next]_vars
    PROVE  CorrelatedInv'
<1> DEFINE n == Len(open)
<1>1. n \in Nat /\ n = Len(open)
  BY DEF ParserTypes
<1>2. ASSUME NEW j \in 1..n
      PROVE  open[j] \in Frames /\ open[j].id \in Ids /\ open[j].id \in Nat
  <2>1. open[j] \in Frames
    BY <1>2 DEF ParserTypes
  <2>2. open[j].id \in j..Len(within)
    BY <1>2 DEF OpenInOrder, FramesMatch
  <2> QED BY <2>1, <2>2 DEF Frames, Ids
<1>3. ASSUME NEW s \in Closed PROVE s \in DOMAIN selects /\ s \in Ids
  BY <1>3 DEF Closed, ParserTypes
<1> HIDE DEF n
<1>4. ASSUME Parse PROVE CorrelatedInv'
  <2>1. Len(open') = 0 /\ DOMAIN selects' = {}
    BY <1>4 DEF Parse
  <2>2. 1..Len(open') = {} /\ Closed' = {}
    BY <2>1 DEF Closed
  <2> QED BY <2>2 DEF CorrelatedInv
<1>5. ASSUME SelectWord PROVE CorrelatedInv'
  <2> DEFINE w == Len(within)
  <2>1. PICK role \in RoleNames :
           /\ open' = Append(open, Opened(w + 1, role))
           /\ within' = Append(within, [as |-> role, of |-> IF open = <<>> THEN 0 ELSE Top.id])
    BY <1>5, WordOpens
  <2>2. /\ Len(open') = n + 1 /\ open'[n + 1].id = w + 1
        /\ \A j \in 1..n : open'[j] = open[j]
    BY <1>1, <2>1 DEF ParserTypes, Opened
  <2>3. w \in Nat /\ \A s \in 1..w : within'[s] = within[s]
    BY <2>1 DEF ParserTypes
  <2>4. UNCHANGED <<selects, outer>> /\ Closed' = Closed
    BY <1>5, NoneClosed DEF SelectWord
  <2>5. corr_stack' = [corr_stack EXCEPT ![n + 1] = FALSE] /\ n + 1 \in Depths
    <3>1. n <= w /\ w < MaxSelects /\ MaxSelects \in Nat
      BY <1>1, <1>5, WordOpens, SelectTreeAssumption
    <3>2. n + 1 \in Depths
      BY <1>1, <2>3, <3>1 DEF Depths
    <3> QED BY <1>1, <1>5, <3>2 DEF SelectWord, ResetCorr, ParserTypes
  <2>6. ASSUME NEW j \in 1..(n + 1) PROVE corr_stack'[j] = (open'[j].id \in outer)
    <3>1. CASE j = n + 1
      <4>1. w + 1 \notin outer
        BY <2>3 DEF ParserTypes, Ids
      <4>2. corr_stack'[j] = FALSE
        BY <2>5, <3>1 DEF ParserTypes
      <4>3. (open'[j].id \in outer) = FALSE
        BY <2>2, <3>1, <4>1
      <4> QED BY <4>2, <4>3
    <3>2. CASE j # n + 1
      <4>1. j \in 1..n /\ corr_stack'[j] = corr_stack[j]
        BY <1>1, <2>5, <3>2 DEF ParserTypes
      <4> QED BY <1>1, <2>2, <4>1 DEF CorrelatedInv
    <3> QED BY <3>1, <3>2
  <2>7. ASSUME NEW s \in Closed
        PROVE  selects[s].correlated = (s \in outer \/ within'[s].as = "union all")
    BY <1>3, <2>3 DEF CorrelatedInv, Ids
  <2> HIDE DEF w
  <2> QED BY <2>2, <2>4, <2>6, <2>7 DEF CorrelatedInv
<1>6. ASSUME ProjectionClause \/ FromClause \/ SelectOptions PROVE CorrelatedInv'
  <2>1. UNCHANGED <<corr_stack, within, outer>>
    BY <1>6 DEF ProjectionClause, FromClause, SelectOptions, parser, text
  <2>2. Closed' = Closed
    BY <1>6, NoneClosed
  <2>3. /\ Len(open') = n /\ \A j \in 1..n : open'[j].id = open[j].id
        /\ \A s \in DOMAIN selects : selects'[s].correlated = selects[s].correlated
    BY <1>1, <1>6, PartsLeaveSelects
  <2> QED BY <1>1, <1>3, <2>1, <2>2, <2>3 DEF CorrelatedInv
<1>7. ASSUME UnknownColumn PROVE CorrelatedInv'
  <2>1. n \in 1..n /\ Top = open[n] /\ depth = n /\ n \in Depths
    BY <1>1, <1>7, SelectTreeAssumption DEF UnknownColumn, ParserTypes, Top, Last, Depths
  <2>2. /\ UNCHANGED <<open, selects, within>> /\ Closed' = Closed
        /\ corr_stack' = [corr_stack EXCEPT ![n] = TRUE] /\ outer' = outer \cup {open[n].id}
    BY <1>7, <2>1, NoneClosed DEF UnknownColumn
  <2>3. ASSUME NEW j \in 1..n PROVE corr_stack'[j] = (open[j].id \in outer')
    <3>1. CASE j = n
      BY <2>1, <2>2, <3>1 DEF ParserTypes
    <3>2. CASE j # n
      <4>1. j < n
        BY <1>1, <3>2
      <4>2. open[j].id # open[n].id
        BY <1>1, <1>2, <2>1, <4>1 DEF OpenInOrder, IdsGrow
      <4>3. corr_stack'[j] = corr_stack[j]
        BY <2>2, <3>2 DEF ParserTypes
      <4>4. corr_stack[j] = (open[j].id \in outer)
        BY <1>1 DEF CorrelatedInv
      <4>5. (open[j].id \in outer') = (open[j].id \in outer)
        BY <2>2, <4>2
      <4> QED BY <4>3, <4>4, <4>5
    <3> QED BY <3>1, <3>2
  <2>4. ASSUME NEW s \in Closed PROVE s # open[n].id
    BY <1>1, <2>1 DEF Closed, IsOpen
  <2> QED BY <1>1, <2>2, <2>3, <2>4 DEF CorrelatedInv
<1>8. ASSUME SelectStatement PROVE CorrelatedInv'
  <2> DEFINE id == Top.id
  <2>1. n \in 1..n /\ Top = open[n] /\ Len(open') = n - 1
    <3>1. n \in Nat \ {0}
      BY <1>1, <1>8, HandedOver
    <3>2. Top = open[n] /\ Len(open') = n - 1
      BY <1>1, <1>8, HandedOver
    <3> QED BY <3>1, <3>2
  <2>2. \A j \in 1..(n - 1) : open'[j].id = open[j].id /\ j \in 1..n
    <3>1. \A j \in 1..(Len(open) - 1) : open'[j].id = open[j].id
      BY <1>8, HandedOver
    <3> QED BY <1>1, <3>1
  <2>3. Closed' = Closed \cup {id} /\ id \notin Closed
    BY <1>8, OneClosed
  <2>4. UNCHANGED <<corr_stack, within, outer>>
    BY <1>8 DEF SelectStatement, text
  <2>5. \A s \in DOMAIN selects \ {id} : selects'[s] = selects[s]
    BY <1>8, SelectCompleted
  <2>6. selects'[id].correlated = (corr_stack[n] \/ Top.role = "union all")
    BY <1>1, <1>8, SelectCompleted
  <2>7. id = open[n].id /\ within[id].as = Top.role /\ corr_stack[n] = (id \in outer)
    BY <1>1, <2>1 DEF OpenInOrder, FramesMatch, CorrelatedInv
  <2> HIDE DEF id
  <2>8. ASSUME NEW s \in Closed'
        PROVE  (selects'[s].correlated) = (s \in outer \/ within[s].as = "union all")
    <3>1. CASE s = id
      BY <2>6, <2>7, <3>1
    <3>2. CASE s # id
      <4>1. s \in Closed
        BY <2>3, <3>2
      <4> QED BY <1>3, <2>5, <3>2, <4>1 DEF CorrelatedInv
    <3> QED BY <3>1, <3>2
  <2>9. ASSUME NEW j \in 1..(n - 1) PROVE (corr_stack[j]) = (open'[j].id \in outer)
    BY <1>1, <2>2 DEF CorrelatedInv
  <2> QED BY <2>1, <2>4, <2>8, <2>9 DEF CorrelatedInv
<1>9. ASSUME GetResource PROVE CorrelatedInv'
  <2>1. UNCHANGED <<open, corr_stack, outer, within>> /\ Closed' = Closed
    BY <1>9, NoneClosed DEF GetResource, parser, text
  <2>2. \A s \in DOMAIN selects : selects'[s].correlated = selects[s].correlated
    BY <1>9, ResourcesOnly
  <2> QED BY <1>3, <2>1, <2>2 DEF CorrelatedInv
<1>10. ASSUME SyntaxError \/ UNCHANGED vars PROVE CorrelatedInv'
  <2>1. UNCHANGED <<open, corr_stack, outer, within, selects>>
    BY <1>10 DEF SyntaxError, vars, parser, text
  <2> QED BY <2>1 DEF CorrelatedInv, Closed, IsOpen
<1> QED BY <1>4, <1>5, <1>6, <1>7, <1>8, <1>9, <1>10 DEF Next
-----------------------------------------------------------------------------
(* The sub-selects that wait.                                              *)

(* What waits goes on waiting while lists, stacks and selects stay.        *)
LEMMA WaitStays ==
    ASSUME WaitInOrder, Len(open') = Len(open),
           \A j \in 1..Len(open) :
              /\ open'[j].id = open[j].id /\ open'[j].list = open[j].list
              /\ open'[j].from = open[j].from /\ open'[j].union = open[j].union
              /\ open[j].union # 0 => open'[j].part = open[j].part,
           UNCHANGED <<select_stack, within>>, Closed' = Closed, Len(open) \in Nat
    PROVE  WaitInOrder'
<1>1. ListsWait'
  <2> SUFFICES ASSUME NEW j \in 1..Len(open)
               PROVE  /\ Increasing(open'[j].list)
                      /\ \A c \in ToSet(open'[j].list) :
                            /\ c \in Closed /\ within[c].as = "list" /\ within[c].of = open'[j].id
                            /\ j < Len(open) => c < open'[j + 1].id
    BY DEF ListsWait, Increasing
  <2>1. j < Len(open) => j + 1 \in 1..Len(open)
    OBVIOUS
  <2> QED BY <2>1 DEF WaitInOrder, ListsWait, Increasing
<1>2. ConditionsWait'
  BY DEF WaitInOrder, ConditionsWait
<1>3. UnionsWait'
  BY DEF WaitInOrder, UnionsWait
<1>4. FromsMade' /\ StacksClear'
  BY DEF WaitInOrder, FromsMade, StacksClear
<1>5. OuterFirst'
  BY DEF WaitInOrder, OuterFirst, Ids
<1> QED BY <1>1, <1>2, <1>3, <1>4, <1>5 DEF WaitInOrder

(* A select that opens has nothing waiting, and the others keep theirs.    *)
LEMMA WordKeepsWait ==
    ASSUME ParserTypes, OpenInOrder, WaitInOrder, SelectWord
    PROVE  WaitInOrder'
<1> DEFINE n == Len(open)
           w == Len(within)
<1>1. n \in Nat /\ w \in Nat /\ n <= w /\ n = Len(open) /\ w = Len(within)
  <2>1. n \in Nat /\ w \in Nat
    BY DEF ParserTypes
  <2> QED BY <2>1, WordOpens
<1>2. PICK role \in RoleNames :
         /\ open' = Append(open, Opened(w + 1, role))
         /\ within' = Append(within, [as |-> role, of |-> IF open = <<>> THEN 0 ELSE Top.id])
  BY WordOpens
<1> DEFINE f == Opened(w + 1, role)
           m == [as |-> role, of |-> IF open = <<>> THEN 0 ELSE Top.id]
<1>3. f.id = w + 1 /\ f.list = <<>> /\ f.from = 0 /\ f.union = 0
  BY DEF Opened
<1>4. m.of \in 0..w
  <2>1. CASE open = <<>>
    BY <1>1, <2>1
  <2>2. CASE open # <<>>
    <3>1. n \in 1..n /\ Top = open[n]
      BY <1>1, <2>2 DEF ParserTypes, Top, Last
    <3>2. open[n].id \in n..w
      BY <3>1 DEF OpenInOrder, FramesMatch
    <3> QED BY <1>1, <2>2, <3>1, <3>2
  <2> QED BY <2>1, <2>2
<1> HIDE DEF f
<1>5. /\ Len(open') = n + 1 /\ open'[n + 1] = f
      /\ \A j \in 1..n : open'[j] = open[j]
  BY <1>1, <1>2 DEF ParserTypes, f
<1>6. Len(within') = w + 1 /\ within'[w + 1].of = m.of /\ \A s \in 1..w : within'[s] = within[s]
  <2> HIDE DEF m
  <2>1. within' = Append(within, m)
    BY <1>2 DEF m
  <2> QED BY <1>1, <2>1 DEF ParserTypes
<1> HIDE DEF m, n, w
<1>7. UNCHANGED <<select_stack, selects>> /\ Closed' = Closed
  BY NoneClosed DEF SelectWord, WaitInOrder
<1>8. Closed \subseteq 1..w
  BY <1>1 DEF Closed, ParserTypes, Ids
<1>9. n + 1 \in Depths
  <2>1. w < MaxSelects /\ MaxSelects \in Nat
    BY <1>1, WordOpens, SelectTreeAssumption
  <2> QED BY <1>1, <2>1 DEF Depths
<1>10. \A j \in 1..(n + 1) : j \in 1..n \/ j = n + 1
  BY <1>1
<1>11. ListsWait'
  <2> SUFFICES ASSUME NEW j \in 1..(n + 1)
               PROVE  /\ Increasing(open'[j].list)
                      /\ \A c \in ToSet(open'[j].list) :
                            /\ c \in Closed /\ within'[c].as = "list" /\ within'[c].of = open'[j].id
                            /\ j < n + 1 => c < open'[j + 1].id
    BY <1>5, <1>7 DEF ListsWait, Increasing
  <2>1. CASE j = n + 1
    <3>1. open'[j].list = <<>>
      BY <1>3, <1>5, <2>1
    <3> QED BY <3>1 DEF Increasing, ToSet
  <2>2. CASE j \in 1..n
    <3>1. /\ Increasing(open[j].list)
          /\ \A c \in ToSet(open[j].list) :
                /\ c \in Closed /\ within[c].as = "list" /\ within[c].of = open[j].id
                /\ j < n => c < open[j + 1].id
      BY <1>1, <2>2 DEF WaitInOrder, ListsWait
    <3>2. open'[j] = open[j]
      BY <1>5, <2>2
    <3>3. ASSUME NEW c \in Closed, j < n => c < open[j + 1].id
          PROVE  c < open'[j + 1].id /\ within'[c] = within[c]
      <4>1. c \in 1..w
        BY <1>8
      <4>2. j < n => j + 1 \in 1..n
        BY <1>1, <2>2
      <4>3. CASE j < n
        BY <1>5, <1>6, <3>3, <4>1, <4>2, <4>3
      <4>4. CASE j = n
        BY <1>1, <1>3, <1>5, <1>6, <4>1, <4>4
      <4> QED BY <1>1, <2>2, <4>3, <4>4
    <3> QED BY <3>1, <3>2, <3>3
  <2> QED BY <1>10, <2>1, <2>2
<1>12. ConditionsWait'
  <2> SUFFICES ASSUME NEW j \in 1..(n + 1)
               PROVE  /\ IsInjective(select_stack[j])
                      /\ \A c \in ToSet(select_stack[j]) :
                            c \in Closed /\ within'[c].as = "condition" /\ within'[c].of = open'[j].id
    BY <1>5, <1>7 DEF ConditionsWait
  <2>1. CASE j = n + 1
    <3>1. select_stack[j] = <<>>
      BY <1>1, <1>9, <2>1 DEF WaitInOrder, StacksClear
    <3> QED BY <3>1 DEF IsInjective, ToSet
  <2>2. CASE j \in 1..n
    BY <1>1, <1>5, <1>6, <1>8, <2>2 DEF WaitInOrder, ConditionsWait
  <2> QED BY <1>10, <2>1, <2>2
<1>13. UnionsWait'
  <2> SUFFICES ASSUME NEW j \in 1..(n + 1), open'[j].union # 0
               PROVE  LET c == open'[j].union
                      IN  /\ c \in Closed /\ within'[c].as \in {"union", "union all"}
                          /\ within'[c].of = open'[j].id /\ open'[j].part = "made"
    BY <1>5, <1>7 DEF UnionsWait
  <2>1. j # n + 1
    BY <1>3, <1>5
  <2>2. j \in 1..n /\ open'[j] = open[j]
    BY <1>5, <1>10, <2>1
  <2> QED BY <1>1, <1>6, <1>8, <2>2 DEF WaitInOrder, UnionsWait
<1>14. FromsMade'
  <2> SUFFICES ASSUME NEW j \in 1..(n + 1), open'[j].from # 0
               PROVE  open'[j].from \in Closed
    BY <1>5, <1>7 DEF FromsMade
  <2>1. j # n + 1
    BY <1>3, <1>5
  <2>2. j \in 1..n /\ open'[j] = open[j]
    BY <1>5, <1>10, <2>1
  <2> QED BY <1>1, <2>2 DEF WaitInOrder, FromsMade
<1>15. StacksClear'
  BY <1>1, <1>5, <1>7 DEF WaitInOrder, StacksClear, Depths
<1>16. OuterFirst'
  <2> SUFFICES ASSUME NEW s \in 1..(w + 1) PROVE within'[s].of < s
    BY <1>6 DEF OuterFirst, Ids
  <2>1. CASE s = w + 1
    BY <1>1, <1>4, <1>6, <2>1
  <2>2. CASE s # w + 1
    BY <1>1, <1>6, <2>2 DEF WaitInOrder, OuterFirst, Ids
  <2> QED BY <2>1, <2>2
<1> QED BY <1>11, <1>12, <1>13, <1>14, <1>15, <1>16 DEF WaitInOrder

(* Appending to a sequence.                                                *)
LEMMA AppendAdds ==
    ASSUME NEW list \in Seq(Nat), NEW x \in Nat
    PROVE  /\ ToSet(Append(list, x)) = ToSet(list) \cup {x}
           /\ Len(Append(list, x)) = Len(list) + 1
           /\ Append(list, x)[Len(list) + 1] = x
           /\ \A m \in 1..Len(list) : Append(list, x)[m] = list[m]
           /\ IsInjective(list) /\ x \notin ToSet(list) => IsInjective(Append(list, x))
           /\ Increasing(list) /\ (\A c \in ToSet(list) : c < x) => Increasing(Append(list, x))
<1> DEFINE n == Len(list)
           app == Append(list, x)
<1>1. /\ n \in Nat /\ Len(app) = n + 1 /\ DOMAIN app = 1..(n + 1) /\ DOMAIN list = 1..n
      /\ app[n + 1] = x /\ \A m \in 1..n : app[m] = list[m]
  OBVIOUS
<1> HIDE DEF n, app
<1>2. \A m \in 1..(n + 1) : m \in 1..n \/ m = n + 1
  BY <1>1
<1>3. \A m \in 1..n : m \in 1..(n + 1)
  BY <1>1
<1>4. n + 1 \in 1..(n + 1)
  BY <1>1
<1>5. ToSet(app) = ToSet(list) \cup {x}
  BY <1>1, <1>2, <1>3, <1>4 DEF ToSet
<1>6. ASSUME IsInjective(list), x \notin ToSet(list) PROVE IsInjective(app)
  BY <1>1, <1>2, <1>6 DEF IsInjective, ToSet
<1>7. ASSUME Increasing(list), \A c \in ToSet(list) : c < x PROVE Increasing(app)
  <2> SUFFICES ASSUME NEW l \in 1..(n + 1), NEW m \in 1..(n + 1), l < m PROVE app[l] < app[m]
    BY <1>1 DEF Increasing
  <2>1. l \in 1..n
    BY <1>1
  <2>2. CASE m = n + 1
    BY <1>1, <1>7, <2>1, <2>2 DEF ToSet
  <2>3. CASE m \in 1..n
    BY <1>1, <1>7, <2>1, <2>3 DEF Increasing, n
  <2> QED BY <1>2, <2>2, <2>3
<1> QED BY <1>1, <1>5, <1>6, <1>7 DEF n, app

(* A select that closes waits at the place its role is named after.        *)
LEMMA StatementKeepsWait ==
    ASSUME ParserTypes, OpenInOrder, WaitInOrder, SelectStatement
    PROVE  WaitInOrder'
<1> DEFINE n == Len(open)
           id == Top.id
           role == Top.role
<1>1. n \in Nat \ {0} /\ n = Len(open) /\ Top = open[n] /\ id \in Nat
      /\ Len(open') = n - 1 /\ (role = "command") = (n = 1)
  BY HandedOver
<1>2. ASSUME NEW j \in 1..(n - 1)
      PROVE  /\ open'[j].id = open[j].id /\ open'[j].part = open[j].part
             /\ open'[j].list = IF j = n - 1 /\ role = "list" THEN Append(open[j].list, id)
                                ELSE open[j].list
             /\ open'[j].from = IF j = n - 1 /\ role = "from" THEN id ELSE open[j].from
             /\ open'[j].union = IF j = n - 1 /\ role \in {"union", "union all"} THEN id
                                 ELSE open[j].union
  BY HandedOver
<1>3. \A d \in Depths : select_stack'[d] =
                    IF d = n THEN <<>>
                    ELSE IF d = n - 1 /\ role = "condition"
                         THEN Append(select_stack[d], id) ELSE select_stack[d]
  BY SelectCompleted
<1>4. Closed' = Closed \cup {id} /\ id \notin Closed
  BY OneClosed
<1>5. UNCHANGED within
  BY DEF SelectStatement, text
<1> HIDE DEF n, id, role
<1>6. ASSUME NEW j \in 1..(n - 1)
      PROVE  j \in 1..n /\ j # n /\ j \in Depths /\ j \in 1..Len(open) /\ j < Len(open)
             /\ (j # n - 1 => j + 1 \in 1..(n - 1))
  <2>1. n <= MaxSelects /\ MaxSelects \in Nat
    BY <1>1, SelectTreeAssumption DEF ParserTypes
  <2> QED BY <1>1, <2>1 DEF Depths
<1>7. n - 1 \in 1..(n - 1) =>
         /\ within[id].as = role /\ within[id].of = open[n - 1].id
         /\ open[n - 1].part = PartOfRole(role) /\ id = open[n].id
  <2> SUFFICES ASSUME n - 1 \in 1..(n - 1)
               PROVE  /\ within[id].as = role /\ within[id].of = open[n - 1].id
                      /\ open[n - 1].part = PartOfRole(role) /\ id = open[n].id
    OBVIOUS
  <2>1. (n - 1) + 1 = n /\ n \in 1..Len(open) /\ n - 1 \in 1..(Len(open) - 1)
    BY <1>1
  <2>2. Nests(open[n - 1], open[n])
    BY <2>1 DEF OpenInOrder, FramesNest
  <2>3. within[open[n].id].as = open[n].role
    BY <2>1 DEF OpenInOrder, FramesMatch
  <2> QED BY <1>1, <2>2, <2>3 DEF Nests, id, role
<1>8. ListsWait'
  <2> SUFFICES ASSUME NEW j \in 1..(n - 1)
               PROVE  /\ Increasing(open'[j].list)
                      /\ \A c \in ToSet(open'[j].list) :
                            /\ c \in Closed \cup {id} /\ within[c].as = "list"
                            /\ within[c].of = open'[j].id
                            /\ j < n - 1 => c < open'[j + 1].id
    BY <1>1, <1>4, <1>5 DEF ListsWait, Increasing
  <2>1. /\ Increasing(open[j].list)
        /\ \A c \in ToSet(open[j].list) :
              /\ c \in Closed /\ within[c].as = "list" /\ within[c].of = open[j].id
              /\ c < open[j + 1].id
    BY <1>6 DEF WaitInOrder, ListsWait
  <2>2. CASE j = n - 1 /\ role = "list"
    <3>1. j + 1 = n /\ open[j].list \in Seq(Nat)
      <4>1. j \in 1..Len(open)
        BY <1>6
      <4>2. open[j] \in Frames
        BY <4>1 DEF ParserTypes
      <4> QED BY <1>1, <2>2, <4>2 DEF Frames
    <3>2. /\ ToSet(open'[j].list) = ToSet(open[j].list) \cup {id}
          /\ Increasing(open'[j].list)
      BY <1>1, <1>2, <1>7, <2>1, <2>2, <3>1, AppendAdds
    <3> QED BY <1>1, <1>2, <1>7, <2>1, <2>2, <3>2
  <2>3. CASE ~ (j = n - 1 /\ role = "list")
    <3>1. open'[j].list = open[j].list /\ open'[j].id = open[j].id
      BY <1>2, <2>3
    <3>2. j < n - 1 => open'[j + 1].id = open[j + 1].id
      <4> SUFFICES ASSUME j < n - 1 PROVE open'[j + 1].id = open[j + 1].id
        OBVIOUS
      <4>1. j + 1 \in 1..(n - 1)
        BY <1>1
      <4> QED BY <1>2, <4>1
    <3> QED BY <2>1, <3>1, <3>2
  <2> QED BY <2>2, <2>3
<1>9. ConditionsWait'
  <2> SUFFICES ASSUME NEW j \in 1..(n - 1)
               PROVE  /\ IsInjective(select_stack'[j])
                      /\ \A c \in ToSet(select_stack'[j]) :
                            /\ c \in Closed \cup {id} /\ within[c].as = "condition"
                            /\ within[c].of = open'[j].id
    BY <1>1, <1>4, <1>5 DEF ConditionsWait
  <2>1. /\ IsInjective(select_stack[j])
        /\ \A c \in ToSet(select_stack[j]) :
              c \in Closed /\ within[c].as = "condition" /\ within[c].of = open[j].id
    BY <1>6 DEF WaitInOrder, ConditionsWait
  <2>2. open'[j].id = open[j].id
    BY <1>2
  <2>3. CASE j = n - 1 /\ role = "condition"
    <3>1. select_stack[j] \in Seq(Nat) /\ select_stack'[j] = Append(select_stack[j], id)
      BY <1>3, <1>6, <2>3 DEF ParserTypes
    <3>2. id \notin ToSet(select_stack[j])
      BY <1>4, <2>1
    <3>3. /\ ToSet(select_stack'[j]) = ToSet(select_stack[j]) \cup {id}
          /\ IsInjective(select_stack'[j])
      BY <1>1, <2>1, <3>1, <3>2, AppendAdds
    <3> QED BY <1>7, <2>1, <2>2, <2>3, <3>3
  <2>4. CASE ~ (j = n - 1 /\ role = "condition")
    <3>1. select_stack'[j] = select_stack[j]
      BY <1>3, <1>6, <2>4
    <3> QED BY <2>1, <2>2, <3>1
  <2> QED BY <2>3, <2>4
<1>10. UnionsWait'
  <2> SUFFICES ASSUME NEW j \in 1..(n - 1), open'[j].union # 0
               PROVE  LET c == open'[j].union
                      IN  /\ c \in Closed \cup {id} /\ within[c].as \in {"union", "union all"}
                          /\ within[c].of = open'[j].id /\ open'[j].part = "made"
    BY <1>1, <1>4, <1>5 DEF UnionsWait
  <2>1. CASE j = n - 1 /\ role \in {"union", "union all"}
    <3>1. PartOfRole(role) = "made"
      BY <2>1 DEF PartOfRole
    <3> QED BY <1>2, <1>7, <2>1, <3>1
  <2>2. CASE ~ (j = n - 1 /\ role \in {"union", "union all"})
    <3>1. open'[j].union = open[j].union
      BY <1>2, <2>2
    <3> QED BY <1>2, <1>6, <3>1 DEF WaitInOrder, UnionsWait
  <2> QED BY <2>1, <2>2
<1>11. FromsMade'
  <2> SUFFICES ASSUME NEW j \in 1..(n - 1), open'[j].from # 0
               PROVE  open'[j].from \in Closed \cup {id}
    BY <1>1, <1>4 DEF FromsMade
  <2> QED BY <1>2, <1>6 DEF WaitInOrder, FromsMade
<1>12. StacksClear'
  <2> SUFFICES ASSUME NEW d \in Depths, d \notin 1..(n - 1) PROVE select_stack'[d] = <<>>
    BY <1>1 DEF StacksClear, Depths
  <2>1. CASE d = n
    BY <1>3, <2>1
  <2>2. CASE d # n
    <3>1. d \notin 1..Len(open)
      BY <1>1, <2>2
    <3>2. select_stack[d] = <<>>
      BY <3>1 DEF WaitInOrder, StacksClear
    <3>3. ~ (d = n - 1 /\ role = "condition")
      <4>1. n = 1 \/ n - 1 \in 1..(n - 1)
        BY <1>1
      <4> QED BY <1>1, <4>1
    <3> QED BY <1>3, <2>2, <3>2, <3>3
  <2> QED BY <2>1, <2>2
<1>13. OuterFirst'
  BY <1>5 DEF WaitInOrder, OuterFirst, Ids
<1> QED BY <1>8, <1>9, <1>10, <1>11, <1>12, <1>13 DEF WaitInOrder

(* What all actions keep.                                                  *)
Reading == ParserTypes /\ OpenInOrder /\ WaitInOrder

(* Every step keeps the parser's state in order.                           *)
LEMMA ReadingKept ==
    ASSUME Reading, [Next]_vars
    PROVE  Reading'
<1> USE DEF Reading
<1>1. Len(open) \in Nat /\ ListsWait
  BY DEF ParserTypes, WaitInOrder
<1>2. ASSUME Parse PROVE Reading'
  <2>1. /\ open' = <<>> /\ selects' = <<>> /\ within' = <<>> /\ outer' = {} /\ pc' = "parsing"
        /\ UNCHANGED <<depth, corr_stack, select_stack>> /\ open = <<>>
    BY <1>2 DEF Parse, parser, ParserTypes
  <2>2. Len(open') = 0 /\ Len(open) = 0 /\ Len(within') = 0
    BY <2>1
  <2>3. 1..Len(open') = {} /\ 1..(Len(open') - 1) = {} /\ 1..Len(within') = {}
    BY <2>2
  <2>4. AreSelects(selects') /\ DOMAIN selects' = {}
    BY <2>1 DEF AreSelects
  <2>5. ParserTypes'
    <3>1. open' \in Seq(Frames)' /\ within' \in Seq([as : RoleNames, of : Nat])
      BY <2>1
    <3>2. MaxSelects \in Nat
      BY SelectTreeAssumption
    <3> QED BY <2>1, <2>2, <2>4, <3>1, <3>2 DEF ParserTypes
  <2>6. OpenInOrder'
    BY <2>3 DEF OpenInOrder, FramesMatch, MadeAreMade, FramesNest, IdsGrow
  <2>7. StacksClear'
    BY <2>1 DEF WaitInOrder, StacksClear
  <2>8. OuterFirst'
    BY <2>3 DEF OuterFirst, Ids
  <2>9. ListsWait' /\ ConditionsWait' /\ UnionsWait' /\ FromsMade'
    BY <2>3 DEF ListsWait, ConditionsWait, UnionsWait, FromsMade
  <2> QED BY <2>5, <2>6, <2>7, <2>8, <2>9 DEF WaitInOrder
<1>3. ASSUME SelectWord PROVE Reading'
  BY <1>3, WordKeepsTypes, WordKeepsWait
<1>4. ASSUME ProjectionClause \/ FromClause \/ SelectOptions PROVE Reading'
  <2>1. ParserTypes' /\ OpenInOrder' /\ Closed' = Closed
    BY <1>1, <1>4, PartsKeepTypes, NoneClosed
  <2>2. PICK p \in Parts : open # <<>> /\ open' = [open EXCEPT ![Len(open)].part = p]
    BY <1>4 DEF ProjectionClause, FromClause, SelectOptions, Parts
  <2>3. /\ Len(open') = Len(open) /\ Len(open) \in 1..Len(open)
        /\ \A j \in 1..Len(open) :
              /\ open'[j].id = open[j].id /\ open'[j].list = open[j].list
              /\ open'[j].from = open[j].from /\ open'[j].union = open[j].union
              /\ open'[j].part = IF j = Len(open) THEN p ELSE open[j].part
    BY <2>2, NextPart
  <2>4. open[Len(open)].part # "made"
    BY <1>4 DEF ProjectionClause, FromClause, SelectOptions, Top, Last
  <2>5. open[Len(open)].union = 0
    BY <2>3, <2>4 DEF WaitInOrder, UnionsWait
  <2>6. \A j \in 1..Len(open) : open[j].union # 0 => open'[j].part = open[j].part
    BY <2>3, <2>5
  <2>7. UNCHANGED <<select_stack, within>>
    BY <1>4 DEF ProjectionClause, FromClause, SelectOptions, parser, text
  <2>8. WaitInOrder'
    BY <1>1, <2>1, <2>3, <2>6, <2>7, WaitStays
  <2> QED BY <2>1, <2>8
<1>5. ASSUME UnknownColumn PROVE Reading'
  <2>1. /\ open # <<>> /\ Top.id \in Ids /\ depth \in Depths
        /\ corr_stack' = [corr_stack EXCEPT ![depth] = TRUE] /\ outer' = outer \cup {Top.id}
        /\ UNCHANGED <<depth, select_stack, open, selects, within, pc>>
    <3>1. Len(open) \in 1..Len(open) /\ Top = open[Len(open)]
      BY <1>5 DEF UnknownColumn, ParserTypes, Top, Last
    <3>2. Top.id \in Len(open)..Len(within)
      BY <3>1 DEF OpenInOrder, FramesMatch
    <3>3. Top.id \in Ids
      BY <1>1, <3>1, <3>2 DEF Ids
    <3>4. depth \in Depths
      BY <1>1, SelectTreeAssumption DEF ParserTypes, Depths
    <3> QED BY <1>5, <3>3, <3>4 DEF UnknownColumn
  <2>2. ParserTypes'
    <3>1. corr_stack' \in [Depths -> BOOLEAN] /\ outer' \subseteq Ids
      BY <2>1 DEF ParserTypes
    <3> QED BY <2>1, <3>1 DEF ParserTypes, Ids
  <2>3. OpenInOrder'
    BY <2>1 DEF OpenInOrder, FramesMatch, MadeAreMade, FramesNest, Nests, IdsGrow
  <2>4. Closed' = Closed
    BY <1>1, <1>5, NoneClosed
  <2> QED BY <1>1, <2>1, <2>2, <2>3, <2>4, WaitStays
<1>6. ASSUME SelectStatement PROVE Reading'
  BY <1>6, StatementKeepsTypes, StatementKeepsWait
<1>7. ASSUME GetResource PROVE Reading'
  <2>1. UNCHANGED <<open, select_stack, within>>
    BY <1>7 DEF GetResource, parser, text
  <2>2. Closed' = Closed
    BY <1>1, <1>7, NoneClosed
  <2>3. WaitInOrder'
    BY <1>1, <2>1, <2>2, WaitStays
  <2> QED BY <1>7, <2>3, ResourcesOnly
<1>8. ASSUME SyntaxError \/ UNCHANGED vars PROVE Reading'
  <2>1. /\ UNCHANGED <<depth, corr_stack, select_stack, open, selects, within, outer>>
        /\ pc' = pc \/ pc' = "crashed"
    BY <1>8 DEF SyntaxError, vars, parser, text
  <2>2. ParserTypes'
    BY <2>1 DEF ParserTypes, Ids
  <2>3. OpenInOrder'
    BY <2>1 DEF OpenInOrder, FramesMatch, MadeAreMade, FramesNest, Nests, IdsGrow
  <2>4. Closed' = Closed
    BY <2>1 DEF Closed, IsOpen
  <2> QED BY <1>1, <2>1, <2>2, <2>3, <2>4, WaitStays
<1> QED BY <1>2, <1>3, <1>4, <1>5, <1>6, <1>7, <1>8 DEF Next

(* Before the first query nothing is open.                                 *)
LEMMA ReadingAtFirst == Init => Reading /\ CorrelatedInv
<1> SUFFICES ASSUME Init PROVE Reading /\ CorrelatedInv
  OBVIOUS
<1>1. /\ depth = 0 /\ open = <<>> /\ selects = <<>> /\ within = <<>> /\ outer = {} /\ pc = "idle"
      /\ corr_stack = [d \in Depths |-> FALSE] /\ select_stack = [d \in Depths |-> <<>>]
  BY DEF Init
<1>2. /\ Len(open) = 0 /\ 1..Len(open) = {} /\ 1..(Len(open) - 1) = {} /\ Ids = {}
      /\ DOMAIN selects = {} /\ Closed = {} /\ MaxSelects \in Nat
  BY <1>1, SelectTreeAssumption DEF Ids, Closed
<1>3. ParserTypes
  <2>1. select_stack \in [Depths -> Seq(Nat)] /\ corr_stack \in [Depths -> BOOLEAN]
    BY <1>1
  <2>2. AreSelects(selects)
    BY <1>1, <1>2 DEF AreSelects
  <2>3. open \in Seq(Frames) /\ within \in Seq([as : RoleNames, of : Nat]) /\ Len(within) = 0
    BY <1>1
  <2> QED BY <1>1, <1>2, <2>1, <2>2, <2>3 DEF ParserTypes
<1>4. OpenInOrder
  BY <1>2 DEF OpenInOrder, FramesMatch, MadeAreMade, FramesNest, IdsGrow
<1>5. WaitInOrder
  BY <1>1, <1>2 DEF WaitInOrder, ListsWait, ConditionsWait, UnionsWait, FromsMade, StacksClear,
                    OuterFirst
<1>6. CorrelatedInv
  BY <1>2 DEF CorrelatedInv
<1> QED BY <1>3, <1>4, <1>5, <1>6 DEF Reading

(* While a query is read there is always a way back: between queries no    *)
(* select is open.                                                         *)
LEMMA NoneOpen ==
    ASSUME ParserTypes, pc = "idle"
    PROVE  Closed = DOMAIN selects /\ 1..Len(open) = {}
<1>1. open = <<>>
  BY DEF ParserTypes
<1>2. Len(open) = 0
  BY <1>1
<1>3. 1..Len(open) = {}
  BY <1>2
<1>4. \A s : ~ IsOpen(s)
  BY <1>3 DEF IsOpen
<1> QED BY <1>3, <1>4 DEF Closed

(* A select is run for every row of the one around it exactly if it names  *)
(* a column of that one, or comes after UNION ALL: corr_stack is that      *)
(* select's own entry whenever it is read or written, although one stack   *)
(* serves all selects and all queries and is never emptied.                *)
THEOREM DependentSelectsKnown == Spec => []CorrelatedIfOuter
<1>1. Init => Reading /\ CorrelatedInv
  BY ReadingAtFirst
<1>2. Reading /\ CorrelatedInv /\ [Next]_vars => (Reading /\ CorrelatedInv)'
  BY ReadingKept, CorrelatedKept DEF Reading, WaitInOrder
<1>3. Reading /\ CorrelatedInv => CorrelatedIfOuter
  BY NoneOpen DEF Reading, CorrelatedInv, CorrelatedIfOuter, Read
<1> QED BY <1>1, <1>2, <1>3, PTL DEF Spec
-----------------------------------------------------------------------------
(* Where the sub-selects are.                                              *)

(* The elements of two sequences joined, each once if no two agree.        *)
LEMMA ConcatIs ==
    ASSUME NEW a \in Seq(Nat), NEW b \in Seq(Nat)
    PROVE  /\ a \o b \in Seq(Nat)
           /\ ToSet(a \o b) = ToSet(a) \cup ToSet(b)
           /\ (IsInjective(a \o b)) = (IsInjective(a) /\ IsInjective(b) /\ ToSet(a) \cap ToSet(b) = {})
<1> DEFINE m == Len(a)
           n == Len(b)
           ab == a \o b
<1>1. /\ m \in Nat /\ n \in Nat /\ DOMAIN a = 1..m /\ DOMAIN b = 1..n /\ DOMAIN ab = 1..(m + n)
      /\ \A i \in 1..m : ab[i] = a[i]
      /\ \A i \in 1..n : ab[m + i] = b[i]
      /\ ab \in Seq(Nat)
  OBVIOUS
<1> HIDE DEF m, n, ab
<1>2. ASSUME NEW i \in 1..(m + n)
      PROVE  i \in 1..m \/ \E k \in 1..n : i = m + k
  <2>1. CASE i <= m
    BY <1>1, <2>1
  <2>2. CASE i > m
    <3>1. i - m \in 1..n /\ i = m + (i - m)
      BY <1>1, <2>2
    <3> QED BY <3>1
  <2> QED BY <1>1, <2>1, <2>2
<1>3. (\A i \in 1..m : i \in 1..(m + n)) /\ (\A k \in 1..n : m + k \in 1..(m + n) /\ m + k \notin 1..m)
  BY <1>1
<1>4. ToSet(ab) = ToSet(a) \cup ToSet(b)
  <2>1. ASSUME NEW x \in ToSet(ab) PROVE x \in ToSet(a) \cup ToSet(b)
    <3>1. PICK i \in 1..(m + n) : x = ab[i]
      BY <1>1 DEF ToSet
    <3>2. CASE i \in 1..m
      BY <1>1, <3>1, <3>2 DEF ToSet
    <3>3. CASE \E k \in 1..n : i = m + k
      <4>1. PICK k \in 1..n : i = m + k
        BY <3>3
      <4>2. x = b[k]
        BY <1>1, <3>1, <4>1
      <4> QED BY <1>1, <4>2 DEF ToSet
    <3> QED BY <1>2, <3>2, <3>3
  <2>2. ASSUME NEW x \in ToSet(a) PROVE x \in ToSet(ab)
    BY <1>1, <1>3 DEF ToSet
  <2>3. ASSUME NEW x \in ToSet(b) PROVE x \in ToSet(ab)
    <3>1. PICK k \in 1..n : x = b[k]
      BY <1>1 DEF ToSet
    <3>2. x = ab[m + k] /\ m + k \in DOMAIN ab
      BY <1>1, <1>3, <3>1
    <3> QED BY <3>2 DEF ToSet
  <2> QED BY <2>1, <2>2, <2>3
<1>5. ASSUME IsInjective(ab)
      PROVE  IsInjective(a) /\ IsInjective(b) /\ ToSet(a) \cap ToSet(b) = {}
  <2>1. \A i, k \in 1..(m + n) : ab[i] = ab[k] => i = k
    BY <1>1, <1>5 DEF IsInjective
  <2>2. IsInjective(a)
    BY <1>1, <1>3, <2>1 DEF IsInjective
  <2>3. \A i, k \in 1..n : b[i] = b[k] => m + i = m + k
    BY <1>1, <1>3, <2>1
  <2>4. \A i, k \in 1..n : m + i = m + k => i = k
    BY <1>1
  <2>5. IsInjective(b)
    BY <1>1, <2>3, <2>4 DEF IsInjective
  <2>6. ToSet(a) \cap ToSet(b) = {}
    BY <1>1, <1>3, <2>1 DEF ToSet
  <2> QED BY <2>2, <2>5, <2>6
<1>6. ASSUME IsInjective(a), IsInjective(b), ToSet(a) \cap ToSet(b) = {}
      PROVE  IsInjective(ab)
  <2> SUFFICES ASSUME NEW i \in 1..(m + n), NEW k \in 1..(m + n), ab[i] = ab[k] PROVE i = k
    BY <1>1 DEF IsInjective
  <2>1. \A x \in 1..m, y \in 1..n : a[x] # b[y]
    BY <1>1, <1>6 DEF ToSet
  <2>2. CASE i \in 1..m /\ k \in 1..m
    BY <1>1, <1>6, <2>2 DEF IsInjective
  <2>3. CASE i \in 1..m /\ \E y \in 1..n : k = m + y
    <3>1. PICK y \in 1..n : k = m + y
      BY <2>3
    <3>2. ab[k] = b[y] /\ ab[i] = a[i]
      BY <1>1, <2>3, <3>1
    <3> QED BY <2>1, <2>3, <3>2
  <2>4. CASE k \in 1..m /\ \E y \in 1..n : i = m + y
    <3>1. PICK y \in 1..n : i = m + y
      BY <2>4
    <3>2. ab[i] = b[y] /\ ab[k] = a[k]
      BY <1>1, <2>4, <3>1
    <3> QED BY <2>1, <2>4, <3>2
  <2>5. CASE (\E x \in 1..n : i = m + x) /\ \E y \in 1..n : k = m + y
    <3>1. PICK x \in 1..n, y \in 1..n : i = m + x /\ k = m + y
      BY <2>5
    <3>2. b[x] = b[y]
      BY <1>1, <3>1
    <3>3. x = y
      BY <1>1, <1>6, <3>2 DEF IsInjective
    <3> QED BY <3>1, <3>3
  <2> QED BY <1>2, <2>2, <2>3, <2>4, <2>5
<1>7. (IsInjective(ab)) = (IsInjective(a) /\ IsInjective(b) /\ ToSet(a) \cap ToSet(b) = {})
  <2>1. IsInjective(ab) \in BOOLEAN
    BY DEF IsInjective
  <2> QED BY <1>5, <1>6, <2>1
<1> QED BY <1>1, <1>4, <1>7 DEF ab

(* A sub-select that waits is complete and waits with the select it is in. *)
LEMMA HeldAreClosed ==
    ASSUME Reading, NEW j \in 1..Len(open), NEW c \in HeldIn(j)
    PROVE  /\ c \in Closed /\ within[c].of = open[j].id
           /\ within[c].as \in {"list", "condition", "union", "union all"}
           /\ c \in HeldInList(open[j]) <=> within[c].as = "list"
           /\ c \in ToSet(select_stack[j]) <=> within[c].as = "condition"
           /\ c \in HeldInList(open[j]) => c \in ToSet(open[j].list)
<1>1. open[j] \in Frames /\ open[j].list \in Seq(Nat)
  <2>1. open[j] \in Frames
    BY DEF Reading, ParserTypes
  <2> QED BY <2>1 DEF Frames
<1>2. ASSUME c \in HeldInList(open[j]) PROVE c \in ToSet(open[j].list)
  <2>1. open[j].list # <<>> => open[j].list[1] \in ToSet(open[j].list)
    BY <1>1 DEF ToSet
  <2> QED BY <1>2, <2>1 DEF HeldInList
<1>3. ASSUME c \in HeldInList(open[j])
      PROVE  c \in Closed /\ within[c].of = open[j].id /\ within[c].as = "list"
  BY <1>2, <1>3 DEF Reading, WaitInOrder, ListsWait
<1>4. ASSUME c \in ToSet(select_stack[j])
      PROVE  c \in Closed /\ within[c].of = open[j].id /\ within[c].as = "condition"
  BY <1>4 DEF Reading, WaitInOrder, ConditionsWait
<1>5. ASSUME c \in {open[j].union} \ {0}
      PROVE  c \in Closed /\ within[c].of = open[j].id /\ within[c].as \in {"union", "union all"}
  BY <1>5 DEF Reading, WaitInOrder, UnionsWait
<1>6. c \in HeldInList(open[j]) \/ c \in ToSet(select_stack[j]) \/ c \in {open[j].union} \ {0}
  BY DEF HeldIn
<1> QED BY <1>2, <1>3, <1>4, <1>5, <1>6

(* It waits in one place only.                                             *)
LEMMA HeldOnce ==
    ASSUME Reading, NEW j \in 1..Len(open), NEW k \in 1..Len(open),
           NEW c \in HeldIn(j), c \in HeldIn(k)
    PROVE  j = k
<1>1. open[j].id = open[k].id
  <2>1. within[c].of = open[j].id
    BY HeldAreClosed
  <2>2. within[c].of = open[k].id
    BY HeldAreClosed
  <2> QED BY <2>1, <2>2
<1>2. j < k \/ k < j \/ j = k
  BY DEF Reading, ParserTypes
<1>3. open[j].id \in Nat
  <2>1. open[j] \in Frames
    BY DEF Reading, ParserTypes
  <2> QED BY <2>1 DEF Frames
<1> QED BY <1>1, <1>2, <1>3 DEF Reading, OpenInOrder, IdsGrow

(* A step that gives waiting sub-selects their places, new[p] those with   *)
(* p, and moves none that has one.                                         *)
LEMMA HomeStep ==
    ASSUME Reading, Reading', AtHome, NEW new,
           DOMAIN selects \subseteq DOMAIN selects',
           \A p \in DOMAIN selects' :
              /\ IsInjective(selects'[p].siblings \o selects'[p].kids)
              /\ \A c : c \in ToSet(selects'[p].siblings \o selects'[p].kids)
                        <=> c \in new[p] \/ (p \in DOMAIN selects /\ c \in ToSet(Children(p))),
           \A p \in DOMAIN selects' : \A c \in new[p] :
              /\ c \in Held /\ c \in Closed' /\ c \notin Held'
              /\ within'[c].as \notin {"command", "from"} /\ p < c
              /\ p = within'[c].of \/ (within'[c].as = "list" /\ within'[p] = within'[c]),
           \A p, q \in DOMAIN selects' : \A c \in new[p] \cap new[q] : p = q,
           Closed \subseteq Closed',
           \A c \in Held' : c \in Held \/ c \notin Closed,
           \A c \in Closed' \ Held' :
              \/ c \in Closed \ Held
              \/ \E p \in DOMAIN selects' : c \in new[p]
              \/ within'[c].as \in {"command", "from"},
           \A s \in DOMAIN selects : within'[s] = within[s]
    PROVE  AtHome'
<1>1. Closed \subseteq DOMAIN selects
  BY DEF Closed
<1>2. ASSUME NEW p \in DOMAIN selects, NEW c \in ToSet(Children(p))
      PROVE  c \in Closed /\ c \notin Held /\ Suits(p, c) /\ c \in Closed' /\ c \notin Held'
  <2>1. c \in Closed /\ c \notin Held /\ Suits(p, c)
    BY DEF AtHome, ChildrenSuit
  <2> QED BY <2>1
<1>3. ChildrenSuit'
  <2> SUFFICES ASSUME NEW p \in DOMAIN selects'
               PROVE  /\ IsInjective(selects'[p].siblings \o selects'[p].kids)
                      /\ \A c \in ToSet(selects'[p].siblings \o selects'[p].kids) :
                            /\ c \in Closed' /\ c \notin Held'
                            /\ within'[c].as \notin {"command", "from"} /\ p < c
                            /\ p = within'[c].of \/ (within'[c].as = "list" /\ within'[p] = within'[c])
    BY DEF ChildrenSuit, Children, Suits
  <2>1. ASSUME NEW c \in ToSet(selects'[p].siblings \o selects'[p].kids)
        PROVE  /\ c \in Closed' /\ c \notin Held'
               /\ within'[c].as \notin {"command", "from"} /\ p < c
               /\ p = within'[c].of \/ (within'[c].as = "list" /\ within'[p] = within'[c])
    <3>1. CASE c \in new[p]
      BY <3>1
    <3>2. CASE p \in DOMAIN selects /\ c \in ToSet(Children(p))
      <4>1. c \in Closed' /\ c \notin Held' /\ Suits(p, c) /\ c \in DOMAIN selects
        BY <1>1, <1>2, <3>2
      <4>2. within'[c] = within[c] /\ within'[p] = within[p]
        BY <3>2, <4>1
      <4> QED BY <4>1, <4>2 DEF Suits
    <3> QED BY <2>1, <3>1, <3>2
  <2> QED BY <2>1
<1>4. OneParent'
  <2> SUFFICES ASSUME NEW p \in DOMAIN selects', NEW q \in DOMAIN selects', NEW c,
                      c \in ToSet(selects'[p].siblings \o selects'[p].kids),
                      c \in ToSet(selects'[q].siblings \o selects'[q].kids)
               PROVE  p = q
    BY DEF OneParent, Children
  <2>1. c \in new[p] \/ (p \in DOMAIN selects /\ c \in ToSet(Children(p)))
    OBVIOUS
  <2>2. c \in new[q] \/ (q \in DOMAIN selects /\ c \in ToSet(Children(q)))
    OBVIOUS
  <2>3. CASE c \in new[p] \/ c \in new[q]
    <3>1. c \in Held
      BY <2>3
    <3>2. c \in new[p] /\ c \in new[q]
      BY <1>2, <2>1, <2>2, <3>1
    <3> QED BY <3>2
  <2>4. CASE c \notin new[p] /\ c \notin new[q]
    BY <2>1, <2>2, <2>4 DEF AtHome, OneParent
  <2> QED BY <2>3, <2>4
<1>5. EachHasAParent'
  <2> SUFFICES ASSUME NEW c \in Closed' \ Held'
               PROVE  \/ within'[c].as \in {"command", "from"}
                      \/ \E p \in DOMAIN selects' : c \in ToSet(selects'[p].siblings \o selects'[p].kids)
    BY DEF EachHasAParent, Children
  <2>1. CASE c \in Closed \ Held
    <3>1. within[c].as \in {"command", "from"} \/ \E p \in DOMAIN selects : c \in ToSet(Children(p))
      BY <2>1 DEF AtHome, EachHasAParent
    <3>2. within'[c] = within[c]
      BY <1>1, <2>1
    <3>3. CASE \E p \in DOMAIN selects : c \in ToSet(Children(p))
      <4>1. PICK p \in DOMAIN selects : c \in ToSet(Children(p))
        BY <3>3
      <4> QED BY <4>1
    <3> QED BY <3>1, <3>2, <3>3
  <2>2. CASE \E p \in DOMAIN selects' : c \in new[p]
    BY <2>2
  <2> QED BY <2>1, <2>2
<1> QED BY <1>3, <1>4, <1>5 DEF AtHome

(* A step that leaves the Selects and what waits leaves all at home.       *)
LEMMA HomeStays ==
    ASSUME Reading, Reading', AtHome, Closed' = Closed, Held' = Held,
           DOMAIN selects' = DOMAIN selects,
           \A s \in DOMAIN selects :
              /\ selects'[s].kids = selects[s].kids /\ selects'[s].siblings = selects[s].siblings
              /\ within'[s] = within[s]
    PROVE  AtHome'
<1> DEFINE new == [p \in DOMAIN selects' |-> {}]
<1>1. \A p \in DOMAIN selects' : new[p] = {}
  OBVIOUS
<1> HIDE DEF new
<1>2. ASSUME NEW p \in DOMAIN selects'
      PROVE  /\ IsInjective(selects'[p].siblings \o selects'[p].kids)
             /\ \A c : c \in ToSet(selects'[p].siblings \o selects'[p].kids)
                       <=> c \in new[p] \/ (p \in DOMAIN selects /\ c \in ToSet(Children(p)))
  <2>1. selects'[p].siblings \o selects'[p].kids = Children(p) /\ p \in DOMAIN selects
    BY DEF Children
  <2>2. IsInjective(Children(p))
    BY <2>1 DEF AtHome, ChildrenSuit
  <2> QED BY <1>1, <2>1, <2>2
<1> QED BY <1>1, <1>2, HomeStep

(* A select that has just been opened holds nothing, and columns, tables   *)
(* and resources have no part in it.                                       *)
LEMMA OthersKeepHome ==
    ASSUME Reading, AtHome, Reading',
           \/ SelectWord \/ FromClause \/ UnknownColumn \/ GetResource \/ SyntaxError
           \/ UNCHANGED vars
    PROVE  AtHome'
<1>1. ListsWait /\ ParserTypes /\ OpenInOrder /\ Len(open) \in Nat
  BY DEF Reading, WaitInOrder, ParserTypes
<1>2. CASE SelectWord
  <2> DEFINE n == Len(open)
  <2>1. n \in Nat /\ n + 1 \in Depths /\ n = Len(open)
    <3>1. Len(open) < MaxSelects /\ MaxSelects \in Nat
      <4>1. Len(within) < MaxSelects /\ Len(open) <= Len(within)
        BY <1>1, <1>2, WordOpens
      <4>2. Len(within) \in Nat
        BY <1>1 DEF ParserTypes
      <4> QED BY <1>1, <4>1, <4>2, SelectTreeAssumption
    <3> QED BY <1>1, <3>1 DEF Depths
  <2>2. PICK role \in RoleNames :
           /\ open' = Append(open, Opened(Len(within) + 1, role))
           /\ within' = Append(within, [as |-> role, of |-> IF open = <<>> THEN 0 ELSE Top.id])
    BY <1>1, <1>2, WordOpens
  <2>3. /\ Len(open') = n + 1 /\ open'[n + 1].list = <<>> /\ open'[n + 1].union = 0
        /\ open'[n + 1].part = "list" /\ \A j \in 1..n : open'[j] = open[j]
    BY <1>1, <2>2 DEF ParserTypes, Opened
  <2>4. UNCHANGED <<selects, select_stack>> /\ Closed' = Closed
    BY <1>1, <1>2, NoneClosed DEF SelectWord
  <2>5. \A s \in DOMAIN selects : within'[s] = within[s]
    BY <1>1, <2>2 DEF ParserTypes, Ids
  <2> HIDE DEF n
  <2>6. select_stack[n + 1] = <<>>
    BY <2>1 DEF Reading, WaitInOrder, StacksClear
  <2>7. Held' = Held
    <3> DEFINE holds(f, j) == HeldInList(f) \cup ToSet(select_stack[j]) \cup ({f.union} \ {0})
    <3>1. \A j \in 1..n : holds(open'[j], j) = HeldIn(j)
      BY <2>3 DEF HeldIn
    <3>2. holds(open'[n + 1], n + 1) = {}
      <4>1. HeldInList(open'[n + 1]) = {}
        BY <2>3 DEF HeldInList, ToSet
      <4>2. ToSet(select_stack[n + 1]) = {}
        BY <2>6 DEF ToSet
      <4> QED BY <2>3, <4>1, <4>2
    <3>3. Held' = UNION {holds(open'[j], j) : j \in 1..(n + 1)}
      BY <2>3, <2>4 DEF Held, HeldIn
    <3>4. Held = UNION {HeldIn(j) : j \in 1..n}
      BY <2>1 DEF Held
    <3>5. \A j \in 1..(n + 1) : j \in 1..n \/ j = n + 1
      BY <2>1
    <3>6. \A j \in 1..n : j \in 1..(n + 1)
      BY <2>1
    <3> HIDE DEF holds
    <3> QED BY <3>1, <3>2, <3>3, <3>4, <3>5, <3>6
  <2> QED BY <2>4, <2>5, <2>7, HomeStays
<1>3. CASE FromClause
  <2>1. /\ open # <<>> /\ open' = [open EXCEPT ![Len(open)].part = "where"]
        /\ open[Len(open)].part = "from" /\ UNCHANGED <<selects, select_stack, within>>
    BY <1>3 DEF FromClause, Top, Last, parser, text
  <2>2. /\ Len(open') = Len(open)
        /\ \A j \in 1..Len(open) :
              /\ open'[j].list = open[j].list /\ open'[j].union = open[j].union
              /\ open'[j].part = IF j = Len(open) THEN "where" ELSE open[j].part
    BY <1>1, <2>1, NextPart DEF Parts
  <2>3. ASSUME NEW j \in 1..Len(open) PROVE HeldInList(open'[j]) = HeldInList(open[j])
    <3>1. CASE j = Len(open)
      <4>1. /\ HeldInList(open[j]) = IF open[j].list # <<>> THEN {open[j].list[1]} ELSE {}
            /\ HeldInList(open'[j]) = IF open'[j].list # <<>> THEN {open'[j].list[1]} ELSE {}
        BY <2>1, <2>2, <3>1 DEF HeldInList
      <4> QED BY <2>2, <4>1
    <3>2. CASE j # Len(open)
      BY <2>2, <3>2 DEF HeldInList
    <3> QED BY <3>1, <3>2
  <2>4. Held' = Held
    BY <2>1, <2>2, <2>3 DEF Held, HeldIn
  <2>5. Closed' = Closed
    BY <1>1, <1>3, NoneClosed
  <2> QED BY <2>1, <2>4, <2>5, HomeStays
<1>4. CASE UnknownColumn \/ GetResource \/ SyntaxError \/ UNCHANGED vars
  <2>1. UNCHANGED <<open, select_stack, within>>
    BY <1>4 DEF UnknownColumn, GetResource, SyntaxError, vars, parser, text
  <2>2. /\ DOMAIN selects' = DOMAIN selects
        /\ \A s \in DOMAIN selects :
              selects'[s].kids = selects[s].kids /\ selects'[s].siblings = selects[s].siblings
    <3>1. CASE GetResource
      BY <1>1, <3>1, ResourcesOnly
    <3>2. CASE UNCHANGED selects
      BY <3>2
    <3> QED BY <1>4, <3>1, <3>2 DEF UnknownColumn, SyntaxError, vars
  <2>3. Held' = Held /\ Closed' = Closed
    BY <2>1, <2>2 DEF Held, HeldIn, Closed, IsOpen
  <2> QED BY <2>1, <2>2, <2>3, HomeStays
<1> QED BY <1>2, <1>3, <1>4

(* The sub-selects of a list, but for the first, get their places.         *)
LEMMA ProjectionKeepsHome ==
    ASSUME Reading, AtHome, Reading', ProjectionClause
    PROVE  AtHome'
<1> DEFINE n == Len(open)
           list == open[n].list
           l == Len(list)
           now(j) == HeldInList(open'[j]) \cup ToSet(select_stack[j]) \cup ({open'[j].union} \ {0})
           new == [p \in DOMAIN selects |-> {list[m + 1] : m \in {k \in 1..(l - 1) : p = list[k]}}]
<1>1. /\ n \in 1..n /\ n = Len(open) /\ n \in 1..Len(open) /\ n \in Nat
      /\ open # <<>> /\ Top = open[n] /\ open[n].part = "list"
      /\ open' = [open EXCEPT ![n].part = "from"]
      /\ UNCHANGED <<select_stack, within>>
  BY DEF ProjectionClause, Top, Last, parser, text, Reading, ParserTypes
<1>2. /\ list \in Seq(Nat) /\ Increasing(list) /\ l \in Nat
      /\ \A m \in 1..l : list[m] \in ToSet(list) /\ list[m] \in Nat
      /\ \A c \in ToSet(list) : \E m \in 1..l : c = list[m]
  <2>1. open[n] \in Frames
    BY <1>1 DEF Reading, ParserTypes
  <2>2. list \in Seq(Nat)
    BY <2>1 DEF Frames
  <2>3. Increasing(list)
    BY <1>1 DEF Reading, WaitInOrder, ListsWait
  <2> HIDE DEF n
  <2> QED BY <2>2, <2>3 DEF ToSet
<1>3. ASSUME NEW c \in ToSet(list)
      PROVE  c \in Closed /\ within[c].as = "list" /\ within[c].of = open[n].id
  BY <1>1, <1>3 DEF Reading, WaitInOrder, ListsWait
<1>4. /\ Len(open') = n
      /\ \A j \in 1..n : /\ open'[j].list = open[j].list /\ open'[j].union = open[j].union
                         /\ open'[j].part = IF j = n THEN "from" ELSE open[j].part
  BY <1>1, NextPart DEF Reading, Parts
<1>5. /\ DOMAIN selects' = DOMAIN selects
      /\ \A s \in DOMAIN selects :
            /\ selects'[s].kids = selects[s].kids
            /\ (\A m \in 1..(l - 1) : s # list[m]) => selects'[s].siblings = selects[s].siblings
            /\ \A m \in 1..(l - 1) :
                  s = list[m] => selects'[s].siblings = Append(selects[s].siblings, list[m + 1])
  <2>1. CASE Len(Top.list) > 1
    <3>1. selects' = ChainSiblings(selects, list)
      BY <1>1, <2>1 DEF ProjectionClause
    <3>2. AreSelects(selects)
      BY DEF Reading, ParserTypes
    <3>3. l = Len(list)
      OBVIOUS
    <3>4. list \in Seq(Nat) /\ Increasing(list)
      BY <1>2
    <3> HIDE DEF list, n, l
    <3>5. /\ DOMAIN selects' = DOMAIN selects
          /\ \A s \in DOMAIN selects :
                /\ selects'[s].kids = selects[s].kids
                /\ (\A m \in 1..(Len(list) - 1) : s # list[m])
                      => selects'[s].siblings = selects[s].siblings
                /\ \A m \in 1..(Len(list) - 1) :
                      s = list[m] => selects'[s].siblings = Append(selects[s].siblings, list[m + 1])
      <4>1. DOMAIN selects' = DOMAIN selects /\ Chained(selects', selects, list)
        BY <3>1, <3>2, <3>4, ChainIs
      <4> QED BY <4>1 DEF Chained
    <3> QED BY <3>3, <3>5
  <2>2. CASE ~ Len(Top.list) > 1
    <3>1. selects' = selects
      BY <2>2 DEF ProjectionClause
    <3>2. 1..(l - 1) = {}
      BY <1>1, <1>2, <2>2
    <3> QED BY <3>1, <3>2
  <2> QED BY <2>1, <2>2
<1>6. \A p, q \in 1..l : list[p] = list[q] => p = q
  BY <1>2, FoundWhereItIs
<1>7. Closed' = Closed /\ Closed \subseteq DOMAIN selects
  BY NoneClosed DEF Reading, WaitInOrder, Closed
<1>8. Held' = UNION {now(j) : j \in 1..n}
  BY <1>1, <1>4 DEF Held, HeldIn
<1>9. \A j \in 1..n : j # n => now(j) = HeldIn(j)
  BY <1>4 DEF HeldIn, HeldInList
<1>10. open[n].union = 0
  BY <1>1 DEF Reading, WaitInOrder, UnionsWait
<1>11. HeldIn(n) = ToSet(list) \cup ToSet(select_stack[n])
  <2>1. HeldInList(open[n]) = ToSet(list)
    BY <1>1 DEF HeldInList
  <2> QED BY <1>10, <2>1 DEF HeldIn
<1>12. now(n) = (IF l > 0 THEN {list[1]} ELSE {}) \cup ToSet(select_stack[n])
  <2>1. HeldInList(open'[n]) = IF open'[n].list # <<>> THEN {open'[n].list[1]} ELSE {}
    BY <1>1, <1>4 DEF HeldInList
  <2>2. open'[n].list = list /\ (list # <<>>) = (l > 0)
    BY <1>1, <1>2, <1>4
  <2> QED BY <1>1, <1>4, <1>10, <2>1, <2>2
<1>13. Held = UNION {HeldIn(j) : j \in 1..n}
  BY <1>1 DEF Held
<1>14. ASSUME NEW c \in ToSet(select_stack[n]) PROVE within[c].as = "condition"
  BY <1>1, <1>14 DEF Reading, WaitInOrder, ConditionsWait
<1>15. ASSUME NEW c, NEW j \in 1..n, c \in HeldIn(j), c \in HeldIn(n) PROVE j = n
  BY <1>1, <1>15, HeldOnce
<1> HIDE DEF now, n, list, l
<1>16. \A m \in 1..(l - 1) : m \in 1..l /\ m + 1 \in 1..l /\ m < m + 1 /\ m + 1 # 1
  BY <1>2
<1>17. \A j \in 1..n : now(j) \subseteq HeldIn(j)
  <2>1. l > 0 => list[1] \in ToSet(list)
    BY <1>2
  <2> QED BY <1>9, <1>11, <1>12, <2>1
<1>18. ASSUME NEW m \in 1..(l - 1)
       PROVE  list[m + 1] \in Held /\ list[m + 1] \in Closed /\ list[m + 1] \notin Held'
  <2>1. list[m + 1] \in ToSet(list)
    BY <1>2, <1>16
  <2>2. list[m + 1] \in HeldIn(n)
    BY <1>11, <2>1
  <2>3. ASSUME NEW j \in 1..n, list[m + 1] \in now(j) PROVE FALSE
    <3>1. list[m + 1] \in HeldIn(j)
      BY <1>17, <2>3
    <3>2. j = n
      BY <1>15, <2>2, <3>1
    <3>3. list[m + 1] \notin ToSet(select_stack[n])
      BY <1>3, <1>14, <2>1
    <3>4. l > 0 /\ list[m + 1] = list[1]
      BY <1>12, <2>3, <3>2, <3>3
    <3>5. 1 \in 1..l /\ m + 1 \in 1..l /\ m + 1 # 1
      BY <1>2, <1>16, <3>4
    <3> QED BY <1>6, <3>4, <3>5
  <2> QED BY <1>1, <1>3, <1>8, <1>13, <2>1, <2>2, <2>3
<1>19. ASSUME NEW p \in DOMAIN selects
       PROVE  /\ IsInjective(selects'[p].siblings \o selects'[p].kids)
              /\ \A c : c \in ToSet(selects'[p].siblings \o selects'[p].kids)
                        <=> c \in new[p] \/ c \in ToSet(Children(p))
  <2>1. /\ selects[p].siblings \in Seq(Nat) /\ selects[p].kids \in Seq(Nat)
        /\ IsInjective(selects[p].siblings \o selects[p].kids)
        /\ Children(p) = selects[p].siblings \o selects[p].kids
        /\ \A c \in ToSet(Children(p)) : c \notin Held
    BY DEF Reading, ParserTypes, AreSelects, IsSelect, AtHome, ChildrenSuit, Children
  <2>2. CASE \A m \in 1..(l - 1) : p # list[m]
    <3>1. new[p] = {}
      BY <2>2
    <3> QED BY <1>5, <2>1, <2>2, <3>1
  <2>3. ASSUME NEW m \in 1..(l - 1), p = list[m]
        PROVE  /\ IsInjective(selects'[p].siblings \o selects'[p].kids)
               /\ \A c : c \in ToSet(selects'[p].siblings \o selects'[p].kids)
                         <=> c \in new[p] \/ c \in ToSet(Children(p))
    <3> DEFINE x == list[m + 1]
               sib == selects[p].siblings
               kids == selects[p].kids
    <3>1. selects'[p].siblings = Append(sib, x) /\ selects'[p].kids = kids
      BY <1>5, <2>3
    <3>2. x \in Nat /\ x \notin ToSet(sib \o kids)
      BY <1>2, <1>16, <1>18, <2>1
    <3>3. new[p] = {x}
      <4>1. \A k \in 1..(l - 1) : p = list[k] => k = m
        BY <1>6, <1>16, <2>3
      <4>2. {k \in 1..(l - 1) : p = list[k]} = {m}
        BY <2>3, <4>1
      <4> QED BY <4>2
    <3> HIDE DEF new, x, sib, kids
    <3>4. sib \in Seq(Nat) /\ kids \in Seq(Nat) /\ IsInjective(sib \o kids) /\ Children(p) = sib \o kids
      BY <2>1 DEF sib, kids
    <3>5. /\ ToSet(sib \o kids) = ToSet(sib) \cup ToSet(kids)
          /\ IsInjective(sib) /\ IsInjective(kids) /\ ToSet(sib) \cap ToSet(kids) = {}
      BY <3>4, ConcatIs
    <3>6. /\ Append(sib, x) \in Seq(Nat) /\ ToSet(Append(sib, x)) = ToSet(sib) \cup {x}
          /\ IsInjective(Append(sib, x))
      BY <3>2, <3>4, <3>5, AppendAdds
    <3>7. ToSet(Append(sib, x)) \cap ToSet(kids) = {}
      BY <3>2, <3>5, <3>6
    <3>8. /\ ToSet(Append(sib, x) \o kids) = ToSet(Append(sib, x)) \cup ToSet(kids)
          /\ IsInjective(Append(sib, x) \o kids)
      BY <3>4, <3>5, <3>6, <3>7, ConcatIs
    <3> QED BY <3>1, <3>3, <3>4, <3>5, <3>6, <3>8
  <2> QED BY <2>2, <2>3
<1>20. ASSUME NEW p \in DOMAIN selects, NEW c \in new[p]
       PROVE  \E m \in 1..(l - 1) : p = list[m] /\ c = list[m + 1]
  BY <1>20
<1>21. ASSUME NEW m \in 1..(l - 1) PROVE list[m] \in DOMAIN selects /\ list[m + 1] \in new[list[m]]
  <2>1. list[m] \in DOMAIN selects
    BY <1>2, <1>3, <1>7, <1>16
  <2> QED BY <2>1
<1> HIDE DEF new
<1>22. ASSUME NEW p \in DOMAIN selects, NEW c \in new[p]
       PROVE  /\ c \in Held /\ c \in Closed' /\ c \notin Held'
              /\ within'[c].as = "list" /\ p < c /\ within'[p] = within'[c]
  <2>1. PICK m \in 1..(l - 1) : p = list[m] /\ c = list[m + 1]
    BY <1>20
  <2>2. p < c
    <3>1. m \in 1..Len(list) /\ m + 1 \in 1..Len(list) /\ m < m + 1
      BY <1>16 DEF l
    <3> QED BY <1>2, <2>1, <3>1 DEF Increasing
  <2>3. p \in ToSet(list) /\ c \in ToSet(list)
    BY <1>2, <1>16, <2>1
  <2>4. within[p] = within[c]
    <3>1. /\ within[p].as = "list" /\ within[c].as = "list" /\ within[p].of = within[c].of
          /\ p \in Ids /\ c \in Ids
      BY <1>3, <1>7, <2>3 DEF Reading, ParserTypes
    <3>2. within[p] \in [as : RoleNames, of : Nat] /\ within[c] \in [as : RoleNames, of : Nat]
      <4> DEFINE marks == [as : RoleNames, of : Nat]
      <4>1. within \in Seq(marks) /\ p \in 1..Len(within) /\ c \in 1..Len(within)
        BY <3>1 DEF Reading, ParserTypes, Ids
      <4> HIDE DEF marks
      <4>2. within[p] \in marks /\ within[c] \in marks
        BY <4>1
      <4> QED BY <4>2 DEF marks
    <3> QED BY <3>1, <3>2
  <2> QED BY <1>1, <1>3, <1>7, <1>18, <2>1, <2>2, <2>3, <2>4
<1>23. ASSUME NEW p \in DOMAIN selects, NEW q \in DOMAIN selects, NEW c \in new[p] \cap new[q]
       PROVE  p = q
  <2>1. PICK m \in 1..(l - 1) : p = list[m] /\ c = list[m + 1]
    BY <1>20
  <2>2. PICK k \in 1..(l - 1) : q = list[k] /\ c = list[k + 1]
    BY <1>20
  <2>3. m + 1 = k + 1
    BY <1>6, <1>16, <2>1, <2>2
  <2> QED BY <1>2, <2>1, <2>2, <2>3
<1>24. \A c \in Held' : c \in Held
  BY <1>8, <1>13, <1>17
<1>25. ASSUME NEW c \in Closed' \ Held'
       PROVE  c \in Closed \ Held \/ \E p \in DOMAIN selects : c \in new[p]
  <2> SUFFICES ASSUME c \in Held PROVE \E p \in DOMAIN selects : c \in new[p]
    BY <1>7
  <2>1. PICK j \in 1..n : c \in HeldIn(j)
    BY <1>13
  <2>2. c \notin now(j)
    BY <1>8
  <2>3. j = n /\ c \in ToSet(list) /\ ~ (l > 0 /\ c = list[1])
    BY <1>9, <1>11, <1>12, <2>1, <2>2
  <2>4. PICK m \in 1..l : c = list[m]
    BY <1>2, <2>3
  <2>5. m - 1 \in 1..(l - 1) /\ (m - 1) + 1 = m
    BY <1>2, <2>3, <2>4
  <2> QED BY <1>21, <2>4, <2>5
<1>26. \A p \in DOMAIN selects' :
              /\ IsInjective(selects'[p].siblings \o selects'[p].kids)
              /\ \A c : c \in ToSet(selects'[p].siblings \o selects'[p].kids)
                        <=> c \in new[p] \/ (p \in DOMAIN selects /\ c \in ToSet(Children(p)))
  BY <1>5, <1>19
<1>27. \A p \in DOMAIN selects' : \A c \in new[p] :
              /\ c \in Held /\ c \in Closed' /\ c \notin Held'
              /\ within'[c].as \notin {"command", "from"} /\ p < c
              /\ p = within'[c].of \/ (within'[c].as = "list" /\ within'[p] = within'[c])
  BY <1>5, <1>22
<1>28. \A p, q \in DOMAIN selects' : \A c \in new[p] \cap new[q] : p = q
  BY <1>5, <1>23
<1>29. \A c \in Closed' \ Held' :
              \/ c \in Closed \ Held
              \/ \E p \in DOMAIN selects' : c \in new[p]
              \/ within'[c].as \in {"command", "from"}
  BY <1>5, <1>25
<1> QED BY <1>1, <1>5, <1>7, <1>24, <1>26, <1>27, <1>28, <1>29, HomeStep

(* The first of the list gets its place when the Select is made.           *)
LEMMA OptionsKeepHome ==
    ASSUME Reading, AtHome, Reading', SelectOptions
    PROVE  AtHome'
<1> DEFINE n == Len(open)
           id == open[n].id
           list == open[n].list
           now(j) == HeldInList(open'[j]) \cup ToSet(select_stack[j]) \cup ({open'[j].union} \ {0})
           first == IF list = <<>> THEN {} ELSE {list[1]}
           new == [p \in DOMAIN selects' |-> IF p = id THEN first ELSE {}]
<1>1. /\ n \in 1..n /\ n = Len(open) /\ n \in 1..Len(open) /\ n \in Nat
      /\ open # <<>> /\ Top = open[n] /\ open[n].part = "where"
      /\ open' = [open EXCEPT ![n].part = "made"]
      /\ UNCHANGED <<select_stack, within>>
  BY DEF SelectOptions, Top, Last, parser, text, Reading, ParserTypes
<1>2. list \in Seq(Nat) /\ (list # <<>> => list[1] \in ToSet(list) /\ Head(list) = list[1])
  <2>1. open[n] \in Frames
    BY <1>1 DEF Reading, ParserTypes
  <2>2. list \in Seq(Nat)
    BY <2>1 DEF Frames
  <2> HIDE DEF n
  <2> QED BY <2>2 DEF ToSet
<1>3. ASSUME NEW c \in ToSet(list)
      PROVE  c \in Closed /\ within[c].as = "list" /\ within[c].of = id
  BY <1>1, <1>3 DEF Reading, WaitInOrder, ListsWait
<1>4. /\ Len(open') = n
      /\ \A j \in 1..n : /\ open'[j].list = open[j].list /\ open'[j].union = open[j].union
                         /\ open'[j].part = IF j = n THEN "made" ELSE open[j].part
  BY <1>1, NextPart DEF Reading, Parts
<1>5. /\ DOMAIN selects' = DOMAIN selects \cup {id} /\ id \notin DOMAIN selects
      /\ \A s \in DOMAIN selects : selects'[s] = selects[s]
      /\ selects'[id].siblings \o selects'[id].kids = IF list = <<>> THEN <<>> ELSE <<list[1]>>
  BY <1>1, <1>2, SelectBegun DEF Reading
<1>6. Closed' = Closed /\ Closed \subseteq DOMAIN selects
  BY NoneClosed DEF Reading, WaitInOrder, Closed
<1>7. Held' = UNION {now(j) : j \in 1..n}
  BY <1>1, <1>4 DEF Held, HeldIn
<1>8. \A j \in 1..n : j # n => now(j) = HeldIn(j)
  BY <1>4 DEF HeldIn, HeldInList
<1>9. open[n].union = 0
  BY <1>1 DEF Reading, WaitInOrder, UnionsWait
<1>10. HeldIn(n) = first \cup ToSet(select_stack[n])
  <2>1. HeldInList(open[n]) = first
    <3>1. HeldInList(open[n]) = IF open[n].list # <<>> THEN {open[n].list[1]} ELSE {}
      BY <1>1 DEF HeldInList
    <3> QED BY <3>1
  <2> QED BY <1>9, <2>1 DEF HeldIn
<1>11. now(n) = ToSet(select_stack[n])
  <2>1. HeldInList(open'[n]) = {}
    BY <1>1, <1>4 DEF HeldInList
  <2> QED BY <1>1, <1>4, <1>9, <2>1
<1>12. Held = UNION {HeldIn(j) : j \in 1..n}
  BY <1>1 DEF Held
<1>13. ASSUME NEW c \in ToSet(select_stack[n]) PROVE within[c].as = "condition"
  BY <1>1, <1>13 DEF Reading, WaitInOrder, ConditionsWait
<1>14. ASSUME NEW c, NEW j \in 1..n, c \in HeldIn(j), c \in HeldIn(n) PROVE j = n
  BY <1>1, <1>14, HeldOnce
<1>15. first \subseteq ToSet(list)
  BY <1>2
<1>16. ASSUME NEW c \in first PROVE c \in Nat /\ id < c
  <2>1. c \in Ids /\ within[c].of = id
    BY <1>3, <1>6, <1>15 DEF Reading, ParserTypes
  <2> QED BY <2>1 DEF Reading, WaitInOrder, OuterFirst, Ids
<1>17. /\ ToSet(selects'[id].siblings \o selects'[id].kids) = first
       /\ IsInjective(selects'[id].siblings \o selects'[id].kids)
  <2>1. CASE list = <<>>
    BY <1>5, <2>1 DEF ToSet, IsInjective
  <2>2. CASE list # <<>>
    BY <1>5, <2>2 DEF ToSet, IsInjective
  <2> QED BY <2>1, <2>2
<1>18. \A p \in DOMAIN selects' : new[p] = IF p = id THEN first ELSE {}
  OBVIOUS
<1> HIDE DEF now, n, list, id, first, new
<1>19. \A j \in 1..n : now(j) \subseteq HeldIn(j)
  BY <1>8, <1>10, <1>11
<1>20. ASSUME NEW c \in first
       PROVE  c \in Held /\ c \in Closed' /\ c \notin Held'
  <2>1. c \in HeldIn(n)
    BY <1>10
  <2>2. ASSUME NEW j \in 1..n, c \in now(j) PROVE FALSE
    <3>1. j = n
      BY <1>14, <1>19, <2>1, <2>2
    <3>2. within[c].as = "condition"
      BY <1>11, <1>13, <2>2, <3>1
    <3> QED BY <1>3, <1>15, <3>2
  <2> QED BY <1>1, <1>3, <1>6, <1>7, <1>12, <1>15, <2>1, <2>2
<1>21. \A c \in Held' : c \in Held
  BY <1>7, <1>12, <1>19
<1>22. \A p \in DOMAIN selects' :
              /\ IsInjective(selects'[p].siblings \o selects'[p].kids)
              /\ \A c : c \in ToSet(selects'[p].siblings \o selects'[p].kids)
                        <=> c \in new[p] \/ (p \in DOMAIN selects /\ c \in ToSet(Children(p)))
  <2>1. ASSUME NEW p \in DOMAIN selects
        PROVE  selects'[p].siblings \o selects'[p].kids = Children(p) /\ IsInjective(Children(p))
    BY <1>5 DEF AtHome, ChildrenSuit, Children
  <2> QED BY <1>5, <1>17, <1>18, <2>1
<1>23. \A p \in DOMAIN selects' : \A c \in new[p] :
              /\ c \in Held /\ c \in Closed' /\ c \notin Held'
              /\ within'[c].as \notin {"command", "from"} /\ p < c
              /\ p = within'[c].of \/ (within'[c].as = "list" /\ within'[p] = within'[c])
  BY <1>1, <1>3, <1>15, <1>16, <1>18, <1>20
<1>24. \A p, q \in DOMAIN selects' : \A c \in new[p] \cap new[q] : p = q
  BY <1>18
<1>25. \A c \in Closed' \ Held' :
              \/ c \in Closed \ Held
              \/ \E p \in DOMAIN selects' : c \in new[p]
              \/ within'[c].as \in {"command", "from"}
  <2> SUFFICES ASSUME NEW c \in Held, c \notin Held' PROVE \E p \in DOMAIN selects' : c \in new[p]
    BY <1>6
  <2>1. PICK j \in 1..n : c \in HeldIn(j)
    BY <1>12
  <2>2. c \notin now(j)
    BY <1>7
  <2>3. c \in first
    BY <1>8, <1>10, <1>11, <2>1, <2>2
  <2> QED BY <1>5, <1>18, <2>3
<1> QED BY <1>1, <1>5, <1>6, <1>21, <1>22, <1>23, <1>24, <1>25, HomeStep

(* A Select that is complete gets the sub-selects of its conditions and    *)
(* the one after its UNION, and waits itself unless it is the outermost or *)
(* in FROM.                                                                *)
LEMMA StatementKeepsHome ==
    ASSUME Reading, AtHome, Reading', SelectStatement
    PROVE  AtHome'
<1> DEFINE n == Len(open)
           id == open[n].id
           role == open[n].role
           union == open[n].union
           stack == select_stack[n]
           now(j) == HeldInList(open'[j]) \cup ToSet(select_stack'[j]) \cup ({open'[j].union} \ {0})
           waits == IF role \in {"command", "from"} THEN {} ELSE {id}
           new == [p \in DOMAIN selects' |-> IF p = id THEN HeldIn(n) ELSE {}]
<1>1. /\ n = Len(open) /\ n \in Nat \ {0} /\ n \in 1..n /\ n \in 1..Len(open)
      /\ Top = open[n] /\ open[n] \in Frames
      /\ id \in DOMAIN selects /\ open[n].part = "made" /\ (role = "command") = (n = 1)
      /\ Len(open') = n - 1
  <2>1. n \in Nat \ {0}
    BY HandedOver DEF Reading
  <2>2. Top = open[n] /\ open[n] \in Frames
    BY HandedOver DEF Reading
  <2>3. id \in DOMAIN selects /\ open[n].part = "made" /\ (role = "command") = (n = 1)
        /\ Len(open') = n - 1
    BY <2>2, HandedOver DEF Reading
  <2> HIDE DEF id, role
  <2> QED BY <2>1, <2>2, <2>3
<1>2. ASSUME NEW j \in 1..(n - 1)
      PROVE  /\ open'[j].part = open[j].part
             /\ open'[j].list = IF j = n - 1 /\ role = "list" THEN Append(open[j].list, id)
                                ELSE open[j].list
             /\ open'[j].union = IF j = n - 1 /\ role \in {"union", "union all"} THEN id
                                 ELSE open[j].union
  BY <1>1, <1>2, HandedOver DEF Reading
<1>3. \A d \in Depths : select_stack'[d] =
                    IF d = n THEN <<>>
                    ELSE IF d = n - 1 /\ role = "condition"
                         THEN Append(select_stack[d], id) ELSE select_stack[d]
  BY <1>1, SelectCompleted DEF Reading
<1>4. /\ DOMAIN selects' = DOMAIN selects
      /\ \A s \in DOMAIN selects \ {id} : selects'[s] = selects[s]
      /\ selects'[id].kids = selects[id].kids \o stack
      /\ selects'[id].siblings = IF union = 0 THEN selects[id].siblings
                                 ELSE Append(selects[id].siblings, union)
  BY <1>1, SelectCompleted DEF Reading
<1>5. Closed' = Closed \cup {id} /\ id \notin Closed
  BY <1>1, OneClosed DEF Reading
<1>6. UNCHANGED within
  BY DEF SelectStatement, text
<1>7. Held' = UNION {now(j) : j \in 1..(n - 1)}
  BY <1>1 DEF Held, HeldIn
<1>8. Held = UNION {HeldIn(j) : j \in 1..n}
  BY <1>1 DEF Held
<1>9. HeldIn(n) = ToSet(stack) \cup ({union} \ {0})
  <2>1. HeldInList(open[n]) = {}
    BY <1>1 DEF HeldInList
  <2> QED BY <2>1 DEF HeldIn
<1>10. id \in Nat \ {0} /\ within[id].as = role /\ role \in RoleNames
  <2>1. open[n].id \in n..Len(within) /\ within[open[n].id].as = open[n].role
    BY <1>1 DEF Reading, OpenInOrder, FramesMatch
  <2>2. role \in RoleNames
    BY <1>1 DEF Frames
  <2> QED BY <1>1, <2>1, <2>2
<1>11. ASSUME NEW j \in 1..n, NEW c \in HeldIn(j)
       PROVE  c \in Closed /\ (c \in HeldIn(n) => j = n)
  BY <1>1, HeldAreClosed, HeldOnce
<1>12. ASSUME NEW c \in HeldIn(n)
       PROVE  /\ c \in Closed /\ within[c].of = id
              /\ within[c].as \in {"condition", "union", "union all"}
              /\ c \in ToSet(stack) <=> within[c].as = "condition"
  <2>1. c \notin HeldInList(open[n])
    BY <1>1 DEF HeldInList
  <2> QED BY <1>1, <2>1, HeldAreClosed
<1>13. stack \in Seq(Nat) /\ IsInjective(stack) /\ union \in Nat
  <2>1. n \in Depths
    <3>1. n <= MaxSelects /\ MaxSelects \in Nat
      BY <1>1, SelectTreeAssumption DEF Reading, ParserTypes
    <3> QED BY <1>1, <3>1 DEF Depths
  <2>2. IsInjective(stack)
    BY <1>1 DEF Reading, WaitInOrder, ConditionsWait
  <2> QED BY <1>1, <2>1, <2>2 DEF Reading, ParserTypes, Frames
<1>14. /\ selects[id].siblings \in Seq(Nat) /\ selects[id].kids \in Seq(Nat)
       /\ Children(id) = selects[id].siblings \o selects[id].kids
       /\ IsInjective(Children(id)) /\ \A c \in ToSet(Children(id)) : c \notin Held
  BY <1>1 DEF Reading, ParserTypes, AreSelects, IsSelect, AtHome, ChildrenSuit, Children
<1>15. ASSUME NEW j \in 1..(n - 1)
       PROVE  j \in 1..n /\ j # n /\ j \in Depths /\ j \in 1..Len(open)
  <2>1. n <= MaxSelects /\ MaxSelects \in Nat
    BY <1>1, SelectTreeAssumption DEF Reading, ParserTypes
  <2> QED BY <1>1, <2>1 DEF Depths
<1>16. n - 1 \in 1..(n - 1) =>
          /\ open[n - 1].part = PartOfRole(role)
          /\ role \in {"union", "union all"} => open[n - 1].union = 0
          /\ open[n - 1].list \in Seq(Nat) /\ select_stack[n - 1] \in Seq(Nat)
  <2> SUFFICES ASSUME n - 1 \in 1..(n - 1)
               PROVE  /\ open[n - 1].part = PartOfRole(role)
                      /\ role \in {"union", "union all"} => open[n - 1].union = 0
                      /\ open[n - 1].list \in Seq(Nat) /\ select_stack[n - 1] \in Seq(Nat)
    OBVIOUS
  <2>1. (n - 1) + 1 = n /\ n - 1 \in 1..(Len(open) - 1)
    BY <1>1
  <2>2. Nests(open[n - 1], open[n])
    BY <2>1 DEF Reading, OpenInOrder, FramesNest
  <2>3. n - 1 \in Depths /\ n - 1 \in 1..Len(open)
    BY <1>15
  <2>4. open[n - 1] \in Frames
    BY <2>3 DEF Reading, ParserTypes
  <2>5. select_stack[n - 1] \in Seq(Nat)
    BY <2>3 DEF Reading, ParserTypes
  <2> QED BY <2>2, <2>4, <2>5 DEF Nests, Frames
<1>17. \A p \in DOMAIN selects' : new[p] = IF p = id THEN HeldIn(n) ELSE {}
  OBVIOUS
<1> HIDE DEF n, id, role, union, stack, new
<1>18. ASSUME NEW j \in 1..(n - 1)
       PROVE  now(j) = HeldIn(j) \cup (IF j = n - 1 THEN waits ELSE {})
  <2>1. CASE j # n - 1
    <3>1. /\ open'[j].list = open[j].list /\ open'[j].part = open[j].part
          /\ open'[j].union = open[j].union /\ select_stack'[j] = select_stack[j]
      BY <1>2, <1>3, <1>15, <2>1
    <3> QED BY <2>1, <3>1 DEF HeldIn, HeldInList
  <2>2. CASE j = n - 1
    <3>1. open'[j].part = open[j].part /\ open[j].part = PartOfRole(role)
      BY <1>2, <1>16, <2>2
    <3>2. role # "command"
      BY <1>1, <2>2
    <3>3. open[j].list \in Seq(Nat) /\ select_stack[j] \in Seq(Nat) /\ id \in Nat
      BY <1>10, <1>16, <2>2
    <3>4. CASE role = "list"
      <4>1. /\ open'[j].list = Append(open[j].list, id)
            /\ open'[j].union = open[j].union /\ select_stack'[j] = select_stack[j]
        BY <1>2, <1>3, <1>15, <2>2, <3>4
      <4>2. PartOfRole(role) = "list"
        BY <3>4 DEF PartOfRole
      <4>3. HeldInList(open'[j]) = ToSet(open'[j].list) /\ HeldInList(open[j]) = ToSet(open[j].list)
        BY <3>1, <4>2 DEF HeldInList
      <4>4. ToSet(open'[j].list) = ToSet(open[j].list) \cup {id}
        BY <3>3, <4>1, AppendAdds
      <4> QED BY <2>2, <3>4, <4>1, <4>3, <4>4 DEF HeldIn
    <3>5. CASE role = "from"
      <4>1. /\ open'[j].list = open[j].list
            /\ open'[j].union = open[j].union /\ select_stack'[j] = select_stack[j]
        BY <1>2, <1>3, <1>15, <2>2, <3>5
      <4>2. HeldInList(open'[j]) = HeldInList(open[j])
        BY <3>1, <4>1 DEF HeldInList
      <4> QED BY <2>2, <3>5, <4>1, <4>2 DEF HeldIn
    <3>6. CASE role = "condition"
      <4>1. /\ open'[j].list = open[j].list
            /\ open'[j].union = open[j].union /\ select_stack'[j] = Append(select_stack[j], id)
        BY <1>2, <1>3, <1>15, <2>2, <3>6
      <4>2. HeldInList(open'[j]) = HeldInList(open[j])
        BY <3>1, <4>1 DEF HeldInList
      <4>3. ToSet(select_stack'[j]) = ToSet(select_stack[j]) \cup {id}
        BY <3>3, <4>1, AppendAdds
      <4> QED BY <2>2, <3>6, <4>1, <4>2, <4>3 DEF HeldIn
    <3>7. CASE role \in {"union", "union all"}
      <4>1. /\ open'[j].list = open[j].list /\ open[j].union = 0
            /\ open'[j].union = id /\ select_stack'[j] = select_stack[j]
        BY <1>2, <1>3, <1>15, <1>16, <2>2, <3>7
      <4>2. HeldInList(open'[j]) = HeldInList(open[j])
        BY <3>1, <4>1 DEF HeldInList
      <4> QED BY <1>10, <2>2, <3>7, <4>1, <4>2 DEF HeldIn
    <3> QED BY <1>10, <3>2, <3>4, <3>5, <3>6, <3>7 DEF RoleNames
  <2> QED BY <2>1, <2>2
<1>19. /\ ToSet(selects'[id].siblings \o selects'[id].kids) = ToSet(Children(id)) \cup HeldIn(n)
       /\ IsInjective(selects'[id].siblings \o selects'[id].kids)
  <2> DEFINE sib == selects[id].siblings
             kids == selects[id].kids
             sibs == selects'[id].siblings
             added == {union} \ {0}
  <2>1. /\ sib \in Seq(Nat) /\ kids \in Seq(Nat) /\ IsInjective(sib) /\ IsInjective(kids)
        /\ ToSet(sib) \cap ToSet(kids) = {} /\ ToSet(Children(id)) = ToSet(sib) \cup ToSet(kids)
    BY <1>14, ConcatIs
  <2>2. selects'[id].kids = kids \o stack /\ sibs = IF union = 0 THEN sib ELSE Append(sib, union)
    BY <1>4
  <2>3. HeldIn(n) \cap ToSet(Children(id)) = {}
    BY <1>1, <1>8, <1>14
  <2>4. union # 0 => union \notin ToSet(stack)
    <3> SUFFICES ASSUME union # 0 PROVE union \notin ToSet(stack)
      OBVIOUS
    <3>1. union \in HeldIn(n) /\ union = open[n].union
      BY <1>9 DEF union
    <3>2. within[union].as # "condition"
      BY <1>1, <3>1 DEF Reading, WaitInOrder, UnionsWait
    <3> QED BY <1>12, <3>1, <3>2
  <2> HIDE DEF sib, kids, sibs
  <2>5. sibs \in Seq(Nat) /\ ToSet(sibs) = ToSet(sib) \cup added /\ IsInjective(sibs)
    <3>1. CASE union = 0
      BY <2>1, <2>2, <3>1
    <3>2. CASE union # 0
      <4>1. union \notin ToSet(sib) /\ sibs = Append(sib, union)
        BY <1>9, <2>1, <2>2, <2>3, <3>2
      <4> QED BY <1>13, <2>1, <3>2, <4>1, AppendAdds
    <3> QED BY <3>1, <3>2
  <2>6. ToSet(kids) \cap ToSet(stack) = {}
    BY <1>9, <2>1, <2>3
  <2>7. /\ kids \o stack \in Seq(Nat) /\ ToSet(kids \o stack) = ToSet(kids) \cup ToSet(stack)
        /\ IsInjective(kids \o stack)
    BY <1>13, <2>1, <2>6, ConcatIs
  <2>8. ToSet(sibs) \cap ToSet(kids \o stack) = {}
    BY <1>9, <2>1, <2>3, <2>4, <2>5, <2>7
  <2>9. /\ ToSet(sibs \o (kids \o stack)) = ToSet(sibs) \cup ToSet(kids \o stack)
        /\ IsInjective(sibs \o (kids \o stack))
    BY <2>5, <2>7, <2>8, ConcatIs
  <2> QED BY <1>9, <2>1, <2>2, <2>5, <2>7, <2>9 DEF sibs
<1> HIDE DEF now
<1>20. ASSUME NEW c \in HeldIn(n)
       PROVE  /\ c \in Held /\ c \in Closed' /\ c \notin Held'
              /\ within[c].as \notin {"command", "from"} /\ id < c /\ id = within[c].of
  <2>1. c \in Closed /\ c # id
    BY <1>5, <1>12
  <2>2. ASSUME NEW j \in 1..(n - 1), c \in now(j) PROVE FALSE
    <3>1. c \in HeldIn(j)
      BY <1>18, <2>1, <2>2
    <3> QED BY <1>11, <1>15, <3>1
  <2>3. id < c
    <3>1. c \in Ids
      BY <2>1 DEF Closed, Reading, ParserTypes
    <3> QED BY <1>12, <3>1 DEF Reading, WaitInOrder, OuterFirst
  <2> QED BY <1>1, <1>5, <1>7, <1>8, <1>12, <2>1, <2>2, <2>3
<1>21. \A c \in Held' : c \in Held \/ c \notin Closed
  BY <1>5, <1>7, <1>8, <1>15, <1>18
<1>22. \A p \in DOMAIN selects' :
              /\ IsInjective(selects'[p].siblings \o selects'[p].kids)
              /\ \A c : c \in ToSet(selects'[p].siblings \o selects'[p].kids)
                        <=> c \in new[p] \/ (p \in DOMAIN selects /\ c \in ToSet(Children(p)))
  <2>1. ASSUME NEW p \in DOMAIN selects, p # id
        PROVE  selects'[p].siblings \o selects'[p].kids = Children(p) /\ IsInjective(Children(p))
    BY <1>4, <2>1 DEF AtHome, ChildrenSuit, Children
  <2> QED BY <1>4, <1>17, <1>19, <2>1
<1>23. \A p \in DOMAIN selects' : \A c \in new[p] :
              /\ c \in Held /\ c \in Closed' /\ c \notin Held'
              /\ within'[c].as \notin {"command", "from"} /\ p < c
              /\ p = within'[c].of \/ (within'[c].as = "list" /\ within'[p] = within'[c])
  BY <1>6, <1>17, <1>20
<1>24. \A p, q \in DOMAIN selects' : \A c \in new[p] \cap new[q] : p = q
  BY <1>17
<1>25. \A c \in Closed' \ Held' :
              \/ c \in Closed \ Held
              \/ \E p \in DOMAIN selects' : c \in new[p]
              \/ within'[c].as \in {"command", "from"}
  <2> SUFFICES ASSUME NEW c \in Closed', c \notin Held', ~ (c \in Closed \ Held)
               PROVE  \/ \E p \in DOMAIN selects' : c \in new[p]
                      \/ within[c].as \in {"command", "from"}
    BY <1>6
  <2>1. CASE c = id
    <3>1. CASE role \in {"command", "from"}
      BY <1>10, <2>1, <3>1
    <3>2. CASE role \notin {"command", "from"}
      <4>1. n - 1 \in 1..(n - 1)
        BY <1>1, <3>2
      <4>2. id \in now(n - 1)
        BY <1>18, <3>2, <4>1
      <4> QED BY <1>7, <2>1, <4>1, <4>2
    <3> QED BY <3>1, <3>2
  <2>2. CASE c # id
    <3>1. c \in Held
      BY <1>5, <2>2
    <3>2. PICK j \in 1..n : c \in HeldIn(j)
      BY <1>8, <3>1
    <3>3. CASE j = n
      BY <1>1, <1>4, <1>17, <3>2, <3>3
    <3>4. CASE j # n
      <4>1. j \in 1..(n - 1)
        BY <1>1, <3>4
      <4>2. c \in now(j)
        BY <1>18, <3>2, <4>1
      <4> QED BY <1>7, <4>1, <4>2
    <3> QED BY <3>3, <3>4
  <2> QED BY <2>1, <2>2
<1> QED BY <1>4, <1>5, <1>6, <1>21, <1>22, <1>23, <1>24, <1>25, HomeStep

(* Every step leaves every sub-select at home or waiting.                  *)
LEMMA HomeKept ==
    ASSUME Reading, AtHome, [Next]_vars
    PROVE  AtHome'
<1>1. Reading'
  BY ReadingKept
<1>2. ASSUME Parse PROVE AtHome'
  <2>1. DOMAIN selects' = {} /\ Closed' = {}
    BY <1>2 DEF Parse, Closed
  <2> QED BY <2>1 DEF AtHome, ChildrenSuit, OneParent, EachHasAParent
<1> QED BY <1>1, <1>2, OthersKeepHome, ProjectionKeepsHome, OptionsKeepHome, StatementKeepsHome
        DEF Next

(* Between queries every sub-select but the one in FROM has one parent:    *)
(* the select it is written in, or the one before it in a select list.     *)
LEMMA AtHomeWhenRead ==
    ASSUME Reading, AtHome, pc = "idle"
    PROVE  SubselectsAtHome
<1>1. Closed = DOMAIN selects /\ Held = {}
  BY NoneOpen DEF Reading, Held
<1> SUFFICES ASSUME NEW s \in DOMAIN selects
             PROVE  /\ IsInjective(Children(s))
                    /\ Cardinality(Parents(s)) =
                          IF within[s].as \in {"command", "from"} THEN 0 ELSE 1
                    /\ \A p \in Parents(s) :
                          p = within[s].of \/ (within[s].as = "list" /\ within[p] = within[s])
  BY DEF SubselectsAtHome
<1>2. ASSUME NEW p \in Parents(s)
      PROVE  p \in DOMAIN selects /\ s \in ToSet(Children(p)) /\ Suits(p, s)
  BY <1>2 DEF Parents, AtHome, ChildrenSuit
<1>3. CASE within[s].as \in {"command", "from"}
  <2>1. Parents(s) = {}
    BY <1>2, <1>3 DEF Suits
  <2> QED BY <1>2, <1>3, <2>1, FS_EmptySet DEF AtHome, ChildrenSuit
<1>4. CASE within[s].as \notin {"command", "from"}
  <2>1. PICK p \in DOMAIN selects : s \in ToSet(Children(p))
    BY <1>1, <1>4 DEF AtHome, EachHasAParent
  <2>2. Parents(s) = {p}
    BY <2>1 DEF Parents, AtHome, OneParent
  <2>3. Cardinality(Parents(s)) = 1
    BY <2>2, FS_Singleton
  <2> QED BY <1>2, <1>4, <2>3 DEF AtHome, ChildrenSuit, Suits
<1> QED BY <1>3, <1>4

(* However lists, conditions, FROM and UNION are nested, each sub-select   *)
(* ends in the place of the tree where it is written, once: none is taken  *)
(* from the stack of another select, none is chained twice and none is     *)
(* lost on the way.                                                        *)
THEOREM EverySubselectOnce == Spec => []SubselectsAtHome
<1>1. Init => Reading /\ AtHome
  <2> SUFFICES ASSUME Init PROVE Reading /\ AtHome
    OBVIOUS
  <2>1. DOMAIN selects = {} /\ Closed = {}
    BY DEF Init, Closed
  <2>2. AtHome
    BY <2>1 DEF AtHome, ChildrenSuit, OneParent, EachHasAParent
  <2> QED BY <2>2, ReadingAtFirst
<1>2. Reading /\ AtHome /\ [Next]_vars => (Reading /\ AtHome)'
  BY ReadingKept, HomeKept
<1>3. Reading /\ AtHome => SubselectsAtHome
  BY AtHomeWhenRead DEF SubselectsAtHome, Read
<1> QED BY <1>1, <1>2, <1>3, PTL DEF Spec
-----------------------------------------------------------------------------
(* What getResource collects.                                              *)

(* All that is merged when the resources f of the kids are merged into     *)
(* start: the fetched tables are those of the last.                        *)
AllOf(f, kids, start) ==
    LET full == start.full \cup UNION {f[k].full : k \in ToSet(kids)}
    IN  [full    |-> full,
         indexes |-> start.indexes \cup UNION {f[k].indexes : k \in ToSet(kids)},
         retr    |-> f[kids[Len(kids)]].retr \ full]

MergedAll(f, kids, start) == IF kids = <<>> THEN start ELSE AllOf(f, kids, start)

(* A Select that holds what its plan reads and what its children hold.     *)
Settled(s) ==
    selects[s].resource =
       MergedAll([k \in DOMAIN selects |-> selects[k].resource], Children(s), selects[s].own)

ResourcesInv ==
    /\ asked \in Nat /\ parsed \in Nat
    /\ \A s \in DOMAIN selects : selects[s].own.full \cap selects[s].own.retr = {}
    /\ pc = "idle" => IF parsed = 0 THEN DOMAIN selects = {} ELSE select_result \in DOMAIN selects
    /\ pc = "parsing" => asked = 0
    /\ asked = 0 => \A s \in DOMAIN selects : selects[s].resource = selects[s].own
    /\ pc = "idle" /\ asked > 0 => \A s \in Tree(select_result) : Settled(s)

(* One kid after the other, as getResource merges them.                    *)
MergesUp(g, f, kids, start) ==
    g = [j \in 0..Len(kids) |-> IF j = 0 THEN start ELSE Merge(f[kids[j]], g[j - 1])]

Merging(f, kids, start) ==
    LET merged[j \in 0..Len(kids)] == IF j = 0 THEN start ELSE Merge(f[kids[j]], merged[j - 1])
    IN  merged[Len(kids)]

(* The merges, one after the other, make a function.                       *)
LEMMA MergesExist ==
    ASSUME NEW f, NEW kids \in Seq(Nat), NEW start
    PROVE  \E g : MergesUp(g, f, kids, start)
<1>1. PICK l \in Nat : l = Len(kids)
  OBVIOUS
<1> DEFINE Step(g, n) == [j \in 0..n |-> IF j = 0 THEN start ELSE Merge(f[kids[j]], g[j - 1])]
           S == {n \in Nat : n <= l => \E g : g = Step(g, n)}
<1>2. 0 \in S
  <2>1. [j \in 0..0 |-> start] = Step([j \in 0..0 |-> start], 0)
    OBVIOUS
  <2> QED BY <2>1
<1>3. ASSUME NEW n \in Nat, n \in S PROVE n + 1 \in S
  <2> SUFFICES ASSUME n + 1 <= l PROVE \E g : g = Step(g, n + 1)
    OBVIOUS
  <2>1. n <= l
    OBVIOUS
  <2>2. PICK g : g = Step(g, n)
    BY <1>3, <2>1
  <2> DEFINE last == Merge(f[kids[n + 1]], g[n])
             h == [j \in 0..(n + 1) |-> IF j = n + 1 THEN last ELSE g[j]]
  <2>3. ASSUME NEW j \in 0..(n + 1)
        PROVE  h[j] = IF j = 0 THEN start ELSE Merge(f[kids[j]], h[j - 1])
    <3>1. CASE j = n + 1
      BY <3>1
    <3>2. CASE j # n + 1
      <4>1. j \in 0..n /\ (j # 0 => j - 1 \in 0..n)
        BY <3>2
      <4>2. g[j] = IF j = 0 THEN start ELSE Merge(f[kids[j]], g[j - 1])
        BY <2>2, <4>1
      <4> QED BY <3>2, <4>1, <4>2
    <3> QED BY <3>1, <3>2
  <2>4. h = Step(h, n + 1)
    BY <2>3
  <2> QED BY <2>4
<1>4. l \in S
  <2> HIDE DEF S
  <2> QED BY <1>2, <1>3, SetInduction
<1> QED BY <1>1, <1>4 DEF MergesUp

(* Merging is the last of the merges.                                      *)
LEMMA MergingIsLast ==
    ASSUME NEW f, NEW kids \in Seq(Nat), NEW start
    PROVE  \E g : MergesUp(g, f, kids, start) /\ Merging(f, kids, start) = g[Len(kids)]
<1> DEFINE g == CHOOSE g : g = [j \in 0..Len(kids) |->
                                  IF j = 0 THEN start ELSE Merge(f[kids[j]], g[j - 1])]
<1>1. \E h : h = [j \in 0..Len(kids) |-> IF j = 0 THEN start ELSE Merge(f[kids[j]], h[j - 1])]
  <2>1. \E h : MergesUp(h, f, kids, start)
    BY MergesExist
  <2> QED BY <2>1 DEF MergesUp
<1>2. g = [j \in 0..Len(kids) |-> IF j = 0 THEN start ELSE Merge(f[kids[j]], g[j - 1])]
  BY <1>1
<1>3. Merging(f, kids, start) = g[Len(kids)]
  BY DEF Merging
<1> QED BY <1>2, <1>3 DEF MergesUp

(* After j kids what they read from end to end and through indexes is all  *)
(* there, and of the tables fetched only the last kid's are kept.          *)
LEMMA MergingIs ==
    ASSUME NEW f, NEW kids \in Seq(Nat), NEW start
    PROVE  Merging(f, kids, start) = MergedAll(f, kids, start)
<1> DEFINE n == Len(kids)
<1>1. PICK g : MergesUp(g, f, kids, start) /\ Merging(f, kids, start) = g[n]
  BY MergingIsLast
<1>2. g[0] = start /\ \A j \in 1..n : g[j] = Merge(f[kids[j]], g[j - 1])
  <2>1. \A j \in 0..n : g[j] = IF j = 0 THEN start ELSE Merge(f[kids[j]], g[j - 1])
    BY <1>1 DEF MergesUp
  <2>2. \A j \in 1..n : j \in 0..n /\ j # 0
    OBVIOUS
  <2>3. 0 \in 0..n
    OBVIOUS
  <2> HIDE DEF n
  <2> QED BY <2>1, <2>2, <2>3
<1> DEFINE full(j) == start.full \cup UNION {f[kids[i]].full : i \in 1..j}
           indexes(j) == start.indexes \cup UNION {f[kids[i]].indexes : i \in 1..j}
           S == {j \in Nat : j <= n => g[j].full = full(j) /\ g[j].indexes = indexes(j)}
<1>3. \A j \in 1..n :
         /\ g[j].full = f[kids[j]].full \cup g[j - 1].full
         /\ g[j].indexes = f[kids[j]].indexes \cup g[j - 1].indexes
         /\ g[j].retr = f[kids[j]].retr \ g[j].full
         /\ g[j] = [full |-> g[j].full, indexes |-> g[j].indexes, retr |-> g[j].retr]
  <2> SUFFICES ASSUME NEW j \in 1..n
               PROVE  /\ g[j].full = f[kids[j]].full \cup g[j - 1].full
                      /\ g[j].indexes = f[kids[j]].indexes \cup g[j - 1].indexes
                      /\ g[j].retr = f[kids[j]].retr \ g[j].full
                      /\ g[j] = [full |-> g[j].full, indexes |-> g[j].indexes, retr |-> g[j].retr]
    OBVIOUS
  <2> DEFINE a == f[kids[j]]
             b == g[j - 1]
             c == g[j]
  <2>1. c = Merge(a, b)
    BY <1>2
  <2> HIDE DEF a, b, c
  <2>2. c = [full |-> a.full \cup b.full, indexes |-> a.indexes \cup b.indexes,
             retr |-> a.retr \ (a.full \cup b.full)]
    BY <2>1 DEF Merge
  <2>3. /\ c.full = a.full \cup b.full /\ c.indexes = a.indexes \cup b.indexes
        /\ c.retr = a.retr \ c.full
        /\ c = [full |-> c.full, indexes |-> c.indexes, retr |-> c.retr]
    BY <2>2
  <2> QED BY <2>3 DEF a, b, c
<1>4. 0 \in S
  BY <1>2
<1>5. ASSUME NEW j \in Nat, j \in S PROVE j + 1 \in S
  <2> HIDE DEF full, indexes, n
  <2> SUFFICES ASSUME j + 1 <= n
               PROVE  g[j + 1].full = full(j + 1) /\ g[j + 1].indexes = indexes(j + 1)
    OBVIOUS
  <2>1. n \in Nat
    BY DEF n
  <2>2. g[j].full = full(j) /\ g[j].indexes = indexes(j)
    <3>1. j <= n
      BY <2>1
    <3> QED BY <1>5, <3>1
  <2>3. j + 1 \in 1..n /\ (j + 1) - 1 = j
    BY <2>1
  <2>4. 1..(j + 1) = 1..j \cup {j + 1}
    OBVIOUS
  <2>5. full(j + 1) = f[kids[j + 1]].full \cup full(j)
        /\ indexes(j + 1) = f[kids[j + 1]].indexes \cup indexes(j)
    BY <2>4 DEF full, indexes
  <2>6. /\ g[j + 1].full = f[kids[j + 1]].full \cup g[j].full
        /\ g[j + 1].indexes = f[kids[j + 1]].indexes \cup g[j].indexes
    BY <1>3, <2>3
  <2> QED BY <2>2, <2>5, <2>6
<1>6. g[n].full = full(n) /\ g[n].indexes = indexes(n)
  <2>1. n \in S
    <3> HIDE DEF S
    <3> QED BY <1>4, <1>5, SetInduction
  <2> QED BY <2>1
<1>7. CASE kids = <<>>
  BY <1>1, <1>2, <1>7 DEF MergedAll
<1>8. CASE kids # <<>>
  <2>1. n \in 1..n /\ \A k : k \in ToSet(kids) <=> \E i \in 1..n : k = kids[i]
    BY <1>8 DEF ToSet
  <2>2. /\ full(n) = start.full \cup UNION {f[k].full : k \in ToSet(kids)}
        /\ indexes(n) = start.indexes \cup UNION {f[k].indexes : k \in ToSet(kids)}
    <3>1. {f[kids[i]].full : i \in 1..n} = {f[k].full : k \in ToSet(kids)}
      BY <2>1
    <3>2. {f[kids[i]].indexes : i \in 1..n} = {f[k].indexes : k \in ToSet(kids)}
      BY <2>1
    <3> QED BY <3>1, <3>2
  <2>3. MergedAll(f, kids, start) =
           [full |-> full(n), indexes |-> indexes(n), retr |-> f[kids[n]].retr \ full(n)]
    BY <1>8, <2>2 DEF MergedAll, AllOf
  <2> HIDE DEF n, full, indexes
  <2>4. g[n] = [full |-> full(n), indexes |-> indexes(n), retr |-> f[kids[n]].retr \ full(n)]
    BY <1>3, <1>6, <2>1
  <2> QED BY <1>1, <2>3, <2>4
<1> QED BY <1>7, <1>8

(* The merge depends on the kids' resources only.                          *)
LEMMA MergedSame ==
    ASSUME NEW f, NEW h, NEW kids \in Seq(Nat), NEW start, \A k \in ToSet(kids) : f[k] = h[k]
    PROVE  MergedAll(f, kids, start) = MergedAll(h, kids, start)
<1>1. CASE kids = <<>>
  BY <1>1 DEF MergedAll
<1>2. CASE kids # <<>>
  <2>1. kids[Len(kids)] \in ToSet(kids)
    BY <1>2 DEF ToSet
  <2>2. /\ {f[k].full : k \in ToSet(kids)} = {h[k].full : k \in ToSet(kids)}
        /\ {f[k].indexes : k \in ToSet(kids)} = {h[k].indexes : k \in ToSet(kids)}
        /\ f[kids[Len(kids)]] = h[kids[Len(kids)]]
    BY <2>1
  <2> QED BY <2>2 DEF MergedAll, AllOf
<1> QED BY <1>1, <1>2

(* The Selects are a forest in which the numbers grow from the root.       *)
Ordered == /\ Len(within) \in Nat /\ DOMAIN selects \subseteq Ids
           /\ \A p \in DOMAIN selects :
                 /\ Children(p) \in Seq(Nat)
                 /\ \A c \in ToSet(Children(p)) : c \in DOMAIN selects /\ p < c

(* With every sub-select at home, a child comes after its parent.          *)
LEMMA HomeIsOrdered ==
    ASSUME Reading, AtHome
    PROVE  Ordered
<1>1. ASSUME NEW p \in DOMAIN selects
      PROVE  /\ Children(p) \in Seq(Nat)
             /\ \A c \in ToSet(Children(p)) : c \in DOMAIN selects /\ p < c
  <2>1. selects[p].siblings \in Seq(Nat) /\ selects[p].kids \in Seq(Nat)
    BY DEF Reading, ParserTypes, AreSelects, IsSelect
  <2>2. \A c \in ToSet(Children(p)) : c \in DOMAIN selects /\ p < c
    BY DEF AtHome, ChildrenSuit, Suits, Closed
  <2> QED BY <2>1, <2>2, ConcatIs DEF Children
<1> QED BY <1>1 DEF Ordered, Reading, ParserTypes

(* The answers can be given one by one, from the last Select of the text   *)
(* to the first: a child comes after its parent.                           *)
LEMMA AnswersExist ==
    ASSUME Ordered
    PROVE  \E f : f = [s \in DOMAIN selects |-> Merging(f, Children(s), selects[s].resource)]
<1> DEFINE D == DOMAIN selects
           N == Len(within)
           all(f, s) == MergedAll(f, Children(s), selects[s].resource)
           Done(f, m) == f = [s \in D |-> f[s]] /\ \A s \in D : s > N - m => f[s] = all(f, s)
           S == {m \in Nat : \E f : Done(f, m)}
<1>1. N \in Nat /\ \A s \in D : s \in 1..N
  BY DEF Ordered, Ids
<1>2. ASSUME NEW f, NEW h, NEW s \in D, \A c \in D : s < c => f[c] = h[c]
      PROVE  all(f, s) = all(h, s)
  <2>1. Children(s) \in Seq(Nat) /\ \A c \in ToSet(Children(s)) : f[c] = h[c]
    BY <1>2 DEF Ordered
  <2> QED BY <2>1, MergedSame
<1> HIDE DEF D, N, all
<1>3. 0 \in S
  <2> DEFINE f == [s \in D |-> 0]
  <2>1. f = [s \in D |-> f[s]] /\ \A s \in D : ~ (s > N - 0)
    BY <1>1
  <2>2. Done(f, 0)
    BY <2>1
  <2> QED BY <2>2
<1>4. ASSUME NEW m \in Nat, m \in S PROVE m + 1 \in S
  <2> DEFINE t == N - m
  <2>1. PICK f : Done(f, m)
    BY <1>4
  <2> DEFINE h == [s \in D |-> IF s = t THEN all(f, t) ELSE f[s]]
  <2>2. \A c \in D : t < c => f[c] = h[c]
    BY <1>1
  <2>3. ASSUME NEW s \in D, s > N - (m + 1)
        PROVE  h[s] = all(h, s)
    <3>1. s = t \/ s > t
      BY <1>1, <2>3
    <3>2. \A c \in D : s < c => f[c] = h[c]
      BY <1>1, <2>2, <3>1
    <3>3. all(f, s) = all(h, s)
      <4> HIDE DEF h
      <4> QED BY <1>2, <3>2
    <3>4. CASE s = t
      BY <3>3, <3>4
    <3>5. CASE s # t
      BY <2>1, <3>1, <3>3, <3>5
    <3> QED BY <3>4, <3>5
  <2>4. Done(h, m + 1)
    BY <2>3
  <2> HIDE DEF Done, h
  <2>5. \E g : Done(g, m + 1)
    BY <2>4
  <2> QED BY <2>5
<1>5. N \in S
  <2> HIDE DEF S
  <2> QED BY <1>1, <1>3, <1>4, SetInduction
<1>6. PICK f : Done(f, N)
  BY <1>5
<1>7. ASSUME NEW s \in D
      PROVE  f[s] = Merging(f, Children(s), selects[s].resource)
  <2>1. s > N - N
    BY <1>1
  <2>2. f[s] = MergedAll(f, Children(s), selects[s].resource)
    BY <1>6, <2>1 DEF all
  <2>3. Children(s) \in Seq(Nat)
    BY DEF Ordered, D
  <2> QED BY <2>2, <2>3, MergingIs
<1>8. f = [s \in D |-> Merging(f, Children(s), selects[s].resource)]
  BY <1>6, <1>7
<1> QED BY <1>8 DEF D

(* getResource's answer for a Select is the merge of its children's.       *)
LEMMA CollectedIs ==
    ASSUME Ordered
    PROVE  \A s \in DOMAIN selects :
              Collected[s] = MergedAll(Collected, Children(s), selects[s].resource)
<1> DEFINE c == CHOOSE f : f = [s \in DOMAIN selects |->
                                  Merging(f, Children(s), selects[s].resource)]
<1>1. c = [s \in DOMAIN selects |-> Merging(c, Children(s), selects[s].resource)]
  BY AnswersExist
<1>2. Collected = c
  BY DEF Collected, Merging
<1> HIDE DEF c
<1>3. ASSUME NEW s \in DOMAIN selects
      PROVE  c[s] = MergedAll(c, Children(s), selects[s].resource)
  <2>1. c[s] = Merging(c, Children(s), selects[s].resource)
    BY <1>1
  <2>2. Children(s) \in Seq(Nat)
    BY DEF Ordered
  <2> QED BY <2>1, <2>2, MergingIs
<1> QED BY <1>2, <1>3

(* Merging into what holds the merge already changes nothing.              *)
LEMMA MergedTwice ==
    ASSUME NEW f, NEW kids \in Seq(Nat), NEW start
    PROVE  MergedAll(f, kids, MergedAll(f, kids, start)) = MergedAll(f, kids, start)
<1> DEFINE once == MergedAll(f, kids, start)
           full == UNION {f[k].full : k \in ToSet(kids)}
           indexes == UNION {f[k].indexes : k \in ToSet(kids)}
           last == f[kids[Len(kids)]].retr
<1>1. CASE kids = <<>>
  BY <1>1 DEF MergedAll
<1>2. CASE kids # <<>>
  <2>1. \A r : MergedAll(f, kids, r) = [full |-> r.full \cup full, indexes |-> r.indexes \cup indexes,
                                        retr |-> last \ (r.full \cup full)]
    BY <1>2 DEF MergedAll, AllOf
  <2> HIDE DEF once, full, indexes, last
  <2>2. once.full = start.full \cup full /\ once.indexes = start.indexes \cup indexes
    BY <2>1 DEF once
  <2>3. (once.full \cup full) = (start.full \cup full)
        /\ (once.indexes \cup indexes) = (start.indexes \cup indexes)
    BY <2>2
  <2> QED BY <2>1, <2>3 DEF once
<1> QED BY <1>1, <1>2

(* The tree has its root and the children of every member, no more.        *)
LEMMA TreeIs ==
    ASSUME Ordered, NEW root \in DOMAIN selects
    PROVE  /\ root \in Tree(root) /\ Tree(root) \subseteq DOMAIN selects
           /\ \A p \in Tree(root) : ToSet(Children(p)) \subseteq Tree(root)
           /\ \A ss \in SUBSET DOMAIN selects :
                 root \in ss /\ (\A p \in ss : ToSet(Children(p)) \subseteq ss) => Tree(root) \subseteq ss
<1>1. Tree(root) \subseteq DOMAIN selects /\ root \in Tree(root)
  BY DEF Tree
<1>2. ASSUME NEW p \in Tree(root), NEW c \in ToSet(Children(p)) PROVE c \in Tree(root)
  BY <1>1, <1>2 DEF Tree, Ordered
<1> QED BY <1>1, <1>2 DEF Tree

(* A set of numbers up to n that is not empty has a greatest.              *)
LEMMA GreatestUpTo ==
    ASSUME NEW n \in Nat, NEW B, B \subseteq 1..n, B # {}
    PROVE  \E x \in B : \A y \in B : y <= x
<1> DEFINE T == {n - y : y \in B}
<1>1. T \subseteq Nat /\ T # {}
  <2>1. \A y \in B : n - y \in Nat
    OBVIOUS
  <2>2. T \subseteq Nat
    BY <2>1
  <2> QED BY <2>2
<1>2. PICK z \in T : \A y \in T : z <= y
  <2> HIDE DEF T
  <2> QED BY <1>1, LeastExists
<1>3. PICK x \in B : z = n - x
  <2>1. z \in {n - y : y \in B}
    OBVIOUS
  <2> HIDE DEF T
  <2> QED BY <2>1
<1>4. ASSUME NEW y \in B PROVE y <= x
  <2>1. n - x <= n - y
    BY <1>2, <1>3
  <2>2. x \in 1..n /\ y \in 1..n
    OBVIOUS
  <2> QED BY <2>1, <2>2
<1> QED BY <1>4

(* What a plan of the tree reads is known to every Select it is under, and *)
(* no more than that.                                                      *)
LEMMA AllIsKnown ==
    ASSUME Ordered, NEW root \in DOMAIN selects, \A s \in Tree(root) : Settled(s)
    PROVE  /\ selects[root].resource.full = UNION {selects[s].own.full : s \in Tree(root)}
           /\ selects[root].resource.indexes = UNION {selects[s].own.indexes : s \in Tree(root)}
<1> DEFINE T == Tree(root)
           N == Len(within)
           R == [k \in DOMAIN selects |-> selects[k].resource]
<1>1. /\ root \in T /\ T \subseteq DOMAIN selects
      /\ \A p \in T : ToSet(Children(p)) \subseteq T
      /\ \A ss \in SUBSET DOMAIN selects :
            root \in ss /\ (\A p \in ss : ToSet(Children(p)) \subseteq ss) => T \subseteq ss
  BY TreeIs
<1>2. N \in Nat /\ \A s \in T : s \in 1..N
  BY <1>1 DEF Ordered, Ids
<1>3. ASSUME NEW s \in T
      PROVE  /\ R[s].full = selects[s].own.full \cup UNION {R[k].full : k \in ToSet(Children(s))}
             /\ R[s].indexes = selects[s].own.indexes
                                  \cup UNION {R[k].indexes : k \in ToSet(Children(s))}
  <2>1. R[s] = MergedAll(R, Children(s), selects[s].own)
    BY <1>1 DEF Settled
  <2> HIDE DEF R
  <2>2. CASE Children(s) = <<>>
    <3>1. ToSet(Children(s)) = {} /\ R[s] = selects[s].own
      BY <2>1, <2>2 DEF ToSet, MergedAll
    <3> QED BY <3>1
  <2>3. CASE Children(s) # <<>>
    BY <2>1, <2>3 DEF MergedAll, AllOf
  <2> QED BY <2>2, <2>3
<1>4. \A s \in DOMAIN selects : R[s] = selects[s].resource
  OBVIOUS
<1>5. ASSUME NEW p \in T PROVE \A c \in ToSet(Children(p)) : c \in T /\ p < c
  BY <1>1 DEF Ordered
<1> HIDE DEF T, R, N
<1>6. ASSUME NEW s \in T
      PROVE  selects[s].own.full \subseteq R[root].full /\ selects[s].own.indexes \subseteq R[root].indexes
  <2> DEFINE known == {t \in T : R[t].full \subseteq R[root].full /\ R[t].indexes \subseteq R[root].indexes}
  <2>1. known \in SUBSET DOMAIN selects /\ root \in known
    BY <1>1
  <2>2. ASSUME NEW p \in known, NEW c \in ToSet(Children(p)) PROVE c \in known
    <3>1. c \in T /\ p \in T
      BY <1>5
    <3>2. R[c].full \subseteq R[p].full /\ R[c].indexes \subseteq R[p].indexes
      BY <1>3, <3>1
    <3> QED BY <3>1, <3>2
  <2>3. T \subseteq known
    <3> HIDE DEF known
    <3> QED BY <1>1, <2>1, <2>2
  <2>4. R[s].full \subseteq R[root].full /\ R[s].indexes \subseteq R[root].indexes
    BY <2>3
  <2> QED BY <1>3, <2>4
<1>7. ASSUME NEW x \in R[root].full PROVE \E s \in T : x \in selects[s].own.full
  <2> SUFFICES ASSUME \A s \in T : x \notin selects[s].own.full PROVE FALSE
    OBVIOUS
  <2> DEFINE B == {s \in T : x \in R[s].full}
  <2>1. B \subseteq 1..N /\ B # {}
    BY <1>1, <1>2
  <2>2. PICK s \in B : \A t \in B : t <= s
    <3> HIDE DEF B
    <3> QED BY <1>2, <2>1, GreatestUpTo
  <2>3. PICK k \in ToSet(Children(s)) : x \in R[k].full
    BY <1>3
  <2>4. k \in B /\ s < k /\ s \in 1..N /\ k \in 1..N
    BY <1>2, <1>5, <2>3
  <2> QED BY <2>2, <2>4
<1>8. ASSUME NEW x \in R[root].indexes PROVE \E s \in T : x \in selects[s].own.indexes
  <2> SUFFICES ASSUME \A s \in T : x \notin selects[s].own.indexes PROVE FALSE
    OBVIOUS
  <2> DEFINE B == {s \in T : x \in R[s].indexes}
  <2>1. B \subseteq 1..N /\ B # {}
    BY <1>1, <1>2
  <2>2. PICK s \in B : \A t \in B : t <= s
    <3> HIDE DEF B
    <3> QED BY <1>2, <2>1, GreatestUpTo
  <2>3. PICK k \in ToSet(Children(s)) : x \in R[k].indexes
    BY <1>3
  <2>4. k \in B /\ s < k /\ s \in 1..N /\ k \in 1..N
    BY <1>2, <1>5, <2>3
  <2> QED BY <2>2, <2>4
<1>9. R[root].full = UNION {selects[s].own.full : s \in T}
  BY <1>6, <1>7
<1>10. R[root].indexes = UNION {selects[s].own.indexes : s \in T}
  BY <1>6, <1>8
<1> QED BY <1>4, <1>9, <1>10 DEF T

(* A second call finds in every Select what it would put there.            *)
LEMMA SecondCallSettles ==
    ASSUME ParserTypes, Ordered, select_result \in DOMAIN selects,
           \A s \in Tree(select_result) : Settled(s), GetResource
    PROVE  selects' = selects
<1> DEFINE T == Tree(select_result)
           N == Len(within)
           R == [k \in DOMAIN selects |-> selects[k].resource]
           c == Collected
<1>1. T \subseteq DOMAIN selects /\ \A p \in T : ToSet(Children(p)) \subseteq T
  BY TreeIs
<1>2. N \in Nat /\ \A s \in T : s \in 1..N
  BY <1>1 DEF Ordered, Ids
<1>3. \A s \in T : R[s] = MergedAll(R, Children(s), selects[s].own)
  BY <1>1 DEF Settled
<1>4. \A s \in T : c[s] = MergedAll(c, Children(s), R[s])
  BY <1>1, CollectedIs
<1>5. \A s \in DOMAIN selects : R[s] = selects[s].resource
  OBVIOUS
<1>6. selects' = [s \in DOMAIN selects |->
                    IF s \in T THEN [selects[s] EXCEPT !.resource = c[s]] ELSE selects[s]]
  BY DEF GetResource
<1>7. ASSUME NEW p \in T
      PROVE  Children(p) \in Seq(Nat) /\ \A k \in ToSet(Children(p)) : k \in T /\ p < k
  BY <1>1 DEF Ordered
<1> HIDE DEF T, N, R, c
<1>8. \A s \in T : c[s] = R[s]
  <2> SUFFICES ASSUME ~ \A s \in T : c[s] = R[s] PROVE FALSE
    OBVIOUS
  <2> DEFINE B == {s \in T : c[s] # R[s]}
  <2>1. B \subseteq 1..N /\ B # {}
    BY <1>2
  <2>2. PICK s \in B : \A t \in B : t <= s
    <3> HIDE DEF B
    <3> QED BY <1>2, <2>1, GreatestUpTo
  <2>3. s \in T /\ s \in 1..N /\ c[s] # R[s]
    BY <1>2
  <2>4. ASSUME NEW k \in ToSet(Children(s)) PROVE c[k] = R[k]
    <3>1. k \in T /\ s < k /\ k \in 1..N
      BY <1>2, <1>7, <2>3
    <3>2. k \notin B
      <4> HIDE DEF B
      <4> QED BY <2>2, <2>3, <3>1
    <3> QED BY <3>1, <3>2
  <2>5. c[s] = MergedAll(R, Children(s), R[s])
    <3>1. c[s] = MergedAll(c, Children(s), R[s])
      BY <1>4, <2>3
    <3>2. MergedAll(c, Children(s), R[s]) = MergedAll(R, Children(s), R[s])
      BY <1>7, <2>3, <2>4, MergedSame
    <3> QED BY <3>1, <3>2
  <2>6. R[s] = MergedAll(R, Children(s), selects[s].own)
    BY <1>3, <2>3
  <2>7. c[s] = R[s]
    BY <1>7, <2>3, <2>5, <2>6, MergedTwice
  <2> QED BY <2>3, <2>7
<1>9. ASSUME NEW s \in DOMAIN selects PROVE selects'[s] = selects[s]
  <2>1. CASE s \in T
    <3>1. selects'[s] = [selects[s] EXCEPT !.resource = selects[s].resource]
      BY <1>5, <1>6, <1>8, <2>1
    <3>2. IsSelect(selects[s])
      BY DEF ParserTypes, AreSelects
    <3> QED BY <3>1, <3>2 DEF IsSelect
  <2>2. CASE s \notin T
    BY <1>6, <2>2
  <2> QED BY <2>1, <2>2
<1>10. selects = [s \in DOMAIN selects |-> selects[s]] /\ selects' = [s \in DOMAIN selects |-> selects'[s]]
  BY <1>6 DEF ParserTypes, AreSelects
<1> QED BY <1>9, <1>10

(* The first call leaves every Select of the tree with what it and its     *)
(* children read.                                                          *)
LEMMA FirstCallSettles ==
    ASSUME ParserTypes, OpenInOrder, Ordered, select_result \in DOMAIN selects,
           \A s \in DOMAIN selects : selects[s].resource = selects[s].own, GetResource
    PROVE  /\ Tree(select_result)' = Tree(select_result)
           /\ \A s \in Tree(select_result) : Settled(s)'
<1> DEFINE T == Tree(select_result)
           R == [k \in DOMAIN selects' |-> selects'[k].resource]
           c == Collected
<1>1. T \subseteq DOMAIN selects /\ \A p \in T : ToSet(Children(p)) \subseteq T
  BY TreeIs
<1>2. /\ DOMAIN selects' = DOMAIN selects
      /\ \A s \in DOMAIN selects :
            /\ selects'[s].kids = selects[s].kids /\ selects'[s].siblings = selects[s].siblings
            /\ selects'[s].own = selects[s].own
  BY ResourcesOnly
<1>3. UNCHANGED select_result
  BY DEF GetResource
<1>4. selects' = [s \in DOMAIN selects |->
                    IF s \in T THEN [selects[s] EXCEPT !.resource = c[s]] ELSE selects[s]]
  BY DEF GetResource
<1>5. \A s \in T : c[s] = MergedAll(c, Children(s), selects[s].own)
  BY <1>1, CollectedIs
<1>6. \A p \in DOMAIN selects : (selects'[p].siblings \o selects'[p].kids) = Children(p)
  BY <1>2 DEF Children
<1>7. Tree(select_result)' = T
  BY <1>2, <1>3, <1>6 DEF Tree, Children
<1> HIDE DEF T, c
<1>8. ASSUME NEW s \in T PROVE selects'[s].resource = c[s]
  <2>1. selects'[s] = [selects[s] EXCEPT !.resource = c[s]]
    BY <1>1, <1>4
  <2>2. IsSelect(selects[s])
    BY <1>1 DEF ParserTypes, AreSelects
  <2> QED BY <2>1, <2>2 DEF IsSelect
<1>9. ASSUME NEW s \in T
      PROVE  selects'[s].resource = MergedAll(R, selects'[s].siblings \o selects'[s].kids, selects'[s].own)
  <2>1. \A k \in ToSet(Children(s)) : c[k] = R[k]
    BY <1>1, <1>2, <1>8
  <2>2. Children(s) \in Seq(Nat) /\ s \in DOMAIN selects
    BY <1>1 DEF Ordered
  <2> HIDE DEF R
  <2>3. MergedAll(c, Children(s), selects[s].own) = MergedAll(R, Children(s), selects[s].own)
    BY <2>1, <2>2, MergedSame
  <2> QED BY <1>2, <1>5, <1>6, <1>8, <2>2, <2>3
<1> QED BY <1>7, <1>9 DEF Settled, Children, T

(* No Select made is the empty function, written <<>>.                     *)
LEMMA NoneMade ==
    ASSUME NEW ss, AreSelects(ss), DOMAIN ss = {}
    PROVE  ss = <<>>
<1>1. ss = [s \in DOMAIN ss |-> ss[s]]
  BY DEF AreSelects
<1>2. 1..0 = {}
  OBVIOUS
<1>3. ss \in [1..0 -> Nat]
  BY <1>1, <1>2
<1>4. ss \in Seq(Nat) /\ Len(ss) = 0
  BY <1>3
<1> QED BY <1>4

(* Every step keeps what the Selects hold of tables and indexes right.     *)
LEMMA ResourcesKept ==
    ASSUME Reading, AtHome, ResourcesInv, [Next]_vars
    PROVE  ResourcesInv'
<1>1. ParserTypes /\ OpenInOrder /\ ListsWait /\ Ordered
  BY HomeIsOrdered DEF Reading, WaitInOrder
<1>2. ASSUME Parse PROVE ResourcesInv'
  <2>1. DOMAIN selects' = {} /\ asked' = 0 /\ pc' = "parsing" /\ UNCHANGED parsed
    BY <1>2 DEF Parse
  <2> QED BY <2>1 DEF ResourcesInv
<1>3. ASSUME pc = "parsing", pc' # "idle", UNCHANGED <<parsed, asked>>,
             \A s \in DOMAIN selects' :
                /\ selects'[s].resource = selects'[s].own
                /\ selects'[s].own.full \cap selects'[s].own.retr = {}
      PROVE  ResourcesInv'
  BY <1>3 DEF ResourcesInv
<1>4. ASSUME SelectWord \/ UnknownColumn PROVE ResourcesInv'
  <2>1. pc = "parsing" /\ UNCHANGED <<parsed, asked, pc, selects>>
    BY <1>4 DEF SelectWord, UnknownColumn
  <2> QED BY <1>3, <2>1 DEF ResourcesInv
<1>5. ASSUME ProjectionClause \/ FromClause PROVE ResourcesInv'
  <2>1. pc = "parsing" /\ UNCHANGED <<parsed, asked, pc>>
    BY <1>5 DEF ProjectionClause, FromClause
  <2>2. DOMAIN selects' = DOMAIN selects
    BY <1>5 DEF ProjectionClause, FromClause, ChainSiblings
  <2>3. \A s \in DOMAIN selects : selects'[s].own = selects[s].own
                                  /\ selects'[s].resource = selects[s].resource
    BY <1>1, <1>5, PartsLeaveSelects
  <2> QED BY <1>3, <2>1, <2>2, <2>3 DEF ResourcesInv
<1>6. ASSUME SelectOptions PROVE ResourcesInv'
  <2>1. pc = "parsing" /\ UNCHANGED <<parsed, asked, pc>>
    BY <1>6 DEF SelectOptions
  <2>2. /\ DOMAIN selects' = DOMAIN selects \cup {Top.id}
        /\ \A s \in DOMAIN selects : selects'[s] = selects[s]
        /\ selects'[Top.id].resource = selects'[Top.id].own
        /\ selects'[Top.id].own \in IF Top.from = 0 THEN Resources ELSE {selects[Top.from].own}
    BY <1>1, <1>6, SelectBegun
  <2>3. Top.from # 0 => Top.from \in DOMAIN selects
    <3>1. Len(open) \in 1..Len(open) /\ Top = open[Len(open)]
      BY <1>1, <1>6, PartsLeaveSelects
    <3> QED BY <3>1 DEF Reading, WaitInOrder, FromsMade, Closed
  <2> DEFINE own == selects'[Top.id].own
  <2>4. own.full \cap own.retr = {}
    <3> HIDE DEF own
    <3>1. CASE Top.from = 0
      <4>1. own \in Resources
        BY <2>2, <3>1 DEF own
      <4> QED BY <4>1, SelectTreeAssumption
    <3>2. CASE Top.from # 0
      <4>1. own = selects[Top.from].own /\ Top.from \in DOMAIN selects
        BY <2>2, <2>3, <3>2 DEF own
      <4> QED BY <4>1 DEF ResourcesInv
    <3> QED BY <3>1, <3>2
  <2>5. ASSUME NEW s \in DOMAIN selects'
        PROVE  /\ selects'[s].resource = selects'[s].own
               /\ selects'[s].own.full \cap selects'[s].own.retr = {}
    <3>1. CASE s = Top.id
      BY <2>2, <2>4, <3>1
    <3>2. CASE s \in DOMAIN selects
      BY <2>1, <2>2, <3>2 DEF ResourcesInv
    <3> QED BY <2>2, <3>1, <3>2
  <2> QED BY <1>3, <2>1, <2>5
<1>7. ASSUME SelectStatement PROVE ResourcesInv'
  <2>1. /\ DOMAIN selects' = DOMAIN selects /\ Top.id \in DOMAIN selects
        /\ \A s \in DOMAIN selects \ {Top.id} : selects'[s] = selects[s]
        /\ selects'[Top.id].own = selects[Top.id].own
        /\ selects'[Top.id].resource = selects[Top.id].resource
    BY <1>1, <1>7, SelectCompleted, HandedOver
  <2>2. pc = "parsing" /\ UNCHANGED asked
        /\ select_result' = (IF Top.role = "command" THEN Top.id ELSE select_result)
        /\ pc' = (IF Top.role = "command" THEN "idle" ELSE pc)
        /\ parsed' = (IF Top.role = "command" THEN parsed + 1 ELSE parsed)
    BY <1>7 DEF SelectStatement
  <2>3. asked = 0 /\ parsed \in Nat
    BY <2>2 DEF ResourcesInv
  <2>4. \A s \in DOMAIN selects :
           selects'[s].own = selects[s].own /\ selects'[s].resource = selects[s].resource
    BY <2>1
  <2>5. \A s \in DOMAIN selects :
           /\ selects'[s].resource = selects'[s].own
           /\ selects'[s].own.full \cap selects'[s].own.retr = {}
    BY <2>3, <2>4 DEF ResourcesInv
  <2>6. CASE Top.role = "command"
    <3>1. pc' = "idle" /\ parsed' \in Nat \ {0} /\ select_result' \in DOMAIN selects' /\ asked' = 0
      BY <2>1, <2>2, <2>3, <2>6
    <3> QED BY <2>1, <2>5, <3>1 DEF ResourcesInv
  <2>7. CASE Top.role # "command"
    <3>1. pc' = "parsing" /\ parsed' = parsed /\ asked' = 0
      BY <2>2, <2>3, <2>7
    <3> QED BY <2>1, <2>3, <2>5, <3>1 DEF ResourcesInv
  <2> QED BY <2>6, <2>7
<1>8. ASSUME SyntaxError PROVE ResourcesInv'
  BY <1>8 DEF SyntaxError, ResourcesInv
<1>9. ASSUME GetResource PROVE ResourcesInv'
  <2>1. /\ pc = "idle" /\ pc' = "idle" /\ selects # <<>> /\ asked' = asked + 1
        /\ UNCHANGED <<parsed, select_result>>
    BY <1>9 DEF GetResource
  <2>2. /\ DOMAIN selects' = DOMAIN selects
        /\ \A s \in DOMAIN selects : selects'[s].own = selects[s].own
    BY <1>1, <1>9, ResourcesOnly
  <2>3. select_result \in DOMAIN selects /\ parsed # 0
    <3>1. DOMAIN selects # {}
      BY <1>1, <2>1, NoneMade DEF ParserTypes
    <3> QED BY <2>1, <3>1 DEF ResourcesInv
  <2>4. \A s \in Tree(select_result)' : Settled(s)'
    <3>1. CASE asked = 0
      <4>1. \A s \in DOMAIN selects : selects[s].resource = selects[s].own
        BY <3>1 DEF ResourcesInv
      <4> QED BY <1>1, <1>9, <2>3, <4>1, FirstCallSettles
    <3>2. CASE asked # 0
      <4>1. \A s \in Tree(select_result) : Settled(s)
        BY <2>1, <3>2 DEF ResourcesInv
      <4>2. selects' = selects
        BY <1>1, <1>9, <2>3, <4>1, SecondCallSettles
      <4> QED BY <2>1, <4>1, <4>2 DEF Tree, Children, Settled
    <3> QED BY <3>1, <3>2
  <2> QED BY <2>1, <2>2, <2>3, <2>4 DEF ResourcesInv
<1>10. ASSUME UNCHANGED vars PROVE ResourcesInv'
  <2>1. UNCHANGED <<selects, select_result, parsed, asked, pc>>
    BY <1>10 DEF vars
  <2> QED BY <2>1 DEF ResourcesInv, Tree, Children, Settled
<1> QED BY <1>2, <1>4, <1>5, <1>6, <1>7, <1>8, <1>9, <1>10 DEF Next

TreeInv == Reading /\ AtHome /\ ResourcesInv

(* All three hold in every state, for each needs the others.               *)
LEMMA TreeInvHolds == Spec => []TreeInv
<1>1. Init => TreeInv
  <2> SUFFICES ASSUME Init PROVE TreeInv
    OBVIOUS
  <2>1. DOMAIN selects = {} /\ Closed = {}
    BY DEF Init, Closed
  <2>2. AtHome
    BY <2>1 DEF AtHome, ChildrenSuit, OneParent, EachHasAParent
  <2>3. ResourcesInv
    BY <2>1 DEF Init, ResourcesInv
  <2> QED BY <2>2, <2>3, ReadingAtFirst DEF TreeInv
<1>2. TreeInv /\ [Next]_vars => TreeInv'
  BY ReadingKept, HomeKept, ResourcesKept DEF TreeInv
<1> QED BY <1>1, <1>2, PTL DEF Spec

(* What the outermost Select has collected: the tables and indexes of      *)
(* every plan of the tree, none twice as scanned and as fetched.           *)
THEOREM NothingReadIsMissed == Spec => []AllScansKnown
<1>1. TreeInv => AllScansKnown
  <2> SUFFICES ASSUME TreeInv, Read, asked > 0 PROVE AllScansKnown
    BY DEF AllScansKnown
  <2> DEFINE root == select_result
  <2>1. Ordered /\ pc = "idle"
    BY HomeIsOrdered DEF TreeInv, Read
  <2>2. root \in DOMAIN selects /\ \A s \in Tree(root) : Settled(s)
    BY DEF TreeInv, ResourcesInv, Read
  <2>3. /\ selects[root].resource.full = UNION {selects[s].own.full : s \in Tree(root)}
        /\ selects[root].resource.indexes = UNION {selects[s].own.indexes : s \in Tree(root)}
    BY <2>1, <2>2, AllIsKnown
  <2>4. selects[root].resource.full \cap selects[root].resource.retr = {}
    <3> DEFINE R == [k \in DOMAIN selects |-> selects[k].resource]
               kids == Children(root)
    <3>1. selects[root].resource = MergedAll(R, kids, selects[root].own)
      BY <2>1, <2>2, TreeIs DEF Settled
    <3> HIDE DEF R, kids
    <3>2. CASE kids = <<>>
      BY <2>2, <3>1, <3>2 DEF MergedAll, TreeInv, ResourcesInv
    <3>3. CASE kids # <<>>
      BY <3>1, <3>3 DEF MergedAll, AllOf
    <3> QED BY <3>2, <3>3
  <2> QED BY <2>3, <2>4 DEF AllScansKnown
<1> QED BY <1>1, TreeInvHolds, PTL

(* getResource writes what it answers into the Selects it asks, and yet    *)
(* answers the same again: nothing is merged that is not already there.    *)
THEOREM AnswerIsFinal == Spec => SameAnswer
<1>1. ASSUME TreeInv, [Next]_vars PROVE [asked' = 2 => selects' = selects]_vars
  <2> SUFFICES ASSUME Next, asked' = 2 PROVE selects' = selects \/ UNCHANGED vars
    BY <1>1
  <2>1. asked \in Nat /\ (pc = "parsing" => asked = 0) /\ ParserTypes /\ Ordered
    BY <1>1, HomeIsOrdered DEF TreeInv, ResourcesInv, Reading
  <2>2. CASE Parse
    BY <2>2 DEF Parse
  <2>3. CASE SelectWord \/ ProjectionClause \/ FromClause \/ UnknownColumn \/ SelectOptions
             \/ SelectStatement \/ SyntaxError
    <3>1. pc = "parsing" /\ asked' = asked
      BY <2>3 DEF SelectWord, ProjectionClause, FromClause, UnknownColumn, SelectOptions,
                  SelectStatement, SyntaxError
    <3> QED BY <2>1, <3>1
  <2>4. CASE GetResource
    <3>1. asked = 1 /\ pc = "idle" /\ selects # <<>>
      BY <2>1, <2>4 DEF GetResource
    <3>2. DOMAIN selects # {}
      BY <2>1, <3>1, NoneMade DEF ParserTypes
    <3>3. select_result \in DOMAIN selects /\ \A s \in Tree(select_result) : Settled(s)
      BY <1>1, <3>1, <3>2 DEF TreeInv, ResourcesInv
    <3> QED BY <2>1, <2>4, <3>3, SecondCallSettles
  <2> QED BY <2>2, <2>3, <2>4 DEF Next
<1> QED BY <1>1, TreeInvHolds, PTL DEF Spec, SameAnswer
=============================================================================
