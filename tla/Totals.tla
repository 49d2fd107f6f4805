-------------------------------- MODULE Totals -------------------------------
(***************************************************************************)
(* The sum of a sequence of integers, and of a function over a finite set. *)
(***************************************************************************)
EXTENDS Integers, Sequences

(* What the first i elements add up to, for every i. *)
RunningTotal(s) ==
    LET total[k \in 0..Len(s)] == IF k = 0 THEN 0 ELSE total[k - 1] + s[k]
    IN  total

TotalOf(s) == RunningTotal(s)[Len(s)]

(* f summed over every subset of S, an element at a time.                  *)
SumsOver(S, f) ==
    LET sum[s \in SUBSET S] == IF s = {} THEN 0
                               ELSE LET x == CHOOSE y \in s : TRUE IN f[x] + sum[s \ {x}]
    IN  sum

SumOver(S, f) == SumsOver(S, f)[S]
=============================================================================
