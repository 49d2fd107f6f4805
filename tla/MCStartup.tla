------------------------------ MODULE MCStartup -----------------------------
(***************************************************************************)
(* With Kilo = 4 an int has 8 bits, and everything that happens between a  *)
(* kilobyte and four gigabytes happens between 4 and 256.                  *)
(***************************************************************************)
EXTENDS Startup

MCSettings == {[n |-> 3, unit |-> "kB"], [n |-> 7, unit |-> "MB"],
               [n |-> 1, unit |-> "GB"], [n |-> 2, unit |-> "GB"],
               [n |-> 4, unit |-> "GB"], [n |-> 1, unit |-> "TB"]}

(* A server, and how much of it the queries for the calibration read.      *)
MCServer == [tuple |-> 13, operator |-> 5, seq_page |-> 500, index_tuple |-> 9,
             random_page |-> 1568]

MCRandom == [rows |-> 6, blocks |-> 4]

Command(letter, numbers, options) ==
    [letter |-> letter, numbers |-> numbers, options |-> options]

Option(letter, value) == [opt |-> letter, value |-> value]

(* An argument with all its numbers, one with more, one with fewer, one    *)
(* that asks for inserts; options in the usual order, an unknown one       *)
(* before others, the log cut short, a file that is not there.             *)
MCCommands ==
    {Command("R", <<100, 99, 3>>, <<>>),
     Command("L", <<0, 100, 2, 7>>, <<Option("l", 3), Option("p", 5432)>>),
     Command("S", <<50, 90, 1>>, <<Option("c", "other"), Option("l", 6)>>),
     Command("S", <<120, 99>>, <<Option("c", "other"), Option("x", 1), Option("l", 3)>>),
     Command("R", <<100, 99, 1>>, <<Option("c", "absent")>>),
     Command("X", <<100, 99, 1>>, <<Option("x", 1), Option("c", "absent")>>)}
=============================================================================
