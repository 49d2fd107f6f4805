------------------------------- MODULE Program ------------------------------
(***************************************************************************)
(* What the program is told when it is started: the first argument, which  *)
(* names the strategy and holds three numbers, and the options after it.   *)
(* "R-100-99-50": RoundRobin, a task every 100 ms, of which 99 in a        *)
(* hundred are selects, and 50 tasks.                                      *)
(***************************************************************************)
EXTENDS Sequences, FiniteSetsExt

(* An argument is a sequence of characters, an option a letter and its     *)
(* value.  Between the dashes of an argument there are digits only.        *)
Numeral(d) == <<"0", "1", "2", "3", "4", "5", "6", "7", "8", "9">>[d + 1]

Digit(char) == CHOOSE d \in 0..9 : Numeral(d) = char

(* The number that starts at pos ends before the next dash, if there is    *)
(* one.                                                                    *)
PartEnd(arg, pos) ==
    Min({p \in pos..Len(arg) : arg[p] = "-"} \cup {Len(arg) + 1})

Number(arg, pos) ==
    LET end == PartEnd(arg, pos) - 1
        value[p \in 0..end] == IF p < pos THEN 0 ELSE 10 * value[p - 1] + Digit(arg[p])
    IN  value[end]

(* Mutant: the dash is not skipped, and ends the number after it as well. *)
StayAtDash(arg, pos) == PartEnd(arg, pos)

PastDash(arg, pos) == PartEnd(arg, pos) + 1

(* What main makes of the argument.  The second character is not looked    *)
(* at, and a number that is not there is 0.                                *)
Parameters(arg) ==
    LET second == PastDash(arg, 3)
        third  == PastDash(arg, second)
    IN [strategy |-> arg[1], speed |-> Number(arg, 3),
        ratio |-> Number(arg, second), numTask |-> Number(arg, third)]

Strategies == {"R", "L", "S"}
-----------------------------------------------------------------------------
LOG_WARNING == 4
LOG_INFO    == 6

(* The one Program there is, before it is set up.                          *)
Defaults == [config_file_path |-> "config", log_level |-> 5, port |-> 7890]

FieldOf == [c |-> "config_file_path", l |-> "log_level", p |-> "port"]

(* Where the first option is that is not known; the rest is not read.     *)
Refused(options) ==
    Min({i \in DOMAIN options : options[i].opt \notin DOMAIN FieldOf} \cup {Len(options) + 1})

SetUp(options) ==
    LET read == Refused(options) - 1
        program[i \in 0..read] ==
            IF i = 0 THEN Defaults
            ELSE [program[i - 1] EXCEPT ![FieldOf[options[i].opt]] = options[i].value]
    IN  program[read]

(* Whether the system's log gets to see a message.                         *)
Logs(program, priority) == program.log_level >= priority
-----------------------------------------------------------------------------
(* How an argument is written: a letter, and numbers in decimal, each      *)
(* after a dash.                                                           *)
Decimal(n) ==
    LET digits[m \in 0..n] == IF m < 10 THEN <<Numeral(m)>>
                              ELSE Append(digits[m \div 10], Numeral(m % 10))
    IN  digits[n]

Argument(letter, numbers) ==
    LET arg[j \in 0..Len(numbers)] ==
            IF j = 0 THEN <<letter>> ELSE Append(arg[j - 1], "-") \o Decimal(numbers[j])
    IN  arg[Len(numbers)]

(* The k-th of those numbers, if so many were written.                     *)
Asked(numbers, k) == IF k \in DOMAIN numbers THEN numbers[k] ELSE 0
=============================================================================
