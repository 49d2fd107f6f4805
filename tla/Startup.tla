------------------------------- MODULE Startup ------------------------------
(***************************************************************************)
(* How the pool comes up and what becomes of its connections: the          *)
(* constructor of every Database, the second round of connects, the choice *)
(* of a strategy, and queries running over the sessions that resulted.     *)
(* The workers are those of Replica.tla, seen only when they use the       *)
(* connection; the servers at the other end may go away at any time.       *)
(* What the program was told when it was started is Program's, what the    *)
(* constructor may find out about a server is Calibration's.               *)
(***************************************************************************)
EXTENDS Program, Calibration, FiniteSets

CONSTANTS MaxReplicas,  (* length of Database::threads, 100 in the code *)
          Commands,     (* what it may be started with: records            *)
                        (* [letter, numbers, options]                      *)
          Files,        (* the configuration files there are *)
          Calibrating,  (* whether init_constants is called, as it once was *)
          Settings,     (* shared_buffers of a server: a number and a unit *)
          Kilo          (* 1024 *)

Mega == Kilo * Kilo
Giga == Kilo * Mega

(* What the system gives a program as its arguments: numbers an int has    *)
(* room for, and values that atoi can read.                                *)
IsCommand(c) ==
    /\ c.numbers \in Seq(0 .. 2 * Giga - 1)
    /\ Len(c.options) \in Nat /\ DOMAIN c.options = 1 .. Len(c.options)
    /\ \A i \in DOMAIN c.options : c.options[i].opt = "l" => c.options[i].value \in Int

ASSUME StartupAssumption ==
    /\ MaxReplicas \in Nat \ {0} /\ Kilo \in Nat \ {0, 1}
    /\ Calibrating \subseteq BOOLEAN
    /\ \A c \in Commands : IsCommand(c)
    /\ Settings \subseteq [n : Nat \ {0}, unit : {"kB", "MB", "GB", "TB"}]

Replicas == 0 .. MaxReplicas - 1

VARIABLES command,     (* the command line *)
          calibrates,  (* whether servers are calibrated *)
          logged,      (* the messages the system's log has of this program *)
          size,        (* replicas.size(): entries of the configuration file *)
          pc,          (* where main is *)
          k,           (* the replica main is at *)
          C,           (* Database::C: "none", "bad", or "ok" *)
          gather,      (* the session's max_parallel_workers_per_gather *)
          setting,     (* shared_buffers, as the server reports it *)
          cache_size,  (* Database::cache_size *)
          alive,       (* cnt of connect_to_replicas *)
          worker,      (* the replica's thread: "none", "idle", "executing" *)
          queued,      (* length of Q2 *)
          dispatched,  (* queries handed out *)
          wasted       (* queries whose PQexec failed, per replica *)

Pool == 0 .. size - 1

vars == <<command, calibrates, calibrationVars, logged, size, pc, k, C, gather, setting, cache_size, alive, worker, queued,
          dispatched, wasted>>
fixedVars == <<command, calibrates, size, setting>>
knownVars == <<fixedVars, calibrationVars, cache_size, logged>>
queryVars == <<queued, dispatched, wasted>>

program == SetUp(command.options)

parameters == Parameters(Argument(command.letter, command.numbers))

Log(message, priority) ==
    logged' = IF Logs(program, priority) THEN logged \cup {message} ELSE logged

Init == /\ command \in Commands
        /\ calibrates \in Calibrating
        /\ CalibrationInit
        /\ logged = {}
        /\ size \in 0..MaxReplicas
        /\ pc = "start"
        /\ k = 0
        /\ C = [r \in Replicas |-> "none"]
        /\ gather = [r \in Replicas |-> "default"]
        /\ setting \in [Replicas -> Settings]
        /\ cache_size = [r \in Replicas |-> 0]
        /\ alive = 0
        /\ worker = [r \in Replicas |-> "none"]
        /\ queued = [r \in Replicas |-> 0]
        /\ dispatched = 0
        /\ wasted = [r \in Replicas |-> 0]
-----------------------------------------------------------------------------
(* The servers.                                                            *)

LoseConnection(r) == /\ C[r] = "ok"
                     /\ C' = [C EXCEPT ![r] = "bad"]
                     /\ UNCHANGED <<pc, k, gather, knownVars, alive, worker, queryVars>>

(* PQconnectdb opens a session of its own, with the server's defaults, and *)
(* the old one is not closed.                                              *)
Connect(r, outcome) == /\ C' = [C EXCEPT ![r] = outcome]
                       /\ gather' = [gather EXCEPT ![r] = "default"]
-----------------------------------------------------------------------------
(* Database::Database.  That connect failed is noticed by nobody.          *)

FirstConnect == /\ pc = "connect"
                /\ \E outcome \in {"ok", "bad"} : Connect(k, outcome)
                /\ Begin(calibrates)
                /\ pc' = IF calibrates THEN "calibrate" ELSE "set"
                /\ Log("adding", LOG_INFO)
                /\ UNCHANGED <<fixedVars, cache_size, k, alive, worker, queryVars>>

WithoutWorkers == [gather EXCEPT ![k] = IF C[k] = "ok" THEN "zero" ELSE @]

Calibrate == /\ pc = "calibrate"
             /\ InitConstants(C[k] = "ok")
             /\ gather' = IF cpc = "sizes" THEN WithoutWorkers ELSE gather
             /\ pc' = IF cpc' = "crashed" THEN "crashed" ELSE pc
             /\ UNCHANGED <<fixedVars, logged, k, C, cache_size, alive, worker, queryVars>>

Calibrated == /\ pc = "calibrate"
              /\ cpc = "done"
              /\ UseWritten
              /\ pc' = "set"
              /\ UNCHANGED <<fixedVars, logged, k, C, gather, cache_size, alive, worker,
                             queryVars>>

SetGather == /\ pc = "set"
             /\ gather' = WithoutWorkers
             /\ pc' = "show"
             /\ UNCHANGED <<k, C, knownVars, alive, worker, queryVars>>

(* Two's complement, as wide as int: 32 bits when Kilo is 1024. *)
Wrap(x) == LET range == 4 * Giga
           IN  IF x % range < range \div 2 THEN x % range ELSE (x % range) - range

(* Mutant: the loop over the answer stops two characters early. *)
DigitsOnly(s) == Wrap(s.n)

(* The last character is not looked at, and 'K' is not a unit the server   *)
(* uses: of kB and TB only the number remains.                             *)
Parse(s) == Wrap(s.n * CASE s.unit = "MB" -> Mega
                         [] s.unit = "GB" -> Giga
                         [] OTHER -> 1)

Show == /\ pc = "show"
        /\ C[k] = "ok"
        /\ cache_size' = [cache_size EXCEPT ![k] = Parse(setting[k])]
        /\ pc' = "spawn"
        /\ UNCHANGED <<fixedVars, calibrationVars, logged, k, C, gather, alive, worker, queryVars>>

(* There is no row to take the answer from: PQgetvalue returns NULL. *)
ShowFails == /\ pc = "show"
             /\ C[k] = "bad"
             /\ pc' = "crashed"
             /\ UNCHANGED <<k, C, gather, knownVars, alive, worker, queryVars>>

(* The next entry of the pool. *)
HasNext == k + 1 < size

(* Tables and foreign keys are read, and the thread is created. *)
Spawn == /\ pc = "spawn"
         /\ worker' = [worker EXCEPT ![k] = "idle"]
         /\ IF HasNext
            THEN pc' = "connect" /\ k' = k + 1
            ELSE pc' = "reconnect" /\ k' = 0
         /\ UNCHANGED <<C, gather, knownVars, alive, queryVars>>
-----------------------------------------------------------------------------
(* main.                                                                   *)

(* The configuration file is read: with none to read, the parser throws.   *)
Start == /\ pc = "start"
         /\ pc' = CASE program.config_file_path \notin Files -> "crashed"
                    [] size = 0 -> "empty"
                    [] OTHER    -> "connect"
         /\ UNCHANGED <<k, C, gather, knownVars, alive, worker, queryVars>>

NoReplicas == /\ pc = "empty"
              /\ Log("zero", LOG_WARNING)
              /\ pc' = "ended"
              /\ UNCHANGED <<fixedVars, calibrationVars, cache_size, k, C, gather, alive, worker, queryVars>>

(* connect_to_replicas. *)
Reconnect == /\ pc = "reconnect"
             /\ \E outcome \in {"ok", "bad"} :
                   /\ Connect(k, outcome)
                   /\ alive' = IF outcome = "ok" THEN alive + 1 ELSE alive
             /\ IF HasNext
                THEN pc' = pc /\ k' = k + 1
                ELSE pc' = "test" /\ k' = 0
             /\ UNCHANGED <<knownVars, worker, queryVars>>

SomeAlive == alive > 0

NoneAlive == /\ pc = "test"
             /\ ~SomeAlive
             /\ Log("none alive", LOG_WARNING)
             /\ pc' = "ended"
             /\ UNCHANGED <<fixedVars, calibrationVars, cache_size, k, C, gather, alive, worker, queryVars>>

(* The first letter of the program's argument names the strategy.          *)
ChooseStrategy ==
    /\ pc = "test"
    /\ SomeAlive
    /\ pc' = IF parameters.strategy \in Strategies THEN "dispatch" ELSE "ended"
    /\ UNCHANGED <<k, C, gather, knownVars, alive, worker, queryVars>>

(* Mutant: queries are dispatched while a thread still connects. *)
SomeThreadUp == pc \in {"reconnect", "dispatch"}

Dispatching == pc = "dispatch"

MoreTasks == dispatched < parameters.numTask

(* Every replica of the pool is one the strategy may choose. *)
Dispatch(r) == /\ Dispatching
               /\ MoreTasks
               /\ dispatched' = dispatched + 1
               /\ queued' = [queued EXCEPT ![r] = @ + 1]
               /\ UNCHANGED <<pc, k, C, gather, knownVars, alive, worker, wasted>>

(* rand() % 100 is above ratio: there is no insert query to take.          *)
DispatchInsert == /\ Dispatching
                  /\ MoreTasks
                  /\ parameters.ratio < 99
                  /\ pc' = "crashed"
                  /\ UNCHANGED <<k, C, gather, knownVars, alive, worker, queryVars>>

(* main is through: it waits for the queues to empty and returns. *)
Finish == /\ Dispatching
          /\ ~MoreTasks
          /\ \A r \in Pool : queued[r] = 0
          /\ pc' = "ended"
          /\ UNCHANGED <<k, C, gather, knownVars, alive, worker, queryVars>>
-----------------------------------------------------------------------------
(* A worker's use of the connection.                                       *)

Execute(r) == /\ pc \notin {"ended", "crashed"}
              /\ worker[r] = "idle" /\ queued[r] > 0
              /\ worker' = [worker EXCEPT ![r] = "executing"]
              /\ UNCHANGED <<pc, k, C, gather, knownVars, alive, queryVars>>

(* The result is not looked at: a query that failed is done as well. *)
Executed(r) == /\ pc \notin {"ended", "crashed"}
               /\ worker[r] = "executing"
               /\ worker' = [worker EXCEPT ![r] = "idle"]
               /\ queued' = [queued EXCEPT ![r] = @ - 1]
               /\ wasted' = [wasted EXCEPT ![r] = IF C[r] = "ok" THEN @ ELSE @ + 1]
               /\ UNCHANGED <<pc, k, C, gather, knownVars, alive, dispatched>>

Build == FirstConnect \/ Calibrate \/ Calibrated \/ SetGather \/ Show \/ ShowFails \/ Spawn

Main == \/ Start \/ Build \/ NoReplicas \/ Reconnect \/ NoneAlive \/ ChooseStrategy
        \/ (\E r \in Pool : Dispatch(r)) \/ DispatchInsert \/ Finish

Next == \/ Main
        \/ \E r \in Pool : Execute(r) \/ Executed(r) \/ LoseConnection(r)
        \/ pc \in {"ended", "crashed"} /\ UNCHANGED vars

Spec == Init /\ [][Next]_vars
-----------------------------------------------------------------------------
Bytes(s) == s.n * (IF s.unit = "MB" THEN Mega ELSE Giga)

(* shared_buffers is taken over as it is, if it is a number of megabytes   *)
(* or gigabytes below two gigabytes (database.cpp 73-83).                  *)
CacheSizeRight ==
    \A r \in Pool :
        /\ worker[r] # "none"
        /\ setting[r].unit \in {"MB", "GB"}
        /\ Bytes(setting[r]) < 2 * Giga
        => cache_size[r] = Bytes(setting[r])

(* connect puts a new connection into C without a lock.  This is harmless  *)
(* only because no worker has anything to do yet: the connection a query   *)
(* runs on is never replaced (config.cpp 36-45, database.cpp 146).         *)
NotReplacedInUse ==
    [][\A r \in Pool : worker[r] = "executing" /\ C'[r] # C[r] => C'[r] = "bad"]_vars

(* A calibration finds what the server's constants are, each from those    *)
(* found before, and leaves the session as it was, unless the connection   *)
(* is lost on the way; then nothing it has found may be relied on          *)
(* (database.cpp 334-445).                                                 *)
CalibrationRight ==
    pc = "calibrate" /\ cpc = "done" /\ C[k] = "ok" => constants = Server /\ seqscan

(* A program that has ended has executed as many queries as its argument   *)
(* asks for, or has left the reason in the log; unless the log was set not *)
(* to take it, or it does not know the strategy (main.cpp 35-91, 192).     *)
EndsForAReason ==
    pc = "ended" =>
        \/ dispatched = Asked(command.numbers, 3) /\ \A r \in Pool : queued[r] = 0
        \/ logged \cap {"zero", "none alive"} # {}
        \/ program.log_level < LOG_WARNING
        \/ command.letter \notin Strategies

(* "set one worker per query" (database.cpp 66): a query that runs, runs   *)
(* in a session that gathers from no parallel workers.                     *)
OneWorkerPerQuery ==
    \A r \in Pool : worker[r] = "executing" /\ C[r] = "ok" => gather[r] = "zero"
=============================================================================
