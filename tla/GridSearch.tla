------------------------------ MODULE GridSearch ------------------------------
(***************************************************************************)
(* federated_grid_search.py: sessions of main(), each of which reads the   *)
(* shared results file, queues the configurations of its grid that are not *)
(* recorded there, and has worker processes run them and append a row for  *)
(* each run that leaves a summary.  A session may be interrupted, and the  *)
(* next one starts from the file alone.  What happens inside a run is the  *)
(* subject of FederatedRun; here it leaves a summary, or none, or the      *)
(* splitter raises before any client starts.                               *)
(***************************************************************************)
EXTENDS FiniteSets, ResultsFile

CONSTANTS
    Workers,      \* range(num_parallel_executions)
    Grids,        \* the grid files, each the sequence of its configurations
    OldFiles,     \* what the results file may hold before the first session
    Starving,     \* the alphas too small for the Dirichlet draw to succeed
    MaxSessions,  \* bound: how often main() is called
    Interrupts,   \* whether a session may be interrupted
    None          \* Python's None: the sentinel, and no configuration

ASSUME WorkersAssumption == IsFiniteSet(Workers) /\ Workers # {}
ASSUME NoneAssumption == None \notin Workers
ASSUME BoundsAssumption == MaxSessions \in Nat

VARIABLES
    file,        \* the shared results file
    main,        \* what the session's main process is doing
    sessions,    \* how many sessions were started
    grid,        \* the grid file of the session
    cursor,      \* how many of its configurations were generated
    executed,    \* executed_fingerprints
    queue,       \* task_queue
    unfinished,  \* the JoinableQueue's count of unfinished tasks
    phase,       \* what each worker process is doing
    task,        \* the configuration it has dequeued
    ta_left,     \* the workers whose process has a Trusted Authority left running
    found,       \* what it found in the file when it took csv_lock
    lock,        \* who holds csv_lock
    recorded,    \* history: the experiments of the rows the file has had
    tried        \* history: the experiments dequeued in this session

mainVars == <<main, sessions, grid, cursor, executed>>
fileVars == <<file, found, lock, recorded>>
vars == <<mainVars, fileVars, queue, unfinished, phase, task, ta_left, tried>>

\* What the grid files ask for, and what is queued for it.
Asked == UNION {{g[i] : i \in DOMAIN g} : g \in Grids}
NormalForm == [c \in Asked |-> Normalize(c)]
Configurations == {NormalForm[c] : c \in Asked}

ASSUME GridsAssumption == Grids \subseteq Seq(Asked) /\ None \notin Configurations
ASSUME AskedAssumption ==
    \A c, d \in Asked : WellFormed(c) /\ OneSearch(c, d)

Init ==
    /\ file \in OldFiles
    /\ main = "idle"
    /\ sessions = 0
    /\ grid = <<>>
    /\ cursor = 0
    /\ executed = {}
    /\ queue = <<>>
    /\ unfinished = 0
    /\ phase = [w \in Workers |-> "off"]
    /\ task = [w \in Workers |-> None]
    /\ ta_left = {}
    /\ found = [w \in Workers |-> EmptyFile]
    /\ lock = None
    /\ recorded = {Experiment(RowEntry(file, i)) : i \in DOMAIN file.rows}
    /\ tried = {}
-----------------------------------------------------------------------------
(* main().                                                                 *)
KnownFingerprints ==
    {GetConfigFingerprint(Normalize(RowEntry(file, i))) : i \in DOMAIN file.rows}

StartSession ==
    /\ main = "idle"
    /\ \A w \in Workers : phase[w] = "off"
    /\ sessions < MaxSessions
    /\ sessions' = sessions + 1
    /\ main' = "generating"
    /\ grid' \in Grids
    /\ cursor' = 0
    /\ executed' = KnownFingerprints
    /\ queue' = <<>>
    /\ unfinished' = 0
    /\ lock' = None
    /\ tried' = {}
    /\ UNCHANGED <<file, found, recorded, phase, task, ta_left>>

\* Mutant: the fingerprint of what was just queued is not remembered.
QueueUnremembered ==
    /\ main = "generating"
    /\ cursor < Len(grid)
    /\ cursor' = cursor + 1
    /\ LET config == NormalForm[grid[cursor + 1]]
       IN  IF GetConfigFingerprint(config) \in executed
           THEN UNCHANGED <<queue, unfinished>>
           ELSE /\ queue' = Append(queue, config)
                /\ unfinished' = unfinished + 1
    /\ UNCHANGED <<fileVars, main, sessions, grid, executed, phase, task, ta_left, tried>>

\* One turn of the loop over generate_configurations.
GenerateConfiguration ==
    /\ main = "generating"
    /\ cursor < Len(grid)
    /\ cursor' = cursor + 1
    /\ LET config == NormalForm[grid[cursor + 1]]
           fingerprint == GetConfigFingerprint(config)
       IN  IF fingerprint \in executed
           THEN UNCHANGED <<executed, queue, unfinished>>
           ELSE /\ executed' = executed \cup {fingerprint}
                /\ queue' = Append(queue, config)
                /\ unfinished' = unfinished + 1
    /\ UNCHANGED <<fileVars, main, sessions, grid, phase, task, ta_left, tried>>

StartWorkers ==
    /\ main = "generating"
    /\ cursor = Len(grid)
    /\ IF queue = <<>>
       THEN main' = "idle" /\ UNCHANGED phase
       ELSE main' = "joining" /\ phase' = [w \in Workers |-> "waiting"]
    /\ UNCHANGED <<fileVars, sessions, grid, cursor, executed, queue,
                   unfinished, task, ta_left, tried>>

\* Mutant: the sentinels are not counted as tasks.
SendUncounted ==
    /\ main = "joining"
    /\ unfinished = 0
    /\ main' = "stopping"
    /\ queue' = queue \o [i \in 1..Cardinality(Workers) |-> None]
    /\ UNCHANGED <<fileVars, sessions, grid, cursor, executed, unfinished,
                   phase, task, ta_left, tried>>

\* task_queue.join() returns; one sentinel for each worker that was started.
SendSentinels ==
    /\ main = "joining"
    /\ unfinished = 0
    /\ main' = "stopping"
    /\ queue' = queue \o [i \in 1..Cardinality(Workers) |-> None]
    /\ unfinished' = unfinished + Cardinality(Workers)
    /\ UNCHANGED <<fileVars, sessions, grid, cursor, executed, phase, task, ta_left, tried>>

JoinProcesses ==
    /\ main = "stopping"
    /\ \A w \in Workers : phase[w] = "off"
    /\ main' = "idle"
    /\ UNCHANGED <<fileVars, sessions, grid, cursor, executed, queue,
                   unfinished, phase, task, ta_left, tried>>

\* Ctrl+C, or the machine is taken away.
Interrupt ==
    /\ Interrupts
    /\ main # "idle"
    /\ main' = "idle"
    /\ phase' = [w \in Workers |-> "off"]
    /\ ta_left' = {}
    /\ UNCHANGED <<fileVars, sessions, grid, cursor, executed, queue,
                   unfinished, task, tried>>
-----------------------------------------------------------------------------
(* run_grid_search_worker().  Its finally clause reports the task done in  *)
(* whatever way the body is left.                                          *)
Dequeue(w) ==
    /\ phase[w] = "waiting"
    /\ queue # <<>>
    /\ queue' = Tail(queue)
    /\ task' = [task EXCEPT ![w] = Head(queue)]
    /\ IF Head(queue) = None
       THEN /\ phase' = [phase EXCEPT ![w] = "left"]
            /\ unfinished' = unfinished - 1
            /\ UNCHANGED tried
       ELSE /\ phase' = [phase EXCEPT ![w] = "running"]
            /\ tried' = tried \cup {Experiment(Head(queue))}
            /\ UNCHANGED unfinished
    /\ UNCHANGED <<mainVars, fileVars, ta_left>>

SplitSucceeds(config) ==
    /\ SplitterAccepts(config)
    /\ Get(config, "partition_strategy") = "dirichlet" =>
           Get(config, "dirichlet_alpha") \notin Starving

Encrypted(config) == GetOr(config, "encryption_mode", "no_encryption") # "no_encryption"

\* Mutant: task_done at the end of the body instead of in the finally clause.
SplitRaisesUnreported(w) ==
    /\ phase[w] = "running"
    /\ ~SplitSucceeds(task[w])
    /\ phase' = [phase EXCEPT ![w] = "left"]
    /\ ta_left' = IF Encrypted(task[w]) THEN ta_left \cup {w} ELSE ta_left
    /\ UNCHANGED <<mainVars, fileVars, queue, unfinished, task, tried>>

\* Only queue.Empty is caught: the exception leaves the loop and whatever comes
\* after the call, the shutdown of the Trusted Authority included.
SplitRaises(w) ==
    /\ phase[w] = "running"
    /\ ~SplitSucceeds(task[w])
    /\ phase' = [phase EXCEPT ![w] = "left"]
    /\ ta_left' = IF Encrypted(task[w]) THEN ta_left \cup {w} ELSE ta_left
    /\ unfinished' = unfinished - 1
    /\ UNCHANGED <<mainVars, fileVars, queue, task, tried>>

\* The worker's function was left, by the sentinel or by an exception. Its process
\* ends with the last thread that is not a daemon: a server nobody connected to
\* is ended by its watchdog, a Trusted Authority by nobody.
ProcessEnds(w) ==
    /\ phase[w] = "left"
    /\ w \notin ta_left
    /\ phase' = [phase EXCEPT ![w] = "off"]
    /\ UNCHANGED <<mainVars, fileVars, queue, unfinished, task, ta_left, tried>>

\* shutdown_ta, to whatever Trusted Authority listens on the worker's port; an
\* exception on the way is caught, and the thread goes on.
ShutDownAuthority(w) ==
    IF Encrypted(task[w])
    THEN ta_left' \in {ta_left \ {w}, ta_left \cup {w}}
    ELSE UNCHANGED ta_left

RunCompletes(w) ==
    /\ phase[w] = "running"
    /\ SplitSucceeds(task[w])
    /\ phase' = [phase EXCEPT ![w] = "summarised"]
    /\ ShutDownAuthority(w)
    /\ UNCHANGED <<mainVars, fileVars, queue, unfinished, task, tried>>

\* The server does not start, or it drops the summary of an aborted run.
RunFails(w) ==
    /\ phase[w] = "running"
    /\ phase' = [phase EXCEPT ![w] = "finishing"]
    /\ ShutDownAuthority(w)
    /\ UNCHANGED <<mainVars, fileVars, queue, unfinished, task, tried>>

\* Mutant: the lock is not taken.
ReadHeaderUnlocked(w) ==
    /\ phase[w] = "summarised"
    /\ lock' = w
    /\ found' = [found EXCEPT ![w] = file]
    /\ phase' = [phase EXCEPT ![w] = "appending"]
    /\ UNCHANGED <<mainVars, file, recorded, queue, unfinished, task, ta_left, tried>>

\* append_results_to_csv up to the test of file_is_empty.
ReadHeader(w) ==
    /\ phase[w] = "summarised"
    /\ lock = None
    /\ lock' = w
    /\ found' = [found EXCEPT ![w] = file]
    /\ phase' = [phase EXCEPT ![w] = "appending"]
    /\ UNCHANGED <<mainVars, file, recorded, queue, unfinished, task, ta_left, tried>>

\* The \E compute each value once, which a LET does not where TLC asks whether
\* the step is enabled.
AppendRow(w) ==
    /\ phase[w] = "appending"
    /\ \E summary \in {RunSummary(task[w])} :
       \E fieldnames \in {FieldNames(found[w], summary)} :
           file' = AppendedTo(file, fieldnames, found[w].header = <<>>, summary)
    /\ lock' = None
    /\ recorded' = recorded \cup {Experiment(task[w])}
    /\ phase' = [phase EXCEPT ![w] = "finishing"]
    /\ UNCHANGED <<mainVars, found, queue, unfinished, task, ta_left, tried>>

TaskDone(w) ==
    /\ phase[w] = "finishing"
    /\ phase' = [phase EXCEPT ![w] = "waiting"]
    /\ unfinished' = unfinished - 1
    /\ UNCHANGED <<mainVars, fileVars, queue, task, ta_left, tried>>
-----------------------------------------------------------------------------
MainStep ==
    \/ GenerateConfiguration
    \/ StartWorkers
    \/ SendSentinels
    \/ JoinProcesses

WorkerStep(w) ==
    \/ Dequeue(w)
    \/ SplitRaises(w)
    \/ ProcessEnds(w)
    \/ RunCompletes(w)
    \/ RunFails(w)
    \/ ReadHeader(w)
    \/ AppendRow(w)
    \/ TaskDone(w)

Next ==
    \/ StartSession
    \/ Interrupt
    \/ MainStep
    \/ \E w \in Workers : WorkerStep(w)

Spec == Init /\ [][Next]_vars

\* The processes of a session go on; nobody has to start or to stop one.
FairSpec ==
    Spec /\ WF_vars(MainStep) /\ \A w \in Workers : WF_vars(WorkerStep(w))
-----------------------------------------------------------------------------
Busy == {w \in Workers :
            phase[w] \in {"running", "summarised", "appending", "finishing"}}

Phases == {"off", "waiting", "running", "summarised", "appending", "finishing",
           "left"}

(* The main process, the workers and the counters hold what they may, and  *)
(* no more of a grid is generated than it has.                             *)
TypeOK ==
    /\ main \in {"idle", "generating", "joining", "stopping"}
    /\ sessions \in 0..MaxSessions
    /\ grid \in Grids \cup {<<>>}
    /\ queue \in Seq(Configurations \cup {None})
    /\ task \in [Workers -> Configurations \cup {None}]
    /\ unfinished \in Nat
    /\ phase \in [Workers -> Phases]
    /\ ta_left \subseteq Workers
    /\ lock \in Workers \cup {None}
    /\ cursor \in 0..Len(grid)

(* task_queue.join() can return exactly when every task was worked off: a  *)
(* task is counted from the put to the task_done of the worker that took   *)
(* it, a task whose split raised included (the finally clause).            *)
TasksAccounted ==
    main # "idle" => unfinished = Len(queue) + Cardinality(Busy)

(* What append_results_to_csv has found in the file, its field names or    *)
(* that it is empty, is still true when it writes its own line below them, *)
(* whichever workers finish their runs together (csv_lock).                *)
FoundStillTrue ==
    \A w \in Workers : phase[w] = "appending" => found[w] = file

(* No run is repeated: what is queued or under way in this session is      *)
(* neither recorded, by this session or an earlier one, nor queued twice.  *)
InFlight(w) == phase[w] \in {"running", "summarised", "appending"}

NothingRepeated ==
    main # "idle" =>
        /\ \A w \in Workers : InFlight(w) => Experiment(task[w]) \notin recorded
        /\ \A i \in DOMAIN queue : queue[i] # None =>
              /\ Experiment(queue[i]) \notin recorded \cup tried
              /\ \A j \in DOMAIN queue :
                    queue[j] # None /\ Experiment(queue[j]) = Experiment(queue[i])
                        => i = j

(* No configuration is silently skipped: when the workers are told to stop *)
(* every experiment of the grid is on record or was tried.                 *)
NothingSkipped ==
    main = "stopping" =>
        \A i \in 1..Len(grid) :
            Experiment(Normalize(grid[i])) \in recorded \cup tried

\* Every worker's function was left by an exception: nobody takes what is queued.
Deserted ==
    main = "joining" /\ unfinished # 0 /\ \A w \in Workers : phase[w] \in {"left", "off"}

\* A worker's function was left and its process does not end.
Lingering == \E w \in ta_left : phase[w] = "left"

(* A session comes to its end, unless one of two things happened to it: as *)
(* many splits raised as there are workers, or a process was left with a   *)
(* Trusted Authority that nobody shut down, which is joined for ever.      *)
(* Whatever else its runs do, a worker that dies leaves its share to the   *)
(* others and task_queue.join() returns.                                   *)
SessionEnds ==
    (main = "generating") ~> (main = "idle" \/ Deserted \/ Lingering)
=============================================================================
