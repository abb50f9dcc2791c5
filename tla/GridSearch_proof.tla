--------------------------- MODULE GridSearch_proof ---------------------------
(***************************************************************************)
(* What holds of the grid search for any workers, grids, results files and *)
(* interruptions.  Nothing here looks into a configuration: Normalize,     *)
(* Experiment and the fingerprints stay folded, and what the second part   *)
(* needs to know of them are lemmas of ResultsFile_proof.                  *)
(***************************************************************************)
EXTENDS GridSearch, ResultsFile_proof

\* While no worker runs none is in the middle of anything.
IdleInv ==
    main \in {"idle", "generating"} => \A w \in Workers : phase[w] = "off"

\* Who is appending holds the lock, and has read the file as it is.
LockInv ==
    \A w \in Workers : phase[w] = "appending" => lock = w /\ found[w] = file

IInv == TypeOK /\ IdleInv /\ TasksAccounted /\ LockInv /\ DOMAIN found = Workers
-----------------------------------------------------------------------------
(* A worker that becomes busy, and one that no longer is, change the count *)
(* of the busy ones by one; any other change of phase leaves it alone.     *)
BusyPhases == {"running", "summarised", "appending", "finishing"}

LEMMA BusyFinite ==
  ASSUME phase \in [Workers -> Phases]
  PROVE  IsFiniteSet(Busy) /\ Cardinality(Busy) \in Nat
PROOF
  BY WorkersAssumption, FS_Subset, FS_CardinalityType DEF Busy

LEMMA BusyBecomes ==
  ASSUME phase \in [Workers -> Phases], NEW w \in Workers, NEW p \in Phases,
         phase' = [phase EXCEPT ![w] = p]
  PROVE  /\ phase[w] \notin BusyPhases /\ p \in BusyPhases
              => Cardinality(Busy') = Cardinality(Busy) + 1
         /\ phase[w] \in BusyPhases /\ p \notin BusyPhases
              => Cardinality(Busy') = Cardinality(Busy) - 1 /\ Cardinality(Busy) >= 1
         /\ (phase[w] \in BusyPhases <=> p \in BusyPhases)
              => Cardinality(Busy') = Cardinality(Busy)
PROOF
  <1>1. IsFiniteSet(Busy) /\ Cardinality(Busy) \in Nat
    BY BusyFinite
  <1>2. CASE phase[w] \notin BusyPhases /\ p \in BusyPhases
    <2>1. Busy' = Busy \cup {w} /\ w \notin Busy
      BY <1>2 DEF Busy, BusyPhases
    <2> QED
      BY <1>1, <1>2, <2>1, FS_AddElement
  <1>3. CASE phase[w] \in BusyPhases /\ p \notin BusyPhases
    <2>1. Busy' = Busy \ {w} /\ w \in Busy
      BY <1>3 DEF Busy, BusyPhases
    <2>2. Busy # {}
      BY <2>1
    <2>3. Cardinality(Busy) # 0
      BY <1>1, <2>2, FS_EmptySet
    <2>4. Cardinality(Busy') = Cardinality(Busy) - 1
      BY <1>1, <2>1, FS_RemoveElement
    <2> QED
      BY <1>1, <1>3, <2>3, <2>4
  <1>4. CASE phase[w] \in BusyPhases <=> p \in BusyPhases
    <2>1. Busy' = Busy
      BY <1>4 DEF Busy, BusyPhases
    <2> QED
      BY <1>4, <2>1
  <1> QED
    BY <1>2, <1>3, <1>4

LEMMA NobodyBusy ==
  ASSUME \A w \in Workers : phase[w] \notin BusyPhases
  PROVE  Cardinality(Busy) = 0
PROOF
  <1>1. Busy = {}
    BY DEF Busy, BusyPhases
  <1> QED
    BY <1>1, FS_EmptySet
-----------------------------------------------------------------------------
LEMMA InitInv == Init => IInv
PROOF
  <1> SUFFICES ASSUME Init PROVE IInv
    OBVIOUS
  <1>1. TypeOK
    <2>1. queue \in Seq(Configurations \cup {None}) /\ Len(grid) = 0
      BY DEF Init
    <2> QED
      BY <2>1, BoundsAssumption DEF Init, TypeOK, Phases
  <1>2. IdleInv /\ LockInv /\ TasksAccounted /\ DOMAIN found = Workers
    BY DEF Init, IdleInv, LockInv, TasksAccounted
  <1> QED
    BY <1>1, <1>2 DEF IInv

\* A grid's next configuration, as it is queued.
LEMMA NextConfiguration ==
  ASSUME TypeOK, cursor < Len(grid)
  PROVE  /\ grid \in Grids
         /\ Len(grid) \in Nat
         /\ grid[cursor + 1] \in Asked
         /\ NormalForm[grid[cursor + 1]] \in Configurations
PROOF
  <1>1. grid \in Grids
    <2>1. grid # <<>>
      BY DEF TypeOK
    <2> QED
      BY <2>1 DEF TypeOK
  <1>2. Len(grid) \in Nat /\ DOMAIN grid = 1..Len(grid)
    BY <1>1, GridsAssumption
  <1>3. cursor + 1 \in DOMAIN grid
    BY <1>2 DEF TypeOK
  <1> QED
    BY <1>1, <1>2, <1>3 DEF Configurations, Asked

(* What putting one task, or several, does to the length of the queue.     *)
LEMMA PutOne ==
  ASSUME NEW S, NEW q \in Seq(S), NEW c \in S
  PROVE  /\ Append(q, c) \in Seq(S)
         /\ Len(Append(q, c)) = Len(q) + 1
         /\ Len(q) \in Nat
OBVIOUS

LEMMA PutMany ==
  ASSUME NEW S, NEW q \in Seq(S), NEW r \in Seq(S)
  PROVE  /\ q \o r \in Seq(S)
         /\ Len(q \o r) = Len(q) + Len(r)
         /\ Len(q) \in Nat
OBVIOUS

LEMMA MainPreserves ==
  ASSUME IInv, StartSession \/ Interrupt \/ MainStep
  PROVE  IInv'
PROOF
  <1> USE DEF IInv, mainVars, fileVars
  <1>1. CASE StartSession
    <2>1. TypeOK'
      <3>1. queue' \in Seq(Configurations \cup {None})
        BY <1>1 DEF StartSession
      <3>2. cursor' \in 0..Len(grid')
        <4>1. Len(grid') \in Nat
          BY <1>1, GridsAssumption DEF StartSession
        <4> QED
          BY <1>1, <4>1 DEF StartSession
      <3> QED
        BY <1>1, <3>1, <3>2, BoundsAssumption DEF StartSession, TypeOK
    <2>2. IdleInv'
      BY <1>1 DEF StartSession, IdleInv
    <2>3. TasksAccounted'
      <3>1. Cardinality(Busy) = 0 /\ Busy' = Busy
        BY <1>1, NobodyBusy DEF StartSession, BusyPhases, Busy
      <3> QED
        BY <1>1, <3>1 DEF StartSession, TasksAccounted
    <2>4. LockInv' /\ DOMAIN found' = Workers
      BY <1>1 DEF StartSession, LockInv
    <2> QED
      BY <2>1, <2>2, <2>3, <2>4
  <1>2. CASE Interrupt
    <2>1. TypeOK'
      BY <1>2 DEF Interrupt, TypeOK, Phases
    <2>2. IdleInv' /\ TasksAccounted' /\ LockInv' /\ DOMAIN found' = Workers
      BY <1>2 DEF Interrupt, IdleInv, TasksAccounted, LockInv, TypeOK
    <2> QED
      BY <2>1, <2>2
  <1>3. CASE GenerateConfiguration
    <2> DEFINE config == NormalForm[grid[cursor + 1]]
    <2>1. config \in Configurations /\ Len(grid) \in Nat
      BY <1>3, NextConfiguration DEF GenerateConfiguration
    <2>2. \/ UNCHANGED <<queue, unfinished>>
          \/ queue' = Append(queue, config) /\ unfinished' = unfinished + 1
      BY <1>3 DEF GenerateConfiguration
    <2> HIDE DEF config
    <2>3. /\ queue' \in Seq(Configurations \cup {None})
          /\ unfinished' \in Nat
          /\ \A k \in Nat : unfinished = Len(queue) + k
                            => unfinished' = Len(queue') + k
      <3>1. /\ queue \in Seq(Configurations \cup {None})
            /\ unfinished \in Nat
            /\ config \in Configurations \cup {None}
        BY <2>1 DEF TypeOK
      <3>2. /\ Append(queue, config) \in Seq(Configurations \cup {None})
            /\ Len(Append(queue, config)) = Len(queue) + 1
        BY <3>1, PutOne
      <3> QED
        BY <2>2, <3>1, <3>2
    <2>4. TypeOK'
      BY <1>3, <2>1, <2>3 DEF GenerateConfiguration, TypeOK
    <2>5. IdleInv' /\ LockInv' /\ DOMAIN found' = Workers
      BY <1>3 DEF GenerateConfiguration, IdleInv, LockInv
    <2>6. TasksAccounted'
      <3>1. Busy' = Busy /\ Cardinality(Busy) \in Nat
        BY <1>3, BusyFinite DEF GenerateConfiguration, Busy, TypeOK
      <3>2. unfinished = Len(queue) + Cardinality(Busy)
        BY <1>3 DEF GenerateConfiguration, TasksAccounted
      <3>3. unfinished' = Len(queue') + Cardinality(Busy)
        BY <2>3, <3>1, <3>2
      <3> QED
        BY <3>1, <3>3 DEF TasksAccounted
    <2> QED
      BY <2>4, <2>5, <2>6
  <1>4. CASE StartWorkers
    <2>1. TypeOK'
      BY <1>4 DEF StartWorkers, TypeOK, Phases
    <2>2. IdleInv' /\ LockInv' /\ DOMAIN found' = Workers
      BY <1>4 DEF StartWorkers, IdleInv, LockInv, TypeOK
    <2>3. TasksAccounted'
      <3>1. Cardinality(Busy) = 0
        BY <1>4, NobodyBusy DEF StartWorkers, IdleInv, BusyPhases
      <3>2. \A w \in Workers : phase'[w] \notin BusyPhases
        BY <1>4 DEF StartWorkers, IdleInv, BusyPhases, TypeOK
      <3>3. Busy' = {} /\ Busy = {}
        BY <1>4, <3>2 DEF Busy, BusyPhases, StartWorkers, IdleInv
      <3> QED
        BY <1>4, <3>1, <3>3 DEF StartWorkers, TasksAccounted
    <2> QED
      BY <2>1, <2>2, <2>3
  <1>5. CASE SendSentinels
    <2> DEFINE N == Cardinality(Workers)
               sentinels == [i \in 1..N |-> None]
    <2>1. N \in Nat
      BY WorkersAssumption, FS_CardinalityType
    <2>2. sentinels \in Seq(Configurations \cup {None}) /\ Len(sentinels) = N
      BY <2>1
    <2>3. /\ queue' = queue \o sentinels
          /\ unfinished' = unfinished + N
      BY <1>5 DEF SendSentinels
    <2> HIDE DEF N, sentinels
    <2>4. /\ queue' \in Seq(Configurations \cup {None})
          /\ unfinished' \in Nat
          /\ \A k \in Nat : unfinished = Len(queue) + k
                            => unfinished' = Len(queue') + k
      <3>1. queue \in Seq(Configurations \cup {None}) /\ unfinished \in Nat
        BY DEF TypeOK
      <3>2. /\ queue \o sentinels \in Seq(Configurations \cup {None})
            /\ Len(queue \o sentinels) = Len(queue) + N
        BY <2>2, <3>1, PutMany
      <3>3. queue' \in Seq(Configurations \cup {None}) /\ Len(queue') = Len(queue) + N
        BY <2>3, <3>2
      <3>4. Len(queue) \in Nat
        BY <3>1
      <3>5. unfinished' = unfinished + N
        BY <2>3
      <3>6. unfinished' \in Nat
        BY <2>1, <3>1, <3>5
      <3>7. ASSUME NEW k \in Nat, unfinished = Len(queue) + k
            PROVE  unfinished' = Len(queue') + k
        BY <2>1, <3>3, <3>4, <3>5, <3>7
      <3> QED
        BY <3>3, <3>6, <3>7
    <2>5. TypeOK'
      BY <1>5, <2>4 DEF SendSentinels, TypeOK
    <2>6. IdleInv' /\ LockInv' /\ DOMAIN found' = Workers
      BY <1>5 DEF SendSentinels, IdleInv, LockInv
    <2>7. TasksAccounted'
      <3>1. Busy' = Busy /\ Cardinality(Busy) \in Nat
        BY <1>5, BusyFinite DEF SendSentinels, Busy, TypeOK
      <3>2. unfinished = Len(queue) + Cardinality(Busy)
        BY <1>5 DEF SendSentinels, TasksAccounted
      <3>3. unfinished' = Len(queue') + Cardinality(Busy)
        BY <2>4, <3>1, <3>2
      <3> QED
        BY <3>1, <3>3 DEF TasksAccounted
    <2> QED
      BY <2>5, <2>6, <2>7
  <1>6. CASE JoinProcesses
    <2>1. TypeOK'
      BY <1>6 DEF JoinProcesses, TypeOK
    <2>2. IdleInv' /\ TasksAccounted' /\ LockInv' /\ DOMAIN found' = Workers
      BY <1>6 DEF JoinProcesses, IdleInv, TasksAccounted, LockInv
    <2> QED
      BY <2>1, <2>2
  <1> QED
    BY <1>1, <1>2, <1>3, <1>4, <1>5, <1>6 DEF MainStep
-----------------------------------------------------------------------------
(* A worker that does anything is one of a session that is not over, and   *)
(* when it is busy there is something left to be counted.                  *)
LEMMA WorkerActive ==
  ASSUME IInv, NEW w \in Workers, WorkerStep(w)
  PROVE  /\ main \in {"joining", "stopping"}
         /\ unfinished = Len(queue) + Cardinality(Busy)
         /\ Len(queue) \in Nat
         /\ Cardinality(Busy) \in Nat
PROOF
  <1>1. phase[w] # "off"
    BY DEF WorkerStep, Dequeue, SplitRaises, ProcessEnds, RunCompletes,
           RunFails, ReadHeader, AppendRow, TaskDone
  <1>2. main \in {"joining", "stopping"}
    BY <1>1 DEF IInv, TypeOK, IdleInv
  <1> QED
    BY <1>2, BusyFinite DEF IInv, TypeOK, TasksAccounted

LEMMA WorkerPreserves ==
  ASSUME IInv, NEW w \in Workers, WorkerStep(w)
  PROVE  IInv'
PROOF
  <1> USE DEF IInv, mainVars, fileVars
  <1>0. /\ main \in {"joining", "stopping"}
        /\ unfinished = Len(queue) + Cardinality(Busy)
        /\ Len(queue) \in Nat
        /\ Cardinality(Busy) \in Nat
    BY WorkerActive
  <1>1. CASE Dequeue(w)
    <2>1. /\ Head(queue) \in Configurations \cup {None}
          /\ Tail(queue) \in Seq(Configurations \cup {None})
          /\ Len(Tail(queue)) = Len(queue) - 1
          /\ Len(queue) >= 1
      BY <1>1 DEF Dequeue, TypeOK
    <2>2. CASE Head(queue) = None
      <3>1. phase' = [phase EXCEPT ![w] = "left"] /\ unfinished' = unfinished - 1
        BY <1>1, <2>2 DEF Dequeue
      <3>2. Cardinality(Busy') = Cardinality(Busy)
        BY <1>1, <3>1, BusyBecomes DEF Dequeue, TypeOK, BusyPhases, Phases
      <3>3. TypeOK'
        BY <1>0, <1>1, <2>1, <3>1 DEF Dequeue, TypeOK, Phases
      <3>4. TasksAccounted'
        BY <1>0, <1>1, <2>1, <3>1, <3>2 DEF Dequeue, TasksAccounted
      <3>5. IdleInv' /\ LockInv' /\ DOMAIN found' = Workers
        BY <1>0, <1>1, <3>1 DEF Dequeue, IdleInv, LockInv, TypeOK
      <3> QED
        BY <3>3, <3>4, <3>5
    <2>3. CASE Head(queue) # None
      <3>1. phase' = [phase EXCEPT ![w] = "running"] /\ unfinished' = unfinished
        BY <1>1, <2>3 DEF Dequeue
      <3>2. Cardinality(Busy') = Cardinality(Busy) + 1
        BY <1>1, <3>1, BusyBecomes DEF Dequeue, TypeOK, BusyPhases, Phases
      <3>3. TypeOK'
        BY <1>0, <1>1, <2>1, <3>1 DEF Dequeue, TypeOK, Phases
      <3>4. TasksAccounted'
        BY <1>0, <1>1, <2>1, <3>1, <3>2 DEF Dequeue, TasksAccounted
      <3>5. IdleInv' /\ LockInv' /\ DOMAIN found' = Workers
        BY <1>0, <1>1, <3>1 DEF Dequeue, IdleInv, LockInv, TypeOK
      <3> QED
        BY <3>3, <3>4, <3>5
    <2> QED
      BY <2>2, <2>3
  <1>2. CASE SplitRaises(w)
    <2>1. /\ Cardinality(Busy') = Cardinality(Busy) - 1
          /\ Cardinality(Busy) >= 1
      BY <1>2, BusyBecomes DEF SplitRaises, TypeOK, BusyPhases, Phases
    <2>2. TypeOK'
      BY <1>0, <1>2, <2>1 DEF SplitRaises, TypeOK, Phases
    <2>3. TasksAccounted'
      BY <1>0, <1>2, <2>1 DEF SplitRaises, TasksAccounted
    <2>4. IdleInv' /\ LockInv' /\ DOMAIN found' = Workers
      BY <1>0, <1>2 DEF SplitRaises, IdleInv, LockInv, TypeOK
    <2> QED
      BY <2>2, <2>3, <2>4
  <1>3. CASE TaskDone(w)
    <2>1. /\ Cardinality(Busy') = Cardinality(Busy) - 1
          /\ Cardinality(Busy) >= 1
      BY <1>3, BusyBecomes DEF TaskDone, TypeOK, BusyPhases, Phases
    <2>2. TypeOK'
      BY <1>0, <1>3, <2>1 DEF TaskDone, TypeOK, Phases
    <2>3. TasksAccounted'
      BY <1>0, <1>3, <2>1 DEF TaskDone, TasksAccounted
    <2>4. IdleInv' /\ LockInv' /\ DOMAIN found' = Workers
      BY <1>0, <1>3 DEF TaskDone, IdleInv, LockInv, TypeOK
    <2> QED
      BY <2>2, <2>3, <2>4
  <1>4. CASE ProcessEnds(w) \/ RunCompletes(w) \/ RunFails(w)
    <2>1. Cardinality(Busy') = Cardinality(Busy)
      BY <1>4, BusyBecomes
      DEF ProcessEnds, RunCompletes, RunFails, ShutDownAuthority, TypeOK, BusyPhases, Phases
    <2>2. TypeOK'
      BY <1>4 DEF ProcessEnds, RunCompletes, RunFails, ShutDownAuthority, TypeOK, Phases
    <2>3. TasksAccounted'
      BY <1>0, <1>4, <2>1
      DEF ProcessEnds, RunCompletes, RunFails, ShutDownAuthority, TasksAccounted
    <2>4. IdleInv' /\ LockInv' /\ DOMAIN found' = Workers
      BY <1>0, <1>4
      DEF ProcessEnds, RunCompletes, RunFails, ShutDownAuthority, IdleInv, LockInv, TypeOK
    <2> QED
      BY <2>2, <2>3, <2>4
  <1>5. CASE ReadHeader(w)
    <2>1. Cardinality(Busy') = Cardinality(Busy)
      BY <1>5, BusyBecomes DEF ReadHeader, TypeOK, BusyPhases, Phases
    <2>2. TypeOK'
      BY <1>5 DEF ReadHeader, TypeOK, Phases
    <2>3. TasksAccounted' /\ IdleInv'
      BY <1>0, <1>5, <2>1 DEF ReadHeader, TasksAccounted, IdleInv
    <2>4. \A v \in Workers : phase[v] # "appending"
      BY <1>5, NoneAssumption DEF ReadHeader, LockInv
    <2>5. LockInv' /\ DOMAIN found' = Workers
      BY <1>5, <2>4 DEF ReadHeader, LockInv, TypeOK
    <2> QED
      BY <2>2, <2>3, <2>5
  <1>6. CASE AppendRow(w)
    <2>1. Cardinality(Busy') = Cardinality(Busy)
      BY <1>6, BusyBecomes DEF AppendRow, TypeOK, BusyPhases, Phases
    <2>2. TypeOK'
      BY <1>6 DEF AppendRow, TypeOK, Phases
    <2>3. TasksAccounted' /\ IdleInv'
      BY <1>0, <1>6, <2>1 DEF AppendRow, TasksAccounted, IdleInv
    <2>4. \A v \in Workers : phase[v] = "appending" => v = w
      BY <1>6 DEF AppendRow, LockInv
    <2>5. LockInv' /\ DOMAIN found' = Workers
      BY <1>6, <2>4 DEF AppendRow, LockInv, TypeOK
    <2> QED
      BY <2>2, <2>3, <2>5
  <1> QED
    BY <1>1, <1>2, <1>3, <1>4, <1>5, <1>6 DEF WorkerStep
-----------------------------------------------------------------------------
LEMMA Invariance == Spec => []IInv
PROOF
  <1>1. IInv /\ [Next]_vars => IInv'
    <2> SUFFICES ASSUME IInv, [Next]_vars PROVE IInv'
      OBVIOUS
    <2>1. CASE Next
      BY <2>1, MainPreserves, WorkerPreserves DEF Next
    <2>2. CASE UNCHANGED vars
      BY <2>2 DEF vars, mainVars, fileVars, IInv, TypeOK, IdleInv,
                  TasksAccounted, LockInv, Busy
    <2> QED
      BY <2>1, <2>2
  <1> QED
    BY <1>1, InitInv, PTL DEF Spec

(* Every reachable state is well typed; in particular the queue's count of *)
(* unfinished tasks never falls below zero, where task_done() would raise. *)
THEOREM TypeCorrect == Spec => []TypeOK
PROOF
  <1>1. IInv => TypeOK
    BY DEF IInv
  <1> QED
    BY <1>1, Invariance, PTL

(* task_queue.join() returns exactly when every task is worked off,        *)
(* whatever the runs do (run_grid_search_worker's finally clause).         *)
THEOREM TasksCounted == Spec => []TasksAccounted
PROOF
  <1>1. IInv => TasksAccounted
    BY DEF IInv
  <1> QED
    BY <1>1, Invariance, PTL

(* What a worker has found in the results file still holds when it appends *)
(* its row, for any number of workers (csv_lock).                          *)
THEOREM AppendsToWhatItFound == Spec => []FoundStillTrue
PROOF
  <1>1. IInv => FoundStillTrue
    BY DEF IInv, LockInv, FoundStillTrue
  <1> QED
    BY <1>1, Invariance, PTL
-----------------------------------------------------------------------------
(* What is run and what is skipped.  A row can be told apart by its place  *)
(* alone, so the second part is about searches whose runs all leave the    *)
(* same keys, over a file that holds nothing else.                         *)
SummaryKeys == UNION {DOMAIN RunSummary(c) : c \in Configurations}

SearchHeader == SortedKeys(SummaryKeys)

SearchRows == {Values(SearchHeader, RunSummary(c)) : c \in Configurations}

SearchFiles == {EmptyFile} \cup [header : {SearchHeader}, rows : Seq(SearchRows)]

OneHeader ==
    /\ \A c \in Configurations : DOMAIN RunSummary(c) = SummaryKeys
    /\ OldFiles \subseteq SearchFiles

LEMMA ConfigurationAsked ==
  ASSUME NEW c \in Configurations
  PROVE  /\ c # None
         /\ \E a \in Asked : c = Normalize(a) /\ WellFormed(a)
PROOF
  <1>1. c # None
    BY GridsAssumption
  <1>2. PICK a \in Asked : c = NormalForm[a]
    BY DEF Configurations
  <1>3. c = Normalize(a) /\ WellFormed(a)
    BY <1>2, AskedAssumption DEF NormalForm
  <1> QED
    BY <1>1, <1>3

\* Two configurations of the search have one fingerprint when they are one
\* experiment.
LEMMA ToldApart ==
  ASSUME NEW c \in Configurations, NEW d \in Configurations
  PROVE  GetConfigFingerprint(c) = GetConfigFingerprint(d)
            <=> Experiment(c) = Experiment(d)
PROOF
  <1>1. PICK a \in Asked : c = NormalForm[a]
    BY DEF Configurations
  <1>2. PICK b \in Asked : d = NormalForm[b]
    BY DEF Configurations
  <1>3. /\ c = Normalize(a) /\ WellFormed(a)
        /\ d = Normalize(b) /\ WellFormed(b)
        /\ OneSearch(a, b)
    BY <1>1, <1>2, AskedAssumption DEF NormalForm
  <1> QED
    BY <1>3, FingerprintIsExperiment, KeepsExperiment

LEMMA SummaryOfSearch ==
  ASSUME NEW c \in Configurations
  PROVE  /\ DOMAIN RunSummary(c) \subseteq KeyNames
         /\ IsFcn(RunSummary(c))
         /\ "best_f1" \in DOMAIN RunSummary(c)
         /\ Experiment(RunSummary(c)) = Experiment(c)
         /\ GetConfigFingerprint(Normalize(RunSummary(c))) = GetConfigFingerprint(c)
PROOF
  <1>1. PICK a \in Asked : c = Normalize(a) /\ WellFormed(a)
    BY ConfigurationAsked
  <1>2. DOMAIN c \subseteq Untouched \cup Filled
    BY <1>1, NormalIsFcn DEF WellFormed
  <1>3. Agree(RunSummary(c), Normalize(a))
    BY <1>1, SummaryAgrees
  <1>4. Agree(Normalize(RunSummary(c)), c)
    BY <1>1, <1>3, NormalAgain
  <1>5. DOMAIN RunSummary(c) \subseteq KeyNames
    BY <1>2, SummaryAgrees, KnownKeys
  <1> QED
    BY <1>1, <1>3, <1>4, <1>5, SummaryAgrees, AgreeExperiment, AgreeFingerprint

LEMMA HeaderOfSearch ==
  ASSUME OneHeader, NEW c \in Configurations
  PROVE  /\ SearchHeader = SortedKeys(DOMAIN RunSummary(c))
         /\ {SearchHeader[n] : n \in DOMAIN SearchHeader} = SummaryKeys
         /\ SearchHeader # <<>>
PROOF
  <1>1. DOMAIN RunSummary(c) = SummaryKeys /\ SummaryKeys \subseteq KeyNames
        /\ "best_f1" \in SummaryKeys
    BY SummaryOfSearch DEF OneHeader
  <1>2. /\ \A n \in DOMAIN SearchHeader : SearchHeader[n] \in SummaryKeys
        /\ \A key \in SummaryKeys : \E n \in DOMAIN SearchHeader : SearchHeader[n] = key
    BY <1>1, SortedKeepsKeys DEF SearchHeader
  <1>3. SearchHeader # <<>>
    BY <1>1, <1>2
  <1> QED
    BY <1>1, <1>2, <1>3 DEF SearchHeader

LEMMA RowOfSearch ==
  ASSUME OneHeader, NEW f \in SearchFiles, NEW i \in DOMAIN f.rows
  PROVE  \E c \in Configurations : RowEntry(f, i) = RunSummary(c)
PROOF
  <1>1. f # EmptyFile
    BY DEF EmptyFile
  <1>2. f.header = SearchHeader /\ f.rows \in Seq(SearchRows)
    BY <1>1 DEF SearchFiles
  <1>3. f.rows[i] \in SearchRows
    BY <1>2
  <1>4. PICK c \in Configurations : f.rows[i] = Values(SearchHeader, RunSummary(c))
    BY <1>3 DEF SearchRows
  <1>5. RowEntry(f, i) = RunSummary(c)
    BY <1>2, <1>4, HeaderOfSearch, SummaryOfSearch, RowReadsBack
  <1> QED
    BY <1>5

Experiments(f) == {Experiment(RowEntry(f, i)) : i \in DOMAIN f.rows}

LEMMA AppendedToSearch ==
  ASSUME OneHeader, NEW f \in SearchFiles, NEW c \in Configurations
  PROVE  LET summary == RunSummary(c)
             g == AppendedTo(f, FieldNames(f, summary), f.header = <<>>, summary)
         IN  g \in SearchFiles /\ Experiments(g) = Experiments(f) \cup {Experiment(c)}
PROOF
  <1> DEFINE summary == RunSummary(c)
             row == Values(SearchHeader, summary)
             g == AppendedTo(f, FieldNames(f, summary), f.header = <<>>, summary)
  <1>1. /\ DOMAIN summary = SummaryKeys
        /\ SearchHeader # <<>>
        /\ {SearchHeader[n] : n \in DOMAIN SearchHeader} = SummaryKeys
        /\ row \in SearchRows
    BY HeaderOfSearch DEF OneHeader, SearchRows
  <1>2. Header(f) \in {{}, SummaryKeys} /\ f.rows \in Seq(SearchRows)
    <2>1. CASE f = EmptyFile
      BY <2>1 DEF EmptyFile, Header
    <2>2. CASE f # EmptyFile
      BY <1>1, <2>2 DEF SearchFiles, Header
    <2> QED
      BY <2>1, <2>2
  <1>3. FieldNames(f, summary) = SearchHeader
    <2>1. DOMAIN summary \cup Header(f) = SummaryKeys
      BY <1>1, <1>2
    <2> QED
      BY <2>1 DEF FieldNames, SearchHeader
  <1> HIDE DEF summary
  <1>4. g = [header |-> SearchHeader, rows |-> Append(f.rows, row)]
    <2>1. CASE f = EmptyFile
      BY <1>3, <2>1 DEF EmptyFile, AppendedTo
    <2>2. CASE f # EmptyFile
      <3>1. f = [header |-> SearchHeader, rows |-> f.rows]
        BY <2>2 DEF SearchFiles
      <3>2. f.header # <<>>
        BY <1>1, <3>1
      <3> QED
        BY <1>3, <3>1, <3>2 DEF AppendedTo
    <2> QED
      BY <2>1, <2>2
  <1> HIDE DEF g, row
  <1>5. g \in SearchFiles
    BY <1>1, <1>2, <1>4 DEF SearchFiles
  <1>6. /\ Len(f.rows) \in Nat
        /\ DOMAIN f.rows = 1..Len(f.rows)
        /\ DOMAIN g.rows = 1..(Len(f.rows) + 1)
        /\ \A i \in DOMAIN f.rows : g.rows[i] = f.rows[i]
        /\ g.rows[Len(f.rows) + 1] = row
    BY <1>2, <1>4
  <1>7. ASSUME NEW i \in DOMAIN f.rows
        PROVE  RowEntry(g, i) = RowEntry(f, i)
    <2>1. f.header = SearchHeader /\ g.header = SearchHeader /\ g.rows[i] = f.rows[i]
      <3>1. f # EmptyFile
        BY DEF EmptyFile
      <3> QED
        BY <1>4, <1>6, <3>1 DEF SearchFiles
    <2> QED
      BY <2>1 DEF RowEntry, Header
  <1>8. Experiment(RowEntry(g, Len(f.rows) + 1)) = Experiment(c)
    <2>1. g.header = SearchHeader
      BY <1>4
    <2>2. RowEntry(g, Len(f.rows) + 1) = summary
      BY <1>6, <2>1, HeaderOfSearch, SummaryOfSearch, RowReadsBack DEF row, summary
    <2> QED
      BY <2>2, SummaryOfSearch DEF summary
  <1>9. Experiments(g) = Experiments(f) \cup {Experiment(c)}
    <2>1. DOMAIN g.rows = DOMAIN f.rows \cup {Len(f.rows) + 1}
      BY <1>6
    <2>2. ASSUME NEW x PROVE x \in Experiments(g) <=> x \in Experiments(f) \cup {Experiment(c)}
      BY <1>7, <1>8, <2>1 DEF Experiments
    <2> QED
      BY <2>2
  <1> QED
    BY <1>5, <1>9 DEF g, summary
-----------------------------------------------------------------------------
\* An experiment that waits in the queue.
Waiting(x) == \E i \in DOMAIN queue : queue[i] # None /\ Experiment(queue[i]) = x

FileInv == file \in SearchFiles /\ recorded = Experiments(file)

\* What main remembers is what it has read, tried or queued.
RememberedInv ==
    main # "idle" =>
        \A c \in Configurations :
            GetConfigFingerprint(c) \in executed
                <=> \/ Experiment(c) \in recorded \cup tried
                    \/ Waiting(Experiment(c))

QueueInv ==
    main # "idle" =>
        \A i \in DOMAIN queue : queue[i] # None =>
            /\ Experiment(queue[i]) \notin recorded \cup tried
            /\ \A j \in DOMAIN queue :
                  queue[j] # None /\ Experiment(queue[j]) = Experiment(queue[i]) => i = j

FlightInv ==
    main # "idle" =>
        \A w \in Workers : InFlight(w) =>
            /\ task[w] \in Configurations
            /\ Experiment(task[w]) \in tried \ recorded
            /\ \A v \in Workers :
                  InFlight(v) /\ Experiment(task[v]) = Experiment(task[w]) => v = w

GridInv ==
    main # "idle" =>
        /\ grid \in Grids
        /\ \A i \in 1..cursor : GetConfigFingerprint(NormalForm[grid[i]]) \in executed
        /\ main # "generating" => cursor = Len(grid)

StoppingInv == main = "stopping" => \A i \in DOMAIN queue : queue[i] = None

SearchInv ==
    FileInv /\ RememberedInv /\ QueueInv /\ FlightInv /\ GridInv /\ StoppingInv
-----------------------------------------------------------------------------
\* What a step that leaves the file alone, or the queue, cannot disturb.
LEMMA FileKept ==
  ASSUME SearchInv, UNCHANGED <<file, recorded>>
  PROVE  FileInv'
PROOF
  <1>1. file' = file /\ recorded' = recorded
    OBVIOUS
  <1> QED
    BY <1>1 DEF SearchInv, FileInv, Experiments, RowEntry, Header

LEMMA QueueKept ==
  ASSUME SearchInv, UNCHANGED <<main, executed, queue, recorded, tried>>
  PROVE  RememberedInv' /\ QueueInv' /\ StoppingInv'
PROOF
  <1>1. RememberedInv'
    BY DEF SearchInv, RememberedInv, Waiting
  <1>2. QueueInv'
    BY DEF SearchInv, QueueInv
  <1>3. StoppingInv'
    BY DEF SearchInv, StoppingInv
  <1> QED
    BY <1>1, <1>2, <1>3

LEMMA FlightKept ==
  ASSUME SearchInv, UNCHANGED <<main, task, recorded, tried>>,
         \A v \in Workers : InFlight(v)' => InFlight(v)
  PROVE  FlightInv'
PROOF
  BY DEF SearchInv, FlightInv

LEMMA GridKept ==
  ASSUME SearchInv, UNCHANGED <<main, grid, cursor, executed>>
  PROVE  GridInv'
PROOF
  BY DEF SearchInv, GridInv
-----------------------------------------------------------------------------
LEMMA InitSearch ==
  ASSUME OneHeader, Init
  PROVE  SearchInv
PROOF
  <1>1. FileInv
    BY DEF OneHeader, Init, FileInv, Experiments
  <1> QED
    BY <1>1 DEF Init, SearchInv, RememberedInv, QueueInv, FlightInv, GridInv, StoppingInv

\* A session starts from the file, whose rows are the experiments on record.
LEMMA KnownIsRecorded ==
  ASSUME OneHeader, FileInv, NEW c \in Configurations
  PROVE  GetConfigFingerprint(c) \in KnownFingerprints <=> Experiment(c) \in recorded
PROOF
  <1>1. ASSUME NEW i \in DOMAIN file.rows
        PROVE  GetConfigFingerprint(Normalize(RowEntry(file, i))) = GetConfigFingerprint(c)
                  <=> Experiment(RowEntry(file, i)) = Experiment(c)
    <2>1. PICK d \in Configurations : RowEntry(file, i) = RunSummary(d)
      BY RowOfSearch DEF FileInv
    <2> QED
      BY <2>1, SummaryOfSearch, ToldApart
  <1> QED
    BY <1>1 DEF KnownFingerprints, FileInv, Experiments

LEMMA StartSearch ==
  ASSUME OneHeader, SearchInv, StartSession
  PROVE  SearchInv'
PROOF
  <1>1. /\ main' = "generating" /\ grid' \in Grids /\ cursor' = 0
        /\ executed' = KnownFingerprints /\ queue' = <<>> /\ tried' = {}
        /\ UNCHANGED <<file, recorded, phase>>
        /\ \A w \in Workers : phase[w] = "off"
    BY DEF StartSession
  <1>2. FileInv'
    BY <1>1 DEF SearchInv, FileInv, Experiments, RowEntry, Header
  <1>3. \A c \in Configurations :
           GetConfigFingerprint(c) \in executed' <=> Experiment(c) \in recorded'
    BY <1>1, KnownIsRecorded DEF SearchInv
  <1>4. \A x : ~Waiting(x)'
    BY <1>1 DEF Waiting
  <1>5. RememberedInv'
    BY <1>1, <1>3, <1>4 DEF RememberedInv
  <1> QED
    BY <1>1, <1>2, <1>5
    DEF SearchInv, QueueInv, FlightInv, GridInv, StoppingInv, InFlight

LEMMA GenerateSearch ==
  ASSUME OneHeader, IInv, SearchInv, GenerateConfiguration
  PROVE  SearchInv'
PROOF
  <1> DEFINE c == NormalForm[grid[cursor + 1]]
  <1>1. /\ main = "generating" /\ main' = "generating" /\ cursor < Len(grid)
        /\ cursor' = cursor + 1 /\ cursor \in Nat
        /\ UNCHANGED <<file, recorded, grid, phase, task, tried>>
    BY DEF GenerateConfiguration, IInv, TypeOK, fileVars
  <1>2. /\ c \in Configurations
        /\ c # None
        /\ queue \in Seq(Configurations \cup {None})
    BY <1>1, NextConfiguration, ConfigurationAsked DEF IInv, TypeOK
  <1>3. \/ /\ GetConfigFingerprint(c) \in executed
           /\ UNCHANGED <<executed, queue>>
        \/ /\ GetConfigFingerprint(c) \notin executed
           /\ executed' = executed \cup {GetConfigFingerprint(c)}
           /\ queue' = Append(queue, c)
    BY DEF GenerateConfiguration
  <1>4. GridInv'
    <2>1. /\ GetConfigFingerprint(c) \in executed' /\ executed \subseteq executed'
          /\ \A i \in 1..cursor : GetConfigFingerprint(NormalForm[grid[i]]) \in executed
          /\ grid \in Grids
      BY <1>1, <1>3 DEF SearchInv, GridInv
    <2>2. ASSUME NEW i \in 1..(cursor + 1)
          PROVE  GetConfigFingerprint(NormalForm[grid[i]]) \in executed'
      <3>1. i \in 1..cursor \/ i = cursor + 1
        BY <1>1
      <3> QED
        BY <2>1, <3>1
    <2> HIDE DEF c
    <2> QED
      BY <1>1, <2>1, <2>2 DEF GridInv
  <1> HIDE DEF c
  <1>5. FileInv' /\ FlightInv' /\ StoppingInv'
    <2>1. \A v \in Workers : InFlight(v)' => InFlight(v)
      BY <1>1 DEF InFlight
    <2>2. FileInv' /\ FlightInv'
      BY <1>1, <2>1, FileKept, FlightKept
    <2> QED
      BY <1>1, <2>2 DEF StoppingInv
  <1>6. CASE UNCHANGED <<executed, queue>>
    <2>1. RememberedInv' /\ QueueInv'
      BY <1>1, <1>6 DEF SearchInv, RememberedInv, QueueInv, Waiting
    <2> QED
      BY <1>4, <1>5, <2>1 DEF SearchInv
  <1>7. CASE /\ GetConfigFingerprint(c) \notin executed
             /\ executed' = executed \cup {GetConfigFingerprint(c)}
             /\ queue' = Append(queue, c)
    <2> DEFINE last == Len(queue) + 1
    <2>1. /\ DOMAIN queue = 1..Len(queue) /\ Len(queue) \in Nat
          /\ DOMAIN queue' = DOMAIN queue \cup {last} /\ last \notin DOMAIN queue
          /\ \A i \in DOMAIN queue : queue'[i] = queue[i]
          /\ queue'[last] = c
      BY <1>2, <1>7
    <2> HIDE DEF last
    <2>2. ~Waiting(Experiment(c)) /\ Experiment(c) \notin recorded \cup tried
      BY <1>1, <1>2, <1>7 DEF SearchInv, RememberedInv
    <2>3. ASSUME NEW x PROVE Waiting(x)' <=> Waiting(x) \/ x = Experiment(c)
      BY <1>2, <2>1 DEF Waiting
    <2>4. RememberedInv'
      <3>1. ASSUME NEW d \in Configurations
            PROVE  GetConfigFingerprint(d) \in executed'
                      <=> \/ Experiment(d) \in recorded' \cup tried'
                          \/ Waiting(Experiment(d))'
        <4>1. GetConfigFingerprint(d) \in executed'
                 <=> \/ GetConfigFingerprint(d) \in executed
                     \/ Experiment(d) = Experiment(c)
          BY <1>2, <1>7, ToldApart
        <4>2. GetConfigFingerprint(d) \in executed
                 <=> Experiment(d) \in recorded \cup tried \/ Waiting(Experiment(d))
          BY <1>1 DEF SearchInv, RememberedInv
        <4>3. recorded' = recorded /\ tried' = tried
          BY <1>1
        <4> QED
          BY <2>3, <4>1, <4>2, <4>3
      <3> QED
        BY <3>1 DEF RememberedInv
    <2>5. QueueInv'
      <3>1. /\ \A i \in DOMAIN queue : queue[i] # None =>
                  /\ Experiment(queue[i]) \notin recorded \cup tried
                  /\ \A j \in DOMAIN queue :
                        queue[j] # None /\ Experiment(queue[j]) = Experiment(queue[i])
                           => i = j
            /\ \A i \in DOMAIN queue : queue[i] # None => Experiment(queue[i]) # Experiment(c)
        BY <1>1, <2>2 DEF SearchInv, QueueInv, Waiting
      <3>2. ASSUME NEW i \in DOMAIN queue', queue'[i] # None
            PROVE  /\ Experiment(queue'[i]) \notin recorded' \cup tried'
                   /\ \A j \in DOMAIN queue' :
                         queue'[j] # None /\ Experiment(queue'[j]) = Experiment(queue'[i])
                            => i = j
        <4>1. recorded' = recorded /\ tried' = tried
          BY <1>1
        <4> QED
          BY <2>1, <2>2, <3>1, <3>2, <4>1
      <3> QED
        BY <3>2 DEF QueueInv
    <2> QED
      BY <1>4, <1>5, <2>4, <2>5 DEF SearchInv
  <1> QED
    BY <1>3, <1>6, <1>7

LEMMA MainSearch ==
  ASSUME IInv, SearchInv, Interrupt \/ StartWorkers \/ SendSentinels \/ JoinProcesses
  PROVE  SearchInv'
PROOF
  <1>1. UNCHANGED <<file, recorded, task, executed, grid, cursor, tried>>
    BY DEF Interrupt, StartWorkers, SendSentinels, JoinProcesses, fileVars
  <1>2. FileInv'
    BY <1>1, FileKept
  <1>3. CASE Interrupt \/ JoinProcesses
    BY <1>2, <1>3 DEF Interrupt, JoinProcesses, SearchInv, RememberedInv, QueueInv,
                      FlightInv, GridInv, StoppingInv
  <1>4. CASE StartWorkers
    <2>1. UNCHANGED queue /\ main = "generating" /\ main' \in {"idle", "joining"}
          /\ cursor = Len(grid)
      BY <1>4 DEF StartWorkers
    <2>2. RememberedInv' /\ QueueInv'
      BY <1>1, <2>1 DEF SearchInv, RememberedInv, QueueInv, Waiting
    <2>3. FlightInv'
      <3>1. main' = "joining" => \A w \in Workers : ~InFlight(w)'
        BY <1>4 DEF StartWorkers, InFlight
      <3> QED
        BY <2>1, <3>1 DEF FlightInv
    <2>4. GridInv' /\ StoppingInv'
      BY <1>1, <2>1 DEF SearchInv, GridInv, StoppingInv
    <2> QED
      BY <1>2, <2>2, <2>3, <2>4 DEF SearchInv
  <1>5. CASE SendSentinels
    <2>1. /\ main = "joining" /\ main' = "stopping" /\ unfinished = 0 /\ UNCHANGED phase
          /\ queue' = queue \o [i \in 1..Cardinality(Workers) |-> None]
      BY <1>5 DEF SendSentinels
    <2>2. queue = <<>>
      <3>1. /\ unfinished = Len(queue) + Cardinality(Busy)
            /\ Cardinality(Busy) \in Nat
            /\ queue \in Seq(Configurations \cup {None})
        BY <2>1, BusyFinite DEF IInv, TasksAccounted, TypeOK
      <3>2. Len(queue) = 0
        BY <2>1, <3>1
      <3> QED
        BY <3>1, <3>2
    <2>3. \A i \in DOMAIN queue' : queue'[i] = None
      <3>1. Cardinality(Workers) \in Nat
        BY WorkersAssumption, FS_CardinalityType
      <3> QED
        BY <2>1, <2>2, <3>1
    <2>4. \A x : ~Waiting(x)' /\ ~Waiting(x)
      BY <2>2, <2>3 DEF Waiting
    <2>5. RememberedInv' /\ QueueInv' /\ StoppingInv'
      BY <1>1, <2>1, <2>3, <2>4 DEF SearchInv, RememberedInv, QueueInv, StoppingInv
    <2>6. FlightInv' /\ GridInv'
      BY <1>1, <2>1 DEF SearchInv, FlightInv, GridInv, InFlight
    <2> QED
      BY <1>2, <2>5, <2>6 DEF SearchInv
  <1> QED
    BY <1>3, <1>4, <1>5
-----------------------------------------------------------------------------
LEMMA DequeueSearch ==
  ASSUME IInv, SearchInv, NEW w \in Workers, Dequeue(w)
  PROVE  SearchInv'
PROOF
  <1> DEFINE c == Head(queue)
  <1>1. /\ queue' = Tail(queue) /\ task' = [task EXCEPT ![w] = c] /\ queue # <<>>
        /\ phase[w] = "waiting"
        /\ UNCHANGED <<main, grid, cursor, executed, file, recorded>>
    BY DEF Dequeue, mainVars, fileVars
  <1>2. main # "idle"
    BY WorkerActive DEF WorkerStep
  <1>3. /\ queue \in Seq(Configurations \cup {None})
        /\ task \in [Workers -> Configurations \cup {None}]
        /\ phase \in [Workers -> Phases]
    BY DEF IInv, TypeOK
  <1>4. /\ Len(queue) \in Nat \ {0} /\ DOMAIN queue = 1..Len(queue)
        /\ DOMAIN queue' = 1..(Len(queue) - 1)
        /\ \A i \in DOMAIN queue' : queue'[i] = queue[i + 1]
        /\ c = queue[1] /\ c \in Configurations \cup {None}
    BY <1>1, <1>3
  <1>5. /\ \A i \in DOMAIN queue' : i + 1 \in DOMAIN queue
        /\ \A i \in DOMAIN queue : i = 1 \/ (i - 1 \in DOMAIN queue' /\ queue'[i - 1] = queue[i])
        /\ \A i, j \in DOMAIN queue' : i + 1 = j + 1 => i = j
        /\ \A i \in DOMAIN queue' : i + 1 # 1
        /\ 1 \in DOMAIN queue
    BY <1>4
  <1> HIDE DEF c
  <1>6. FileInv' /\ GridInv'
    BY <1>1 DEF SearchInv, FileInv, GridInv, Experiments, RowEntry, Header
  <1>7. StoppingInv'
    BY <1>1, <1>4, <1>5 DEF SearchInv, StoppingInv
  <1>8. \A i \in DOMAIN queue : queue[i] # None =>
            /\ Experiment(queue[i]) \notin recorded \cup tried
            /\ \A j \in DOMAIN queue :
                  queue[j] # None /\ Experiment(queue[j]) = Experiment(queue[i]) => i = j
    BY <1>2 DEF SearchInv, QueueInv
  <1>9. CASE c = None
    <2>1. phase' = [phase EXCEPT ![w] = "left"] /\ UNCHANGED tried
      BY <1>9 DEF Dequeue, c
    <2>2. ASSUME NEW x PROVE Waiting(x)' <=> Waiting(x)
      BY <1>4, <1>5, <1>9 DEF Waiting
    <2>3. RememberedInv'
      BY <1>1, <2>1, <2>2 DEF SearchInv, RememberedInv
    <2>4. QueueInv'
      <3>1. ASSUME NEW i \in DOMAIN queue', queue'[i] # None
            PROVE  /\ Experiment(queue'[i]) \notin recorded' \cup tried'
                   /\ \A j \in DOMAIN queue' :
                         queue'[j] # None /\ Experiment(queue'[j]) = Experiment(queue'[i])
                            => i = j
        BY <1>1, <1>4, <1>5, <1>8, <2>1, <3>1
      <3> QED
        BY <3>1 DEF QueueInv
    <2>5. FlightInv'
      <3>1. \A v \in Workers : InFlight(v)' => InFlight(v) /\ task'[v] = task[v]
        BY <1>1, <1>3, <2>1 DEF InFlight
      <3> QED
        BY <1>1, <1>2, <2>1, <3>1 DEF SearchInv, FlightInv
    <2> QED
      BY <1>6, <1>7, <2>3, <2>4, <2>5 DEF SearchInv
  <1>10. CASE c # None
    <2>1. /\ phase' = [phase EXCEPT ![w] = "running"]
          /\ tried' = tried \cup {Experiment(c)}
      BY <1>10 DEF Dequeue, c
    <2>2. /\ Experiment(c) \notin recorded \cup tried
          /\ \A i \in DOMAIN queue' : queue'[i] # None => Experiment(queue'[i]) # Experiment(c)
      BY <1>4, <1>5, <1>8, <1>10
    <2>3. ASSUME NEW x PROVE Waiting(x) <=> Waiting(x)' \/ x = Experiment(c)
      BY <1>4, <1>5, <1>10 DEF Waiting
    <2>4. RememberedInv'
      BY <1>1, <2>1, <2>3 DEF SearchInv, RememberedInv
    <2>5. QueueInv'
      <3>1. ASSUME NEW i \in DOMAIN queue', queue'[i] # None
            PROVE  /\ Experiment(queue'[i]) \notin recorded' \cup tried'
                   /\ \A j \in DOMAIN queue' :
                         queue'[j] # None /\ Experiment(queue'[j]) = Experiment(queue'[i])
                            => i = j
        BY <1>1, <1>4, <1>5, <1>8, <2>1, <2>2, <3>1
      <3> QED
        BY <3>1 DEF QueueInv
    <2>6. FlightInv'
      <3>1. /\ \A v \in Workers \ {w} : /\ InFlight(v)' => InFlight(v)
                                        /\ task'[v] = task[v]
            /\ task'[w] = c /\ c \in Configurations
        BY <1>1, <1>3, <1>4, <1>10, <2>1 DEF InFlight
      <3>2. \A v \in Workers : InFlight(v) =>
               /\ task[v] \in Configurations
               /\ Experiment(task[v]) \in tried \ recorded
               /\ \A u \in Workers :
                     InFlight(u) /\ Experiment(task[u]) = Experiment(task[v]) => u = v
        BY <1>2 DEF SearchInv, FlightInv
      <3>3. ASSUME NEW v \in Workers, InFlight(v)'
            PROVE  /\ task'[v] \in Configurations
                   /\ Experiment(task'[v]) \in tried' \ recorded'
                   /\ \A u \in Workers :
                         InFlight(u)' /\ Experiment(task'[u]) = Experiment(task'[v]) => u = v
        BY <1>1, <2>1, <2>2, <3>1, <3>2, <3>3
      <3> QED
        BY <3>3 DEF FlightInv
    <2> QED
      BY <1>6, <1>7, <2>4, <2>5, <2>6 DEF SearchInv
  <1> QED
    BY <1>9, <1>10

\* The steps of a run that leave the file and the queue alone.
LEMMA RunSearch ==
  ASSUME IInv, SearchInv, NEW w \in Workers,
         \/ SplitRaises(w) \/ ProcessEnds(w) \/ RunCompletes(w) \/ RunFails(w)
         \/ ReadHeader(w) \/ TaskDone(w)
  PROVE  SearchInv'
PROOF
  <1>1. UNCHANGED <<main, grid, cursor, executed, file, recorded, queue, task, tried>>
    BY DEF SplitRaises, ProcessEnds, RunCompletes, RunFails, ShutDownAuthority,
           ReadHeader, TaskDone, mainVars, fileVars
  <1>2. \A v \in Workers : InFlight(v)' => InFlight(v)
    BY DEF SplitRaises, ProcessEnds, RunCompletes, RunFails, ShutDownAuthority,
           ReadHeader, TaskDone, InFlight, IInv, TypeOK
  <1>3. FileInv' /\ RememberedInv' /\ QueueInv' /\ GridInv' /\ StoppingInv'
    BY <1>1, FileKept, QueueKept, GridKept
  <1>4. FlightInv'
    BY <1>1, <1>2, FlightKept
  <1> QED
    BY <1>3, <1>4 DEF SearchInv

LEMMA AppendSearch ==
  ASSUME OneHeader, IInv, SearchInv, NEW w \in Workers, AppendRow(w)
  PROVE  SearchInv'
PROOF
  <1> DEFINE c == task[w]
  <1>1. /\ phase[w] = "appending" /\ phase' = [phase EXCEPT ![w] = "finishing"]
        /\ recorded' = recorded \cup {Experiment(c)}
        /\ UNCHANGED <<main, grid, cursor, executed, queue, task, tried>>
    BY DEF AppendRow, mainVars
  <1>2. main # "idle" /\ found[w] = file
    BY <1>1, WorkerActive DEF WorkerStep, IInv, LockInv
  <1>3. \A v \in Workers : InFlight(v) =>
           /\ task[v] \in Configurations
           /\ Experiment(task[v]) \in tried \ recorded
           /\ \A u \in Workers :
                 InFlight(u) /\ Experiment(task[u]) = Experiment(task[v]) => u = v
    BY <1>2 DEF SearchInv, FlightInv
  <1>4. InFlight(w) /\ \A v \in Workers : InFlight(v)' => InFlight(v) /\ v # w
    BY <1>1 DEF InFlight, IInv, TypeOK
  <1>5. c \in Configurations /\ Experiment(c) \in tried
    BY <1>3, <1>4
  <1>6. file' = AppendedTo(file, FieldNames(file, RunSummary(c)), file.header = <<>>,
                           RunSummary(c))
    BY <1>2 DEF AppendRow
  <1>7. FileInv'
    <2>1. file \in SearchFiles /\ recorded = Experiments(file)
      BY DEF SearchInv, FileInv
    <2> HIDE DEF c
    <2>2. /\ file' \in SearchFiles
          /\ Experiments(file') = Experiments(file) \cup {Experiment(c)}
      BY <1>5, <1>6, <2>1, AppendedToSearch
    <2> QED
      BY <1>1, <2>1, <2>2 DEF FileInv, Experiments, RowEntry, Header
  <1>8. RememberedInv'
    BY <1>1, <1>5 DEF SearchInv, RememberedInv, Waiting
  <1>9. QueueInv'
    BY <1>1, <1>5 DEF SearchInv, QueueInv
  <1>10. FlightInv'
    BY <1>1, <1>3, <1>4 DEF FlightInv
  <1>11. GridInv' /\ StoppingInv'
    BY <1>1 DEF SearchInv, GridInv, StoppingInv
  <1> QED
    BY <1>7, <1>8, <1>9, <1>10, <1>11 DEF SearchInv

LEMMA SearchInvariance ==
  ASSUME OneHeader
  PROVE  Spec => [](IInv /\ SearchInv)
PROOF
  <1>1. Init => IInv /\ SearchInv
    BY InitInv, InitSearch
  <1>2. IInv /\ SearchInv /\ [Next]_vars => SearchInv'
    <2> SUFFICES ASSUME IInv, SearchInv, [Next]_vars PROVE SearchInv'
      OBVIOUS
    <2>1. CASE StartSession \/ Interrupt \/ MainStep
      BY <2>1, StartSearch, GenerateSearch, MainSearch DEF MainStep
    <2>2. ASSUME NEW w \in Workers, WorkerStep(w) PROVE SearchInv'
      BY <2>2, DequeueSearch, RunSearch, AppendSearch DEF WorkerStep
    <2>3. CASE UNCHANGED vars
      <3>1. UNCHANGED <<main, grid, cursor, executed, queue, file, recorded, tried,
                        task, phase>>
        BY <2>3 DEF vars, mainVars, fileVars
      <3>2. \A v \in Workers : InFlight(v)' => InFlight(v)
        BY <3>1 DEF InFlight
      <3> QED
        BY <3>1, <3>2, FileKept, QueueKept, FlightKept, GridKept DEF SearchInv
    <2> QED
      BY <2>1, <2>2, <2>3 DEF Next
  <1> QED
    BY <1>1, <1>2, Invariance, PTL DEF Spec

(* No run is repeated, by this session or after an interruption, for any   *)
(* workers and grids of a search whose rows share one header (the          *)
(* fingerprints main skips by, and the file it reads them from).           *)
THEOREM NoRunRepeated ==
  ASSUME OneHeader
  PROVE  Spec => []NothingRepeated
PROOF
  <1>1. SearchInv => NothingRepeated
    BY DEF SearchInv, QueueInv, FlightInv, NothingRepeated
  <1> QED
    BY <1>1, SearchInvariance, PTL

(* When the workers are told to stop, every experiment of the grid is on   *)
(* record or was tried: what main skips for its fingerprint is one.        *)
THEOREM NoRunSkipped ==
  ASSUME OneHeader
  PROVE  Spec => []NothingSkipped
PROOF
  <1>1. IInv /\ SearchInv => NothingSkipped
    <2> SUFFICES ASSUME IInv, SearchInv, main = "stopping", NEW i \in 1..Len(grid)
                 PROVE  Experiment(Normalize(grid[i])) \in recorded \cup tried
      BY DEF NothingSkipped
    <2>1. grid \in Grids /\ GetConfigFingerprint(NormalForm[grid[i]]) \in executed
      BY DEF SearchInv, GridInv
    <2>2. grid[i] \in Asked
      <3>1. i \in DOMAIN grid
        BY <2>1, GridsAssumption
      <3> QED
        BY <2>1, <3>1 DEF Asked
    <2>3. NormalForm[grid[i]] = Normalize(grid[i]) /\ NormalForm[grid[i]] \in Configurations
      BY <2>2 DEF NormalForm, Configurations
    <2>4. \A x : ~Waiting(x)
      BY DEF SearchInv, StoppingInv, Waiting
    <2> QED
      BY <2>1, <2>3, <2>4 DEF SearchInv, RememberedInv
  <1> QED
    BY <1>1, SearchInvariance, PTL
=============================================================================
