-------------------------- MODULE FederatedServer ---------------------------
(***************************************************************************)
(* FederatedServer (src/federated_server.py): one action per Socket.IO     *)
(* handler, plus the steps that run after a `socketio.sleep` and the       *)
(* watchdog's poll. The server is one OS thread of green threads and only  *)
(* `socketio.sleep` yields, so every handler is one atomic step up to its  *)
(* sleep, and what follows the sleep is a step of its own. No handler ever *)
(* waits for `self.lock`: no holder of it yields.                          *)
(*                                                                         *)
(* An update is identified by its sender and round, a metric by the        *)
(* evaluations it was averaged from; weights and losses are abstracted to  *)
(* the choices they lead to.                                               *)
(***************************************************************************)
EXTENDS FederatedNetwork, Sequences, FiniteSets

CONSTANTS
  NumClients,         \* config['num_clients']
  MinNumWorkers,      \* config['MIN_NUM_WORKERS']
  GlobalEpoch,        \* config['global_epoch']
  Patience,           \* config['early_stop_patience']
  FedLC,              \* config['aggregation_algorithm'] = 'FedLC'
  WatchdogArmed,      \* round_timeout > 0
  TimeoutCoversWork,  \* round_timeout is longer than any client's own work
  NoTestData,         \* clients whose test_size is 0
  UpdateFailures      \* what may raise while an update is handled

\* "unpickle": the weights of an update cannot be read; "aggregate": the
\* aggregation of a full round raises, a ciphertext or a shape that does not fit.
UpdateFailureKinds == {"unpickle", "aggregate"}

ASSUME ServerAssumption ==
  /\ NumClients \in Nat \ {0}
  /\ MinNumWorkers \in Nat
  /\ GlobalEpoch \in Nat \ {0}
  /\ Patience \in Nat \ {0}
  /\ {FedLC, WatchdogArmed, TimeoutCoversWork} \subseteq BOOLEAN
  /\ NoTestData \subseteq Clients
  /\ UpdateFailures \subseteq UpdateFailureKinds

VARIABLES
  registered_clients,    \* the sids rounds are sampled from
  client_sid,            \* [Clients -> 0..MaxConn]: k for the sid <<c, k>>, 0 for no entry
  sid_to_client,         \* the sids that have an entry; the entry is the sid's client
  client_stats,          \* the clients that ever reported ready
  training_started,
  starting,              \* _finalize_... is inside its ten-second sleep
  current_round,
  num_clients_per_round,
  client_updates_this_round,
  client_evaluations_this_round,
  total_training_size_in_round,  \* the round it was last summed for, -1 before the first
  train_metrics,         \* rounds with a train_loss row in metrics_history
  test_metrics,          \* [round, sid, on]: the evaluations averaged into that round's row
  early_stop_counter,
  is_training_finished,
  aborted,
  run_summary,           \* aggregator.run_summary is not None
  silent,                \* round_timeout has elapsed since last_progress_time
  stopping,              \* a _shutdown_server is inside its one-second sleep
  stopped                \* socketio.stop() has run

registryVars == <<registered_clients, client_sid, sid_to_client, client_stats>>
startVars    == <<training_started, starting>>
roundVars    == <<current_round, num_clients_per_round, client_updates_this_round>>
metricVars   == <<total_training_size_in_round, train_metrics, test_metrics,
                  early_stop_counter>>
endVars      == <<is_training_finished, aborted, run_summary, stopping, stopped>>
serverVars   == <<registryVars, startVars, roundVars, client_evaluations_this_round,
                  metricVars, endVars, silent>>

\* `on` is the round of the model that was evaluated. The program sends no such
\* tag: client_eval carries metrics only. No guard below reads it.
Update     == [sid : Sids, round : Nat]
Evaluation == [sid : Sids, on : Nat]
TestMetric == [round : Rounds, sid : Sids, on : Nat]

ServerTypeOK ==
  /\ registered_clients \in SUBSET Sids
  /\ client_sid \in [Clients -> 0..MaxConn]
  /\ sid_to_client \in SUBSET Sids
  /\ client_stats \in SUBSET Clients
  /\ training_started \in BOOLEAN
  /\ starting \in BOOLEAN
  /\ current_round \in Rounds
  /\ num_clients_per_round \in Nat
  /\ client_updates_this_round \in Seq(Update)
  /\ client_evaluations_this_round \in Seq(Evaluation)
  /\ total_training_size_in_round \in Rounds
  /\ train_metrics \in SUBSET Rounds
  /\ test_metrics \in SUBSET TestMetric
  /\ early_stop_counter \in Nat
  /\ is_training_finished \in BOOLEAN
  /\ aborted \in BOOLEAN
  /\ run_summary \in BOOLEAN
  /\ silent \in BOOLEAN
  /\ stopping \in BOOLEAN
  /\ stopped \in BOOLEAN

ServerInit ==
  /\ registered_clients = {}
  /\ client_sid = [c \in Clients |-> 0]
  /\ sid_to_client = {}
  /\ client_stats = {}
  /\ training_started = FALSE
  /\ starting = FALSE
  /\ current_round = -1
  /\ num_clients_per_round = 0
  /\ client_updates_this_round = <<>>
  /\ client_evaluations_this_round = <<>>
  /\ total_training_size_in_round = -1
  /\ train_metrics = {}
  /\ test_metrics = {}
  /\ early_stop_counter = 0
  /\ is_training_finished = FALSE
  /\ aborted = FALSE
  /\ run_summary = FALSE
  /\ silent = FALSE
  /\ stopping = FALSE
  /\ stopped = FALSE

-----------------------------------------------------------------------------
\* The event loop takes an event off the wire and runs its handler.
Receive(e, event) ==
  /\ ~stopped
  /\ e.event = event
  /\ events' = events \ {e}

OnDisconnect(s) ==
  /\ ~stopped
  /\ ~Reachable(s)
  /\ open' = open \ {s}
  /\ registered_clients' = registered_clients \ {s}
  /\ sid_to_client' = sid_to_client \ {s}
  /\ client_sid' = [client_sid EXCEPT ![s[1]] =
                      IF s \in sid_to_client /\ @ = s[2] THEN 0 ELSE @]
  /\ UNCHANGED <<tasks, events, client_stats, startVars, roundVars,
                 client_evaluations_this_round, metricVars, endVars, silent>>

OnClientWakeUp(e) ==
  /\ Receive(e, "client_wake_up")
  /\ tasks' = Emit("init", {e.sid}, -1)
  /\ UNCHANGED <<open, serverVars>>

\* Mutant: a reconnecting client's old sid stays registered.
NoStaleSids(sid) == {}

\* The sid a reconnecting client left behind, if it still has an entry.
StaleSids(sid) == {<<sid[1], client_sid[sid[1]]>>} \ {sid}

\* Mutant: no training_started flag.
ReadyAgain(c) == Cardinality(client_stats \cup {c}) >= NumClients

\* The readiness barrier, and the flag that lets it fire once.
ReadyToStart(c) ==
  /\ ~training_started
  /\ Cardinality(client_stats \cup {c}) >= NumClients

\* The client that completes the readiness barrier also runs the first half of
\* `_finalize_initialization_and_start_training`, up to its sleep; StartTraining
\* is the second half. A start that is triggered while the server is already
\* stopping never completes, its sleep being ten times the other one.
OnClientReady(e) ==
  LET c      == e.sid[1]
      starts == ReadyToStart(c)
  IN
  /\ Receive(e, "client_ready")
  /\ registered_clients' = (registered_clients \ StaleSids(e.sid)) \cup {e.sid}
  /\ sid_to_client' = (sid_to_client \ StaleSids(e.sid)) \cup {e.sid}
  /\ client_sid' = [client_sid EXCEPT ![c] = e.sid[2]]
  /\ client_stats' = client_stats \cup {c}
  /\ training_started' = (training_started \/ starts)
  /\ starting' = (starting \/ (starts /\ ~stopping))
  /\ tasks' = IF starts /\ FedLC
                THEN Emit("distribute_calibration", registered_clients', -1)
                ELSE tasks
  /\ silent' = FALSE
  /\ UNCHANGED <<open, roundVars, client_evaluations_this_round, metricVars, endVars>>

\* Mutant: the buffer of updates is not cleared.
StartKeepingUpdates ==
  /\ current_round' = current_round + 1
  /\ UNCHANGED client_updates_this_round
  /\ \/ /\ Cardinality(registered_clients) < MinNumWorkers
        /\ UNCHANGED <<num_clients_per_round, tasks>>
     \/ \E selected \in SUBSET registered_clients :
          /\ Cardinality(selected) = MinNumWorkers
          /\ num_clients_per_round' = MinNumWorkers
          /\ tasks' = Emit("request_update", selected, current_round')

\* The early return for too few clients notes no progress and emits nothing; it
\* leaves the run to the watchdog.
StartNextTrainingRound ==
  /\ current_round' = current_round + 1
  /\ client_updates_this_round' = <<>>
  /\ \/ /\ Cardinality(registered_clients) < MinNumWorkers
        /\ UNCHANGED <<num_clients_per_round, tasks>>
     \/ \E selected \in SUBSET registered_clients :
          /\ Cardinality(selected) = MinNumWorkers
          /\ num_clients_per_round' = MinNumWorkers
          /\ tasks' = Emit("request_update", selected, current_round')

\* Mutant: no delay before the first round.
NoCalibrationDelay == TRUE

\* The ten seconds are long enough for every client to have applied the
\* calibration term it was sent.
CalibrationApplied == \A t \in tasks : t.event # "distribute_calibration"

StartTraining ==
  /\ ~stopped
  /\ starting
  /\ CalibrationApplied
  /\ starting' = FALSE
  /\ StartNextTrainingRound
  /\ silent' = (silent /\ Cardinality(registered_clients) < MinNumWorkers)
  /\ UNCHANGED <<events, open, registryVars, training_started,
                 client_evaluations_this_round, metricVars, endVars>>

-----------------------------------------------------------------------------
\* The early return for a total training size of 0 is never taken: a client whose
\* training split is empty fails in train() and sends no update.
AggregateUpdates == train_metrics' = train_metrics \cup {current_round}

\* Mutant: the buffer of evaluations is not cleared.
TriggerKeepingEvaluations ==
  /\ UNCHANGED client_evaluations_this_round
  /\ tasks' = Emit("stop_and_eval", registered_clients, current_round)

\* Mutant: the evaluation request does not carry its round.
TriggerUntagged ==
  /\ client_evaluations_this_round' = <<>>
  /\ tasks' = Emit("stop_and_eval", registered_clients, -1)

TriggerGlobalEvaluation ==
  /\ client_evaluations_this_round' = <<>>
  /\ tasks' = Emit("stop_and_eval", registered_clients, current_round)

\* Mutant: updates of old rounds are not refused.
OfAnyRound(e) == TRUE

OfThisRound(e) == e.round = current_round

\* Mutant: the barrier opens one update early.
AllUpdatesButOne(updates) == Len(updates) >= num_clients_per_round - 1

\* Mutant: the barrier waits for one update too many.
MoreThanAllUpdates(updates) == Len(updates) > num_clients_per_round

AllUpdatesIn(updates) == Len(updates) >= num_clients_per_round

\* The two early returns: the update is of another round, or its weights cannot
\* be read. Neither counts as progress.
IgnoreUpdate(e) ==
  /\ Receive(e, "client_update")
  /\ \/ ~OfThisRound(e)
     \/ "unpickle" \in UpdateFailures
  /\ UNCHANGED <<tasks, open, serverVars>>

\* An aggregation that raises ends the handler after the total was summed: no
\* row, no evaluation, and nothing that would aggregate the round again.
OnClientUpdate(e) ==
  LET updates == Append(client_updates_this_round, [sid |-> e.sid, round |-> e.round])
  IN
  /\ Receive(e, "client_update")
  /\ OfThisRound(e)
  /\ client_updates_this_round' = updates
  /\ silent' = FALSE
  /\ total_training_size_in_round' =
       IF AllUpdatesIn(updates) THEN current_round ELSE total_training_size_in_round
  /\ \/ /\ AllUpdatesIn(updates) => "aggregate" \in UpdateFailures
        /\ UNCHANGED <<tasks, client_evaluations_this_round, train_metrics,
                       is_training_finished>>
     \/ /\ AllUpdatesIn(updates)
        /\ AggregateUpdates
        /\ is_training_finished' =
             (is_training_finished \/ current_round >= GlobalEpoch - 1)
        /\ TriggerGlobalEvaluation
  /\ UNCHANGED <<open, registryVars, startVars, current_round, num_clients_per_round,
                 test_metrics, early_stop_counter, aborted, run_summary, stopping,
                 stopped>>

-----------------------------------------------------------------------------
\* Mutant: the barrier opens one evaluation early.
AllEvaluationsButOne(evals) == Len(evals) >= Cardinality(registered_clients) - 1

AllEvaluationsIn(evals) == Len(evals) >= Cardinality(registered_clients)

Tested(evals) == \E i \in DOMAIN evals : evals[i].sid[1] \notin NoTestData

\* Mutant: a missing entry is created instead of raising.
RowOnDemand == TRUE

\* metrics_history has an entry for the round.
HasRow == current_round \in train_metrics

\* prev_test_loss is set by the first row that gets test metrics; from then on
\* the averaged loss may have risen or not.
AggregateEvaluationResults(evals) ==
  /\ test_metrics' =
       {m \in test_metrics : m.round # current_round} \cup
       {[round |-> current_round, sid |-> evals[i].sid, on |-> evals[i].on] :
          i \in DOMAIN evals}
  /\ \/ early_stop_counter' = 0
     \/ test_metrics # {} /\ early_stop_counter' = early_stop_counter + 1

\* save_results, one shutdown per registered client and one for the requester.
FinishRun(e) ==
  /\ run_summary' = TRUE
  /\ tasks' = Emit("shutdown", registered_clients \cup {e.sid}, -1)
  /\ stopping' = TRUE
  /\ UNCHANGED roundVars

NextRoundOrFinish(e) ==
  \/ is_training_finished' /\ FinishRun(e)
  \/ ~is_training_finished' /\ StartNextTrainingRound /\ UNCHANGED <<run_summary, stopping>>

\* metrics_history[current_round] raises KeyError when the round has no entry: the
\* handler dies after the append, and nothing else changes.
OnClientEval(e) ==
  LET evals == Append(client_evaluations_this_round, [sid |-> e.sid, on |-> e.round])
  IN
  /\ Receive(e, "client_eval")
  /\ client_evaluations_this_round' = evals
  /\ silent' = FALSE
  /\ \/ /\ AllEvaluationsIn(evals) => Tested(evals) /\ ~HasRow
        /\ UNCHANGED <<tasks, roundVars, test_metrics, early_stop_counter,
                       is_training_finished, run_summary, stopping>>
     \/ /\ AllEvaluationsIn(evals) /\ Tested(evals) /\ HasRow
        /\ AggregateEvaluationResults(evals)
        /\ is_training_finished' =
             (is_training_finished \/ early_stop_counter' >= Patience)
        /\ NextRoundOrFinish(e)
     \/ /\ AllEvaluationsIn(evals) /\ ~Tested(evals)
        /\ UNCHANGED <<test_metrics, early_stop_counter, is_training_finished>>
        /\ NextRoundOrFinish(e)
  /\ UNCHANGED <<open, registryVars, startVars, total_training_size_in_round,
                 train_metrics, aborted, stopped>>

-----------------------------------------------------------------------------
\* Nothing reset last_progress_time for round_timeout seconds. When the timeout
\* covers the clients' work this happens only once nobody has anything left to do.
Silence ==
  /\ WatchdogArmed /\ ~silent /\ ~stopping /\ ~stopped
  /\ TimeoutCoversWork =>
       /\ tasks = {} /\ events = {} /\ ~starting
       /\ \A c \in Clients : link[c] \in {"up", "gone"}
  /\ silent' = TRUE
  /\ UNCHANGED <<tasks, events, open, registryVars, startVars, roundVars,
                 client_evaluations_this_round, metricVars, endVars>>

\* Mutant: the summary of the interrupted run is kept.
AbortKeepingSummary ==
  /\ aborted' = TRUE
  /\ is_training_finished' = TRUE
  /\ run_summary' = TRUE

\* save_results has just run; its summary is dropped again.
AbortRun ==
  /\ aborted' = TRUE
  /\ is_training_finished' = TRUE
  /\ run_summary' = FALSE

\* Mutant: the watchdog is armed by the first round.
WatchingOnceStarted == training_started /\ ~is_training_finished /\ ~aborted

\* Mutant: only the barrier of the updates has a deadline.
WatchingUpdates == ~is_training_finished /\ ~aborted /\ current_round \notin train_metrics

\* The loop of _round_watchdog goes on.
Watching == ~is_training_finished /\ ~aborted

\* The poll of _round_watchdog that finds the run silent, and _abort_run up to
\* the sleep in _shutdown_server.
RoundWatchdog ==
  /\ ~stopped
  /\ silent
  /\ Watching
  /\ AbortRun
  /\ tasks' = Emit("shutdown", open, -1)
  /\ stopping' = TRUE
  /\ UNCHANGED <<events, open, registryVars, startVars, roundVars,
                 client_evaluations_this_round, metricVars, stopped, silent>>

StopServer ==
  /\ stopping /\ ~stopped
  /\ stopped' = TRUE
  /\ UNCHANGED <<tasks, events, open, registryVars, startVars, roundVars,
                 client_evaluations_this_round, metricVars, is_training_finished,
                 aborted, run_summary, stopping, silent>>

HandleEvent ==
  \/ \E s \in open : OnDisconnect(s)
  \/ \E e \in events : \/ OnClientWakeUp(e)
                       \/ OnClientReady(e)
                       \/ IgnoreUpdate(e)
                       \/ OnClientUpdate(e)
                       \/ OnClientEval(e)

ServerNext ==
  /\ \/ HandleEvent
     \/ StartTraining
     \/ Silence
     \/ RoundWatchdog
     \/ StopServer
  /\ UNCHANGED <<link, conn>>
=============================================================================
