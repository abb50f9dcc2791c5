# Formal model of fdsml_federated_learning

TLA+ modules, TLC configurations and TLAPS proofs for the federated-learning
program in `src/`. Line numbers below refer to the files there.

## 1. The system

| Component | Files | State it keeps | Operations | Talks to |
|---|---|---|---|---|
| Federated server | `federated_server.py` | registered sids, client↔sid tables, label statistics, current round, update and evaluation buffers, finished/aborted flags, progress clock | Socket.IO handlers `connect`, `disconnect`, `client_wake_up`, `client_ready`, `client_update`, `client_eval`; watchdog; shutdown | clients (events), aggregator (calls), launcher (`run_summary`) |
| Federated client | `federated_client.py` | connection, keys, local model, calibration term | handlers `init`, `distribute_calibration`, `request_update` (a worker thread), `stop_and_eval`, `shutdown` | server, Trusted Authority |
| Aggregator | `aggregator.py`, `aggregator_ext.py`, `aggregation_policy.py` | current weights, metrics per round, best model, early stopping, snapshot and scale of the weights | `begin_round`, `aggregate_*`, `client_denominator`, `save_results` | called by the server only |
| FIPA refinement | `fipa.py`, `fipa_encrypted.py`, `model_manager_ext.py` | none between rounds | projection, encryption on a fixed-point grid, re-solve | aggregator, client |
| Paillier helpers | `utils.py` | none | encrypt, decrypt, sum, multiply | client, aggregator |
| Trusted Authority | `trusted_authority.py` | one key pair | `request_keys`, `shutdown_ta` | clients, launcher |
| Grid launcher | `federated_grid_search.py`, `config_fingerprint.py`, `run_multiple_clients.py` | queue of configurations, shared results file | workers, per-run server/TA/client threads, duplicate detection | everything above |
| Partitioning | `data_splitter*.py` | the clients' directories | clear, draw and redraw, hold out, copy | launcher |
| Class mapping | `class_mapping.py`, `model_manager_ext.py` | none; the names of the directories | canonical numbers, relabelling, assertion | clients, IoT stage |
| Corrupted test set | `iot/gtsrb_c.py` | files, manifest; a pool of processes | subsample, directories, corruption, manifest | read by the IoT stage |
| IoT stage | `iot/bn_bank.py`, `iot/stream_eval.py`, `iot/routing.py`, `iot/source_model.py`, `iot/bn_adapt.py` | batch-norm buffers of one shared model, the bank, a cached label | recalibrate, build bank, four arms over a stream, metrics | offline, on a checkpoint |

A run: each client connects and says `client_wake_up`; the server answers `init`;
the client fetches keys, loads its data and reports `client_ready`. When
`num_clients` distinct clients have ever been ready the server sends the
calibration term (FedLC), sleeps ten seconds and opens round 0: it samples
`MIN_NUM_WORKERS` registered clients and sends `request_update`. When as many
updates are in it aggregates and sends `stop_and_eval` to everybody registered;
when as many evaluations as registered clients are in it opens the next round
or, after the last round or on early stopping, saves the results, sends
`shutdown` and stops a second later. A watchdog ends a run that has been silent
for `round_timeout_seconds`. The launcher waits until every client thread is over.

What is hard in it: nothing but counts separates the rounds; evaluations carry
no round number; the barrier of the evaluations is the *current* number of
registered clients; connections are lost, regained under a new sid and without a
`client_wake_up`; a client trains in one thread and evaluates in another on the
same model; handlers swallow exceptions; the watchdog runs beside handlers that
sleep in the middle of a shutdown. `PROJECT.json` lists these hazards at their
lines.

### What makes each component correct

- Registry: at most one sid per client, whatever the order of reconnection,
  readiness and disconnection.
- Rounds: opened one at a time, each after the previous was aggregated, never
  more than `global_epoch`; no update is counted twice or in another round; an
  evaluation is booked to the round of the model it measured.
- Clients: never train and evaluate at once; never train FedLC uncalibrated.
- Ending: every run ends; a completed run leaves a summary, an aborted one none.
- Aggregation: the server holds sums whose scale is nowhere in the arrays; what a
  client, a FIPA step or the checkpoint makes of them is a model of the right round.
- Results: a configuration is skipped exactly when the same experiment is on
  record; normalising a configuration changes no experiment; what is on record is
  read back as it was written.
- Sessions: no run is repeated or skipped, an interrupted session loses only what
  was under way, and a session ends unless too many of its splits raised or a Trusted
  Authority was left running.
- Splits: every image is on disk once, whatever lay there before; the frames of one
  sign stay together; each client validates on what it was asked to hold out; a class
  has the same label in trees that lack other classes.
- Corrupted set: a finished build is complete, and neither the schedule of its workers
  nor builds that died before it show in what is drawn from the seeds.
- Inference: recorded statistics describe the network that carries them; the shared
  model comes back after every arm and failure; a routing decision neither feeds back
  into what it is read from nor lags by more than a batch.

## 2. Modules of the core

| Module | Models | Correspondence |
|---|---|---|
| `FederatedNetwork` | Socket.IO as both sides use it | `open` the sids the server still believes connected, `tasks` events delivered or on their way to a client whose handler has not finished, `events` messages to the server not yet handled. Both are sets, not queues: handlers run in threads of their own on either side |
| `FederatedServer` | `federated_server.py`, and the parts of `aggregator.py` that decide control | one action per handler; what follows a `socketio.sleep` is an action of its own (`StartTraining`, `StopServer`), because only the sleep yields the one OS thread |
| `FederatedClient` | `federated_client.py` | a task leaves `tasks` with the last statement of its handler; `Failures` selects the faults a run admits |
| `FederatedRun` | one run, composed | `Spec`, `FairSpec`, the properties, the mapping to `RoundProtocol` |
| `RoundProtocol` | what a run promises, without clients | abstract specification |
| `FederatedRun_proof`, `KeptConnections_proof` | theorems; the second about runs that lose no connection | see section 6 |
| `MCFederatedRun` | instances for TLC | no symmetry, which is not sound for liveness |

Abstractions, each of them a choice about data or time and not about control:

- Weights, losses and scores are not represented. What they decide is a choice:
  the averaged test loss has risen or not; a client has test data or not
  (`NoTestData`). Scales, on which the weights' meaning depends, have modules of
  their own (section 4).
- Time. `Silence` is the moment `round_timeout` has elapsed since the last sign of
  life. With `TimeoutCoversWork` the timeout is longer than any client's own work,
  so silence needs nothing to be pending; without it, it may come at any time.
  `CalibrationApplied` is the ten-second sleep taken as long enough, and a start
  triggered during the one-second shutdown never completes. The mutant
  `NoCalibrationDelay` shows that this delay is what `CalibratedBeforeTraining`
  rests on.
- A Socket.IO room whose connection is gone swallows what is sent to it; losing a
  connection loses any subset of what was on its way to that client. Messages
  already on their way to the server are still handled, with the dead sid.
- `on` in an evaluation is the round of the model it measured. The program has no
  such field and no guard reads it; it exists for the properties.
- `MaxConn` bounds the connections of one client.

## 3. Runs of the core

| Run | Instance | Shows |
|---|---|---|
| `faults` | 2 clients, all faults, updates that cannot be read or aggregated, 2 connections each, 2 rounds; fair | `OneRegistrationPerClient`, `UpdatesCountOnce`, `NoSummaryOfAbortedRun`, `RoundsInOrder`, refinement of `RoundProtocol`, `TrainingEnds` |
| `lost_worker` | 3 clients, 2 per round, 3 rounds, patience 1, FedLC, one client without test data; clients may never connect, get no keys or die in training, an update may be unreadable or its aggregation raise; fair | `EvaluationsOfTheirRound`, `TestMetricsFinal`, `OneUserOfLocalModel`, `CalibratedBeforeTraining`, `AnswersSuffice`, `RunEnds`; no deadlock |
| `lost_evaluation` | connections lost, fair | **violated**: `RunEnds` |
| `short_timeout` | the timeout may fire at any time | **violated**: `NoSummaryOfAbortedRun` |

`AnswersSuffice` is the other half of `RunEnds`: the end it promises may be the
watchdog's, and then an answer is really missing. A barrier that waits for one answer
too many would satisfy `RunEnds` and violate it. A round whose aggregation raised is the
other way a run may end empty: `_aggregate_updates` sets the round's total first
(l. 331), the exception leaves the handler, and only the watchdog is left.

`TrainingEnds` is as much of `RunEnds` as holds when connections are lost and clients
restarted. A client that is back under a new sid without a `client_wake_up`, or one
whose registration enlarges the barrier of an evaluation it was not asked for, is
waited for no longer than the timeout, as long as the watchdog watches, which is until
`is_training_finished`; `lost_evaluation` is about the time after it.

Bounds. Two rounds are the least with a last and a not-last round, three allow an
evaluation to be late by one whole round; two connections per client are the
least with a stale sid; three clients with two sampled are the least where a round
leaves somebody out, and where a client can fail in a round while others answer.

Fairness. `FairSpec` is weak fairness of `Progress`: the event loop, the client
threads and the clock go on. `WatchdogArmed` stands for a
`round_timeout_seconds` above zero, the default; without it nothing ends a silent run.
Losing a connection and restarting a process are in `Disturbance` and get no fairness. `CHECK_DEADLOCK FALSE` is set where a lost
connection leaves a client waiting with nothing to do; `lost_worker` checks deadlock,
since the failures it admits leave none.

### Where the core does not do what the code says

Two of the five findings; the others are in section 4.

- `lost_evaluation`. `_on_client_update` (l. 519) marks the run finished before the
  last evaluations are requested; `_round_watchdog` (l. 177) ends as soon as the
  run is finished. A client lost during the last evaluation then leaves the run
  waiting for ever, although the comment at l. 85-90 names an evaluation among
  the signs of life the timeout bounds and calls the watchdog a way out of a hang.
- `short_timeout`. After `_abort_run` has dropped the summary, `_shutdown_server`
  sleeps for a second in which a late evaluation can complete the barrier;
  `_on_client_eval` calls `save_results` again and the aborted run has a summary,
  against the comment at l. 215-222.

### Limits the code states itself

`_on_disconnect` ends with "In a real system, you might need to handle client
dropouts during a round". With connections lost during an evaluation,
`EvaluationsOfTheirRound`, `TestMetricsFinal` and `OneUserOfLocalModel` do not
hold: the barrier shrinks under the server and late evaluations are counted for
the next round. They are checked in `lost_worker`, whose failures lose no connection, so
that they rest on the barriers alone; `RoundsInOrder`, `UpdatesCountOnce` and the
refinement are checked with every fault.
`RoundsInOrder` needs test data on the clients: the `KeyError` that a round
without a row raises is what stops an evaluation barrier met too early, and
`aggregate_evaluation_results` returns before that line when no evaluation has data.

## 4. Scales and the grid search

### Scales of the global model

| Module | Models | Correspondence |
|---|---|---|
| `AggregationPolicy` | `aggregation_policy.py` | the rule of a round and the two denominators, as operators |
| `ExtendedAggregator` | `aggregator_ext.py`, on `aggregator.py` | its state and, as operators with primed variables, the methods the server calls |
| `ScaledRun` | the calls the server makes of it, and the client's use of the payload | one action per handler of either side; `Spec`, properties |
| `ScaledRun_proof`, `MCScaledRun` | theorems; instances | |

An array of weights is `[of, times, over]`: the model of round `of`, multiplied by
`times` and divided by `over`. Whether the numbers are right is then whether
`times = over`, and nothing else about them is represented: layers, ciphertexts
and their packing are left out. A configuration is `[algorithm, encrypted, warmup]`,
chosen in `Init`. One client stands for all, since every client of a round is sent
the same payload and follows the rule it names; the training sizes are their total.
That rounds follow one another is taken from `RoundsOrdered` (section 6). Any
aggregation may raise, and one of updates of the wrong kind always does; the second between an abort and the end of the process,
in which the core's `short_timeout` bites, is left out.

| Run | Instance | Shows |
|---|---|---|
| `scales` | every rule, plain and encrypted, warm-ups of 0 to 3 of 3 rounds | `PayloadsDescale`, `DeltasAddToTheirStart`, `KindsAgree`, `CheckpointIsBestModel` |
| `feddisco_start` | the same | **violated**: `FirstPayloadUnscaled` |

Bounds. Three rounds with a warm-up of one have a round before, at and after the
change of rule, and a best round whose scale is not the last one's. `GridScale` 4
stands for 2^24. A total of 1 is the value at which a rescale is a no-op, 3 is one
at which it is not; two totals let the scale change between rounds.

`feddisco_start`: with encryption, FedDisco announces its grid scale in round 0,
when the payload is still the plaintext initial model, and the clients divide it by
that scale. A comment in the client (l. 127-129) and a test say the denominator of
round 0 is a no-op.

### Grid search

| Module | Models | Correspondence |
|---|---|---|
| `ConfigFingerprint` | `config_fingerprint.py`, the normalisation in `main`, and the places where a run reads its configuration | operators on functions from keys to values; `Experiment` is what the run reads |
| `ResultsFile` | `append_results_to_csv`, `csv.DictReader`, `save_results`' summary | a header, rows, and the positions that relate them |
| `ConfigLifecycle` | one configuration: generated, queued, recorded, read back | next to another one the later session may generate |
| `GridSearch` | `federated_grid_search.py` | sessions of `main`, workers, the `JoinableQueue`, `csv_lock`, interruptions |
| `ResultsFile_proof` | lemmas about the operators of the first two | see section 6 |
| `ConfigLifecycle_proof`, `GridSearch_proof` | theorems about one configuration, and about the search | |
| `MCConfigLifecycle`, `MCGridSearch` | instances | |

`GridSearch` has one action per step of `main` and of a worker between which
another process can act: a put, a get, the read of the file's header under the
lock, the append, `task_done`. What a run does inside is the subject of the core;
here it leaves a summary, or none, or its splitter raises before a client starts.
Then the worker's function is left (only `queue.Empty` is caught) after the `finally`
clause has reported its task, and lines 172-181, which shut the Trusted Authority down,
are skipped. The process ends with its last thread that is no daemon: the server's,
which the watchdog ends, but of an encrypted run also the Trusted Authority's (l. 161),
which nobody ends. Such workers are in `ta_left`. `shutdown_ta` may fail as well (its
exception is caught), and it reaches whatever listens on the worker's port; that it
ends the event loop of the one it reaches is taken from the call of `exit(0)` there.
`recorded` and `tried` are history variables.

Abstractions. A value is what `str()` writes; `Blank` is `None`, the empty string,
and what csv writes for `None`. What is read and refused although the
setting it belongs to is not used, `fipa_warmup_rounds` in every round of every
algorithm and the Dirichlet dials under every strategy, is `RoundsAccept` and
`SplitterAccepts`; `Experiment` is what decides the result of a run that is not
refused. `fipa_rank` stands for `fipa_pinv_rtol` as well,
`feddisco_a` for `feddisco_b`, the rotation for the other augmentation dials; each
pair is treated alike by the code. As the repository's README requires, every
dial a grid varies is a declared search axis. `max_units_per_class` is set only
with the Dirichlet split. Ports, directories, seeds and worker ids of a run are left
out. `Update` is `dict.update`, `SetDefaults` a `setdefault` for every key of a table.
`WellFormed` and `OneSearch` say what a grid file keeps to; that the configurations of
the instances do is an assumption TLC evaluates (`PairsAssumption`, `AskedAssumption`).
`NormalForm` is `Normalize` as a table over what the grids ask for.
The `JoinableQueue` counts a put before its feeder thread delivers it, which is
the count `join` waits on, so the feeder is not modelled. `AppendRow` is one step:
the line is written under the lock. Rows of an earlier program are an input marked
external, and so is the interruption.

| Run | Instance | Shows |
|---|---|---|
| `fingerprints` | every pair of configurations over the dials of the split, of the algorithm, and of model and augmentation, given or not; rows of the old program | `QueuedIsWhatWasAsked`, `RowStandsForItsExperiment` |
| `stratified_split` | the same | **violated**: `RunnableAsQueued` |
| `grid` | 2 workers, 2 sessions, 2 overlapping grids of 3 configurations, interruptions, one encrypted run, fair | `TasksAccounted`, `FoundStillTrue`, `NothingRepeated`, `NothingSkipped`, `SessionEnds` |
| `old_results` | the same, on a file of an earlier program | **violated**: `NothingRepeated` |

Bounds. Two workers contend for the lock and let a session survive one split that
raises; two sessions are one interrupted and one that resumes. One grid has two
entries that are the same experiment under different dials, the other shares a run
with the first and has a Dirichlet alpha that starves a client, once with a Trusted
Authority and once without.

Fairness. `FairSpec` is weak fairness of `main` and of each worker: operating
system processes go on. Nobody is obliged to start a session or to interrupt one.
It takes a run's server to end, which `RunEnds` shows of the core except for the
finding `lost_evaluation`. `SessionEnds` says that a session that started comes to its end, or is in one of two
states it cannot leave: `Deserted`, as many splits raised as there are workers (one, in
the shipped grids), so that `join` waits for tasks nobody takes, or `Lingering`, a
worker's function was left and its process is kept alive by a Trusted Authority, so
that `process.join` (l. 336) waits. Both are in the run.

- `stratified_split`. `normalize_partition_keys` writes its sentinels `n/a` and
  `-1.0` into the configuration that is queued, and the splitter refuses both, so a
  run with the default split dies before it starts. Comments at the splitter and the
  launcher say that a configuration without partitioning keys keeps working.
- `old_results`. `append_results_to_csv` writes a row under the union of its keys and
  the header's but never rewrites the header. Below a narrower header the values
  stand under other keys, the fingerprint is not recognised, and the next session
  repeats the run, although `run_grid.sh` calls it safe to re-run.

## 5. Datasets and inference

### Splits and the corrupted test set

| Module | Models | Correspondence |
|---|---|---|
| `ClassMapping` | `class_mapping.py`, the relabelling in `model_manager_ext.py` | operators on a set of directory names; a naming is the names' sorted order and the numbers in them |
| `Partitioning` | `data_splitter.py`, `data_splitter_ext.py` | one action per stage of `split_dataset`: clearing one client's directory, limiting, cutting one class, judging the draw, copying one side of one client |
| `CorruptedSet` | `iot/gtsrb_c.py` | directories made by the parent one at a time, tasks taken and files written by workers, the manifest |
| `DatasetPreparation` | both | `tool` says which of the two a behaviour runs: they write different directories in different processes and share the class names only |
| `DatasetPreparation_proof`, `MCDatasetPreparation` | theorems; the instance | |

Abstractions. A unit is the set of its images, a draw a permutation of a class's
units and the places where it is cut, so that any random generator and any
concentration is covered; `StratifiedKFold` and `train_test_split` are the choices
their documented balance leaves, marked external. What a file of the corrupted set
holds is the term that says what was drawn for it. The global generator of a worker is a
variable: seeding it (l. 296) and corrupting are steps of their own, a corruption that
draws from it (`DrawsGlobal`) moves it on, one that makes a generator for the call
(`DrawsOwn`, of the default set `impulse_noise`, by scikit-image's `random_noise`)
gets what the operating system gives, and a blur draws nothing. Images in `Missing` may
be gone when they are copied, which `data_splitter.py` (l. 117-120) skips with a warning;
`skipped` remembers them for `OnceOnDisk`, which speaks of what was found.
The pool hands out tasks in any order, of which its chunks of eight are a special
case. The directory of one client is removed in one step, and so is one side of it
written, except that `KillSplit` may come between any two; a file a killed worker was
saving is there, cut short, or not there yet. The manifest is written in one step.

| Run | Instance | Shows |
|---|---|---|
| `datasets` | 8 images of 7 signs in 3 classes, six kinds of split of which two follow one another; test sets of 7 and 9 images, two kinds of build of which two follow one another, one corruption of either kind of generator; one source image may be missing; kills anywhere | `OnceOnDisk`, `SignsTogether`, `ValidationAsAsked`, `LabelsAgree`, `SameWheneverBuilt`, `FinishedIsComplete` |

Bounds. Two splits and two builds are one that leaves something behind and one that
meets it; the second may be for fewer clients, the other strategy, fewer conditions
or fewer workers. The requests contain a draw that is always acceptable, one that is
sometimes, one that never is, a class too small for the clients asked for, and a
stratified split for one client. `StratifyFrom` is 4 where the code has 10, so that
clients on both sides of it occur; `MaxAttempts` is 2. The class names are
numbers whose sorted order is not their own, and names without a number; padded numbers
differ from the first in their order only. A generator the code does not seed starts in
one of two states. One
test set has a class so rare that its share is below one image. `CHECK_DEADLOCK
FALSE`: the tools end. Nothing here has to happen eventually, so there is no fairness.

`SameWheneverBuilt` compares every file any worker of any build has saved with every
other one of the same image and condition: same builds or not, whatever was corrupted
before by the same process. Seeding a worker once, as pools usually are, violates it.

What the properties leave open, because the code does:

- `SameWheneverBuilt` excludes `DrawsOwn`. `notebooks/TTA_RUN.md` (l. 42-43) calls the
  set "reproducible byte for byte", and `impulse_noise` is in the default set, but
  `np.random.seed` does not reach the generator it draws from: two builds of it differ.
- `assert_canonical_labels` compares a tree with the canonical map of the same tree.
  It misses a tree whose last classes are missing, which shifts no label, and, when the
  names hold no numbers, every incomplete tree, which does: for such names
  `LabelsAgree` asks for a finished build.
- The one pass with which `_allocate` takes back images may not be enough: classes of
  100, 1, 1, 1 and 1 images and a size of 5 get 7, although the comment at l. 201 says
  the parts add up to exactly `size`. `FinishedIsComplete` speaks of the subsample as it is.
- `build` removes nothing. Below a finished build of another seed or size, files of
  the earlier one stay and are read with the new ones, and a build that dies leaves the
  manifest of the one before.
- The stratified strategy ignores tracks, as its documentation says, and keeps the
  hold-out of a single image that `ValidationAsAsked` excludes for the other one.
- The `RuntimeError` at `data_splitter_ext.py` l. 348 is unreachable; `OnceOnDisk`
  says why.

### Inference

| Module | Models | Correspondence |
|---|---|---|
| `BnBank` | how `bn_bank.py` measures statistics | the buffers of the one model, and the sweep that measures and commits layer by layer |
| `StreamEvaluation` | `stream_eval.py`, `routing.py`, `bn_adapt.py`, `source_model.py` | `evaluate` from the checkpoint to the last arm, one action per forward pass |
| `AdaptationArms` | what the module docstring of `stream_eval.py` promises of the arms | abstract specification: no buffers, no cache, no sweep |
| `StreamEvaluation_proof`, `MCStreamEvaluation` | theorems about the sweep and about the arms; the instance | |

A statistic is a term: the layer, the images, and the statistics the layers above it
normalised with. Two equal terms are equal numbers in every network, and different
terms may differ, so a wrong order, a stale cache or a mixture of conditions shows as
a term that is not the one asked for. Images are told apart by their place along one
axis of degradation; a condition has a centre and a batch lies within `Jitter` of it.
The distance between descriptors grows with that gap and stands for `symmetric_kl`.
Predictions, scores and the tables written at the end are left out. `Fail` is an
exception or Ctrl-C at any moment: the `finally` clauses run, and what a notebook is
left with is the model.

| Run | Instance | Shows |
|---|---|---|
| `inference` | a stem and a residual block with a downsample branch, all three ways to collect, cut passes, blending, recalibration; a bank of three, two of which resemble each other, a stream of four conditions with two batches each | `SweptIsFixedPoint`, `ModelLeftAsFound`, `DescriptorOfBatchAlone`, `LagIsOneBatch`, refinement of `AdaptationArms` |

Bounds. Four layers are the least with a branch that is defined after a layer it does
not read. The stream meets a condition of the bank at a severity between its own entry and
the one that resembles it, one the bank does not know, and clean images at both ends; two batches per condition are the
first, which the lag may cost, and one more. Two calibration batches make the
percentile fall between two values. Nothing has to happen eventually: an evaluation
may be stopped anywhere, and there is no fairness.

Met while modelling. `--distance l2` routes by one distance against a threshold
calibrated with the other. A loader's seeded generator advances with every pass and
the four arms share the loaders, so with shuffling they meet the same images in
different batches. The module docstring says that "whatever adaptation the model has
accumulated carries over"; as `ArmsAsPrescribed` shows, nothing does: no batch is ever
normalised with the averages that blind batches leave in the buffers. `AdaptationArms`
says so too. `LagIsOneBatch` does not say that the entry loaded carries the condition's
own name: the default sets keep noises and blurs that resemble each other and stream
some that are in no bank (`gtsrb_c.py` l. 86-106), and those are meant to be mapped
onto a relative. It says that from the second batch on the entry is the one nearest to
images of the condition at hand, and within the threshold, or the batch is refused.

## 6. Proofs

### The federated run

`FederatedRun_proof` proves, for every value of the constants that satisfies the
named assumptions (any clients, any `MaxConn`, any `Failures`):

| Theorem | States | Extra assumption |
|---|---|---|
| `TypeCorrect` | `Spec => []TypeOK` | – |
| `RegistrationUnique` | `Spec => []OneRegistrationPerClient` | – |
| `UpdatesCounted` | `Spec => []UpdatesCountOnce` | – |
| `AbortedUnrecorded` | `Spec => []NoSummaryOfAbortedRun` | `TimeoutCoversWork` |
| `RoundsOrdered` | `Spec => RoundsInOrder` | `NoTestData = {}` |
| `ProtocolImplemented` | `Spec => FollowsProtocol` | both |

Both extra assumptions are needed: `short_timeout` is an instance without the
first, and section 3 says what becomes of `RoundsInOrder` without the second.

The argument. `ClientStepLemma` and `ServerStepLemma` say what any step can do to
the messages (`ClientEffect`, `ServerEffect`); `RoundSteps` says that a step of
the server opens a round, buffers an update, or leaves the round alone. On them
rest five inductive invariants:

- `TypeInv`: `TypeOK` is not inductive, since a buffered update needs a real round;
  `MessageRounds` says every message of a round has one, and
  `LinkHasConnection` that a client that can send has a sid.
- `RegistryInv`: what is registered for a client is what `client_sid` holds for it.
- `TokenInv`: the request, the answer and the buffered entry of a client and a
  round are one token. `UpdatesCountOnce` alone says nothing of what is still on
  its way and is not inductive.
- `RoundInv`: rows exist for opened rounds only, the row of the last round
  finishes the run, and the start is over before the first evaluation.
- `QuietInv`: a silent or aborted run has nothing pending that could answer.

`KeptConnections_proof` is about the runs in which connections last
(`ConnectionsKept`: neither "drop" nor "restart" is among the failures). All other
failures stay possible unless the table says otherwise.

| Theorem | States | Besides `ConnectionsKept` |
|---|---|---|
| `RowsOfTheirRound` | `Spec => []EvaluationsOfTheirRound` | – |
| `LocalModelUnshared` | `Spec => []OneUserOfLocalModel` | – |
| `TrainingCalibrated` | `Spec => []CalibratedBeforeTraining` | `AllClients`: the clients are the `NumClients` the server waits for |
| `TestMetricsStay` | `Spec => TestMetricsFinal` | `TimeoutCoversWork` |
| `AnswersCounted` | `Spec => []AnswersSuffice` | `TimeoutCoversWork`, `AllClients`, no failing evaluation, `MinNumWorkers` between 1 and `NumClients` |

Unreadable updates and raising aggregations (`UpdateFailures`) are open in all of these
theorems.

`ConnectionsKept` is not there for the proof: once connections may be lost or a client
restarted, TLC finds each of the five violated on small instances. The barriers count answers and not senders, so the
invariant is a budget (`UpdateBudget`, `EvaluationBudget`): what is buffered and what is still on
its way never exceeds what the barrier waits for. A barrier that is met therefore
leaves nothing behind, which is what the next round needs to start clean; that is the
whole reason why messages without a round number suffice. `LinkInv` says every sid is
the only one its client ever had, `CalibrationInv` follows the calibration term from
the start to the first round, `EndInv` says what a stopping server leaves open, and
`EveryoneAnswers` that each registered client's evaluation is on its way or in.

### Scales

`ScaledRun_proof` proves, for any set of configurations, any grid scale, number of
rounds and training sizes: `TypeCorrect`, `PayloadsDescaled`, `DeltasAdded`,
`KindsAgreed`, `CheckpointBest`, each of them the property of `scales` of like
name. `FirstPayload` proves `FirstPayloadUnscaled` for configurations without
encrypted FedDisco, so that `feddisco_start` is the only exception. The invariant:

- `HeldInv`: the weights are at the scale the last aggregation recorded, and the
  server's total still yields that scale. The second half is why `client_denominator`
  may compute what it has not stored.
- `RoundInv`: which round's model is held in which phase.
- `PayloadInv`: what was broadcast is what is held, with its denominator, its rule,
  and FIPA's snapshot of it.
- `ClientInv`: what the client made of it, and the kind of its update.
- `BestInv`: the best model is at the scale recorded beside it. `CheckpointIsBestModel`
  speaks of the file only and is not inductive without it.

The arithmetic is in `DescaleExact`: dividing by the scale a sum was made at leaves
the model.

### Grid search

| Module | Theorem | States | Extra assumption |
|---|---|---|---|
| `ConfigLifecycle_proof` | `TypeCorrect` | `Spec => []TypeOK` | – |
| | `QueuedAsAsked` | `Spec => []QueuedIsWhatWasAsked` | – |
| | `RowsAreRecognised` | `Spec => []RowStandsForItsExperiment` | – |
| `GridSearch_proof` | `TypeCorrect` | `Spec => []TypeOK` | – |
| | `TasksCounted` | `Spec => []TasksAccounted` | – |
| | `AppendsToWhatItFound` | `Spec => []FoundStillTrue` | – |
| | `NoRunRepeated` | `Spec => []NothingRepeated` | `OneHeader` |
| | `NoRunSkipped` | `Spec => []NothingSkipped` | `OneHeader` |

What is assumed of a configuration is named in `ConfigFingerprint`. `WellFormed`: it has
the program's keys, names one of its networks and gives no dials of another one. Of two
configurations of one search, `OneSearch` says that they differ in declared axes only, as
the repository's README requires, and that a key no normalisation fills in is given in
both or in neither. `WrittenAssumption` says that the literals the model writes are
strings, which the provers do not know.

About a configuration, `ResultsFile_proof` shows: `NormalSays`, what each key holds
after normalising; `KeepsExperiment`, that normalising changes no experiment;
`NormalAgain`, that normalising a row once more changes nothing the fingerprint or a run
reads; and `FingerprintIsExperiment`, that two normal forms of one search have the same
fingerprint exactly when they are the same experiment, part by part
(`SplitAlike`, `AugmentationAlike`, `AlgorithmAlike`, `ModelAlike`). About the file:
`SortedKeepsKeys`, that sorting the keys by rank loses and repeats none, and
`RowReadsBack`, that a row written under the file's own header reads back as it was.

About the search, the theorems of the first part need nothing of a configuration.
`IdleInv` (no worker runs between sessions) makes the count of `TasksAccounted` start
at zero; `BusyBecomes` says how the number of busy workers changes when one changes
phase, by the cardinality theorems of the library. `LockInv` adds to `FoundStillTrue`
that whoever appends holds the lock, without which another worker's append could not
be excluded.

`NothingRepeated` and `NothingSkipped` rest on `SearchInv`. `FileInv`: every row is the
summary of a configuration of the search, so that what a session reads from the file is
what is on record. `RememberedInv`: what `main` remembers by fingerprint is exactly what
is recorded, was tried, or waits in the queue. `QueueInv` and `FlightInv`: an
experiment waits once or is under way once, and is not on record. `GridInv` and
`StoppingInv`: everything generated is remembered, and nothing waits when the workers
are told to stop. `FlightInv` is stronger than what `NothingRepeated` says of running
workers, since two of them with one experiment would both be allowed until the first
appends.

`OneHeader` says that all runs of the search leave the same keys and that the file holds
their rows only. It is needed because a value is told apart by its place alone:
`old_results` violates `NothingRepeated` without it, and so would a grid with
`encryption_mode` as an axis, since encrypted runs leave no `checkpoint_path`. It holds of
the instance of `grid` and not of that of `old_results`.

### Datasets

`DatasetPreparation_proof` proves, for any images, requests, pools and crashes, and any
bounds:

| Theorem | States |
|---|---|
| `NothingLostOrDoubled` | `Spec => []OnceOnDisk` |
| `NoSignIsTornApart` | `Spec => []SignsTogether` |
| `WorkersDoNotShow` | `Spec => []SameWheneverBuilt` |
| `BuildsAreComplete` | `Spec => []FinishedIsComplete` |
| `TypeCorrect` | `Spec => []TypeOK` |
| `ShareHeldOut` | `Spec => []ValidationAsAsked` |
| `LabelsTogether` | `Spec => []LabelsAgree`, when the names hold their numbers or every test set has all classes (`NumbersInNames \/ EveryClassTested`) |

`SplitInv` follows the units from the draw to the disk. `Dealt`: a unit of a class
that has been cut is in exactly one bucket, by `ChunksPartition`, which says that
consecutive chunks of a permutation neither lose nor repeat. `OnDisk`: the files are
those of the units written so far, each unit in one place. `OnceOnDisk` speaks of a
finished split and is not inductive without them. That the tree is empty when the draw
begins (`splitting` in limiting or drawing) is what keeps an earlier split out.

`BuildInv` accounts for every image of the subsample: it waits in the queue, or is
with a worker that has written all conditions before the one it is at, or all its files
are whole (`Accounted`). A file that is whole is only ever replaced by a whole one as
long as the pool lives (`WriteKeepsWhole`). `AsSettled` and `SeededInv` are what
`SameWheneverBuilt` rests on: whatever was saved of a condition is what its seed settles,
and a worker that has seeded is at the very file it seeded for. `EveryClassKept` is the arithmetic of
`_allocate`: no share falls to zero, whatever is handed out or taken back.

`SidesInv` adds, for each client already written, that the hold-out on its disk has the
size asked for and the rest is its training side. An accepted draw leaves every client two
units at least, so neither side is empty. `BuildTypes` says that no directory
is missing once the pool has started, without which a name could lack its label. The
hypothesis of `LabelsTogether` is what `assert_canonical_labels` cannot see: when names
hold no numbers, a test set without one of the classes passes it and shifts the labels
of the others, and TLC finds `LabelsAgree` violated.

### Inference

`StreamEvaluation_proof` proves, for any network whose layers read earlier layers
only, and any bank, stream and settings, `SweptStatesAreFixedPoints`, `ModelComesBack`
and `RouterReadsTheBatchAlone`: the invariants `SweptIsFixedPoint`, `ModelLeftAsFound`
and `DescriptorOfBatchAlone`. The invariant says what a sweep has done half-way: every
layer behind it carries what the finished network will measure there, since what it
reads lies upstream and is already committed (`FedAgrees`, `CommitKeepsMeasured`).
`Stages` says who owns the model in which stage, on which the other two rest.

Its second part is about what the arms do with it:

| Theorem | States | Extra assumption |
|---|---|---|
| `ArmsTypeCorrect` | `StreamSpec => []TypeOK` | – |
| `ArmsImplemented` | `StreamSpec => ArmsAsPrescribed` (every step is one of `AdaptationArms` or a stutter) | – |
| `LagBounded` | `StreamSpec => []LagIsOneBatch` | – |
| `FarOnesRefused` | `StreamSpec => []NoFarRelative`: what is loaded from the second batch of a condition on lies no further from it than some batch of the bank from its own entry | – |

`BankInv` says what each entry was measured on. `LoadInv` ties the cached label to the
buffers, and the previous descriptor to the batch it was read from: this is what a
label that outlives its buffers would break. `CalibrationInv` bounds the threshold by a
distance that some batch of a condition really has from its own entry, since an order
statistic is one of the values it orders. A descriptor the router may use passes
`DescriptorIndependent`, so it reads the first layer only and a distance is one gap;
that the percentile and the nearest entry exist follows from the order of the naturals
(`LeastNatural`). None of it takes the conditions to lie apart. `FarOnesRefused` is what
the calibrated threshold adds: the percentile is one of the distances it is taken of.

### What is only model-checked

The liveness properties (`RunEnds`, `TrainingEnds`, `SessionEnds`): TLAPS does not reach fairness. Every
invariant and action property of a passing run is the subject of a theorem. Those with
an extra assumption are proved for the values of the constants it allows; the text above
says which of them TLC finds violated outside of it. For `NothingSkipped` it finds no
such instance: a row whose values stand under other keys would have to look like another
experiment of the grid.

## 7. Plan

1. Core: `FederatedNetwork`, `FederatedServer`, `FederatedClient`, `FederatedRun`,
   `RoundProtocol`, proofs (done).
2. Scales: `AggregationPolicy`, `ExtendedAggregator`, `ScaledRun`, proofs (done).
3. Grid search: `ConfigFingerprint`, `ResultsFile`, `ConfigLifecycle`, `GridSearch`,
   `ResultsFile_proof`, `ConfigLifecycle_proof`, proofs (done).
4. Inference: `BnBank`, `StreamEvaluation`, `AdaptationArms`, proofs (done).
5. Datasets: `ClassMapping`, `Partitioning`, `CorruptedSet`, `DatasetPreparation`,
   proofs (done).
6. Still worth having: `NothingRepeated` for searches whose rows have different keys
   below one header that holds them all.

## 8. Not modelled

Training, gradients, curvature factors, scores and image processing are real-valued
numerical code. So is the encoding of one value on the fixed-point grid of the
encrypted route: `ScaledRun` lets an aggregation raise, as the grid does when it refuses
a value, and takes its sums as exact. The status page, logging, plots, notebooks, the
preparation of the raw GTSRB files and the partition report keep no state the rest
depends on. The Trusted Authority is a client's keys that come or do not; its key
store is left out, and of its shutdown `GridSearch` keeps whether it happened. `PROJECT.json` says it for every part.
