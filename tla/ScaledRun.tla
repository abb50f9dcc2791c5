----------------------------- MODULE ScaledRun ------------------------------
(***************************************************************************)
(* The rounds of a run as the aggregator sees them: federated_server.py    *)
(* calls it, and a client rescales the payload it is sent                  *)
(* (federated_client.py). Every client asked in a round is sent the same   *)
(* payload and follows the same rule, so one client stands for all of      *)
(* them. Rounds follow one another as FederatedRun's theorem RoundsOrdered *)
(* has them: each is aggregated and evaluated before the next is opened.   *)
(***************************************************************************)
EXTENDS ExtendedAggregator

CONSTANTS
  GlobalEpoch,   \* config['global_epoch']
  TotalSizes     \* the training sizes the clients of one round can add up to

ASSUME RunAssumption ==
  /\ GlobalEpoch \in Nat \ {0}
  /\ TotalSizes \subseteq Nat \ {0}

VARIABLES
  phase,
  current_round,
  total_training_size_in_round,
  payload,       \* of the last request_update or stop_and_eval
  local_model,   \* what the client made of the last payload
  update_kind    \* payload_kind of the client's last update

vars == <<aggregatorVars, phase, current_round, total_training_size_in_round,
          payload, local_model, update_kind>>

Phases == {"ready", "requested", "updated", "stuck", "evaluating", "evaluated",
           "finished"}

Kinds == {"weights", "delta", "fipa_z"}

\* `algorithm` is not part of stop_and_eval and keeps its last value there.
Payload == [weights : Weights, denominator : Nat, algorithm : KnownAlgorithms]

\* Every value has its type, and nothing that was never written is a checkpoint.
TypeOK ==
  /\ AggregatorTypeOK
  /\ phase \in Phases
  /\ current_round \in Nat \cup {-1}
  /\ total_training_size_in_round \in Nat
  /\ payload \in Payload
  /\ local_model \in Weights
  /\ update_kind \in Kinds

Init ==
  /\ AggregatorInit
  /\ phase = "ready"
  /\ current_round = -1
  /\ total_training_size_in_round = 0
  /\ payload = [weights |-> NoWeights, denominator |-> 0, algorithm |-> "FedAvg"]
  /\ local_model = NoWeights
  /\ update_kind = "weights"

-----------------------------------------------------------------------------
StartNextTrainingRound ==
  /\ current_round' = current_round + 1
  /\ BeginRound(current_round', total_training_size_in_round)
  /\ payload' = [weights     |-> current_weights,
                 denominator |-> last_broadcast_denominator',
                 algorithm   |-> EffectiveAlgorithm(config, current_round')]
  /\ phase' = "requested"

StartTraining ==
  /\ phase = "ready"
  /\ StartNextTrainingRound
  /\ UNCHANGED <<config, scaleVars, bestVars, checkpoint, total_training_size_in_round,
                 local_model, update_kind>>

ProcessServerWeights(data) == Descale(data.weights, data.denominator)

\* Mutant: the client goes by its own configuration.
ConfiguredAlgorithm(data) == config.algorithm

\* The rule of the round is the one the server said.
RoundAlgorithm(data) == data.algorithm

UpdateWorker ==
  /\ phase = "requested"
  /\ local_model' = ProcessServerWeights(payload)
  /\ update_kind' = IF RoundAlgorithm(payload) = "FIPA"
                      THEN IF config.encrypted THEN "fipa_z" ELSE "delta"
                      ELSE "weights"
  /\ phase' = "updated"
  /\ UNCHANGED <<aggregatorVars, current_round, total_training_size_in_round, payload>>

\* Whatever raises inside the handler, a damaged update, one without an entry the
\* rule reads, the linear algebra of FIPA or its fixed-point grid, leaves the total
\* of the new round, the weights of the old one and nothing but the watchdog.
AggregationRaises ==
  /\ phase' = "stuck"
  /\ UNCHANGED <<aggregatorVars, payload>>

TriggerGlobalEvaluation(denominator) ==
  payload' = [payload EXCEPT !.weights = current_weights', !.denominator = denominator]

\* The update that completes the barrier: _aggregate_updates, which an update of the
\* wrong kind always makes raise (_require_payload_kind), and, after it,
\* _trigger_global_evaluation, which asks for the denominator of the new weights.
OnClientUpdate ==
  LET algorithm == EffectiveAlgorithm(config, current_round) IN
  /\ phase = "updated"
  /\ \E total \in TotalSizes :
       /\ total_training_size_in_round' = total
       /\ \/ AggregationRaises
          \/ /\ update_kind = RequiredKind(algorithm)
             /\ AggregateWeights(algorithm, current_round, total)
             /\ TriggerGlobalEvaluation(
                  ClientDenominator(last_aggregation_algorithm', total))
             /\ phase' = "evaluating"
             /\ UNCHANGED <<config, roundVars, bestVars, checkpoint>>
  /\ UNCHANGED <<current_round, local_model, update_kind>>

OnStopAndEval ==
  /\ phase = "evaluating"
  /\ local_model' = ProcessServerWeights(payload)
  /\ phase' = "evaluated"
  /\ UNCHANGED <<aggregatorVars, current_round, total_training_size_in_round, payload,
                 update_kind>>

\* is_training_finished, set by the last round's update barrier.
TrainingFinished ==
  phase \in {"evaluating", "evaluated"} /\ current_round >= GlobalEpoch - 1

\* The evaluation that completes the barrier closes the round: the run goes on, or
\* ends after its last round or by early stopping, which takes an earlier loss to
\* compare with.
OnClientEval ==
  /\ phase = "evaluated"
  /\ \E improved \in BOOLEAN : AggregateEvaluationResults(current_round, improved)
  /\ \/ /\ ~TrainingFinished
        /\ StartNextTrainingRound
        /\ UNCHANGED checkpoint
     \/ /\ TrainingFinished \/ current_round > 0
        /\ SaveResults
        /\ phase' = "finished"
        /\ UNCHANGED <<roundVars, current_round, payload>>
  /\ UNCHANGED <<config, scaleVars, total_training_size_in_round, local_model,
                 update_kind>>

\* _abort_run, when the watchdog, which the end of training ends, finds the run
\* silent, saves what there is.
AbortRun ==
  /\ phase # "finished" /\ ~TrainingFinished
  /\ UNCHANGED bestVars
  /\ SaveResults
  /\ phase' = "finished"
  /\ UNCHANGED <<config, scaleVars, roundVars, current_round,
                 total_training_size_in_round, payload, local_model, update_kind>>

Next ==
  \/ StartTraining
  \/ UpdateWorker
  \/ OnClientUpdate
  \/ OnStopAndEval
  \/ OnClientEval
  \/ AbortRun

Spec == Init /\ [][Next]_vars

-----------------------------------------------------------------------------
HasAggregated == last_aggregation_algorithm # "None"

\* Once anything has been aggregated, what a client makes of a payload is the
\* last aggregated model, whatever rule made it and whatever rule comes next
\* (client_denominator, _process_server_weights).
PayloadsDescale ==
  HasAggregated /\ phase \in {"requested", "evaluating"} =>
    LET received == ProcessServerWeights(payload) IN
    /\ Unscaled(received)
    /\ received.of = IF phase = "evaluating" THEN current_round ELSE current_round - 1

\* The first round starts from the initial model as it is: its payload is no sum
\* (_process_server_weights, _descale, client_denominator).
FirstPayloadUnscaled ==
  ~HasAggregated /\ phase = "requested" => Same(ProcessServerWeights(payload), Model(-1))

\* The server adds a FIPA increment to the very parameters the clients' movement
\* is relative to, though it gets there by a snapshot or by rescaling ciphertexts
\* (_snapshot_global_weights, fipa_aggregate_encrypted).
DeltasAddToTheirStart ==
  phase = "updated" /\ update_kind # "weights" =>
    Unscaled(FipaBase) /\ Same(FipaBase, local_model)

\* Client and server follow the same rule in every round, so that no movement is
\* summed as if it were a model (_require_payload_kind).
KindsAgree ==
  phase = "updated" =>
    update_kind = RequiredKind(EffectiveAlgorithm(config, current_round))

\* A checkpoint is the best round's model at its own scale, although later rounds
\* have left weights of another scale (_save_checkpoint).
CheckpointIsBestModel ==
  checkpoint # NoCheckpoint =>
    /\ Unscaled(checkpoint.weights)
    /\ checkpoint.weights.of = checkpoint.round
    /\ checkpoint.round = best_round
=============================================================================
