------------------------ MODULE ExtendedAggregator --------------------------
(***************************************************************************)
(* ExtendedAggregator (aggregator_ext.py, on aggregator.py): the global    *)
(* model and the scale it is held at. The server only sums; what is in     *)
(* `current_weights` is the model multiplied by something, and nothing in  *)
(* the arrays says by what. A weights value is therefore [of, times, over]:*)
(* the model produced in round `of`, multiplied by `times` and divided by  *)
(* `over` (-1: the initial model). The operators below are the methods the *)
(* server calls; the actions that call them are in ScaledRun.              *)
(***************************************************************************)
EXTENDS AggregationPolicy

CONSTANT Configs   \* the configurations a run may have

ASSUME ConfigAssumption == Configs \subseteq Config

VARIABLES
  config,
  round_number,                \* the round last opened by begin_round
  current_weights,
  last_aggregation_algorithm,  \* "None" before the first aggregation
  last_result_denominator,
  last_broadcast_denominator,
  global_weights,              \* FIPA's snapshot of the broadcast parameters
  best_model_weights,
  best_model_denominator,
  best_round,
  checkpoint                   \* the file save_results has written: [weights, round]

scaleVars == <<current_weights, last_aggregation_algorithm, last_result_denominator>>
roundVars == <<round_number, last_broadcast_denominator, global_weights>>
bestVars  == <<best_model_weights, best_model_denominator, best_round>>
aggregatorVars == <<config, scaleVars, roundVars, bestVars, checkpoint>>

Weights == [of : Int, times : Nat \ {0}, over : Nat \ {0}]

Model(round) == [of |-> round, times |-> 1, over |-> 1]

NoWeights    == Model(-2)
NoCheckpoint == [weights |-> NoWeights, round |-> -1]

\* The arrays are a model, neither a sum nor a fraction of one.
Unscaled(w) == w.times = w.over

\* Two weights values are the same numbers.
Same(v, w) == v.of = w.of /\ v.times * w.over = w.times * v.over

AggregatorTypeOK ==
  /\ config \in Configs
  /\ round_number \in Nat
  /\ current_weights \in Weights
  /\ last_aggregation_algorithm \in KnownAlgorithms \cup {"None"}
  /\ {last_result_denominator, last_broadcast_denominator,
      best_model_denominator} \subseteq Nat
  /\ global_weights \in Weights
  /\ best_model_weights \in Weights
  /\ best_round \in Nat \cup {-1}
  /\ checkpoint \in [weights : Weights, round : Nat] \cup {NoCheckpoint}

AggregatorInit ==
  /\ config \in Configs
  /\ round_number = 0
  /\ current_weights = Model(-1)
  /\ last_aggregation_algorithm = "None"
  /\ last_result_denominator = 0
  /\ last_broadcast_denominator = 0
  /\ global_weights = NoWeights
  /\ best_model_weights = NoWeights
  /\ best_model_denominator = 0
  /\ best_round = -1
  /\ checkpoint = NoCheckpoint

-----------------------------------------------------------------------------
\* Mutant: round 0's denominator of 0 is divided by.
DescaleUnguarded(w, denominator) == [w EXCEPT !.over = @ * denominator]

Descale(w, denominator) ==
  IF denominator > 0 THEN [w EXCEPT !.over = @ * denominator] ELSE w

\* Mutant: the denominator follows the configured rule.
ConfiguredDenominator(produced_by, total) ==
  DenominatorFor(config, config.algorithm, total)

\* What the weights left by the rule `produced_by` have to be divided by, whatever
\* rule the coming round has.
ClientDenominator(produced_by, total) ==
  DenominatorFor(config,
                 IF produced_by = "None" THEN EffectiveAlgorithm(config, 0)
                                         ELSE produced_by,
                 total)

\* Mutant: the snapshot is taken as it is held.
UndividedSnapshot(denominator) == current_weights

SnapshotGlobalWeights(denominator) == Descale(current_weights, denominator)

BeginRound(round, total) ==
  LET denominator == ClientDenominator(last_aggregation_algorithm, total) IN
  /\ round_number' = round
  /\ last_broadcast_denominator' = denominator
  /\ global_weights' =
       IF EffectiveAlgorithm(config, round) \in NeedsGlobalWeights /\ ~config.encrypted
         THEN SnapshotGlobalWeights(denominator)
         ELSE global_weights

-----------------------------------------------------------------------------
\* What a client's update must hold for a rule.
RequiredKind(algorithm) ==
  CASE algorithm # "FIPA"                       -> "weights"
    [] algorithm = "FIPA" /\ ~config.encrypted  -> "delta"
    [] algorithm = "FIPA" /\ config.encrypted   -> "fipa_z"

\* The parameters a FIPA increment is added to: the snapshot or, encrypted, the
\* model itself brought to scale 1 by fipa_aggregate_encrypted.
FipaBase ==
  CASE ~config.encrypted -> global_weights
    [] config.encrypted /\ last_broadcast_denominator \in {0, 1} -> current_weights
    [] config.encrypted /\ last_broadcast_denominator \notin {0, 1} ->
         Descale(current_weights, last_broadcast_denominator)

\* The size-weighted sum is the average times the total, FedDisco's weights sum
\* to 1 or, on the integer grid of the encrypted route, to GridScale.
Aggregated(algorithm, round, total) ==
  CASE algorithm \in SumWeightedBySize -> [Model(round) EXCEPT !.times = total]
    [] algorithm = "FedDisco" ->
         [Model(round) EXCEPT !.times = IF config.encrypted THEN GridScale ELSE 1]
    [] algorithm = "FIPA" -> [FipaBase EXCEPT !.of = round]

AggregateWeights(algorithm, round, total) ==
  /\ current_weights' = Aggregated(algorithm, round, total)
  /\ last_aggregation_algorithm' = algorithm
  /\ last_result_denominator' = DenominatorFor(config, algorithm, total)

-----------------------------------------------------------------------------
\* Only a strictly better F1 score makes the round the best one.
AggregateEvaluationResults(round, improved) ==
  IF improved
    THEN /\ best_model_weights' = current_weights
         /\ best_round' = round
         /\ best_model_denominator' =
              IF best_round' # best_round THEN last_result_denominator
                                          ELSE best_model_denominator
    ELSE UNCHANGED bestVars

\* Mutant: the checkpoint is divided by the scale of the last result.
BestModelAtLastScale == Descale(best_model_weights', last_result_denominator)

BestModel == Descale(best_model_weights', best_model_denominator')

\* Without a best model, or of ciphertexts, there is no checkpoint.
Checkpointed == best_model_weights' # NoWeights /\ ~config.encrypted

\* save_results, once the results of the last evaluation are in.
SaveResults ==
  checkpoint' = IF Checkpointed THEN [weights |-> BestModel, round |-> best_round']
                                ELSE checkpoint
=============================================================================
