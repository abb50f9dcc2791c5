-------------------------- MODULE ScaledRun_proof ---------------------------
(***************************************************************************)
(* Theorems about ScaledRun, for every set of configurations, every grid   *)
(* scale, any number of rounds and any training sizes.                     *)
(***************************************************************************)
EXTENDS ScaledRun, TLAPS

\* w is a model multiplied by d.
ScaledBy(w, d) == w.times = w.over * d

Denominator == ClientDenominator(last_aggregation_algorithm, total_training_size_in_round)

InRound == phase \in {"requested", "updated", "evaluating", "evaluated"}
Opened  == phase \in {"requested", "updated"}
Closing == phase \in {"evaluating", "evaluated"}

\* The weights are what the last aggregation left, at the scale it recorded; while
\* the run is alive, the server can still derive that scale from its own total.
HeldInv ==
  /\ IF HasAggregated
       THEN /\ last_result_denominator > 0
            /\ ScaledBy(current_weights, last_result_denominator)
       ELSE current_weights = Model(-1)
  /\ HasAggregated /\ InRound => Denominator = last_result_denominator

\* Where the run is in its rounds, and which round's model it holds.
RoundInv ==
  /\ phase = "ready" => current_round = -1
  /\ InRound \/ phase = "stuck" => current_round >= 0
  /\ phase = "ready" \/ (Opened /\ current_round = 0) =>
       ~HasAggregated /\ total_training_size_in_round = 0
  /\ Closing \/ (Opened /\ current_round > 0) => HasAggregated
  /\ Opened => current_weights.of = current_round - 1
  /\ Closing => current_weights.of = current_round

\* What has been broadcast describes what is held.
PayloadInv ==
  /\ InRound => payload.weights = current_weights /\ payload.denominator = Denominator
  /\ Opened =>
       LET algorithm == EffectiveAlgorithm(config, current_round) IN
       /\ last_broadcast_denominator = Denominator
       /\ payload.algorithm = algorithm
       /\ algorithm = "FIPA" /\ ~config.encrypted =>
            global_weights = Descale(current_weights, Denominator)

\* What the clients made of it.
ClientInv ==
  phase = "updated" =>
    /\ local_model = ProcessServerWeights(payload)
    /\ update_kind = RequiredKind(EffectiveAlgorithm(config, current_round))

\* The best model is held at the scale recorded with it.
BestInv ==
  /\ best_round = -1 => best_model_weights = NoWeights
  /\ best_round # -1 =>
       /\ best_model_weights.of = best_round
       /\ best_model_denominator > 0
       /\ ScaledBy(best_model_weights, best_model_denominator)
  /\ phase = "ready" => best_round = -1
  /\ InRound \/ phase = "stuck" => best_round < current_round
  /\ phase # "finished" => checkpoint = NoCheckpoint

IInv ==
  /\ HeldInv
  /\ RoundInv
  /\ PayloadInv
  /\ ClientInv
  /\ BestInv
  /\ CheckpointIsBestModel

-----------------------------------------------------------------------------
\* Taking the scale of a weights value off leaves the model of the same round.
LEMMA DescaleExact ==
  ASSUME NEW w \in Weights, NEW d \in Nat, d > 0, ScaledBy(w, d)
  PROVE  /\ Descale(w, d) \in Weights
         /\ Descale(w, d).of = w.of
         /\ Unscaled(Descale(w, d))
<1>1. w.over * d \in Nat \ {0}
  BY DEF Weights
<1>2. Descale(w, d) = [of |-> w.of, times |-> w.times, over |-> w.over * d]
  BY DEF Descale, Weights
<1> QED
  BY <1>1, <1>2 DEF Weights, Unscaled, ScaledBy

\* Descaling is total.
LEMMA DescaleType ==
  ASSUME NEW w \in Weights, NEW d \in Nat
  PROVE  Descale(w, d) \in Weights
<1>1. CASE d > 0
  <2>1. w.over * d \in Nat \ {0}
    BY <1>1 DEF Weights
  <2>2. Descale(w, d) = [of |-> w.of, times |-> w.times, over |-> w.over * d]
    BY <1>1 DEF Descale, Weights
  <2> QED BY <2>1, <2>2 DEF Weights
<1>2. CASE ~(d > 0)
  BY <1>2 DEF Descale
<1> QED BY <1>1, <1>2

LEMMA EffectiveType ==
  ASSUME NEW c \in Config, NEW r \in Int
  PROVE  EffectiveAlgorithm(c, r) \in KnownAlgorithms
  BY DEF EffectiveAlgorithm, Config, KnownAlgorithms, SumWeightedBySize, WarmupAlgorithm

LEMMA DenominatorTypes ==
  ASSUME NEW c \in Config, NEW a \in KnownAlgorithms, NEW total \in Nat
  PROVE  /\ DenominatorFor(c, a, total) \in Nat
         /\ total > 0 => DenominatorFor(c, a, total) > 0
<1>1. CASE a \in SumWeightedBySize
  BY <1>1 DEF DenominatorFor, SumWeightedBySize
<1>2. CASE a = "FedDisco"
  BY <1>2, GridAssumption DEF DenominatorFor, SumWeightedBySize
<1>3. CASE a = "FIPA"
  BY <1>3 DEF DenominatorFor, SumWeightedBySize
<1> QED
  BY <1>1, <1>2, <1>3 DEF KnownAlgorithms, ServerReturnsFinalModel

\* A model is a weights value.
LEMMA ModelType == \A r \in Int : Model(r) \in Weights
  BY DEF Model, Weights

LEMMA DenominatorType ==
  ASSUME AggregatorTypeOK, NEW total \in Nat,
         NEW by \in KnownAlgorithms \cup {"None"}
  PROVE  ClientDenominator(by, total) \in Nat
<1>1. config \in Config
  BY ConfigAssumption DEF AggregatorTypeOK
<1>2. (IF by = "None" THEN EffectiveAlgorithm(config, 0) ELSE by) \in KnownAlgorithms
  BY <1>1, EffectiveType
<1> QED
  BY <1>1, <1>2, DenominatorTypes DEF ClientDenominator

LEMMA FipaBaseType ==
  ASSUME AggregatorTypeOK
  PROVE  FipaBase \in Weights
<1>1. last_broadcast_denominator \in Nat
  BY DEF AggregatorTypeOK
<1>2. Descale(current_weights, last_broadcast_denominator) \in Weights
  BY <1>1, DescaleType DEF AggregatorTypeOK
<1>3. config.encrypted \in BOOLEAN
  BY ConfigAssumption DEF AggregatorTypeOK, Config
<1> QED
  BY <1>1, <1>2, <1>3 DEF FipaBase, AggregatorTypeOK

LEMMA AggregatedType ==
  ASSUME AggregatorTypeOK, NEW a \in KnownAlgorithms, NEW r \in Int,
         NEW total \in Nat \ {0}
  PROVE  Aggregated(a, r, total) \in Weights
<1>1. CASE a \in SumWeightedBySize
  <2>1. Aggregated(a, r, total) = [of |-> r, times |-> total, over |-> 1]
    BY <1>1 DEF Aggregated, Model, SumWeightedBySize
  <2> QED
    BY <2>1 DEF Weights
<1>2. CASE a = "FedDisco"
  <2>1. Aggregated(a, r, total) =
          [of |-> r, times |-> IF config.encrypted THEN GridScale ELSE 1, over |-> 1]
    BY <1>2 DEF Aggregated, Model, SumWeightedBySize
  <2> QED
    BY <2>1, GridAssumption DEF Weights
<1>3. CASE a = "FIPA"
  <2>1. Aggregated(a, r, total) = [FipaBase EXCEPT !.of = r]
    BY <1>3 DEF Aggregated, SumWeightedBySize
  <2> QED
    BY <2>1, FipaBaseType DEF Weights
<1> QED
  BY <1>1, <1>2, <1>3 DEF KnownAlgorithms, ServerReturnsFinalModel

LEMMA StartRoundType ==
  ASSUME TypeOK, StartNextTrainingRound
  PROVE  /\ current_round' \in Nat
         /\ round_number' \in Nat
         /\ last_broadcast_denominator' \in Nat
         /\ global_weights' \in Weights
         /\ payload' \in Payload
         /\ phase' \in Phases
<1>1. current_round' = current_round + 1 /\ current_round' \in Nat
  BY DEF StartNextTrainingRound, TypeOK
<1>2. config \in Config
  BY ConfigAssumption DEF TypeOK, AggregatorTypeOK
<1> DEFINE denominator ==
  ClientDenominator(last_aggregation_algorithm, total_training_size_in_round)
<1>3. denominator \in Nat
  BY DenominatorType DEF TypeOK, AggregatorTypeOK
<1>4. Descale(current_weights, denominator) \in Weights
  BY <1>3, DescaleType DEF TypeOK, AggregatorTypeOK
<1>5. /\ round_number' = current_round'
      /\ last_broadcast_denominator' = denominator
      /\ global_weights' \in {Descale(current_weights, denominator), global_weights}
  BY DEF StartNextTrainingRound, BeginRound, SnapshotGlobalWeights
<1>6. EffectiveAlgorithm(config, current_round') \in KnownAlgorithms
  BY <1>1, <1>2, EffectiveType
<1>7. payload' = [weights     |-> current_weights,
                  denominator |-> denominator,
                  algorithm   |-> EffectiveAlgorithm(config, current_round')]
  BY <1>5 DEF StartNextTrainingRound
<1>8. payload' \in Payload
  BY <1>3, <1>6, <1>7 DEF Payload, TypeOK, AggregatorTypeOK
<1>9. phase' \in Phases
  BY DEF StartNextTrainingRound, Phases
<1> QED
  BY <1>1, <1>3, <1>4, <1>5, <1>8, <1>9 DEF TypeOK, AggregatorTypeOK

LEMMA SaveType ==
  ASSUME AggregatorTypeOK, SaveResults, best_round' \in Nat \cup {-1},
         best_model_weights' \in Weights, best_model_denominator' \in Nat,
         best_round' = -1 => best_model_weights' = NoWeights
  PROVE  checkpoint' \in [weights : Weights, round : Nat] \cup {NoCheckpoint}
<1>1. CASE Checkpointed
  <2>1. best_round' \in Nat
    BY <1>1 DEF Checkpointed
  <2>2. BestModel \in Weights
    BY DescaleType DEF BestModel
  <2> QED
    BY <1>1, <2>1, <2>2 DEF SaveResults
<1>2. CASE ~Checkpointed
  BY <1>2 DEF SaveResults, AggregatorTypeOK
<1> QED
  BY <1>1, <1>2

\* A checkpoint has a round because a best model has one, and that because an
\* evaluation belongs to a round: TypeOK needs this much to be inductive.
BestTyped ==
  /\ best_round = -1 => best_model_weights = NoWeights
  /\ phase \notin {"ready", "finished"} => current_round \in Nat

LEMMA TypeInit == Init => TypeOK /\ BestTyped
<1> SUFFICES ASSUME Init PROVE TypeOK /\ BestTyped
  OBVIOUS
<1>1. NoWeights \in Weights /\ Model(-1) \in Weights
  BY ModelType DEF NoWeights
<1>2. AggregatorTypeOK
  BY <1>1 DEF Init, AggregatorInit, AggregatorTypeOK
<1>3. payload \in Payload
  BY <1>1 DEF Init, Payload, KnownAlgorithms, SumWeightedBySize
<1> QED
  BY <1>1, <1>2, <1>3 DEF Init, AggregatorInit, TypeOK, BestTyped, Phases, Kinds

LEMMA TypeStep == TypeOK /\ BestTyped /\ [Next]_vars => TypeOK' /\ BestTyped'
<1> SUFFICES ASSUME TypeOK, BestTyped, [Next]_vars PROVE TypeOK' /\ BestTyped'
  OBVIOUS
<1> USE DEF TypeOK, AggregatorTypeOK
<1>1. CASE StartTraining
  <2>1. StartNextTrainingRound
    BY <1>1 DEF StartTraining
  <2> QED
    BY <1>1, <2>1, StartRoundType DEF StartTraining, scaleVars, bestVars, BestTyped
<1>2. CASE UpdateWorker
  <2>1. local_model' \in Weights
    BY <1>2, DescaleType DEF UpdateWorker, ProcessServerWeights, Payload
  <2>2. update_kind' \in Kinds /\ phase' \in Phases
    BY <1>2 DEF UpdateWorker, Kinds, Phases
  <2> QED
    BY <1>2, <2>1, <2>2 DEF UpdateWorker, aggregatorVars, scaleVars, roundVars,
       bestVars, BestTyped
<1>3. CASE OnClientUpdate
  <2> DEFINE algorithm == EffectiveAlgorithm(config, current_round)
  <2>1. PICK total \in TotalSizes :
          /\ total_training_size_in_round' = total
          /\ \/ AggregationRaises
             \/ /\ AggregateWeights(algorithm, current_round, total)
                /\ TriggerGlobalEvaluation(
                     ClientDenominator(last_aggregation_algorithm', total))
                /\ phase' = "evaluating"
                /\ UNCHANGED <<config, roundVars, bestVars, checkpoint>>
    BY <1>3 DEF OnClientUpdate
  <2>2. total \in Nat \ {0} /\ current_round \in Int
    BY RunAssumption
  <2>3. algorithm \in KnownAlgorithms
    BY <2>2, ConfigAssumption, EffectiveType
  <2>4. phase = "updated" /\ UNCHANGED <<current_round, local_model, update_kind>>
    BY <1>3 DEF OnClientUpdate
  <2>5. CASE AggregationRaises
    BY <2>1, <2>2, <2>4, <2>5 DEF AggregationRaises, aggregatorVars, scaleVars, roundVars,
       bestVars, BestTyped, Phases
  <2>6. CASE /\ AggregateWeights(algorithm, current_round, total)
             /\ TriggerGlobalEvaluation(
                  ClientDenominator(last_aggregation_algorithm', total))
             /\ phase' = "evaluating"
             /\ UNCHANGED <<config, roundVars, bestVars, checkpoint>>
    <3>1. current_weights' \in Weights /\ last_aggregation_algorithm' = algorithm
      BY <2>2, <2>3, <2>6, AggregatedType DEF AggregateWeights
    <3>2. last_result_denominator' \in Nat
      BY <2>2, <2>3, <2>6, ConfigAssumption, DenominatorTypes DEF AggregateWeights
    <3>3. ClientDenominator(last_aggregation_algorithm', total) \in Nat
      BY <2>2, <2>3, <3>1, DenominatorType
    <3>4. payload' \in Payload
      BY <2>6, <3>1, <3>3 DEF TriggerGlobalEvaluation, Payload
    <3> QED
      BY <2>1, <2>2, <2>3, <2>4, <2>6, <3>1, <3>2, <3>4 DEF roundVars, bestVars, BestTyped,
         Phases
  <2> QED
    BY <2>1, <2>5, <2>6
<1>4. CASE OnStopAndEval
  <2>1. local_model' \in Weights
    BY <1>4, DescaleType DEF OnStopAndEval, ProcessServerWeights, Payload
  <2> QED
    BY <1>4, <2>1 DEF OnStopAndEval, aggregatorVars, scaleVars, roundVars, bestVars,
       BestTyped, Phases
<1>5. CASE OnClientEval
  <2>1. /\ UNCHANGED <<config, scaleVars, total_training_size_in_round, local_model,
                       update_kind>>
        /\ \E improved \in BOOLEAN : AggregateEvaluationResults(current_round, improved)
        /\ \/ StartNextTrainingRound /\ UNCHANGED checkpoint
           \/ /\ SaveResults
              /\ phase' = "finished"
              /\ UNCHANGED <<roundVars, current_round, payload>>
    BY <1>5 DEF OnClientEval
  <2>2. /\ best_model_weights' \in Weights
        /\ best_model_denominator' \in Nat
        /\ best_round' \in Nat \cup {-1}
        /\ best_round' = -1 => best_model_weights' = NoWeights
    BY <1>5, <2>1 DEF OnClientEval, AggregateEvaluationResults, bestVars, BestTyped
  <2>3. CASE StartNextTrainingRound /\ UNCHANGED checkpoint
    BY <2>1, <2>2, <2>3, StartRoundType DEF scaleVars, BestTyped
  <2>4. CASE /\ SaveResults
             /\ phase' = "finished"
             /\ UNCHANGED <<roundVars, current_round, payload>>
    BY <2>1, <2>2, <2>4, SaveType DEF scaleVars, roundVars, Phases, BestTyped
  <2> QED
    BY <2>1, <2>3, <2>4
<1>6. CASE AbortRun
  BY <1>6, SaveType DEF AbortRun, scaleVars, roundVars, bestVars, BestTyped, Phases
<1>7. CASE UNCHANGED vars
  BY <1>7 DEF vars, aggregatorVars, scaleVars, roundVars, bestVars, BestTyped
<1> QED
  BY <1>1, <1>2, <1>3, <1>4, <1>5, <1>6, <1>7 DEF Next

\* Every reachable state of a run is well typed.
THEOREM TypeCorrect == Spec => []TypeOK
<1>1. Init => TypeOK /\ BestTyped
  BY TypeInit
<1>2. TypeOK /\ BestTyped /\ [Next]_vars => TypeOK' /\ BestTyped'
  BY TypeStep
<1> QED
  BY <1>1, <1>2, PTL DEF Spec

-----------------------------------------------------------------------------
\* What is broadcast in an opened round is scaled by what is announced with it,
\* except before the first aggregation, where only FIPA announces a scale.
LEMMA BroadcastScaled ==
  ASSUME TypeOK, HeldInv, RoundInv, Opened,
         HasAggregated \/ EffectiveAlgorithm(config, current_round) = "FIPA"
  PROVE  /\ Denominator \in Nat /\ Denominator > 0
         /\ ScaledBy(current_weights, Denominator)
<1>1. CASE HasAggregated
  <2>1. Denominator = last_result_denominator
    BY <1>1 DEF HeldInv, Opened, InRound
  <2> QED
    BY <1>1, <2>1 DEF HeldInv, TypeOK, AggregatorTypeOK
<1>2. CASE ~HasAggregated
  <2>1. current_round = 0
    BY <1>2 DEF RoundInv, Opened, InRound, TypeOK
  <2>2. Denominator = DenominatorFor(config, "FIPA", total_training_size_in_round)
    BY <1>2, <2>1 DEF Denominator, ClientDenominator, HasAggregated
  <2>3. Denominator = 1
    BY <2>2 DEF DenominatorFor, SumWeightedBySize
  <2>4. current_weights = [of |-> -1, times |-> 1, over |-> 1]
    BY <1>2 DEF HeldInv, Model
  <2> QED
    BY <2>3, <2>4 DEF ScaledBy
<1> QED
  BY <1>1, <1>2

\* The base of a FIPA increment is the model the clients started from.
LEMMA BaseIsStart ==
  ASSUME TypeOK, HeldInv, RoundInv, PayloadInv, ClientInv, phase = "updated",
         EffectiveAlgorithm(config, current_round) = "FIPA"
  PROVE  FipaBase \in Weights /\ Unscaled(FipaBase) /\ Same(FipaBase, local_model)
<1>1. /\ Denominator \in Nat /\ Denominator > 0
      /\ ScaledBy(current_weights, Denominator)
  BY BroadcastScaled DEF Opened
<1> DEFINE start == Descale(current_weights, Denominator)
<1>2. current_weights \in Weights
  BY DEF TypeOK, AggregatorTypeOK
<1>3. start \in Weights /\ start.of = current_weights.of /\ Unscaled(start)
  BY <1>1, <1>2, DescaleExact
<1>4. local_model = start
  BY DEF ClientInv, PayloadInv, InRound, ProcessServerWeights
<1>5. last_broadcast_denominator = Denominator
  BY DEF PayloadInv, Opened
<1>6. CASE FipaBase = start
  BY <1>3, <1>4, <1>6 DEF Same
<1>7. CASE FipaBase = current_weights /\ Denominator = 1
  <2>1. Unscaled(current_weights)
    BY <1>1, <1>2, <1>7 DEF ScaledBy, Unscaled, Weights
  <2>2. start = [of |-> current_weights.of, times |-> current_weights.times,
                 over |-> current_weights.over]
    BY <1>2, <1>7 DEF Descale, Weights
  <2> QED
    BY <1>2, <1>4, <1>7, <2>1, <2>2 DEF Same, Weights
<1>8. CASE ~config.encrypted
  <2>1. FipaBase = global_weights
    BY <1>8 DEF FipaBase
  <2>2. global_weights = start
    BY <1>8 DEF PayloadInv, Opened
  <2> QED
    BY <1>6, <2>1, <2>2
<1>9. CASE config.encrypted
  <2>1. CASE Denominator = 1
    <3>1. FipaBase = current_weights
      BY <1>5, <1>9, <2>1 DEF FipaBase
    <3> QED
      BY <1>7, <2>1, <3>1
  <2>2. CASE Denominator # 1
    <3>1. FipaBase = start
      BY <1>1, <1>5, <1>9, <2>2 DEF FipaBase
    <3> QED
      BY <1>6, <3>1
  <2> QED
    BY <2>1, <2>2
<1> QED
  BY <1>8, <1>9

\* What an aggregation leaves is scaled by what is recorded with it.
LEMMA ResultScaled ==
  ASSUME TypeOK, NEW a \in KnownAlgorithms, NEW r \in Int, NEW total \in Nat \ {0},
         a = "FIPA" => FipaBase \in Weights /\ Unscaled(FipaBase)
  PROVE  /\ Aggregated(a, r, total).of = r
         /\ ScaledBy(Aggregated(a, r, total), DenominatorFor(config, a, total))
<1>1. CASE a \in SumWeightedBySize
  <2>1. Aggregated(a, r, total) = [of |-> r, times |-> total, over |-> 1]
    BY <1>1 DEF Aggregated, Model, SumWeightedBySize
  <2>2. DenominatorFor(config, a, total) = total
    BY <1>1 DEF DenominatorFor, SumWeightedBySize
  <2> QED
    BY <2>1, <2>2 DEF ScaledBy
<1>2. CASE a = "FedDisco"
  <2>1. Aggregated(a, r, total) =
          [of |-> r, times |-> IF config.encrypted THEN GridScale ELSE 1, over |-> 1]
    BY <1>2 DEF Aggregated, Model, SumWeightedBySize
  <2>2. DenominatorFor(config, a, total) = IF config.encrypted THEN GridScale ELSE 1
    BY <1>2 DEF DenominatorFor, SumWeightedBySize
  <2> QED
    BY <2>1, <2>2, GridAssumption DEF ScaledBy
<1>3. CASE a = "FIPA"
  <2>1. Aggregated(a, r, total) = [FipaBase EXCEPT !.of = r]
    BY <1>3 DEF Aggregated, SumWeightedBySize
  <2>2. DenominatorFor(config, a, total) = 1
    BY <1>3 DEF DenominatorFor, SumWeightedBySize
  <2> QED
    BY <1>3, <2>1, <2>2 DEF ScaledBy, Unscaled, Weights
<1> QED
  BY <1>1, <1>2, <1>3 DEF KnownAlgorithms, ServerReturnsFinalModel

-----------------------------------------------------------------------------
LEMMA InvInit == Init => IInv
  BY DEF Init, AggregatorInit, IInv, HeldInv, RoundInv, PayloadInv, ClientInv, BestInv,
     CheckpointIsBestModel, HasAggregated, InRound, Opened, Closing, NoCheckpoint

\* A round is opened on what the last aggregation left, or on the initial model.
LEMMA OpenRound ==
  ASSUME TypeOK, IInv, StartNextTrainingRound,
         UNCHANGED <<config, scaleVars, total_training_size_in_round>>,
         phase \in {"ready", "evaluated"}
  PROVE  HeldInv' /\ RoundInv' /\ PayloadInv' /\ ClientInv'
<1> USE DEF scaleVars
<1>1. /\ phase' = "requested"
      /\ current_round' = current_round + 1
      /\ current_round \in Int
  BY DEF StartNextTrainingRound, TypeOK
<1>2. HasAggregated' = HasAggregated /\ Denominator' = Denominator
  BY DEF HasAggregated, Denominator, ClientDenominator, EffectiveAlgorithm, DenominatorFor
<1>3. HeldInv'
  <2>1. CASE phase = "ready"
    <3>1. ~HasAggregated
      BY <2>1 DEF IInv, RoundInv
    <3> QED
      BY <1>2, <3>1 DEF IInv, HeldInv
  <2>2. CASE phase = "evaluated"
    <3>1. InRound
      BY <2>2 DEF InRound
    <3> QED
      BY <1>2, <3>1 DEF IInv, HeldInv, ScaledBy
  <2> QED
    BY <2>1, <2>2
<1>4. RoundInv'
  <2>1. CASE phase = "ready"
    <3>1. /\ ~HasAggregated /\ current_round = -1
          /\ total_training_size_in_round = 0
          /\ current_weights = Model(-1)
      BY <2>1 DEF IInv, RoundInv, HeldInv
    <3>2. current_weights'.of = -1
      BY <3>1 DEF Model
    <3> QED
      BY <1>1, <1>2, <3>1, <3>2 DEF RoundInv, InRound, Opened, Closing
  <2>2. CASE phase = "evaluated"
    <3>1. /\ HasAggregated /\ current_round >= 0
          /\ current_weights.of = current_round
      BY <2>2 DEF IInv, RoundInv, Closing, InRound
    <3> QED
      BY <1>1, <1>2, <3>1 DEF RoundInv, InRound, Opened, Closing
  <2> QED
    BY <2>1, <2>2
<1>5. PayloadInv'
  <2>1. /\ last_broadcast_denominator' = Denominator
        /\ EffectiveAlgorithm(config, current_round') = "FIPA" /\ ~config.encrypted =>
             global_weights' = Descale(current_weights, Denominator)
    BY DEF StartNextTrainingRound, BeginRound, SnapshotGlobalWeights, Denominator,
       NeedsGlobalWeights
  <2>2. payload' = [weights     |-> current_weights,
                    denominator |-> Denominator,
                    algorithm   |-> EffectiveAlgorithm(config, current_round')]
    BY <2>1 DEF StartNextTrainingRound
  <2>3. /\ payload'.weights = current_weights
        /\ payload'.denominator = Denominator
        /\ payload'.algorithm = EffectiveAlgorithm(config, current_round')
    BY <2>2
  <2> QED
    BY <1>1, <1>2, <2>1, <2>3 DEF PayloadInv, InRound, Opened, Descale
<1>6. ClientInv'
  BY <1>1 DEF ClientInv
<1> QED
  BY <1>3, <1>4, <1>5, <1>6

LEMMA UpdateWorkerStep ==
  ASSUME TypeOK, IInv, UpdateWorker
  PROVE  IInv'
<1> USE DEF UpdateWorker, aggregatorVars, scaleVars, roundVars, bestVars
<1>1. HasAggregated' = HasAggregated /\ Denominator' = Denominator
  BY DEF HasAggregated, Denominator, ClientDenominator, EffectiveAlgorithm, DenominatorFor
<1>2. HeldInv'
  BY <1>1 DEF IInv, HeldInv, ScaledBy, InRound
<1>3. RoundInv'
  BY <1>1 DEF IInv, RoundInv, InRound, Opened, Closing
<1>4. PayloadInv'
  BY <1>1 DEF IInv, PayloadInv, InRound, Opened, EffectiveAlgorithm, Descale
<1>5. ClientInv'
  <2>1. payload.algorithm = EffectiveAlgorithm(config, current_round)
    BY DEF IInv, PayloadInv, Opened
  <2>2. local_model' = ProcessServerWeights(payload)
    OBVIOUS
  <2>3. update_kind' = RequiredKind(EffectiveAlgorithm(config, current_round))
    <3>1. config.encrypted \in BOOLEAN
      BY ConfigAssumption DEF TypeOK, AggregatorTypeOK, Config
    <3>2. CASE payload.algorithm = "FIPA"
      BY <2>1, <3>1, <3>2 DEF RequiredKind, RoundAlgorithm
    <3>3. CASE payload.algorithm # "FIPA"
      BY <2>1, <3>3 DEF RequiredKind, RoundAlgorithm
    <3> QED
      BY <3>2, <3>3
  <2> QED
    BY <2>2, <2>3 DEF ClientInv, ProcessServerWeights, Descale, RequiredKind,
       EffectiveAlgorithm
<1>6. BestInv' /\ CheckpointIsBestModel'
  BY DEF IInv, BestInv, CheckpointIsBestModel, ScaledBy, InRound, Unscaled
<1> QED
  BY <1>2, <1>3, <1>4, <1>5, <1>6 DEF IInv

LEMMA OnStopAndEvalStep ==
  ASSUME TypeOK, IInv, OnStopAndEval
  PROVE  IInv'
<1> USE DEF OnStopAndEval, aggregatorVars, scaleVars, roundVars, bestVars
<1>1. HasAggregated' = HasAggregated /\ Denominator' = Denominator
  BY DEF HasAggregated, Denominator, ClientDenominator, EffectiveAlgorithm, DenominatorFor
<1>2. HeldInv'
  BY <1>1 DEF IInv, HeldInv, ScaledBy, InRound
<1>3. RoundInv'
  BY <1>1 DEF IInv, RoundInv, InRound, Opened, Closing
<1>4. PayloadInv'
  BY <1>1 DEF IInv, PayloadInv, InRound, Opened
<1>5. ClientInv'
  BY DEF ClientInv
<1>6. BestInv' /\ CheckpointIsBestModel'
  BY DEF IInv, BestInv, CheckpointIsBestModel, ScaledBy, InRound, Unscaled
<1> QED
  BY <1>2, <1>3, <1>4, <1>5, <1>6 DEF IInv

\* An aggregation that raises leaves the weights and the scale recorded with them.
LEMMA RaisingStep ==
  ASSUME TypeOK, IInv, phase = "updated", phase' = "stuck",
         UNCHANGED <<aggregatorVars, payload, current_round>>
  PROVE  IInv'
<1> USE DEF aggregatorVars, scaleVars, roundVars, bestVars
<1>1. HasAggregated' = HasAggregated
  BY DEF HasAggregated
<1>2. HeldInv'
  BY <1>1 DEF IInv, HeldInv, ScaledBy, InRound
<1>3. RoundInv'
  BY <1>1 DEF IInv, RoundInv, InRound, Opened, Closing
<1>4. PayloadInv' /\ ClientInv'
  BY DEF PayloadInv, ClientInv, InRound, Opened
<1>5. BestInv' /\ CheckpointIsBestModel'
  BY DEF IInv, BestInv, CheckpointIsBestModel, ScaledBy, InRound, Unscaled
<1> QED
  BY <1>2, <1>3, <1>4, <1>5 DEF IInv

LEMMA AggregationStep ==
  ASSUME TypeOK, IInv, phase = "updated", phase' = "evaluating",
         NEW total \in Nat \ {0}, total_training_size_in_round' = total,
         AggregateWeights(EffectiveAlgorithm(config, current_round), current_round, total),
         TriggerGlobalEvaluation(ClientDenominator(last_aggregation_algorithm', total)),
         UNCHANGED <<config, roundVars, bestVars, checkpoint, current_round>>
  PROVE  IInv'
<1> DEFINE algorithm == EffectiveAlgorithm(config, current_round)
<1>1. config \in Config /\ current_round \in Int
  BY ConfigAssumption DEF TypeOK, AggregatorTypeOK
<1>2. algorithm \in KnownAlgorithms /\ algorithm # "None"
  BY <1>1, EffectiveType DEF KnownAlgorithms, SumWeightedBySize, ServerReturnsFinalModel
<1>3. algorithm = "FIPA" => FipaBase \in Weights /\ Unscaled(FipaBase)
  BY BaseIsStart DEF IInv
<1>4. /\ current_weights' = Aggregated(algorithm, current_round, total)
      /\ last_aggregation_algorithm' = algorithm
      /\ last_result_denominator' = DenominatorFor(config, algorithm, total)
  BY DEF AggregateWeights
<1>5. /\ current_weights'.of = current_round
      /\ ScaledBy(current_weights', last_result_denominator')
  BY <1>1, <1>2, <1>3, <1>4, ResultScaled
<1>6. last_result_denominator' > 0
  BY <1>1, <1>2, <1>4, DenominatorTypes
<1>7. HasAggregated'
  BY <1>2, <1>4 DEF HasAggregated
<1>8. /\ ClientDenominator(algorithm, total) = last_result_denominator'
      /\ Denominator' = last_result_denominator'
  BY <1>2, <1>4 DEF Denominator, ClientDenominator, DenominatorFor
<1>9. HeldInv'
  BY <1>5, <1>6, <1>7, <1>8 DEF HeldInv, ScaledBy
<1>10. RoundInv'
  BY <1>5, <1>7 DEF IInv, RoundInv, InRound, Opened, Closing
<1>11. PayloadInv'
  <2>1. payload'.weights = current_weights' /\ payload'.denominator = Denominator'
    BY <1>4, <1>8 DEF TriggerGlobalEvaluation, TypeOK, Payload
  <2> QED
    BY <2>1 DEF PayloadInv, Opened
<1>12. ClientInv'
  BY DEF ClientInv
<1>13. BestInv' /\ CheckpointIsBestModel'
  BY DEF IInv, BestInv, CheckpointIsBestModel, ScaledBy, InRound, Unscaled, bestVars
<1> QED
  BY <1>9, <1>10, <1>11, <1>12, <1>13 DEF IInv

LEMMA OnClientUpdateStep ==
  ASSUME TypeOK, IInv, OnClientUpdate
  PROVE  IInv'
<1> DEFINE algorithm == EffectiveAlgorithm(config, current_round)
<1>1. PICK total \in TotalSizes :
        /\ total_training_size_in_round' = total
        /\ \/ AggregationRaises
           \/ /\ AggregateWeights(algorithm, current_round, total)
              /\ TriggerGlobalEvaluation(
                   ClientDenominator(last_aggregation_algorithm', total))
              /\ phase' = "evaluating"
              /\ UNCHANGED <<config, roundVars, bestVars, checkpoint>>
  BY DEF OnClientUpdate
<1>2. total \in Nat \ {0}
  BY RunAssumption
<1>3. phase = "updated" /\ UNCHANGED current_round
  BY DEF OnClientUpdate
<1>4. CASE AggregationRaises
  BY <1>3, <1>4, RaisingStep DEF AggregationRaises
<1>5. CASE /\ AggregateWeights(algorithm, current_round, total)
           /\ TriggerGlobalEvaluation(
                ClientDenominator(last_aggregation_algorithm', total))
           /\ phase' = "evaluating"
           /\ UNCHANGED <<config, roundVars, bestVars, checkpoint>>
  BY <1>1, <1>2, <1>3, <1>5, AggregationStep
<1> QED
  BY <1>1, <1>4, <1>5

\* A round that becomes the best one is recorded with the scale of its weights.
LEMMA EvaluationRecorded ==
  ASSUME TypeOK, IInv, phase = "evaluated", NEW improved \in BOOLEAN,
         AggregateEvaluationResults(current_round, improved)
  PROVE  /\ best_round' = -1 => best_model_weights' = NoWeights
         /\ best_round' # -1 =>
              /\ best_model_weights'.of = best_round'
              /\ best_model_denominator' > 0
              /\ ScaledBy(best_model_weights', best_model_denominator')
         /\ best_round' <= current_round
<1>1. InRound /\ Closing
  BY DEF InRound, Closing
<1>2. CASE improved
  <2>1. /\ best_model_weights' = current_weights
        /\ best_round' = current_round
        /\ best_round # current_round
    BY <1>1, <1>2 DEF AggregateEvaluationResults, IInv, BestInv, TypeOK, AggregatorTypeOK
  <2>2. best_model_denominator' = last_result_denominator
    BY <1>2, <2>1 DEF AggregateEvaluationResults
  <2>3. /\ HasAggregated /\ current_round >= 0
        /\ current_weights.of = current_round
        /\ last_result_denominator > 0
        /\ ScaledBy(current_weights, last_result_denominator)
    BY <1>1 DEF IInv, RoundInv, HeldInv
  <2> QED
    BY <2>1, <2>2, <2>3 DEF TypeOK
<1>3. CASE ~improved
  BY <1>1, <1>3 DEF AggregateEvaluationResults, bestVars, IInv, BestInv, ScaledBy,
     TypeOK, AggregatorTypeOK
<1> QED
  BY <1>2, <1>3

\* What is saved is the best model with its scale taken off.
LEMMA SavedIsBest ==
  ASSUME TypeOK, TypeOK', SaveResults, checkpoint = NoCheckpoint,
         best_round' # -1 =>
           /\ best_model_weights'.of = best_round'
           /\ best_model_denominator' > 0
           /\ ScaledBy(best_model_weights', best_model_denominator'),
         best_round' = -1 => best_model_weights' = NoWeights
  PROVE  CheckpointIsBestModel'
<1>1. CASE Checkpointed
  <2>1. best_round' # -1
    BY <1>1 DEF Checkpointed
  <2>2. /\ best_model_weights' \in Weights
        /\ best_model_denominator' \in Nat
    BY DEF TypeOK, AggregatorTypeOK
  <2>3. BestModel.of = best_round' /\ Unscaled(BestModel)
    BY <2>1, <2>2, DescaleExact DEF BestModel
  <2>4. checkpoint' = [weights |-> BestModel, round |-> best_round']
    BY <1>1 DEF SaveResults
  <2>5. checkpoint'.weights = BestModel /\ checkpoint'.round = best_round'
    BY <2>4
  <2>6. BestModel.times = BestModel.over
    BY <2>3 DEF Unscaled
  <2> QED
    BY <2>3, <2>5, <2>6 DEF CheckpointIsBestModel, Unscaled
<1>2. CASE ~Checkpointed
  BY <1>2 DEF SaveResults, CheckpointIsBestModel, NoCheckpoint
<1> QED
  BY <1>1, <1>2

LEMMA StartTrainingStep ==
  ASSUME TypeOK, IInv, StartTraining
  PROVE  IInv'
<1>1. /\ phase = "ready"
      /\ StartNextTrainingRound
      /\ UNCHANGED <<config, scaleVars, bestVars, checkpoint, total_training_size_in_round>>
  BY DEF StartTraining
<1>2. HeldInv' /\ RoundInv' /\ PayloadInv' /\ ClientInv'
  BY <1>1, OpenRound
<1>3. /\ best_round = -1 /\ current_round = -1 /\ best_model_weights = NoWeights
      /\ checkpoint = NoCheckpoint
  BY <1>1 DEF IInv, BestInv, RoundInv
<1>4. phase' = "requested" /\ current_round' = 0
  BY <1>1, <1>3 DEF StartNextTrainingRound
<1>5. BestInv' /\ CheckpointIsBestModel'
  BY <1>1, <1>3, <1>4 DEF BestInv, CheckpointIsBestModel, bestVars, InRound
<1> QED
  BY <1>2, <1>5 DEF IInv

LEMMA OnClientEvalStep ==
  ASSUME TypeOK, TypeOK', IInv, OnClientEval
  PROVE  IInv'
<1>1. /\ phase = "evaluated"
      /\ UNCHANGED <<config, scaleVars, total_training_size_in_round>>
      /\ \/ StartNextTrainingRound /\ UNCHANGED checkpoint
         \/ /\ SaveResults
            /\ phase' = "finished"
            /\ UNCHANGED <<roundVars, current_round, payload>>
  BY DEF OnClientEval
<1>2. PICK improved \in BOOLEAN : AggregateEvaluationResults(current_round, improved)
  BY DEF OnClientEval
<1>3. /\ best_round' = -1 => best_model_weights' = NoWeights
      /\ best_round' # -1 =>
           /\ best_model_weights'.of = best_round'
           /\ best_model_denominator' > 0
           /\ ScaledBy(best_model_weights', best_model_denominator')
      /\ best_round' <= current_round
  BY <1>1, <1>2, EvaluationRecorded
<1>4. checkpoint = NoCheckpoint
  BY <1>1 DEF IInv, BestInv
<1>5. CASE StartNextTrainingRound /\ UNCHANGED checkpoint
  <2>1. HeldInv' /\ RoundInv' /\ PayloadInv' /\ ClientInv'
    BY <1>1, <1>5, OpenRound
  <2>2. phase' = "requested" /\ current_round' = current_round + 1
    BY <1>5 DEF StartNextTrainingRound
  <2>3. BestInv'
    BY <1>3, <1>4, <1>5, <2>2 DEF BestInv, ScaledBy, TypeOK, AggregatorTypeOK
  <2>4. CheckpointIsBestModel'
    BY <1>4, <1>5 DEF CheckpointIsBestModel
  <2> QED
    BY <2>1, <2>3, <2>4 DEF IInv
<1>6. CASE /\ SaveResults
           /\ phase' = "finished"
           /\ UNCHANGED <<roundVars, current_round, payload>>
  <2>1. HasAggregated' = HasAggregated /\ UNCHANGED scaleVars
    BY <1>1 DEF HasAggregated, scaleVars
  <2>2. HeldInv'
    BY <1>6, <2>1 DEF IInv, HeldInv, ScaledBy, InRound, scaleVars
  <2>3. RoundInv' /\ PayloadInv' /\ ClientInv'
    BY <1>6 DEF RoundInv, PayloadInv, ClientInv, InRound, Opened, Closing
  <2>4. BestInv'
    BY <1>3, <1>6 DEF BestInv, ScaledBy, InRound
  <2>5. CheckpointIsBestModel'
    BY <1>3, <1>4, <1>6, SavedIsBest
  <2> QED
    BY <2>2, <2>3, <2>4, <2>5 DEF IInv
<1> QED
  BY <1>1, <1>5, <1>6

LEMMA AbortRunStep ==
  ASSUME TypeOK, TypeOK', IInv, AbortRun
  PROVE  IInv'
<1> USE DEF AbortRun, scaleVars, bestVars
<1>1. HasAggregated' = HasAggregated
  BY DEF HasAggregated
<1>2. HeldInv'
  BY <1>1 DEF IInv, HeldInv, ScaledBy, InRound
<1>3. RoundInv' /\ PayloadInv' /\ ClientInv'
  BY DEF RoundInv, PayloadInv, ClientInv, InRound, Opened, Closing
<1>4. BestInv'
  BY DEF IInv, BestInv, ScaledBy, InRound
<1>5. CheckpointIsBestModel'
  <2>1. checkpoint = NoCheckpoint
    BY DEF IInv, BestInv
  <2>2. /\ best_round' = -1 => best_model_weights' = NoWeights
        /\ best_round' # -1 =>
             /\ best_model_weights'.of = best_round'
             /\ best_model_denominator' > 0
             /\ ScaledBy(best_model_weights', best_model_denominator')
    BY DEF IInv, BestInv, ScaledBy
  <2> QED
    BY <2>1, <2>2, SavedIsBest
<1> QED
  BY <1>2, <1>3, <1>4, <1>5 DEF IInv

LEMMA StutteringStep ==
  ASSUME IInv, UNCHANGED vars
  PROVE  IInv'
<1> USE DEF vars, aggregatorVars, scaleVars, roundVars, bestVars
<1>1. HasAggregated' = HasAggregated /\ Denominator' = Denominator
  BY DEF HasAggregated, Denominator, ClientDenominator, EffectiveAlgorithm, DenominatorFor
<1>2. HeldInv'
  BY <1>1 DEF IInv, HeldInv, ScaledBy, InRound
<1>3. RoundInv'
  BY <1>1 DEF IInv, RoundInv, InRound, Opened, Closing
<1>4. PayloadInv'
  BY <1>1 DEF IInv, PayloadInv, InRound, Opened, EffectiveAlgorithm, Descale
<1>5. ClientInv'
  BY DEF IInv, ClientInv, ProcessServerWeights, Descale, RequiredKind, EffectiveAlgorithm
<1>6. BestInv' /\ CheckpointIsBestModel'
  BY DEF IInv, BestInv, CheckpointIsBestModel, ScaledBy, InRound, Unscaled
<1> QED
  BY <1>2, <1>3, <1>4, <1>5, <1>6 DEF IInv

LEMMA InvStep == TypeOK /\ TypeOK' /\ IInv /\ [Next]_vars => IInv'
  BY StartTrainingStep, UpdateWorkerStep, OnClientUpdateStep, OnStopAndEvalStep,
     OnClientEvalStep, AbortRunStep, StutteringStep DEF Next

\* The invariant and its base hold in every reachable state.
LEMMA Invariant == Spec => [](TypeOK /\ IInv)
<1>1. Init => TypeOK /\ BestTyped /\ IInv
  BY TypeInit, InvInit
<1>2. TypeOK /\ BestTyped /\ IInv /\ [Next]_vars => TypeOK' /\ BestTyped' /\ IInv'
  BY TypeStep, InvStep
<1> QED
  BY <1>1, <1>2, PTL DEF Spec

-----------------------------------------------------------------------------
\* client_denominator and _process_server_weights: in every round after the first
\* aggregation, and in every evaluation, the clients work on the model that was
\* aggregated last, unscaled, through every change of rule.
THEOREM PayloadsDescaled == Spec => []PayloadsDescale
<1>1. TypeOK /\ IInv => PayloadsDescale
  <2> SUFFICES ASSUME TypeOK, IInv, HasAggregated, phase \in {"requested", "evaluating"}
               PROVE  /\ Unscaled(ProcessServerWeights(payload))
                      /\ ProcessServerWeights(payload).of =
                           IF phase = "evaluating" THEN current_round
                                                   ELSE current_round - 1
    BY DEF PayloadsDescale
  <2>1. /\ payload.weights = current_weights
        /\ payload.denominator = last_result_denominator
        /\ last_result_denominator > 0
        /\ ScaledBy(current_weights, last_result_denominator)
    BY DEF IInv, PayloadInv, HeldInv, InRound
  <2>2. /\ ProcessServerWeights(payload).of = current_weights.of
        /\ Unscaled(ProcessServerWeights(payload))
    BY <2>1, DescaleExact DEF ProcessServerWeights, TypeOK, AggregatorTypeOK
  <2>3. current_weights.of = IF phase = "evaluating" THEN current_round
                                                     ELSE current_round - 1
    BY DEF IInv, RoundInv, Opened, Closing
  <2> QED
    BY <2>2, <2>3
<1> QED
  BY <1>1, Invariant, PTL

\* fipa_aggregate and fipa_aggregate_encrypted: whichever way the server comes by
\* the base it adds a FIPA increment to, it is the model the clients moved away from.
THEOREM DeltasAdded == Spec => []DeltasAddToTheirStart
<1>1. TypeOK /\ IInv => DeltasAddToTheirStart
  <2> SUFFICES ASSUME TypeOK, IInv, phase = "updated", update_kind # "weights"
               PROVE  Unscaled(FipaBase) /\ Same(FipaBase, local_model)
    BY DEF DeltasAddToTheirStart
  <2>1. EffectiveAlgorithm(config, current_round) = "FIPA"
    BY DEF IInv, ClientInv, RequiredKind
  <2> QED
    BY <2>1, BaseIsStart DEF IInv
<1> QED
  BY <1>1, Invariant, PTL

\* _round_algorithm and _require_payload_kind: whatever the warm-up, a round's
\* updates are of the kind its aggregation needs.
THEOREM KindsAgreed == Spec => []KindsAgree
<1>1. IInv => KindsAgree
  BY DEF IInv, ClientInv, KindsAgree
<1> QED
  BY <1>1, Invariant, PTL

\* _save_checkpoint: however the run ends, aborted in the middle of a round
\* included, the file holds the best round's model unscaled.
THEOREM CheckpointBest == Spec => []CheckpointIsBestModel
<1>1. IInv => CheckpointIsBestModel
  BY DEF IInv
<1> QED
  BY <1>1, Invariant, PTL

\* client_denominator: without FedDisco on encrypted weights, the initial model
\* reaches the clients as it is.
THEOREM FirstPayload ==
  ASSUME \A c \in Configs : ~(c.algorithm = "FedDisco" /\ c.encrypted)
  PROVE  Spec => []FirstPayloadUnscaled
<1>1. TypeOK /\ IInv => FirstPayloadUnscaled
  <2> SUFFICES ASSUME TypeOK, IInv, ~HasAggregated, phase = "requested"
               PROVE  Same(ProcessServerWeights(payload), Model(-1))
    BY DEF FirstPayloadUnscaled
  <2>1. current_round = 0 /\ total_training_size_in_round = 0
    BY DEF IInv, RoundInv, Opened, InRound, TypeOK
  <2>2. payload.weights = Model(-1) /\ payload.denominator = Denominator
    BY DEF IInv, PayloadInv, HeldInv, InRound
  <2> DEFINE algorithm == EffectiveAlgorithm(config, 0)
  <2>3. Denominator = DenominatorFor(config, algorithm, 0)
    BY <2>1 DEF Denominator, ClientDenominator, HasAggregated
  <2>4. algorithm \in KnownAlgorithms
    BY ConfigAssumption, EffectiveType DEF TypeOK, AggregatorTypeOK
  <2>5. algorithm = "FedDisco" => ~config.encrypted
    BY DEF EffectiveAlgorithm, WarmupAlgorithm, TypeOK, AggregatorTypeOK
  <2>6. Denominator \in {0, 1}
    <3>1. CASE algorithm \in SumWeightedBySize
      BY <2>3, <3>1 DEF DenominatorFor, SumWeightedBySize
    <3>2. CASE algorithm = "FedDisco"
      BY <2>3, <2>5, <3>2 DEF DenominatorFor, SumWeightedBySize
    <3>3. CASE algorithm = "FIPA"
      BY <2>3, <3>3 DEF DenominatorFor, SumWeightedBySize
    <3> QED
      BY <2>4, <3>1, <3>2, <3>3 DEF KnownAlgorithms, ServerReturnsFinalModel
  <2>7. ProcessServerWeights(payload) = [of |-> -1, times |-> 1, over |-> 1]
    <3>1. CASE Denominator = 0
      BY <2>2, <3>1 DEF ProcessServerWeights, Descale, Model
    <3>2. CASE Denominator = 1
      BY <2>2, <3>2 DEF ProcessServerWeights, Descale, Model
    <3> QED
      BY <2>6, <3>1, <3>2
  <2> QED
    BY <2>7 DEF Same, Model
<1> QED
  BY <1>1, Invariant, PTL
=============================================================================
