------------------------- MODULE AggregationPolicy --------------------------
(***************************************************************************)
(* aggregation_policy.py: which rule governs a round, and what the clients *)
(* divide the outcome of a rule by. `config` is the run's configuration,   *)
(* reduced to the three keys both questions read.                          *)
(***************************************************************************)
EXTENDS Integers

CONSTANT GridScale   \* FEDDISCO_ENCRYPTED_SCALE

ASSUME GridAssumption == GridScale \in Nat \ {0}

SumWeightedBySize       == {"FedAvg", "FedProx", "FedLC"}
ServerReturnsFinalModel == {"FedDisco", "FIPA"}
KnownAlgorithms         == SumWeightedBySize \cup ServerReturnsFinalModel

NeedsWarmup        == {"FIPA"}
NeedsGlobalWeights == {"FIPA"}
WarmupAlgorithm    == "FedAvg"

\* encrypted: encryption_mode # 'no_encryption'; warmup: fipa_warmup_rounds.
Config == [algorithm : KnownAlgorithms, encrypted : BOOLEAN, warmup : Nat]

EffectiveAlgorithm(config, round) ==
  IF config.algorithm \in NeedsWarmup /\ round < config.warmup
    THEN WarmupAlgorithm
    ELSE config.algorithm

\* A denominator of 0 stands for "use the payload as it is".
DenominatorFor(config, algorithm, total) ==
  CASE algorithm \in SumWeightedBySize -> total
    [] algorithm = "FedDisco"          -> IF config.encrypted THEN GridScale ELSE 1
    [] algorithm = "FIPA"              -> 1
=============================================================================
