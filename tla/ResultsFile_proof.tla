--------------------------- MODULE ResultsFile_proof ---------------------------
(***************************************************************************)
(* What the normalisation, the fingerprint and the trip through the        *)
(* results file make of a configuration, whatever its keys and values: the *)
(* facts that the proofs about ConfigLifecycle and GridSearch rest on.     *)
(***************************************************************************)
EXTENDS ResultsFile, FiniteSetTheorems, TLAPS

\* It says that the key is this.
Says(e, key, value) == key \in DOMAIN e /\ e[key] = value

IsFcn(e) == e = [key \in DOMAIN e |-> e[key]]

KeyNames == {KeyOrder[i] : i \in DOMAIN KeyOrder}
-----------------------------------------------------------------------------
(* What each of the six normalisations does to a key, theirs or another.   *)
LEMMA UpdateSays ==
  ASSUME NEW e, NEW pins, NEW key
  PROVE  /\ key \in DOMAIN pins => Says(Update(e, pins), key, pins[key])
         /\ key \notin DOMAIN pins => Same(Update(e, pins), e, key)
BY DEF Update, Says, Same

LEMMA SetDefaultsSays ==
  ASSUME NEW e, NEW defaults, NEW key
  PROVE  /\ key \in DOMAIN defaults
              => Says(SetDefaults(e, defaults), key, GetOr(e, key, defaults[key]))
         /\ key \notin DOMAIN defaults => Same(SetDefaults(e, defaults), e, key)
BY DEF SetDefaults, Update, Says, Same, GetOr

LEMMA SameReads ==
  ASSUME NEW d, NEW e, NEW key, Same(d, e, key)
  PROVE  Get(d, key) = Get(e, key) /\ \A default : GetOr(d, key, default) = GetOr(e, key, default)
BY DEF Same, Get, GetOr

LEMMA SaysReads ==
  ASSUME NEW e, NEW key, NEW value, Says(e, key, value)
  PROVE  Get(e, key) = value /\ \A default : GetOr(e, key, default) = value
BY DEF Says, Get, GetOr

LEMMA ProximalSays ==
  ASSUME NEW e, NEW key
  PROVE  /\ key # "fedprox_mu" => Same(NormalizeProximal(e), e, key)
         /\ Get(e, "aggregation_algorithm") = "FedProx"
              => Same(NormalizeProximal(e), e, key)
         /\ Get(e, "aggregation_algorithm") # "FedProx"
              => Says(NormalizeProximal(e), "fedprox_mu", "0.0")
BY DEF NormalizeProximal, Update, Says, Same

LEMMA PartitionSays ==
  ASSUME NEW e, NEW key
  PROVE  /\ key \notin {"partition_strategy", "dirichlet_alpha", "partition_unit"}
              => Same(NormalizePartitionKeys(e), e, key)
         /\ LET strategy == GetOr(e, "partition_strategy", "stratified")
                n == NormalizePartitionKeys(e)
            IN  /\ Says(n, "partition_strategy", strategy)
                /\ strategy # "dirichlet" => /\ Says(n, "dirichlet_alpha", "-1.0")
                                             /\ Says(n, "partition_unit", "n/a")
                /\ strategy = "dirichlet" =>
                      /\ Says(n, "dirichlet_alpha", GetOr(e, "dirichlet_alpha", "0.5"))
                      /\ Says(n, "partition_unit", GetOr(e, "partition_unit", "track"))
BY DEF NormalizePartitionKeys, PartitionInactive, PartitionDefaults, SetDefaults,
       Update, Says, Same, GetOr

LEMMA FipaSays ==
  ASSUME NEW e, NEW key
  PROVE  LET n == NormalizeFipaKeys(e)
         IN  /\ key \notin {"fipa_warmup_rounds", "fipa_rank", "fipa_grad_batches"}
                  => Same(n, e, key)
             /\ Get(e, "aggregation_algorithm") # "FIPA" =>
                  /\ Says(n, "fipa_warmup_rounds", "0")
                  /\ Says(n, "fipa_rank", "-1")
                  /\ Says(n, "fipa_grad_batches", "-1")
             /\ Get(e, "aggregation_algorithm") = "FIPA" =>
                  /\ Says(n, "fipa_warmup_rounds", GetOr(e, "fipa_warmup_rounds", "0"))
                  /\ Says(n, "fipa_rank", GetOr(e, "fipa_rank", "5"))
                  /\ Says(n, "fipa_grad_batches", Get(e, "fipa_grad_batches"))
BY DEF NormalizeFipaKeys, FipaInactive, FipaDefaults, SetDefaults, Update, Says,
       Same, GetOr, Get

LEMMA FeddiscoSays ==
  ASSUME NEW e, NEW key
  PROVE  LET n == NormalizeFeddiscoKeys(e)
         IN  /\ key # "feddisco_a" => Same(n, e, key)
             /\ Get(e, "aggregation_algorithm") # "FedDisco"
                  => Says(n, "feddisco_a", "-1.0")
             /\ Get(e, "aggregation_algorithm") = "FedDisco"
                  => Says(n, "feddisco_a", GetOr(e, "feddisco_a", "0.5"))
BY DEF NormalizeFeddiscoKeys, FeddiscoInactive, FeddiscoDefaults, SetDefaults,
       Update, Says, Same, GetOr

LEMMA AugmentationSays ==
  ASSUME NEW e, NEW key
  PROVE  LET n == NormalizeAugmentationKeys(e)
             chosen == GetOr(e, "train_augmentation", "False")
             rotation == "augmentation_rotation_degrees"
         IN  /\ key \notin {"train_augmentation", rotation} => Same(n, e, key)
             /\ Says(n, "train_augmentation", chosen)
             /\ ~Enabled(chosen) => Says(n, rotation, "-1.0")
             /\ Enabled(chosen) => Says(n, rotation, GetOr(e, rotation, "10.0"))
BY DEF NormalizeAugmentationKeys, AugmentationInactive, AugmentationDefaults,
       SetDefaults, Update, Says, Same, GetOr

LEMMA ModelSays ==
  ASSUME NEW e, NEW key
  PROVE  LET n == NormalizeModelKeys(e)
             model == Get(e, "model_name")
         IN  /\ key \notin {"image_size", "convnet_hidden1", "num_custom_layers"}
                  => Same(n, e, key)
             /\ model \in PretrainedNets =>
                  /\ Says(n, "image_size", GetOr(e, "image_size", "224"))
                  /\ Says(n, "convnet_hidden1", GetOr(e, "convnet_hidden1", "-1"))
                  /\ Same(n, e, "num_custom_layers")
             /\ model = "ConvNet" =>
                  /\ Says(n, "num_custom_layers", GetOr(e, "num_custom_layers", "-1"))
                  /\ Same(n, e, "image_size")
                  /\ Same(n, e, "convnet_hidden1")
             /\ model \notin PretrainedNets \cup {"ConvNet"} => Same(n, e, key)
BY DEF NormalizeModelKeys, PretrainedNets, SetDefaults, Update, Says, Same, GetOr
-----------------------------------------------------------------------------
(* All six together, key by key, in terms of what they are given: they     *)
(* fill in different keys, and decide by keys none of them changes.        *)
LEMMA NormalSays ==
  ASSUME NEW e
  PROVE  LET n == Normalize(e)
             algorithm == Get(e, "aggregation_algorithm")
             model == Get(e, "model_name")
             strategy == GetOr(e, "partition_strategy", "stratified")
             chosen == GetOr(e, "train_augmentation", "False")
             rotation == "augmentation_rotation_degrees"
         IN  /\ \A key : key \notin Filled => Same(n, e, key)
             /\ IF algorithm = "FedProx" THEN Same(n, e, "fedprox_mu")
                                        ELSE Says(n, "fedprox_mu", "0.0")
             /\ Says(n, "partition_strategy", strategy)
             /\ Says(n, "dirichlet_alpha", IF strategy = "dirichlet"
                         THEN GetOr(e, "dirichlet_alpha", "0.5") ELSE "-1.0")
             /\ Says(n, "partition_unit", IF strategy = "dirichlet"
                         THEN GetOr(e, "partition_unit", "track") ELSE "n/a")
             /\ Says(n, "fipa_warmup_rounds", IF algorithm = "FIPA"
                         THEN GetOr(e, "fipa_warmup_rounds", "0") ELSE "0")
             /\ Says(n, "fipa_rank", IF algorithm = "FIPA"
                         THEN GetOr(e, "fipa_rank", "5") ELSE "-1")
             /\ Says(n, "fipa_grad_batches", IF algorithm = "FIPA"
                         THEN Get(e, "fipa_grad_batches") ELSE "-1")
             /\ Says(n, "feddisco_a", IF algorithm = "FedDisco"
                         THEN GetOr(e, "feddisco_a", "0.5") ELSE "-1.0")
             /\ Says(n, "train_augmentation", chosen)
             /\ Says(n, rotation, IF Enabled(chosen)
                         THEN GetOr(e, rotation, "10.0") ELSE "-1.0")
             /\ IF model \in PretrainedNets
                THEN /\ Says(n, "image_size", GetOr(e, "image_size", "224"))
                     /\ Says(n, "convnet_hidden1", GetOr(e, "convnet_hidden1", "-1"))
                ELSE Same(n, e, "image_size") /\ Same(n, e, "convnet_hidden1")
             /\ IF model = "ConvNet"
                THEN Says(n, "num_custom_layers", GetOr(e, "num_custom_layers", "-1"))
                ELSE Same(n, e, "num_custom_layers")
PROOF
  <1> DEFINE d1 == NormalizeProximal(e)
             d2 == NormalizePartitionKeys(d1)
             d3 == NormalizeFipaKeys(d2)
             d4 == NormalizeFeddiscoKeys(d3)
             d5 == NormalizeAugmentationKeys(d4)
             n == NormalizeModelKeys(d5)
  <1>1. n = Normalize(e)
    BY DEF Normalize
  <1>2. \A key : /\ key # "fedprox_mu" => Same(d1, e, key)
                 /\ Get(e, "aggregation_algorithm") = "FedProx" => Same(d1, e, key)
    BY ProximalSays
  <1>3. \A key : key \notin {"partition_strategy", "dirichlet_alpha", "partition_unit"}
                    => Same(d2, d1, key)
    BY PartitionSays
  <1>4. \A key : key \notin {"fipa_warmup_rounds", "fipa_rank", "fipa_grad_batches"}
                    => Same(d3, d2, key)
    BY FipaSays
  <1>5. \A key : key # "feddisco_a" => Same(d4, d3, key)
    BY FeddiscoSays
  <1>6. \A key : key \notin {"train_augmentation", "augmentation_rotation_degrees"}
                    => Same(d5, d4, key)
    BY AugmentationSays
  <1>7. \A key : key \notin {"image_size", "convnet_hidden1", "num_custom_layers"}
                    => Same(n, d5, key)
    BY ModelSays
  <1>8. ASSUME NEW a, NEW b, NEW c, NEW key, Same(a, b, key), Same(b, c, key)
        PROVE  Same(a, c, key)
    BY <1>8 DEF Same
  <1>9. ASSUME NEW a, NEW b, NEW key, NEW value, Same(a, b, key), Says(b, key, value)
        PROVE  Says(a, key, value)
    BY <1>9 DEF Same, Says
  <1>10. ASSUME NEW a, NEW b, NEW key, Same(a, b, key)
         PROVE  /\ Get(a, key) = Get(b, key)
                /\ \A default : GetOr(a, key, default) = GetOr(b, key, default)
    BY <1>10, SameReads
  <1>11. /\ Get(e, "aggregation_algorithm") # "FedProx" => Says(d1, "fedprox_mu", "0.0")
    BY ProximalSays
  <1> HIDE DEF d1, d2, d3, d4, d5, n
  <1>12. \A key : key \notin Filled => Same(n, e, key)
    <2> SUFFICES ASSUME NEW key, key \notin Filled PROVE Same(n, e, key)
      OBVIOUS
    <2>1. Same(d1, e, key) /\ Same(d2, d1, key) /\ Same(d3, d2, key)
      BY <1>2, <1>3, <1>4 DEF Filled
    <2>2. Same(d4, d3, key) /\ Same(d5, d4, key) /\ Same(n, d5, key)
      BY <1>5, <1>6, <1>7 DEF Filled
    <2> QED
      BY <1>8, <2>1, <2>2
  <1>13. ASSUME NEW key, key \in {"partition_strategy", "dirichlet_alpha", "partition_unit"}
         PROVE  Same(d1, e, key) /\ Same(n, d2, key)
    <2>1. Same(d1, e, key) /\ Same(d3, d2, key) /\ Same(d4, d3, key) /\ Same(d5, d4, key)
          /\ Same(n, d5, key)
      BY <1>2, <1>4, <1>5, <1>6, <1>7, <1>13
    <2>2. Same(d4, d2, key) /\ Same(n, d4, key)
      BY <1>8, <2>1
    <2> QED
      BY <1>8, <2>1, <2>2
  <1>14. ASSUME NEW key, key \in {"fipa_warmup_rounds", "fipa_rank", "fipa_grad_batches"}
         PROVE  Same(d2, e, key) /\ Same(n, d3, key)
    <2>1. Same(d1, e, key) /\ Same(d2, d1, key) /\ Same(d4, d3, key) /\ Same(d5, d4, key)
          /\ Same(n, d5, key)
      BY <1>2, <1>3, <1>5, <1>6, <1>7, <1>14
    <2>2. Same(d2, e, key) /\ Same(n, d4, key)
      BY <1>8, <2>1
    <2> QED
      BY <1>8, <2>1, <2>2
  <1>15. Same(d3, e, "feddisco_a") /\ Same(n, d4, "feddisco_a")
    <2>1. /\ Same(d1, e, "feddisco_a") /\ Same(d2, d1, "feddisco_a")
          /\ Same(d3, d2, "feddisco_a") /\ Same(d5, d4, "feddisco_a")
          /\ Same(n, d5, "feddisco_a")
      BY <1>2, <1>3, <1>4, <1>6, <1>7
    <2>2. Same(d2, e, "feddisco_a") /\ Same(n, d4, "feddisco_a")
      BY <1>8, <2>1
    <2> QED
      BY <1>8, <2>1, <2>2
  <1>16. ASSUME NEW key, key \in {"train_augmentation", "augmentation_rotation_degrees"}
         PROVE  Same(d4, e, key) /\ Same(n, d5, key)
    <2>1. Same(d1, e, key) /\ Same(d2, d1, key) /\ Same(d3, d2, key) /\ Same(d4, d3, key)
          /\ Same(n, d5, key)
      BY <1>2, <1>3, <1>4, <1>5, <1>7, <1>16
    <2>2. Same(d2, e, key) /\ Same(d4, d2, key)
      BY <1>8, <2>1
    <2> QED
      BY <1>8, <2>1, <2>2
  <1>17. ASSUME NEW key,
                key \in {"image_size", "convnet_hidden1", "num_custom_layers"} \cup Untouched
         PROVE  Same(d2, e, key) /\ Same(d3, e, key) /\ Same(d5, e, key)
    <2>1. Same(d1, e, key) /\ Same(d2, d1, key) /\ Same(d3, d2, key) /\ Same(d4, d3, key)
          /\ Same(d5, d4, key)
      BY <1>2, <1>3, <1>4, <1>5, <1>6, <1>17 DEF Untouched
    <2>2. Same(d2, e, key) /\ Same(d4, d2, key)
      BY <1>8, <2>1
    <2> QED
      BY <1>8, <2>1, <2>2
  <1>18. Same(n, d1, "fedprox_mu")
    <2>1. /\ Same(d2, d1, "fedprox_mu") /\ Same(d3, d2, "fedprox_mu")
          /\ Same(d4, d3, "fedprox_mu") /\ Same(d5, d4, "fedprox_mu")
          /\ Same(n, d5, "fedprox_mu")
      BY <1>3, <1>4, <1>5, <1>6, <1>7
    <2>2. Same(d3, d1, "fedprox_mu") /\ Same(n, d4, "fedprox_mu")
      BY <1>8, <2>1
    <2>3. Same(d4, d1, "fedprox_mu")
      BY <1>8, <2>1, <2>2
    <2> QED
      BY <1>8, <2>2, <2>3
  <1>19. IF Get(e, "aggregation_algorithm") = "FedProx"
         THEN Same(n, e, "fedprox_mu") ELSE Says(n, "fedprox_mu", "0.0")
    BY <1>2, <1>8, <1>9, <1>11, <1>18
  <1>20. /\ Says(n, "partition_strategy", GetOr(e, "partition_strategy", "stratified"))
         /\ LET strategy == GetOr(e, "partition_strategy", "stratified")
            IN  /\ Says(n, "dirichlet_alpha", IF strategy = "dirichlet"
                            THEN GetOr(e, "dirichlet_alpha", "0.5") ELSE "-1.0")
                /\ Says(n, "partition_unit", IF strategy = "dirichlet"
                            THEN GetOr(e, "partition_unit", "track") ELSE "n/a")
    <2>1. ASSUME NEW key \in {"partition_strategy", "dirichlet_alpha", "partition_unit"}
          PROVE  /\ Same(n, d2, key)
                 /\ \A default : GetOr(d1, key, default) = GetOr(e, key, default)
      <3>1. Same(d1, e, key) /\ Same(n, d2, key)
        BY <1>13
      <3> QED
        BY <1>10, <3>1
    <2> DEFINE strategy == GetOr(d1, "partition_strategy", "stratified")
    <2>2. /\ Says(d2, "partition_strategy", strategy)
          /\ strategy # "dirichlet" => /\ Says(d2, "dirichlet_alpha", "-1.0")
                                       /\ Says(d2, "partition_unit", "n/a")
          /\ strategy = "dirichlet" =>
                /\ Says(d2, "dirichlet_alpha", GetOr(d1, "dirichlet_alpha", "0.5"))
                /\ Says(d2, "partition_unit", GetOr(d1, "partition_unit", "track"))
      BY PartitionSays DEF d2
    <2> QED
      BY <1>9, <2>1, <2>2
  <1>21. LET algorithm == Get(e, "aggregation_algorithm")
         IN  /\ Says(n, "fipa_warmup_rounds", IF algorithm = "FIPA"
                         THEN GetOr(e, "fipa_warmup_rounds", "0") ELSE "0")
             /\ Says(n, "fipa_rank", IF algorithm = "FIPA"
                         THEN GetOr(e, "fipa_rank", "5") ELSE "-1")
             /\ Says(n, "fipa_grad_batches", IF algorithm = "FIPA"
                         THEN Get(e, "fipa_grad_batches") ELSE "-1")
    <2>1. \A key \in {"fipa_warmup_rounds", "fipa_rank", "fipa_grad_batches"} :
             /\ Same(n, d3, key)
             /\ Get(d2, key) = Get(e, key)
             /\ \A default : GetOr(d2, key, default) = GetOr(e, key, default)
      BY <1>10, <1>14
    <2>2. Get(d2, "aggregation_algorithm") = Get(e, "aggregation_algorithm")
      BY <1>10, <1>17 DEF Untouched
    <2>3. /\ Get(d2, "aggregation_algorithm") # "FIPA" =>
                 /\ Says(d3, "fipa_warmup_rounds", "0")
                 /\ Says(d3, "fipa_rank", "-1")
                 /\ Says(d3, "fipa_grad_batches", "-1")
          /\ Get(d2, "aggregation_algorithm") = "FIPA" =>
                 /\ Says(d3, "fipa_warmup_rounds", GetOr(d2, "fipa_warmup_rounds", "0"))
                 /\ Says(d3, "fipa_rank", GetOr(d2, "fipa_rank", "5"))
                 /\ Says(d3, "fipa_grad_batches", Get(d2, "fipa_grad_batches"))
      BY FipaSays DEF d3
    <2> QED
      BY <1>9, <2>1, <2>2, <2>3
  <1>22. Says(n, "feddisco_a", IF Get(e, "aggregation_algorithm") = "FedDisco"
                               THEN GetOr(e, "feddisco_a", "0.5") ELSE "-1.0")
    <2>1. GetOr(d3, "feddisco_a", "0.5") = GetOr(e, "feddisco_a", "0.5")
      BY <1>10, <1>15
    <2>2. Get(d3, "aggregation_algorithm") = Get(e, "aggregation_algorithm")
      BY <1>10, <1>17 DEF Untouched
    <2>3. /\ Get(d3, "aggregation_algorithm") # "FedDisco" => Says(d4, "feddisco_a", "-1.0")
          /\ Get(d3, "aggregation_algorithm") = "FedDisco"
                 => Says(d4, "feddisco_a", GetOr(d3, "feddisco_a", "0.5"))
      BY FeddiscoSays DEF d4
    <2> QED
      BY <1>9, <1>15, <2>1, <2>2, <2>3
  <1>23. LET chosen == GetOr(e, "train_augmentation", "False")
             rotation == "augmentation_rotation_degrees"
         IN  /\ Says(n, "train_augmentation", chosen)
             /\ Says(n, rotation, IF Enabled(chosen)
                         THEN GetOr(e, rotation, "10.0") ELSE "-1.0")
    <2> DEFINE chosen == GetOr(d4, "train_augmentation", "False")
               rotation == "augmentation_rotation_degrees"
    <2>1. \A key \in {"train_augmentation", rotation} :
             /\ Same(n, d5, key)
             /\ \A default : GetOr(d4, key, default) = GetOr(e, key, default)
      BY <1>10, <1>16
    <2>2. /\ Says(d5, "train_augmentation", chosen)
          /\ ~Enabled(chosen) => Says(d5, rotation, "-1.0")
          /\ Enabled(chosen) => Says(d5, rotation, GetOr(d4, rotation, "10.0"))
      BY AugmentationSays DEF d5
    <2> QED
      BY <1>9, <2>1, <2>2
  <1>24. LET model == Get(e, "model_name")
         IN  /\ IF model \in PretrainedNets
                THEN /\ Says(n, "image_size", GetOr(e, "image_size", "224"))
                     /\ Says(n, "convnet_hidden1", GetOr(e, "convnet_hidden1", "-1"))
                ELSE Same(n, e, "image_size") /\ Same(n, e, "convnet_hidden1")
             /\ IF model = "ConvNet"
                THEN Says(n, "num_custom_layers", GetOr(e, "num_custom_layers", "-1"))
                ELSE Same(n, e, "num_custom_layers")
    <2>1. \A key \in {"image_size", "convnet_hidden1", "num_custom_layers"} :
             /\ Same(d5, e, key)
             /\ \A default : GetOr(d5, key, default) = GetOr(e, key, default)
      BY <1>10, <1>17
    <2>2. Get(d5, "model_name") = Get(e, "model_name")
      BY <1>10, <1>17 DEF Untouched
    <2> DEFINE model == Get(d5, "model_name")
    <2>3. /\ model \in PretrainedNets =>
                 /\ Says(n, "image_size", GetOr(d5, "image_size", "224"))
                 /\ Says(n, "convnet_hidden1", GetOr(d5, "convnet_hidden1", "-1"))
                 /\ Same(n, d5, "num_custom_layers")
          /\ model = "ConvNet" =>
                 /\ Says(n, "num_custom_layers", GetOr(d5, "num_custom_layers", "-1"))
                 /\ Same(n, d5, "image_size")
                 /\ Same(n, d5, "convnet_hidden1")
          /\ model \notin PretrainedNets \cup {"ConvNet"} =>
                 \A key : Same(n, d5, key)
      BY ModelSays DEF n
    <2>4. "ConvNet" \notin PretrainedNets
      BY DEF PretrainedNets
    <2> QED
      BY <1>8, <2>1, <2>2, <2>3, <2>4
  <1> QED
    BY <1>1, <1>12, <1>19, <1>20, <1>21, <1>22, <1>23, <1>24
-----------------------------------------------------------------------------
(* Normalising keeps the experiment, whatever the configuration says: each *)
(* default it fills in is the one the program would have used, and no      *)
(* sentinel takes part in what the run does.                               *)
LEMMA KeepsExperiment ==
  ASSUME NEW e
  PROVE  Experiment(Normalize(e)) = Experiment(e)
PROOF
  <1> DEFINE n == Normalize(e)
             strategy == GetOr(e, "partition_strategy", "stratified")
             chosen == GetOr(e, "train_augmentation", "False")
             rotation == "augmentation_rotation_degrees"
  <1> HIDE DEF n
  <1>1. /\ \A default : /\ GetOr(n, "aggregation_algorithm", default)
                             = GetOr(e, "aggregation_algorithm", default)
        /\ Get(n, "model_name") = Get(e, "model_name")
        /\ Get(n, "encryption_mode") = Get(e, "encryption_mode")
        /\ Get(n, "max_units_per_class") = Get(e, "max_units_per_class")
    <2>1. \A key \in Untouched : Same(n, e, key)
      BY NormalSays DEF n, Filled, Untouched
    <2> QED
      BY <2>1, SameReads DEF Untouched
  <1>2. SplitDials(n) = SplitDials(e)
    <2>1. /\ Says(n, "partition_strategy", strategy)
          /\ strategy = "dirichlet" =>
                /\ Says(n, "dirichlet_alpha", GetOr(e, "dirichlet_alpha", "0.5"))
                /\ Says(n, "partition_unit", GetOr(e, "partition_unit", "track"))
      BY NormalSays DEF n
    <2>2. /\ GetOr(n, "partition_strategy", "stratified") = strategy
          /\ strategy = "dirichlet" =>
                /\ GetOr(n, "dirichlet_alpha", "0.5") = GetOr(e, "dirichlet_alpha", "0.5")
                /\ GetOr(n, "partition_unit", "track") = GetOr(e, "partition_unit", "track")
      BY <2>1, SaysReads
    <2> QED
      BY <1>1, <2>2 DEF SplitDials
  <1>3. AlgorithmDials(n) = AlgorithmDials(e)
    <2> DEFINE algorithm == Get(e, "aggregation_algorithm")
    <2>1. /\ algorithm = "FedProx" => Same(n, e, "fedprox_mu")
          /\ algorithm = "FIPA" =>
                /\ Says(n, "fipa_warmup_rounds", GetOr(e, "fipa_warmup_rounds", "0"))
                /\ Says(n, "fipa_rank", GetOr(e, "fipa_rank", "5"))
                /\ Says(n, "fipa_grad_batches", Get(e, "fipa_grad_batches"))
          /\ algorithm = "FedDisco" =>
                Says(n, "feddisco_a", GetOr(e, "feddisco_a", "0.5"))
      BY NormalSays DEF n
    <2>2. /\ algorithm = "FedProx" =>
                GetOr(n, "fedprox_mu", "0.0") = GetOr(e, "fedprox_mu", "0.0")
          /\ algorithm = "FIPA" =>
                /\ GetOr(n, "fipa_warmup_rounds", "0") = GetOr(e, "fipa_warmup_rounds", "0")
                /\ GetOr(n, "fipa_rank", "5") = GetOr(e, "fipa_rank", "5")
                /\ Get(n, "fipa_grad_batches") = Get(e, "fipa_grad_batches")
          /\ algorithm = "FedDisco" =>
                GetOr(n, "feddisco_a", "0.5") = GetOr(e, "feddisco_a", "0.5")
      BY <2>1, SameReads, SaysReads
    <2>3. GetOr(e, "aggregation_algorithm", "FedAvg") \in {"FedProx", "FIPA", "FedDisco"}
             => algorithm = GetOr(e, "aggregation_algorithm", "FedAvg")
      BY DEF GetOr, Get
    <2> HIDE DEF algorithm
    <2> QED
      BY <1>1, <2>2, <2>3 DEF AlgorithmDials
  <1>4. AugmentationSpec(n) = AugmentationSpec(e)
    <2>1. /\ Says(n, "train_augmentation", chosen)
          /\ Enabled(chosen) => Says(n, rotation, GetOr(e, rotation, "10.0"))
      BY NormalSays DEF n
    <2>2. /\ GetOr(n, "train_augmentation", "False") = chosen
          /\ Enabled(chosen) => GetOr(n, rotation, "10.0") = GetOr(e, rotation, "10.0")
      BY <2>1, SaysReads
    <2> QED
      BY <2>2 DEF AugmentationSpec
  <1>5. ModelDials(n) = ModelDials(e)
    <2>1. CASE Get(e, "model_name") \in PretrainedNets
      <3>1. /\ Says(n, "image_size", GetOr(e, "image_size", "224"))
            /\ Same(n, e, "num_custom_layers")
        BY <2>1, NormalSays DEF n, PretrainedNets
      <3>2. /\ GetOr(n, "image_size", "224") = GetOr(e, "image_size", "224")
            /\ GetOr(n, "num_custom_layers", "2") = GetOr(e, "num_custom_layers", "2")
        BY <3>1, SameReads, SaysReads
      <3> QED
        BY <1>1, <2>1, <3>2 DEF ModelDials, ResNetDials
    <2>2. CASE Get(e, "model_name") \notin PretrainedNets
      <3>1. Same(n, e, "image_size") /\ Same(n, e, "convnet_hidden1")
        BY <2>2, NormalSays DEF n
      <3>2. /\ Get(n, "image_size") = Get(e, "image_size")
            /\ GetOr(n, "convnet_hidden1", "64") = GetOr(e, "convnet_hidden1", "64")
        BY <3>1, SameReads
      <3> QED
        BY <1>1, <2>2, <3>2 DEF ModelDials, ConvNetDials
    <2> QED
      BY <2>1, <2>2
  <1> QED
    BY <1>1, <1>2, <1>3, <1>4, <1>5 DEF Experiment, n

(* Normalising keeps a warm-up that is accepted, or gives one.  The      *)
(* splitter refuses the two sentinels of a stratified split; a Dirichlet   *)
(* split keeps what it asks for.                                           *)
LEMMA KeepsAcceptance ==
  ASSUME NEW e
  PROVE  /\ RoundsAccept(e) => RoundsAccept(Normalize(e))
         /\ IF GetOr(e, "partition_strategy", "stratified") = "dirichlet"
            THEN SplitterAccepts(Normalize(e)) = SplitterAccepts(e)
            ELSE ~SplitterAccepts(Normalize(e))
PROOF
  <1> DEFINE n == Normalize(e)
             strategy == GetOr(e, "partition_strategy", "stratified")
  <1> HIDE DEF n
  <1>1. ASSUME RoundsAccept(e) PROVE RoundsAccept(n)
    <2>1. Says(n, "fipa_warmup_rounds",
               IF Get(e, "aggregation_algorithm") = "FIPA"
               THEN GetOr(e, "fipa_warmup_rounds", "0") ELSE "0")
      BY NormalSays DEF n
    <2>2. GetOr(n, "fipa_warmup_rounds", "0") =
            IF Get(e, "aggregation_algorithm") = "FIPA"
            THEN GetOr(e, "fipa_warmup_rounds", "0") ELSE "0"
      BY <2>1, SaysReads
    <2>3. GetOr(e, "fipa_warmup_rounds", "0") # "-1"
      BY <1>1 DEF RoundsAccept
    <2> QED
      BY <2>2, <2>3 DEF RoundsAccept
  <1>2. GetOr(n, "partition_strategy", "stratified") = strategy
    <2>1. Says(n, "partition_strategy", strategy)
      BY NormalSays DEF n
    <2> QED
      BY <2>1, SaysReads
  <1>3. ASSUME strategy = "dirichlet"
        PROVE  SplitterAccepts(n) = SplitterAccepts(e)
    <2>1. /\ Says(n, "dirichlet_alpha", GetOr(e, "dirichlet_alpha", "0.5"))
          /\ Says(n, "partition_unit", GetOr(e, "partition_unit", "track"))
      BY <1>3, NormalSays DEF n
    <2>2. /\ GetOr(n, "dirichlet_alpha", "0.5") = GetOr(e, "dirichlet_alpha", "0.5")
          /\ GetOr(n, "partition_unit", "track") = GetOr(e, "partition_unit", "track")
      BY <2>1, SaysReads
    <2> QED
      BY <1>2, <1>3, <2>2 DEF SplitterAccepts
  <1>4. ASSUME strategy # "dirichlet" PROVE ~SplitterAccepts(n)
    <2>1. Says(n, "dirichlet_alpha", "-1.0")
      BY <1>4, NormalSays DEF n
    <2>2. GetOr(n, "dirichlet_alpha", "0.5") = "-1.0"
      BY <2>1, SaysReads
    <2> QED
      BY <1>4, <2>2 DEF SplitterAccepts
  <1> QED
    BY <1>1, <1>3, <1>4 DEF n

(* The scores and the checkpoint's path are not part of the experiment.    *)
Agree(d, e) == \A key : key \notin Scores => Same(d, e, key)

LEMMA AgreeExperiment ==
  ASSUME NEW d, NEW e, Agree(d, e)
  PROVE  Experiment(d) = Experiment(e)
PROOF
  <1>1. ASSUME NEW key, key \notin Scores
        PROVE  /\ Get(d, key) = Get(e, key)
               /\ \A default : GetOr(d, key, default) = GetOr(e, key, default)
    BY <1>1, SameReads DEF Agree
  <1>2. SplitDials(d) = SplitDials(e)
    BY <1>1 DEF SplitDials, Scores
  <1>3. AlgorithmDials(d) = AlgorithmDials(e)
    BY <1>1 DEF AlgorithmDials, Scores
  <1>4. AugmentationSpec(d) = AugmentationSpec(e)
    BY <1>1 DEF AugmentationSpec, Scores
  <1>5. ModelDials(d) = ModelDials(e)
    BY <1>1 DEF ModelDials, ResNetDials, ConvNetDials, Scores
  <1> QED
    BY <1>1, <1>2, <1>3, <1>4, <1>5 DEF Experiment, Scores

(* A row of the file, normalised as main does with what it reads, says of  *)
(* every other key what the configuration said when it was queued.         *)
LEMMA NormalAgain ==
  ASSUME NEW r, NEW e, Agree(r, Normalize(e))
  PROVE  Agree(Normalize(r), Normalize(e))
PROOF
  <1> DEFINE n == Normalize(e)
  <1>1. ASSUME NEW key, key \notin Scores
        PROVE  /\ Same(r, n, key)
               /\ Get(r, key) = Get(n, key)
               /\ \A default : GetOr(r, key, default) = GetOr(n, key, default)
    BY <1>1, SameReads DEF Agree
  <1> DEFINE m == Normalize(r)
  <1> HIDE DEF n, m
  <1>2. ASSUME NEW key, NEW value, Says(n, key, value), key \notin Scores
        PROVE  /\ Get(r, key) = value
               /\ \A default : GetOr(r, key, default) = value
               /\ Says(m, key, value) => Same(m, n, key)
    BY <1>1, <1>2, SaysReads DEF Says, Same
  <1>3. ASSUME NEW key, Same(m, r, key), key \notin Scores
        PROVE  Same(m, n, key)
    BY <1>1, <1>3 DEF Same
  <1>4. \A key : key \notin Filled \cup Scores => Same(m, n, key)
    BY <1>3, NormalSays DEF m
  <1>5. /\ Get(r, "aggregation_algorithm") = Get(e, "aggregation_algorithm")
        /\ Get(r, "model_name") = Get(e, "model_name")
    <2>1. \A key \in Untouched : Same(n, e, key) /\ key \notin Scores
      BY NormalSays DEF n, Filled, Untouched, Scores
    <2> QED
      BY <1>1, <2>1, SameReads DEF Untouched
  <1>6. /\ Same(m, n, "partition_strategy")
        /\ Same(m, n, "dirichlet_alpha")
        /\ Same(m, n, "partition_unit")
    <2> DEFINE strategy == GetOr(e, "partition_strategy", "stratified")
               alpha == IF strategy = "dirichlet"
                        THEN GetOr(e, "dirichlet_alpha", "0.5") ELSE "-1.0"
               unit == IF strategy = "dirichlet"
                       THEN GetOr(e, "partition_unit", "track") ELSE "n/a"
    <2>1. /\ Says(n, "partition_strategy", strategy)
          /\ Says(n, "dirichlet_alpha", alpha)
          /\ Says(n, "partition_unit", unit)
      BY NormalSays DEF n
    <2>2. /\ GetOr(r, "partition_strategy", "stratified") = strategy
          /\ GetOr(r, "dirichlet_alpha", "0.5") = alpha
          /\ GetOr(r, "partition_unit", "track") = unit
      BY <1>2, <2>1 DEF Scores
    <2>3. /\ Says(m, "partition_strategy", strategy)
          /\ Says(m, "dirichlet_alpha", IF strategy = "dirichlet" THEN alpha ELSE "-1.0")
          /\ Says(m, "partition_unit", IF strategy = "dirichlet" THEN unit ELSE "n/a")
      <3> HIDE DEF strategy, alpha, unit
      <3> QED
        BY <2>2, NormalSays DEF m
    <2> QED
      BY <1>2, <2>1, <2>3 DEF Scores
  <1>7. Same(m, n, "fedprox_mu")
    <2>1. IF Get(e, "aggregation_algorithm") = "FedProx"
          THEN Same(m, r, "fedprox_mu")
          ELSE Says(m, "fedprox_mu", "0.0") /\ Says(n, "fedprox_mu", "0.0")
      BY <1>5, NormalSays DEF m, n
    <2> QED
      BY <1>2, <1>3, <2>1 DEF Scores
  <1>8. /\ Same(m, n, "fipa_warmup_rounds")
        /\ Same(m, n, "fipa_rank")
        /\ Same(m, n, "fipa_grad_batches")
    <2> DEFINE algorithm == Get(e, "aggregation_algorithm")
               warmup == IF algorithm = "FIPA" THEN GetOr(e, "fipa_warmup_rounds", "0")
                                               ELSE "0"
               rank == IF algorithm = "FIPA" THEN GetOr(e, "fipa_rank", "5") ELSE "-1"
               batches == IF algorithm = "FIPA" THEN Get(e, "fipa_grad_batches") ELSE "-1"
    <2>1. /\ Says(n, "fipa_warmup_rounds", warmup)
          /\ Says(n, "fipa_rank", rank)
          /\ Says(n, "fipa_grad_batches", batches)
      BY NormalSays DEF n
    <2>2. /\ GetOr(r, "fipa_warmup_rounds", "0") = warmup
          /\ GetOr(r, "fipa_rank", "5") = rank
          /\ Get(r, "fipa_grad_batches") = batches
      BY <1>2, <2>1 DEF Scores
    <2>3. /\ Says(m, "fipa_warmup_rounds", IF algorithm = "FIPA" THEN warmup ELSE "0")
          /\ Says(m, "fipa_rank", IF algorithm = "FIPA" THEN rank ELSE "-1")
          /\ Says(m, "fipa_grad_batches", IF algorithm = "FIPA" THEN batches ELSE "-1")
      <3> HIDE DEF warmup, rank, batches
      <3> QED
        BY <1>5, <2>2, NormalSays DEF m
    <2> QED
      BY <1>2, <2>1, <2>3 DEF Scores
  <1>9. Same(m, n, "feddisco_a")
    <2> DEFINE algorithm == Get(e, "aggregation_algorithm")
               a == IF algorithm = "FedDisco" THEN GetOr(e, "feddisco_a", "0.5")
                                              ELSE "-1.0"
    <2>1. Says(n, "feddisco_a", a)
      BY NormalSays DEF n
    <2>2. GetOr(r, "feddisco_a", "0.5") = a
      BY <1>2, <2>1 DEF Scores
    <2>3. Says(m, "feddisco_a", IF algorithm = "FedDisco" THEN a ELSE "-1.0")
      <3> HIDE DEF a
      <3> QED
        BY <1>5, <2>2, NormalSays DEF m
    <2> QED
      BY <1>2, <2>1, <2>3 DEF Scores
  <1>10. /\ Same(m, n, "train_augmentation")
         /\ Same(m, n, "augmentation_rotation_degrees")
    <2> DEFINE rotation == "augmentation_rotation_degrees"
               chosen == GetOr(e, "train_augmentation", "False")
               degrees == IF Enabled(chosen) THEN GetOr(e, rotation, "10.0") ELSE "-1.0"
    <2>1. /\ Says(n, "train_augmentation", chosen)
          /\ Says(n, rotation, degrees)
      BY NormalSays DEF n
    <2>2. /\ GetOr(r, "train_augmentation", "False") = chosen
          /\ GetOr(r, rotation, "10.0") = degrees
      BY <1>2, <2>1 DEF Scores
    <2>3. /\ Says(m, "train_augmentation", chosen)
          /\ Says(m, rotation, IF Enabled(chosen) THEN degrees ELSE "-1.0")
      <3> HIDE DEF chosen, degrees
      <3> QED
        BY <2>2, NormalSays DEF m
    <2> QED
      BY <1>2, <2>1, <2>3 DEF Scores
  <1>11. Same(m, n, "image_size") /\ Same(m, n, "convnet_hidden1")
    <2> DEFINE image == GetOr(e, "image_size", "224")
               hidden == GetOr(e, "convnet_hidden1", "-1")
    <2>1. CASE Get(e, "model_name") \in PretrainedNets
      <3>1. Says(n, "image_size", image) /\ Says(n, "convnet_hidden1", hidden)
        BY <2>1, NormalSays DEF n
      <3>2. /\ GetOr(r, "image_size", "224") = image
            /\ GetOr(r, "convnet_hidden1", "-1") = hidden
        BY <1>2, <3>1 DEF Scores
      <3>3. Says(m, "image_size", image) /\ Says(m, "convnet_hidden1", hidden)
        <4> HIDE DEF image, hidden
        <4> QED
          BY <1>5, <2>1, <3>2, NormalSays DEF m
      <3> QED
        BY <1>2, <3>1, <3>3 DEF Scores
    <2>2. CASE Get(e, "model_name") \notin PretrainedNets
      <3>1. Same(m, r, "image_size") /\ Same(m, r, "convnet_hidden1")
        BY <1>5, <2>2, NormalSays DEF m
      <3> QED
        BY <1>3, <3>1 DEF Scores
    <2> QED
      BY <2>1, <2>2
  <1>12. Same(m, n, "num_custom_layers")
    <2> DEFINE layers == GetOr(e, "num_custom_layers", "-1")
    <2>1. CASE Get(e, "model_name") = "ConvNet"
      <3>1. Says(n, "num_custom_layers", layers)
        BY <2>1, NormalSays DEF n
      <3>2. GetOr(r, "num_custom_layers", "-1") = layers
        BY <1>2, <3>1 DEF Scores
      <3>3. Says(m, "num_custom_layers", layers)
        <4> HIDE DEF layers
        <4> QED
          BY <1>5, <2>1, <3>2, NormalSays DEF m
      <3> QED
        BY <1>2, <3>1, <3>3 DEF Scores
    <2>2. CASE Get(e, "model_name") # "ConvNet"
      <3>1. Same(m, r, "num_custom_layers")
        BY <1>5, <2>2, NormalSays DEF m
      <3> QED
        BY <1>3, <3>1 DEF Scores
    <2> QED
      BY <2>1, <2>2
  <1>13. ASSUME NEW key \in Filled PROVE Same(m, n, key)
    BY <1>6, <1>7, <1>8, <1>9, <1>10, <1>11, <1>12 DEF Filled
  <1> QED
    BY <1>4, <1>13 DEF Agree, m, n

(* Two fingerprints are equal when the same is read of every search key.   *)
LEMMA FingerprintReads ==
  ASSUME NEW d, NEW e
  PROVE  GetConfigFingerprint(d) = GetConfigFingerprint(e)
             <=> \A key \in AllPossibleSearchKeys : Get(d, key) = Get(e, key)
PROOF
  <1>1. ASSUME NEW a, NEW b, GetConfigFingerprint(a) = GetConfigFingerprint(b),
               NEW key \in AllPossibleSearchKeys, Get(a, key) # Blank
        PROVE  Get(b, key) = Get(a, key)
    <2>1. <<key, a[key]>> \in GetConfigFingerprint(a) /\ Get(a, key) = a[key]
      BY <1>1 DEF GetConfigFingerprint, Get
    <2>2. PICK k \in AllPossibleSearchKeys \cap DOMAIN b : <<key, a[key]>> = <<k, b[k]>>
      BY <1>1, <2>1 DEF GetConfigFingerprint
    <2> QED
      BY <2>1, <2>2 DEF Get
  <1>2. ASSUME NEW a, NEW b, NEW pair \in GetConfigFingerprint(a),
               \A key \in AllPossibleSearchKeys : Get(a, key) = Get(b, key)
        PROVE  pair \in GetConfigFingerprint(b)
    <2>1. PICK key \in AllPossibleSearchKeys \cap DOMAIN a :
              pair = <<key, a[key]>> /\ a[key] # Blank
      BY DEF GetConfigFingerprint
    <2>2. Get(b, key) = a[key]
      BY <1>2, <2>1 DEF Get
    <2>3. key \in DOMAIN b /\ b[key] = a[key]
      BY <2>1, <2>2 DEF Get
    <2> QED
      BY <2>1, <2>3 DEF GetConfigFingerprint
  <1>3. ASSUME GetConfigFingerprint(d) = GetConfigFingerprint(e),
               NEW key \in AllPossibleSearchKeys
        PROVE  Get(d, key) = Get(e, key)
    BY <1>1, <1>3
  <1>4. ASSUME \A key \in AllPossibleSearchKeys : Get(d, key) = Get(e, key)
        PROVE  GetConfigFingerprint(d) = GetConfigFingerprint(e)
    BY <1>2, <1>4
  <1> QED
    BY <1>3, <1>4

LEMMA AgreeFingerprint ==
  ASSUME NEW d, NEW e, Agree(d, e)
  PROVE  GetConfigFingerprint(d) = GetConfigFingerprint(e)
PROOF
  <1>1. ASSUME NEW key \in AllPossibleSearchKeys PROVE Get(d, key) = Get(e, key)
    <2>1. key \notin Scores
      BY SearchKeysAssumption DEF AllPossibleSearchKeys, ExtraFingerprintKeys, Scores
    <2> QED
      BY <2>1, SameReads DEF Agree
  <1> QED
    BY <1>1, FingerprintReads
-----------------------------------------------------------------------------
(* Group by group, two configurations of one search are read alike when    *)
(* they are normalised alike.                                              *)
AlikeIn(d, e, keys) == \A key \in keys : Get(Normalize(d), key) = Get(Normalize(e), key)

LEMMA SplitAlike ==
  ASSUME NEW d, NEW e, WellFormed(d), WellFormed(e)
  PROVE  SplitDials(d) = SplitDials(e)
            <=> AlikeIn(d, e, {"partition_strategy", "dirichlet_alpha", "partition_unit",
                               "max_units_per_class"})
PROOF
  <1> DEFINE Strategy(x) == GetOr(x, "partition_strategy", "stratified")
             Alpha(x) == GetOr(x, "dirichlet_alpha", "0.5")
             Unit(x) == GetOr(x, "partition_unit", "track")
             Units(x) == Get(x, "max_units_per_class")
  <1>1. ASSUME NEW x, WellFormed(x)
        PROVE  /\ Get(Normalize(x), "partition_strategy") = Strategy(x)
               /\ Get(Normalize(x), "dirichlet_alpha") =
                     IF Strategy(x) = "dirichlet" THEN Alpha(x) ELSE "-1.0"
               /\ Get(Normalize(x), "partition_unit") =
                     IF Strategy(x) = "dirichlet" THEN Unit(x) ELSE "n/a"
               /\ Get(Normalize(x), "max_units_per_class") = Units(x)
               /\ Strategy(x) \in {"stratified", "dirichlet"}
               /\ Strategy(x) = "stratified" => Units(x) = Blank
    <2>1. Same(Normalize(x), x, "max_units_per_class")
      BY NormalSays DEF Filled
    <2>2. Strategy(x) = "stratified" => Units(x) = Blank
      BY <1>1 DEF WellFormed, Get, GetOr, Blank
    <2>3. Strategy(x) \in {"stratified", "dirichlet"}
      BY <1>1 DEF WellFormed
    <2> HIDE DEF Strategy, Alpha, Unit, Units
    <2>4. /\ Get(Normalize(x), "partition_strategy") = Strategy(x)
          /\ Get(Normalize(x), "dirichlet_alpha") =
                     IF Strategy(x) = "dirichlet" THEN Alpha(x) ELSE "-1.0"
          /\ Get(Normalize(x), "partition_unit") =
                     IF Strategy(x) = "dirichlet" THEN Unit(x) ELSE "n/a"
      BY NormalSays, SaysReads DEF Strategy, Alpha, Unit
    <2> QED
      BY <2>1, <2>2, <2>3, <2>4, SameReads DEF Units
  <1>2. ASSUME NEW x
        PROVE  SplitDials(x) = IF Strategy(x) = "dirichlet"
                               THEN <<Alpha(x), Unit(x), Units(x)>> ELSE <<>>
    BY DEF SplitDials
  <1> HIDE DEF Strategy, Alpha, Unit, Units
  <1> QED
    BY <1>1, <1>2 DEF AlikeIn

LEMMA AugmentationAlike ==
  ASSUME NEW d, NEW e, WellFormed(d), WellFormed(e)
  PROVE  AugmentationSpec(d) = AugmentationSpec(e)
            <=> AlikeIn(d, e, {"train_augmentation", "augmentation_rotation_degrees"})
PROOF
  <1> DEFINE rotation == "augmentation_rotation_degrees"
             Chosen(x) == GetOr(x, "train_augmentation", "False")
             Degrees(x) == GetOr(x, rotation, "10.0")
  <1>1. ASSUME NEW x, WellFormed(x)
        PROVE  /\ Get(Normalize(x), "train_augmentation") = Chosen(x)
               /\ Get(Normalize(x), rotation) =
                     IF Enabled(Chosen(x)) THEN Degrees(x) ELSE "-1.0"
               /\ Chosen(x) \in {"True", "False"}
    <2>1. Chosen(x) \in {"True", "False"}
      BY <1>1 DEF WellFormed
    <2> HIDE DEF Chosen, Degrees
    <2> QED
      BY <2>1, NormalSays, SaysReads DEF Chosen, Degrees
  <1>2. ASSUME NEW x
        PROVE  AugmentationSpec(x) = IF Enabled(Chosen(x)) THEN <<Degrees(x)>> ELSE <<>>
    BY DEF AugmentationSpec
  <1>3. Enabled("True") /\ ~Enabled("False")
    BY DEF Enabled
  <1> HIDE DEF Chosen, Degrees
  <1> QED
    BY <1>1, <1>2, <1>3 DEF AlikeIn

LEMMA AlgorithmAlike ==
  ASSUME NEW d, NEW e, OneSearch(d, e)
  PROVE  AlgorithmDials(d) = AlgorithmDials(e)
            <=> AlikeIn(d, e, {"aggregation_algorithm", "fedprox_mu", "fipa_warmup_rounds",
                               "fipa_rank", "fipa_grad_batches", "feddisco_a"})
PROOF
  <1> DEFINE Algorithm(x) == Get(x, "aggregation_algorithm")
             Named(x) == GetOr(x, "aggregation_algorithm", "FedAvg")
             Warmup(x) == GetOr(x, "fipa_warmup_rounds", "0")
             Rank(x) == GetOr(x, "fipa_rank", "5")
             Batches(x) == Get(x, "fipa_grad_batches")
             A(x) == GetOr(x, "feddisco_a", "0.5")
  <1>1. ASSUME NEW x
        PROVE  /\ Get(Normalize(x), "aggregation_algorithm") = Algorithm(x)
               /\ Get(Normalize(x), "fedprox_mu") =
                     IF Algorithm(x) = "FedProx" THEN Get(x, "fedprox_mu") ELSE "0.0"
               /\ Get(Normalize(x), "fipa_warmup_rounds") =
                     IF Algorithm(x) = "FIPA" THEN Warmup(x) ELSE "0"
               /\ Get(Normalize(x), "fipa_rank") =
                     IF Algorithm(x) = "FIPA" THEN Rank(x) ELSE "-1"
               /\ Get(Normalize(x), "fipa_grad_batches") =
                     IF Algorithm(x) = "FIPA" THEN Batches(x) ELSE "-1"
               /\ Get(Normalize(x), "feddisco_a") =
                     IF Algorithm(x) = "FedDisco" THEN A(x) ELSE "-1.0"
    <2>1. Same(Normalize(x), x, "aggregation_algorithm")
      BY NormalSays DEF Filled
    <2>2. IF Algorithm(x) = "FedProx" THEN Same(Normalize(x), x, "fedprox_mu")
          ELSE Says(Normalize(x), "fedprox_mu", "0.0")
      BY NormalSays
    <2> HIDE DEF Algorithm, Warmup, Rank, Batches, A
    <2>3. /\ Get(Normalize(x), "fipa_warmup_rounds") =
                     IF Algorithm(x) = "FIPA" THEN Warmup(x) ELSE "0"
          /\ Get(Normalize(x), "fipa_rank") =
                     IF Algorithm(x) = "FIPA" THEN Rank(x) ELSE "-1"
          /\ Get(Normalize(x), "fipa_grad_batches") =
                     IF Algorithm(x) = "FIPA" THEN Batches(x) ELSE "-1"
          /\ Get(Normalize(x), "feddisco_a") =
                     IF Algorithm(x) = "FedDisco" THEN A(x) ELSE "-1.0"
      BY NormalSays, SaysReads DEF Algorithm, Warmup, Rank, Batches, A
    <2> QED
      BY <2>1, <2>2, <2>3, SameReads, SaysReads DEF Algorithm
  <1>2. ASSUME NEW x
        PROVE  /\ Named(x) = "FedProx" =>
                    AlgorithmDials(x) = <<Named(x), GetOr(x, "fedprox_mu", "0.0")>>
               /\ Named(x) = "FIPA" =>
                    AlgorithmDials(x) = <<Named(x), Warmup(x), Rank(x), Batches(x)>>
               /\ Named(x) = "FedDisco" => AlgorithmDials(x) = <<Named(x), A(x)>>
               /\ Named(x) \notin {"FedProx", "FIPA", "FedDisco"}
                    => AlgorithmDials(x) = <<Named(x)>>
    BY DEF AlgorithmDials
  <1>3. Algorithm(d) = Algorithm(e) <=> Named(d) = Named(e)
    BY DEF OneSearch, GivenAlike, Get, GetOr
  <1>4. ASSUME NEW x, NEW name \in {"FedProx", "FIPA", "FedDisco"}
        PROVE  Algorithm(x) = name <=> Named(x) = name
    BY DEF Get, GetOr, Blank
  <1>5. Algorithm(d) = "FedProx" /\ Algorithm(e) = "FedProx" =>
            (Get(d, "fedprox_mu") = Get(e, "fedprox_mu")
               <=> GetOr(d, "fedprox_mu", "0.0") = GetOr(e, "fedprox_mu", "0.0"))
    BY DEF OneSearch, GivenAlike, Get, GetOr
  <1>6. AlgorithmDials(d) = AlgorithmDials(e) => Named(d) = Named(e)
    <2>1. ASSUME NEW x PROVE AlgorithmDials(x)[1] = Named(x)
      <3> HIDE DEF Named, Warmup, Rank, Batches, A
      <3> QED
        BY <1>2
    <2> HIDE DEF Named
    <2> QED
      BY <2>1
  <1> HIDE DEF Algorithm, Named, Warmup, Rank, Batches, A
  <1>7. AlikeIn(d, e, {"aggregation_algorithm", "fedprox_mu", "fipa_warmup_rounds",
                       "fipa_rank", "fipa_grad_batches", "feddisco_a"})
          <=> /\ Algorithm(d) = Algorithm(e)
              /\ Algorithm(d) = "FedProx" => Get(d, "fedprox_mu") = Get(e, "fedprox_mu")
              /\ Algorithm(d) = "FIPA" => /\ Warmup(d) = Warmup(e)
                                          /\ Rank(d) = Rank(e)
                                          /\ Batches(d) = Batches(e)
              /\ Algorithm(d) = "FedDisco" => A(d) = A(e)
    BY <1>1 DEF AlikeIn
  <1>8. CASE Named(d) # Named(e)
    BY <1>3, <1>6, <1>7, <1>8
  <1>9. CASE Named(d) = Named(e) /\ Named(d) = "FedProx"
    BY <1>2, <1>3, <1>4, <1>5, <1>7, <1>9
  <1>10. CASE Named(d) = Named(e) /\ Named(d) = "FIPA"
    BY <1>2, <1>3, <1>4, <1>7, <1>10
  <1>11. CASE Named(d) = Named(e) /\ Named(d) = "FedDisco"
    BY <1>2, <1>3, <1>4, <1>7, <1>11
  <1>12. CASE Named(d) = Named(e) /\ Named(d) \notin {"FedProx", "FIPA", "FedDisco"}
    BY <1>2, <1>3, <1>4, <1>7, <1>12
  <1> QED
    BY <1>8, <1>9, <1>10, <1>11, <1>12

LEMMA ModelAlike ==
  ASSUME NEW d, NEW e, WellFormed(d), WellFormed(e), OneSearch(d, e)
  PROVE  Get(d, "model_name") = Get(e, "model_name") /\ ModelDials(d) = ModelDials(e)
            <=> AlikeIn(d, e, {"model_name", "image_size", "convnet_hidden1",
                               "num_custom_layers"})
PROOF
  <1> DEFINE Name(x) == Get(x, "model_name")
             Image(x) == GetOr(x, "image_size", "224")
             Layers(x) == Get(x, "num_custom_layers")
             Hidden(x) == Get(x, "convnet_hidden1")
             Pretrained(x) == Name(x) \in PretrainedNets
  <1>1. ASSUME NEW x, WellFormed(x)
        PROVE  /\ Get(Normalize(x), "model_name") = Name(x)
               /\ Pretrained(x) \/ Name(x) = "ConvNet"
               /\ Pretrained(x) =>
                     /\ Get(Normalize(x), "image_size") = Image(x)
                     /\ Get(Normalize(x), "convnet_hidden1") = "-1"
                     /\ Get(Normalize(x), "num_custom_layers") = Layers(x)
               /\ Name(x) = "ConvNet" =>
                     /\ Get(Normalize(x), "image_size") = Get(x, "image_size")
                     /\ Get(Normalize(x), "convnet_hidden1") = Hidden(x)
                     /\ Get(Normalize(x), "num_custom_layers") = "-1"
    <2>1. Same(Normalize(x), x, "model_name") /\ (Pretrained(x) \/ Name(x) = "ConvNet")
      BY <1>1, NormalSays DEF Filled, WellFormed
    <2>2. "ConvNet" \notin PretrainedNets
      BY DEF PretrainedNets
    <2>3. ASSUME Pretrained(x)
          PROVE  /\ Get(Normalize(x), "image_size") = Image(x)
                 /\ Get(Normalize(x), "convnet_hidden1") = "-1"
                 /\ Get(Normalize(x), "num_custom_layers") = Layers(x)
      <3>1. /\ Says(Normalize(x), "image_size", Image(x))
            /\ Says(Normalize(x), "convnet_hidden1", GetOr(x, "convnet_hidden1", "-1"))
            /\ Same(Normalize(x), x, "num_custom_layers")
        BY <2>2, <2>3, NormalSays
      <3>2. GetOr(x, "convnet_hidden1", "-1") = "-1"
        BY <1>1, <2>2, <2>3 DEF WellFormed, GetOr
      <3> HIDE DEF Image
      <3> QED
        BY <3>1, <3>2, SaysReads, SameReads
    <2>4. ASSUME Name(x) = "ConvNet"
          PROVE  /\ Get(Normalize(x), "image_size") = Get(x, "image_size")
                 /\ Get(Normalize(x), "convnet_hidden1") = Hidden(x)
                 /\ Get(Normalize(x), "num_custom_layers") = "-1"
      <3>1. /\ Same(Normalize(x), x, "image_size")
            /\ Same(Normalize(x), x, "convnet_hidden1")
            /\ Says(Normalize(x), "num_custom_layers", GetOr(x, "num_custom_layers", "-1"))
        BY <2>2, <2>4, NormalSays
      <3>2. GetOr(x, "num_custom_layers", "-1") = "-1"
        BY <1>1, <2>2, <2>4 DEF WellFormed, GetOr
      <3> QED
        BY <3>1, <3>2, SaysReads, SameReads
    <2> QED
      BY <2>1, <2>3, <2>4, SameReads
  <1>2. ASSUME NEW x
        PROVE  ModelDials(x) =
                 IF Pretrained(x) THEN <<Image(x), GetOr(x, "num_custom_layers", "2")>>
                 ELSE <<Get(x, "image_size"), GetOr(x, "convnet_hidden1", "64")>>
    BY DEF ModelDials, ResNetDials, ConvNetDials
  <1>3. Pretrained(d) /\ Pretrained(e) =>
            (Layers(d) = Layers(e) <=>
               GetOr(d, "num_custom_layers", "2") = GetOr(e, "num_custom_layers", "2"))
    BY DEF OneSearch, GivenAlike, Get, GetOr
  <1>4. Name(d) = "ConvNet" /\ Name(e) = "ConvNet" =>
            (Hidden(d) = Hidden(e) <=>
               GetOr(d, "convnet_hidden1", "64") = GetOr(e, "convnet_hidden1", "64"))
    BY DEF OneSearch, GivenAlike, Get, GetOr
  <1>5. "ConvNet" \notin PretrainedNets
    BY DEF PretrainedNets
  <1>6. CASE Name(d) # Name(e)
    BY <1>1, <1>6 DEF AlikeIn
  <1>7. CASE Name(d) = Name(e) /\ Pretrained(d)
    <2>1. AlikeIn(d, e, {"model_name", "image_size", "convnet_hidden1",
                         "num_custom_layers"})
             <=> Image(d) = Image(e) /\ Layers(d) = Layers(e)
      <3> HIDE DEF Name, Image, Layers, Hidden
      <3> QED
        BY <1>1, <1>5, <1>7 DEF AlikeIn
    <2> HIDE DEF Name, Image, Layers, Hidden
    <2> QED
      BY <1>2, <1>3, <1>7, <2>1 DEF Name
  <1>8. CASE Name(d) = Name(e) /\ Name(d) = "ConvNet"
    <2>1. AlikeIn(d, e, {"model_name", "image_size", "convnet_hidden1",
                         "num_custom_layers"})
             <=> Get(d, "image_size") = Get(e, "image_size") /\ Hidden(d) = Hidden(e)
      <3> HIDE DEF Name, Image, Layers, Hidden
      <3> QED
        BY <1>1, <1>5, <1>8 DEF AlikeIn
    <2> HIDE DEF Name, Image, Layers, Hidden
    <2> QED
      BY <1>2, <1>4, <1>5, <1>8, <2>1 DEF Name
  <1> QED
    BY <1>1, <1>6, <1>7, <1>8

(* The keys that are compared decide about all of them.                    *)
LEMMA ComparedDecide ==
  ASSUME NEW d, NEW e, OneSearch(d, e), AlikeIn(d, e, AllPossibleSearchKeys),
         NEW key \in Untouched \cup Filled
  PROVE  Get(Normalize(d), key) = Get(Normalize(e), key)
PROOF
  <1>1. CASE key \in AllPossibleSearchKeys
    BY <1>1 DEF AlikeIn
  <1>2. CASE key \notin AllPossibleSearchKeys
    <2>1. Same(d, e, key)
      BY <1>2 DEF OneSearch
    <2>2. ASSUME NEW k \in Untouched
          PROVE  Get(d, k) = Get(e, k)
      <3>1. Same(Normalize(d), d, k) /\ Same(Normalize(e), e, k)
        BY NormalSays DEF Filled, Untouched
      <3>2. CASE k \in AllPossibleSearchKeys
        BY <3>1, <3>2, SameReads DEF AlikeIn
      <3>3. CASE k \notin AllPossibleSearchKeys
        BY <3>3, SameReads DEF OneSearch
      <3> QED
        BY <3>2, <3>3
    <2>3. CASE key \notin Filled
      <3>1. Same(Normalize(d), d, key) /\ Same(Normalize(e), e, key)
        BY <2>3, NormalSays
      <3> QED
        BY <2>1, <3>1, SameReads
    <2>4. CASE key = "fedprox_mu"
      <3>1. Get(d, "aggregation_algorithm") = Get(e, "aggregation_algorithm")
        BY <2>2 DEF Untouched
      <3>2. CASE Get(d, "aggregation_algorithm") = "FedProx"
        <4>1. Same(Normalize(d), d, key) /\ Same(Normalize(e), e, key)
          BY <2>4, <3>1, <3>2, NormalSays
        <4> QED
          BY <2>1, <4>1, SameReads
      <3>3. CASE Get(d, "aggregation_algorithm") # "FedProx"
        <4>1. Says(Normalize(d), key, "0.0") /\ Says(Normalize(e), key, "0.0")
          BY <2>4, <3>1, <3>3, NormalSays
        <4> QED
          BY <4>1, SaysReads
      <3> QED
        BY <3>2, <3>3
    <2>5. CASE key = "augmentation_rotation_degrees"
      <3> DEFINE Chosen(x) == GetOr(x, "train_augmentation", "False")
      <3>1. ASSUME NEW x
            PROVE  /\ Get(Normalize(x), "train_augmentation") = Chosen(x)
                   /\ Get(Normalize(x), key) =
                         IF Enabled(Chosen(x)) THEN GetOr(x, key, "10.0") ELSE "-1.0"
        <4> HIDE DEF Chosen
        <4> QED
          BY <2>5, NormalSays, SaysReads DEF Chosen
      <3>2. Get(Normalize(d), "train_augmentation") = Get(Normalize(e), "train_augmentation")
        BY DEF AlikeIn, AllPossibleSearchKeys, ExtraFingerprintKeys
      <3>3. GetOr(d, key, "10.0") = GetOr(e, key, "10.0")
        BY <2>1, SameReads
      <3> HIDE DEF Chosen
      <3> QED
        BY <3>1, <3>2, <3>3
    <2>6. CASE key \in {"image_size", "convnet_hidden1"}
      <3>1. Get(d, "model_name") = Get(e, "model_name")
        BY <2>2 DEF Untouched
      <3>2. CASE Get(d, "model_name") \in PretrainedNets
        <4> PICK default : \A x : Get(x, "model_name") \in PretrainedNets
                             => Says(Normalize(x), key, GetOr(x, key, default))
          BY <2>6, NormalSays
        <4>1. /\ Says(Normalize(d), key, GetOr(d, key, default))
              /\ Says(Normalize(e), key, GetOr(e, key, default))
          BY <3>1, <3>2
        <4>2. GetOr(d, key, default) = GetOr(e, key, default)
          BY <2>1, SameReads
        <4> QED
          BY <4>1, <4>2, SaysReads
      <3>3. CASE Get(d, "model_name") \notin PretrainedNets
        <4>1. Same(Normalize(d), d, key) /\ Same(Normalize(e), e, key)
          BY <2>6, <3>1, <3>3, NormalSays
        <4> QED
          BY <2>1, <4>1, SameReads
      <3> QED
        BY <3>2, <3>3
    <2>7. CASE key = "num_custom_layers"
      <3>1. Get(d, "model_name") = Get(e, "model_name")
        BY <2>2 DEF Untouched
      <3>2. CASE Get(d, "model_name") = "ConvNet"
        <4>1. /\ Says(Normalize(d), key, GetOr(d, key, "-1"))
              /\ Says(Normalize(e), key, GetOr(e, key, "-1"))
          BY <2>7, <3>1, <3>2, NormalSays
        <4>2. GetOr(d, key, "-1") = GetOr(e, key, "-1")
          BY <2>1, SameReads
        <4> QED
          BY <4>1, <4>2, SaysReads
      <3>3. CASE Get(d, "model_name") # "ConvNet"
        <4>1. Same(Normalize(d), d, key) /\ Same(Normalize(e), e, key)
          BY <2>7, <3>1, <3>3, NormalSays
        <4> QED
          BY <2>1, <4>1, SameReads
      <3> QED
        BY <3>2, <3>3
    <2>8. Filled \subseteq AllPossibleSearchKeys \cup
             {"fedprox_mu", "augmentation_rotation_degrees", "image_size",
              "convnet_hidden1", "num_custom_layers"}
      BY DEF Filled, AllPossibleSearchKeys, ExtraFingerprintKeys
    <2> QED
      BY <1>2, <2>3, <2>4, <2>5, <2>6, <2>7, <2>8
  <1> QED
    BY <1>1, <1>2

(* Two configurations of one search are taken for the same exactly when    *)
(* they ask for the same experiment.                                       *)
LEMMA FingerprintIsExperiment ==
  ASSUME NEW d, NEW e, WellFormed(d), WellFormed(e), OneSearch(d, e)
  PROVE  GetConfigFingerprint(Normalize(d)) = GetConfigFingerprint(Normalize(e))
            <=> Experiment(d) = Experiment(e)
PROOF
  <1> DEFINE Parts == {"partition_strategy", "dirichlet_alpha", "partition_unit",
                       "max_units_per_class"}
             Algorithms == {"aggregation_algorithm", "fedprox_mu", "fipa_warmup_rounds",
                            "fipa_rank", "fipa_grad_batches", "feddisco_a"}
             Augmentations == {"train_augmentation", "augmentation_rotation_degrees"}
             Models == {"model_name", "image_size", "convnet_hidden1", "num_custom_layers"}
  <1>1. GetConfigFingerprint(Normalize(d)) = GetConfigFingerprint(Normalize(e))
           <=> AlikeIn(d, e, AllPossibleSearchKeys)
    BY FingerprintReads DEF AlikeIn
  <1>2. Get(d, "encryption_mode") = Get(e, "encryption_mode")
           <=> AlikeIn(d, e, {"encryption_mode"})
    <2>1. /\ Same(Normalize(d), d, "encryption_mode")
          /\ Same(Normalize(e), e, "encryption_mode")
      BY NormalSays DEF Filled
    <2> QED
      BY <2>1, SameReads DEF AlikeIn
  <1>3. Experiment(d) = Experiment(e)
           <=> /\ AlikeIn(d, e, Parts) /\ AlikeIn(d, e, Algorithms)
               /\ AlikeIn(d, e, Augmentations) /\ AlikeIn(d, e, Models)
               /\ AlikeIn(d, e, {"encryption_mode"})
    <2>1. Experiment(d) = Experiment(e)
             <=> /\ SplitDials(d) = SplitDials(e)
                 /\ AlgorithmDials(d) = AlgorithmDials(e)
                 /\ AugmentationSpec(d) = AugmentationSpec(e)
                 /\ Get(d, "model_name") = Get(e, "model_name")
                 /\ ModelDials(d) = ModelDials(e)
                 /\ Get(d, "encryption_mode") = Get(e, "encryption_mode")
      BY DEF Experiment
    <2> QED
      BY <1>2, <2>1, SplitAlike, AlgorithmAlike, AugmentationAlike, ModelAlike
  <1>4. ASSUME AlikeIn(d, e, AllPossibleSearchKeys)
        PROVE  \A keys \in SUBSET (Untouched \cup Filled) : AlikeIn(d, e, keys)
    BY <1>4, ComparedDecide DEF AlikeIn
  <1>5. ASSUME AlikeIn(d, e, Parts), AlikeIn(d, e, Algorithms),
               AlikeIn(d, e, Augmentations), AlikeIn(d, e, Models),
               AlikeIn(d, e, {"encryption_mode"})
        PROVE  AlikeIn(d, e, AllPossibleSearchKeys)
    <2>1. ASSUME NEW key PROVE Get(Normalize(d), key) = Get(Normalize(e), key)
      <3>1. CASE key \in Untouched \cup Filled
        BY <1>5, <3>1 DEF AlikeIn, Untouched, Filled
      <3>2. CASE key \notin Untouched \cup Filled
        <4>1. /\ Same(Normalize(d), d, key) /\ Same(Normalize(e), e, key)
              /\ key \notin DOMAIN d /\ key \notin DOMAIN e
          BY <3>2, NormalSays DEF WellFormed
        <4> QED
          BY <4>1 DEF Same, Get
      <3> QED
        BY <3>1, <3>2
    <2> QED
      BY <2>1 DEF AlikeIn
  <1>6. Parts \cup Algorithms \cup Augmentations \cup Models \cup {"encryption_mode"}
           \subseteq Untouched \cup Filled
    BY DEF Untouched, Filled
  <1> QED
    BY <1>1, <1>3, <1>4, <1>5, <1>6
-----------------------------------------------------------------------------
(* Sorting keeps the keys, all of them, and gives each a place of its own: *)
(* the ranks of the places they have in the order are 1, 2, ... in turn.   *)
Rank(places, i) == Cardinality({j \in places : j <= i})

LEMMA RanksAreNumbered ==
  ASSUME NEW last \in Nat, NEW places \in SUBSET (1..last)
  PROVE  /\ Cardinality(places) \in Nat
         /\ \A i \in places : Rank(places, i) \in 1..Cardinality(places)
         /\ \A i, j \in places : Rank(places, i) = Rank(places, j) => i = j
         /\ \A n \in 1..Cardinality(places) : \E i \in places : Rank(places, i) = n
PROOF
  <1> DEFINE Below(i) == {j \in places : j <= i}
             size == Cardinality(places)
  <1>0. places \subseteq Int
    OBVIOUS
  <1>1. IsFiniteSet(places) /\ size \in Nat
    <2>1. IsFiniteSet(1..last)
      BY FS_Interval
    <2> QED
      BY <2>1, FS_Subset, FS_CardinalityType
  <1>2. ASSUME NEW i \in places
        PROVE  /\ Below(i) \in SUBSET places
               /\ IsFiniteSet(Below(i))
               /\ Rank(places, i) \in Nat
               /\ Rank(places, i) <= size
               /\ Rank(places, i) # 0
    <2>1. Below(i) \in SUBSET places /\ i \in Below(i)
      OBVIOUS
    <2>2. IsFiniteSet(Below(i)) /\ Cardinality(Below(i)) <= size
      BY <1>1, <2>1, FS_Subset
    <2> QED
      BY <2>1, <2>2, FS_CardinalityType, FS_EmptySet DEF Rank
  <1>3. ASSUME NEW i \in places, NEW j \in places, i < j
        PROVE  Rank(places, i) < Rank(places, j)
    <2>1. j \notin Below(i) /\ Below(i) \cup {j} \in SUBSET Below(j)
      <3>1. i \in Int /\ j \in Int /\ i < j
        BY <1>0, <1>3
      <3>2. ASSUME NEW k \in Below(i) PROVE k \in Below(j)
        <4>1. k \in Int /\ k <= i
          BY <1>0
        <4> QED
          BY <3>1, <4>1
      <3>3. j \notin Below(i) /\ j \in Below(j)
        BY <3>1
      <3> HIDE DEF Below
      <3> QED
        BY <3>2, <3>3
    <2>2. /\ IsFiniteSet(Below(i) \cup {j})
          /\ Cardinality(Below(i) \cup {j}) = Cardinality(Below(i)) + 1
      BY <1>2, <2>1, FS_AddElement
    <2>3. Cardinality(Below(i) \cup {j}) <= Cardinality(Below(j))
      BY <1>2, <2>1, FS_Subset
    <2> QED
      BY <1>2, <2>2, <2>3 DEF Rank
  <1>4. ASSUME NEW i \in places, NEW j \in places, Rank(places, i) = Rank(places, j)
        PROVE  i = j
    <2>1. i \in Int /\ j \in Int
      BY <1>0
    <2>2. Rank(places, i) \in Nat /\ Rank(places, j) \in Nat
      BY <1>2
    <2>3. ~(i < j) /\ ~(j < i)
      BY <1>3, <1>4, <2>2
    <2> QED
      BY <2>1, <2>3
  <1>5. ASSUME NEW i \in places PROVE Rank(places, i) \in 1..size
    <2>1. Rank(places, i) \in Nat /\ Rank(places, i) <= size /\ Rank(places, i) # 0
      BY <1>2
    <2> HIDE DEF size
    <2> QED
      BY <1>1, <2>1
  <1>6. ASSUME NEW n \in 1..size
        PROVE  \E i \in places : Rank(places, i) = n
    <2> DEFINE f == [i \in places |-> Rank(places, i)]
    <2>1. f \in Injection(places, 1..size)
      BY <1>4, <1>5 DEF Injection, IsInjective
    <2>2. IsFiniteSet(1..size) /\ Cardinality(1..size) = size
      <3>1. Cardinality(1..size) = IF 1 > size THEN 0 ELSE size - 1 + 1
        BY <1>1, FS_Interval
      <3> QED
        BY <1>1, <3>1, FS_Interval
    <2>3. f \in Surjection(places, 1..size)
      BY <2>1, <2>2, FS_Injection
    <2> QED
      BY <2>3 DEF Surjection
  <1> QED
    BY <1>1, <1>4, <1>5, <1>6

LEMMA SortedKeepsKeys ==
  ASSUME NEW keys
  PROVE  /\ Len(SortedKeys(keys)) \in Nat
         /\ DOMAIN SortedKeys(keys) = 1..Len(SortedKeys(keys))
         /\ \A n \in DOMAIN SortedKeys(keys) : SortedKeys(keys)[n] \in KeyNames \cap keys
         /\ \A key \in KeyNames \cap keys :
                \E n \in DOMAIN SortedKeys(keys) : SortedKeys(keys)[n] = key
PROOF
  <1> DEFINE places == {i \in DOMAIN KeyOrder : KeyOrder[i] \in keys}
             size == Cardinality(places)
             s == SortedKeys(keys)
             At(n) == CHOOSE i \in places : Rank(places, i) = n
  <1>1. DOMAIN KeyOrder = 1..Len(KeyOrder) /\ Len(KeyOrder) \in Nat
    BY DEF KeyOrder
  <1>2. places \in SUBSET (1..Len(KeyOrder))
    BY <1>1
  <1>3. s = [n \in 1..size |-> KeyOrder[At(n)]]
    BY DEF SortedKeys, Rank
  <1> HIDE DEF places, s
  <1>4. /\ size \in Nat
        /\ \A i \in places : Rank(places, i) \in 1..size
        /\ \A i, j \in places : Rank(places, i) = Rank(places, j) => i = j
        /\ \A n \in 1..size : \E i \in places : Rank(places, i) = n
    BY <1>1, <1>2, RanksAreNumbered
  <1>5. ASSUME NEW n \in 1..size PROVE At(n) \in places /\ Rank(places, At(n)) = n
    BY <1>4
  <1>6. ASSUME NEW i \in places PROVE At(Rank(places, i)) = i
    BY <1>4, <1>5
  <1> HIDE DEF At
  <1>7. DOMAIN s = 1..size /\ Len(s) = size
    BY <1>3, <1>4
  <1>8. ASSUME NEW n \in DOMAIN s PROVE s[n] \in KeyNames \cap keys
    <2>1. At(n) \in places /\ s[n] = KeyOrder[At(n)]
      BY <1>3, <1>5, <1>7
    <2> QED
      BY <2>1 DEF places, KeyNames
  <1>9. ASSUME NEW key \in KeyNames \cap keys PROVE \E n \in DOMAIN s : s[n] = key
    <2>1. PICK i \in places : KeyOrder[i] = key
      BY DEF places, KeyNames
    <2>2. Rank(places, i) \in DOMAIN s /\ s[Rank(places, i)] = key
      BY <1>3, <1>4, <1>6, <1>7, <2>1
    <2> QED
      BY <2>2
  <1> QED
    BY <1>4, <1>7, <1>8, <1>9 DEF s
-----------------------------------------------------------------------------
(* A line under a header that names its keys is read back as it was        *)
(* written.                                                                *)
LEMMA RowReadsBack ==
  ASSUME NEW f, NEW summary, NEW i, DOMAIN summary \subseteq KeyNames,
         IsFcn(summary),
         f.header = SortedKeys(DOMAIN summary),
         f.rows[i] = Values(f.header, summary)
  PROVE  RowEntry(f, i) = summary
PROOF
  <1> DEFINE h == f.header
             At(key) == CHOOSE j \in DOMAIN h : h[j] = key
  <1>1. /\ Len(h) \in Nat /\ DOMAIN h = 1..Len(h)
        /\ \A n \in DOMAIN h : h[n] \in DOMAIN summary
        /\ \A key \in DOMAIN summary : \E n \in DOMAIN h : h[n] = key
    <2>1. h = SortedKeys(DOMAIN summary) /\ KeyNames \cap DOMAIN summary = DOMAIN summary
      OBVIOUS
    <2> HIDE DEF h
    <2> QED
      BY <2>1, SortedKeepsKeys
  <1>2. f.rows[i] = [n \in 1..Len(h) |-> Get(summary, h[n])]
    BY <1>1 DEF Values
  <1>3. Len(f.rows[i]) = Len(h)
    BY <1>1, <1>2
  <1>4. Header(f) = DOMAIN summary
    <2>1. Header(f) = {h[n] : n \in DOMAIN h}
      BY DEF Header
    <2> HIDE DEF h
    <2> QED
      BY <1>1, <2>1
  <1> HIDE DEF h
  <1>5. ASSUME NEW key \in DOMAIN summary
        PROVE  /\ At(key) <= Len(f.rows[i])
               /\ f.rows[i][At(key)] = summary[key]
    <2>1. \E j \in DOMAIN h : h[j] = key
      BY <1>1
    <2>2. At(key) \in 1..Len(h) /\ h[At(key)] = key
      BY <1>1, <2>1
    <2> HIDE DEF At
    <2>3. f.rows[i][At(key)] = Get(summary, key)
      BY <1>2, <2>2
    <2> QED
      BY <1>1, <1>3, <2>2, <2>3 DEF Get
  <1>6. RowEntry(f, i) = [key \in DOMAIN summary |->
            IF At(key) <= Len(f.rows[i]) THEN f.rows[i][At(key)] ELSE Blank]
    BY <1>4 DEF RowEntry, h
  <1> HIDE DEF At
  <1>7. RowEntry(f, i) = [key \in DOMAIN summary |-> summary[key]]
    BY <1>5, <1>6
  <1> QED
    BY <1>7 DEF IsFcn

LEMMA FirstRowReadsBack ==
  ASSUME NEW summary, DOMAIN summary \subseteq KeyNames,
         IsFcn(summary)
  PROVE  RowEntry(AppendedTo(EmptyFile, FieldNames(EmptyFile, summary), TRUE, summary), 1)
            = summary
PROOF
  <1> DEFINE names == FieldNames(EmptyFile, summary)
             f == AppendedTo(EmptyFile, names, TRUE, summary)
  <1>1. names = SortedKeys(DOMAIN summary)
    <2>1. Header(EmptyFile) = {}
      BY DEF Header, EmptyFile
    <2>2. DOMAIN summary \cup Header(EmptyFile) = DOMAIN summary
      BY <2>1
    <2> QED
      BY <2>2 DEF FieldNames
  <1> HIDE DEF names
  <1>2. f = [header |-> names, rows |-> <<Values(names, summary)>>]
    BY DEF AppendedTo, EmptyFile
  <1> HIDE DEF f
  <1>3. f.header = SortedKeys(DOMAIN summary) /\ f.rows[1] = Values(f.header, summary)
    BY <1>1, <1>2
  <1> QED
    BY <1>3, RowReadsBack DEF names, f

(* What a run leaves of its configuration: all of it, and the scores.      *)
LEMMA SummaryAgrees ==
  ASSUME NEW config
  PROVE  /\ Agree(RunSummary(config), config)
         /\ IsFcn(RunSummary(config))
         /\ DOMAIN config \subseteq DOMAIN RunSummary(config)
         /\ "best_f1" \in DOMAIN RunSummary(config)
         /\ DOMAIN RunSummary(config) \subseteq DOMAIN config \cup Scores
         /\ \A key \in DOMAIN RunSummary(config) :
                \/ RunSummary(config)[key] \in {"scored", "saved"}
                \/ key \in DOMAIN config /\ RunSummary(config)[key] = config[key]
PROOF
  <1> DEFINE r == RunSummary(config)
  <1>1. PICK scores : /\ r = Update(config, scores)
                      /\ "best_f1" \in DOMAIN scores /\ DOMAIN scores \subseteq Scores
                      /\ \A key \in DOMAIN scores : scores[key] \in {"scored", "saved"}
    <2> DEFINE best == [best_f1 |-> "scored"]
               both == Update(best, [checkpoint_path |-> "saved"])
    <2>1. /\ "best_f1" \in DOMAIN both /\ DOMAIN both \subseteq Scores
          /\ \A key \in DOMAIN both : both[key] \in {"scored", "saved"}
      BY DEF Update, Scores
    <2>2. /\ "best_f1" \in DOMAIN best /\ DOMAIN best \subseteq Scores
          /\ \A key \in DOMAIN best : best[key] \in {"scored", "saved"}
      BY DEF Scores
    <2>3. r = Update(config, both) \/ r = Update(config, best)
      BY DEF RunSummary
    <2> HIDE DEF best, both, r
    <2> QED
      BY <2>1, <2>2, <2>3
  <1>2. r = [key \in DOMAIN config \cup DOMAIN scores |->
                IF key \in DOMAIN scores THEN scores[key] ELSE config[key]]
    BY <1>1 DEF Update
  <1> HIDE DEF r
  <1>3. Agree(r, config)
    BY <1>1, <1>2 DEF Agree, Same
  <1>4. DOMAIN r = DOMAIN config \cup DOMAIN scores
    BY <1>2
  <1>5. r = [key \in DOMAIN r |-> r[key]]
    BY <1>2
  <1>6. \A key \in DOMAIN r :
           \/ r[key] \in {"scored", "saved"}
           \/ key \in DOMAIN config /\ r[key] = config[key]
    BY <1>1, <1>2
  <1> QED
    BY <1>1, <1>3, <1>4, <1>5, <1>6 DEF r, IsFcn

(* A configuration normalised is a function, of its own keys and of keys   *)
(* that are filled in.                                                     *)
LEMMA NormalIsFcn ==
  ASSUME NEW e
  PROVE  /\ IsFcn(Normalize(e))
         /\ DOMAIN Normalize(e) \subseteq DOMAIN e \cup Filled
         /\ DOMAIN e \subseteq DOMAIN Normalize(e)
PROOF
  <1>1. ASSUME NEW d, NEW pins
        PROVE  IsFcn(Update(d, pins)) /\ IsFcn(SetDefaults(d, pins))
    BY DEF IsFcn, SetDefaults, Update
  <1>2. ASSUME NEW d PROVE IsFcn(NormalizePartitionKeys(d))
    BY <1>1 DEF NormalizePartitionKeys
  <1>3. ASSUME NEW d, IsFcn(d)
        PROVE  /\ IsFcn(NormalizeFipaKeys(d)) /\ IsFcn(NormalizeFeddiscoKeys(d))
               /\ IsFcn(NormalizeAugmentationKeys(d)) /\ IsFcn(NormalizeModelKeys(d))
    BY <1>1, <1>3 DEF NormalizeFipaKeys, NormalizeFeddiscoKeys,
                      NormalizeAugmentationKeys, NormalizeModelKeys
  <1>4. IsFcn(Normalize(e))
    BY <1>2, <1>3 DEF Normalize
  <1>5. ASSUME NEW key, key \notin Filled PROVE Same(Normalize(e), e, key)
    BY <1>5, NormalSays
  <1>6. ASSUME NEW key \in Filled, key \in DOMAIN e PROVE key \in DOMAIN Normalize(e)
    <2>1. Same(Normalize(e), e, key) \/ \E value : Says(Normalize(e), key, value)
      BY NormalSays DEF Filled
    <2> QED
      BY <1>6, <2>1 DEF Same, Says
  <1> QED
    BY <1>4, <1>5, <1>6 DEF Same

LEMMA KnownKeys == Untouched \cup Filled \cup Scores \subseteq KeyNames
PROOF
  <1>1. DOMAIN KeyOrder = 1..19
    BY DEF KeyOrder
  <1>2. /\ KeyOrder[1] = "aggregation_algorithm" /\ KeyOrder[2] = "augmentation_rotation_degrees"
        /\ KeyOrder[3] = "best_f1" /\ KeyOrder[4] = "checkpoint_path"
        /\ KeyOrder[5] = "convnet_hidden1" /\ KeyOrder[6] = "dirichlet_alpha"
        /\ KeyOrder[7] = "encryption_mode" /\ KeyOrder[8] = "feddisco_a"
        /\ KeyOrder[9] = "fedprox_mu" /\ KeyOrder[10] = "fipa_grad_batches"
        /\ KeyOrder[11] = "fipa_rank" /\ KeyOrder[12] = "fipa_warmup_rounds"
        /\ KeyOrder[13] = "image_size" /\ KeyOrder[14] = "max_units_per_class"
        /\ KeyOrder[15] = "model_name" /\ KeyOrder[16] = "num_custom_layers"
        /\ KeyOrder[17] = "partition_strategy" /\ KeyOrder[18] = "partition_unit"
        /\ KeyOrder[19] = "train_augmentation"
    BY DEF KeyOrder
  <1>3. \A i \in 1..19 : KeyOrder[i] \in KeyNames
    BY <1>1 DEF KeyNames
  <1>4. /\ KeyOrder[1] \in KeyNames /\ KeyOrder[2] \in KeyNames /\ KeyOrder[3] \in KeyNames
        /\ KeyOrder[4] \in KeyNames /\ KeyOrder[5] \in KeyNames /\ KeyOrder[6] \in KeyNames
        /\ KeyOrder[7] \in KeyNames /\ KeyOrder[8] \in KeyNames /\ KeyOrder[9] \in KeyNames
        /\ KeyOrder[10] \in KeyNames /\ KeyOrder[11] \in KeyNames /\ KeyOrder[12] \in KeyNames
        /\ KeyOrder[13] \in KeyNames /\ KeyOrder[14] \in KeyNames /\ KeyOrder[15] \in KeyNames
        /\ KeyOrder[16] \in KeyNames /\ KeyOrder[17] \in KeyNames /\ KeyOrder[18] \in KeyNames
        /\ KeyOrder[19] \in KeyNames
    BY <1>3
  <1> QED
    BY <1>2, <1>4 DEF Untouched, Filled, Scores

(* What is filled in is a value as str() writes it.                        *)
Strings(e) == \A key \in DOMAIN e : e[key] \in STRING

LEMMA UpdateStrings ==
  ASSUME NEW e, NEW pins, Strings(e), Strings(pins)
  PROVE  Strings(Update(e, pins)) /\ Strings(SetDefaults(e, pins))
BY DEF Strings, SetDefaults, Update

LEMMA NormalStrings ==
  ASSUME NEW e, Strings(e)
  PROVE  /\ Strings(Normalize(e))
         /\ Strings(NormalizeModelKeys(NormalizeProximal(e)))
PROOF
  <1>0. /\ Blank \in STRING /\ "0.0" \in STRING /\ "stratified" \in STRING
        /\ "-1.0" \in STRING /\ "n/a" \in STRING /\ "0.5" \in STRING
        /\ "track" \in STRING /\ "0" \in STRING /\ "-1" \in STRING
        /\ "5" \in STRING /\ "False" \in STRING /\ "10.0" \in STRING
        /\ "224" \in STRING
    BY WrittenAssumption
  <1>1. /\ Strings([fedprox_mu |-> "0.0"])
        /\ Strings([partition_strategy |-> "stratified"])
        /\ Strings([train_augmentation |-> "False"])
        /\ Strings([image_size |-> "224", convnet_hidden1 |-> "-1"])
        /\ Strings([num_custom_layers |-> "-1"])
        /\ Strings(PartitionInactive) /\ Strings(PartitionDefaults)
        /\ Strings(FipaInactive) /\ Strings(FipaDefaults)
        /\ Strings(FeddiscoInactive) /\ Strings(FeddiscoDefaults)
        /\ Strings(AugmentationInactive) /\ Strings(AugmentationDefaults)
    <2>1. Strings([fedprox_mu |-> "0.0"])
      BY <1>0 DEF Strings
    <2>2. Strings([partition_strategy |-> "stratified"])
      BY <1>0 DEF Strings
    <2>3. Strings([train_augmentation |-> "False"])
      BY <1>0 DEF Strings
    <2>4. Strings([image_size |-> "224", convnet_hidden1 |-> "-1"])
      BY <1>0 DEF Strings
    <2>5. Strings([num_custom_layers |-> "-1"])
      BY <1>0 DEF Strings
    <2>6. Strings(PartitionInactive) /\ Strings(PartitionDefaults)
      BY <1>0 DEF Strings, PartitionInactive, PartitionDefaults
    <2>7. Strings(FipaInactive) /\ Strings(FipaDefaults)
      BY <1>0 DEF Strings, FipaInactive, FipaDefaults
    <2>8. Strings(FeddiscoInactive) /\ Strings(FeddiscoDefaults)
      BY <1>0 DEF Strings, FeddiscoInactive, FeddiscoDefaults
    <2>9. Strings(AugmentationInactive) /\ Strings(AugmentationDefaults)
      BY <1>0 DEF Strings, AugmentationInactive, AugmentationDefaults
    <2> QED
      BY <2>1, <2>2, <2>3, <2>4, <2>5, <2>6, <2>7, <2>8, <2>9
  <1>2. ASSUME NEW d, Strings(d)
        PROVE  /\ Strings(NormalizeProximal(d)) /\ Strings(NormalizePartitionKeys(d))
               /\ Strings(NormalizeFipaKeys(d)) /\ Strings(NormalizeFeddiscoKeys(d))
               /\ Strings(NormalizeAugmentationKeys(d)) /\ Strings(NormalizeModelKeys(d))
    BY <1>1, <1>2, UpdateStrings
    DEF NormalizeProximal, NormalizePartitionKeys, NormalizeFipaKeys,
        NormalizeFeddiscoKeys, NormalizeAugmentationKeys, NormalizeModelKeys
  <1> QED
    BY <1>2 DEF Normalize
=============================================================================
