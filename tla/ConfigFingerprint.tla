--------------------------- MODULE ConfigFingerprint ---------------------------
(***************************************************************************)
(* How the grid search decides that a configuration has already been run:  *)
(* config_fingerprint.py and the normalisation that                        *)
(* federated_grid_search.main applies to both of its inputs, the           *)
(* configurations it generates and the rows of the results file.  Either   *)
(* is a function from its keys to values as str() writes them; Blank is    *)
(* None, the empty string and what csv writes for None.  fipa_rank stands  *)
(* for itself and fipa_pinv_rtol, feddisco_a for feddisco_b, the rotation  *)
(* for the other augmentation dials: each pair is treated alike.           *)
(***************************************************************************)
\* The search axes the grid files declare.
CONSTANT SearchKeys

ASSUME SearchKeysAssumption ==
    SearchKeys \subseteq STRING \ {"best_f1", "checkpoint_path"}

Blank == ""

\* What is written into an entry is a string; a fact about literals, which is
\* stated because the provers do not know it.
ASSUME WrittenAssumption ==
    {Blank, "0.0", "stratified", "-1.0", "n/a", "0.5", "track", "0", "-1", "5",
     "False", "10.0", "224", "scored", "saved"} \subseteq STRING

Get(e, key) == IF key \in DOMAIN e THEN e[key] ELSE Blank
GetOr(e, key, default) == IF key \in DOMAIN e THEN e[key] ELSE default

PartitionInactive == [dirichlet_alpha |-> "-1.0", partition_unit |-> "n/a"]
PartitionDefaults == [dirichlet_alpha |-> "0.5", partition_unit |-> "track"]
\* Mutant: -1 for every FIPA key, the case the comment at FIPA_INACTIVE_VALUES
\* warns of.
FipaInactiveNegative ==
    [fipa_warmup_rounds |-> "-1", fipa_rank |-> "-1", fipa_grad_batches |-> "-1"]

FipaInactive ==
    [fipa_warmup_rounds |-> "0", fipa_rank |-> "-1", fipa_grad_batches |-> "-1"]
FipaDefaults ==
    [fipa_warmup_rounds |-> "0", fipa_rank |-> "5", fipa_grad_batches |-> Blank]
FeddiscoInactive == [feddisco_a |-> "-1.0"]
FeddiscoDefaults == [feddisco_a |-> "0.5"]
AugmentationInactive == [augmentation_rotation_degrees |-> "-1.0"]
AugmentationDefaults == [augmentation_rotation_degrees |-> "10.0"]

ExtraFingerprintKeys ==
    {"dataset_name", "train_augmentation", "model_name", "partition_strategy",
     "dirichlet_alpha", "partition_unit", "max_units_per_class",
     "fipa_warmup_rounds", "fipa_rank", "fipa_grad_batches", "feddisco_a"}

\* dict.update, and a setdefault for every key.
Update(e, pins) ==
    [key \in DOMAIN e \cup DOMAIN pins |-> IF key \in DOMAIN pins THEN pins[key] ELSE e[key]]
SetDefaults(e, defaults) == Update(defaults, e)

NormalizeProximal(e) ==
    IF Get(e, "aggregation_algorithm") # "FedProx"
    THEN Update(e, [fedprox_mu |-> "0.0"]) ELSE e

NormalizePartitionKeys(e) ==
    LET d == SetDefaults(e, [partition_strategy |-> "stratified"])
    IN  IF d.partition_strategy # "dirichlet"
        THEN Update(d, PartitionInactive) ELSE SetDefaults(d, PartitionDefaults)

NormalizeFipaKeys(e) ==
    IF Get(e, "aggregation_algorithm") # "FIPA"
    THEN Update(e, FipaInactive) ELSE SetDefaults(e, FipaDefaults)

NormalizeFeddiscoKeys(e) ==
    IF Get(e, "aggregation_algorithm") # "FedDisco"
    THEN Update(e, FeddiscoInactive) ELSE SetDefaults(e, FeddiscoDefaults)

Enabled(value) == value \in {"True", "true", "1", "yes"}

NormalizeAugmentationKeys(e) ==
    LET d == SetDefaults(e, [train_augmentation |-> "False"])
    IN  IF ~Enabled(d.train_augmentation)
        THEN Update(d, AugmentationInactive) ELSE SetDefaults(d, AugmentationDefaults)

\* ResNet18 for every name that contains ResNet.
PretrainedNets == {"ResNet18", "GoogLeNet", "AlexNet"}

NormalizeModelKeys(e) ==
    LET model == Get(e, "model_name")
    IN  IF model \in PretrainedNets
        THEN SetDefaults(e, [image_size |-> "224", convnet_hidden1 |-> "-1"])
        ELSE IF model = "ConvNet" THEN SetDefaults(e, [num_custom_layers |-> "-1"])
        ELSE e

\* The configuration that is queued, and the row as it is compared.
Normalize(e) ==
    NormalizeModelKeys(NormalizeAugmentationKeys(NormalizeFeddiscoKeys(
        NormalizeFipaKeys(NormalizePartitionKeys(NormalizeProximal(e))))))

AllPossibleSearchKeys == SearchKeys \cup ExtraFingerprintKeys

\* Mutant: alpha is left out, the module docstring's own example.
FingerprintWithoutAlpha(e) ==
    {<<key, e[key]>> : key \in {k \in AllPossibleSearchKeys \cap DOMAIN e :
                                    e[k] # Blank /\ k # "dirichlet_alpha"}}

GetConfigFingerprint(e) ==
    {<<key, e[key]>> : key \in {k \in AllPossibleSearchKeys \cap DOMAIN e :
                                    e[k] # Blank}}
-----------------------------------------------------------------------------
\* What a run reads of its configuration. Two places read keys whatever the
\* configuration is for, and refuse some values: the splitter's constructor reads
\* alpha and unit under every strategy, and effective_algorithm the warm-up in
\* every round of every algorithm. Of the values that are refused the sentinels
\* and the zero stand for the others.
SplitterAccepts(e) ==
    /\ GetOr(e, "partition_strategy", "stratified") \in {"stratified", "dirichlet"}
    /\ GetOr(e, "partition_unit", "track") \in {"image", "track"}
    /\ GetOr(e, "dirichlet_alpha", "0.5") \notin {"-1.0", "0.0"}

RoundsAccept(e) == GetOr(e, "fipa_warmup_rounds", "0") # "-1"

\* What decides the experiment, once nothing was refused: each group is used
\* under the setting it belongs to only.
SplitDials(e) ==
    IF GetOr(e, "partition_strategy", "stratified") = "dirichlet"
    THEN <<GetOr(e, "dirichlet_alpha", "0.5"),
           GetOr(e, "partition_unit", "track"), Get(e, "max_units_per_class")>>
    ELSE <<>>

AlgorithmDials(e) ==
    LET algorithm == GetOr(e, "aggregation_algorithm", "FedAvg")
    IN  CASE algorithm = "FedProx" ->
                 <<algorithm, GetOr(e, "fedprox_mu", "0.0")>>
          [] algorithm = "FIPA" ->
                 <<algorithm, GetOr(e, "fipa_warmup_rounds", "0"),
                   GetOr(e, "fipa_rank", "5"), Get(e, "fipa_grad_batches")>>
          [] algorithm = "FedDisco" ->
                 <<algorithm, GetOr(e, "feddisco_a", "0.5")>>
          [] OTHER -> <<algorithm>>

AugmentationSpec(e) ==
    IF Enabled(GetOr(e, "train_augmentation", "False"))
    THEN <<GetOr(e, "augmentation_rotation_degrees", "10.0")>> ELSE <<>>

ResNetDials(e) == <<GetOr(e, "image_size", "224"), GetOr(e, "num_custom_layers", "2")>>

ConvNetDials(e) == <<Get(e, "image_size"), GetOr(e, "convnet_hidden1", "64")>>

ModelDials(e) ==
    IF Get(e, "model_name") \in PretrainedNets
    THEN ResNetDials(e) ELSE ConvNetDials(e)

\* Two configurations with the same value ask for the same experiment.
Experiment(e) ==
    [split |-> SplitDials(e), algorithm |-> AlgorithmDials(e),
     augmentation |-> AugmentationSpec(e),
     name |-> Get(e, "model_name"), model |-> ModelDials(e),
     encryption |-> Get(e, "encryption_mode")]

\* Neither of the two places refuses the configuration.
Runs(e) == SplitterAccepts(e) /\ RoundsAccept(e)
-----------------------------------------------------------------------------
(* What the grid files keep to.  A configuration has the program's keys,   *)
(* some of which the normalisation may fill in, names one of its networks  *)
(* and gives no dials of another one.                                      *)
Filled ==
    {"fedprox_mu", "partition_strategy", "dirichlet_alpha", "partition_unit",
     "fipa_warmup_rounds", "fipa_rank", "fipa_grad_batches", "feddisco_a",
     "train_augmentation", "augmentation_rotation_degrees", "image_size",
     "convnet_hidden1", "num_custom_layers"}

Untouched ==
    {"aggregation_algorithm", "model_name", "encryption_mode", "max_units_per_class"}

WellFormed(e) ==
    /\ DOMAIN e \subseteq Untouched \cup Filled
    /\ \A key \in DOMAIN e : e[key] \in STRING
    /\ Get(e, "model_name") \in PretrainedNets \cup {"ConvNet"}
    /\ GetOr(e, "train_augmentation", "False") \in {"True", "False"}
    /\ GetOr(e, "partition_strategy", "stratified") \in {"stratified", "dirichlet"}
    /\ Get(e, "max_units_per_class") # Blank => Get(e, "partition_strategy") = "dirichlet"
    /\ "num_custom_layers" \in DOMAIN e => Get(e, "model_name") \in PretrainedNets
    /\ "convnet_hidden1" \in DOMAIN e => Get(e, "model_name") = "ConvNet"

\* Both say the same of a key: the same value, or nothing.
Same(d, e, key) ==
    /\ key \in DOMAIN d <=> key \in DOMAIN e
    /\ key \in DOMAIN e => d[key] = e[key]

GivenAlike(d, e, key) == key \in DOMAIN d <=> key \in DOMAIN e

\* Two configurations of one search differ in its axes only, and a key that
\* nothing fills in is given in both or in neither.
OneSearch(d, e) ==
    /\ \A key \in (Untouched \cup Filled) \ AllPossibleSearchKeys : Same(d, e, key)
    /\ GivenAlike(d, e, "aggregation_algorithm")
    /\ Get(d, "aggregation_algorithm") = "FedProx" /\ Get(e, "aggregation_algorithm") = "FedProx"
          => GivenAlike(d, e, "fedprox_mu")
    /\ Get(d, "model_name") \in PretrainedNets /\ Get(e, "model_name") \in PretrainedNets
          => GivenAlike(d, e, "num_custom_layers")
    /\ Get(d, "model_name") = "ConvNet" /\ Get(e, "model_name") = "ConvNet"
          => GivenAlike(d, e, "convnet_hidden1")

\* What a run adds to its configuration: no search key, and none of the others.
Scores == {"best_f1", "checkpoint_path"}
=============================================================================
