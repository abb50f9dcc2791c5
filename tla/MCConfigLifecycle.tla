--------------------------- MODULE MCConfigLifecycle ---------------------------
(* Instances of ConfigLifecycle: every pair of configurations that differ  *)
(* in the keys of one of the three normalisations.                         *)
EXTENDS ConfigLifecycle, TLC

MCSearchKeys ==
    {"aggregation_algorithm", "fedprox_mu", "encryption_mode", "image_size",
     "num_custom_layers", "convnet_hidden1", "augmentation_rotation_degrees"}

Either(key, values) == {key :> value : value \in values}
Optional(key, values) == Either(key, values) \cup {[k \in {} |-> Blank]}
Cross(S, T) == {s @@ t : s \in S, t \in T}

ResNet == Either("model_name", {"ResNet18"})

FixedRest == {[encryption_mode |-> "no_encryption", num_custom_layers |-> "2"]}

PartitionConfigs ==
    {c \in Cross(Either("aggregation_algorithm", {"FedAvg"}), Cross(ResNet,
            Cross(FixedRest, Cross(Optional("partition_strategy", {"stratified", "dirichlet"}),
            Cross(Optional("dirichlet_alpha", {"0.1", "0.5"}),
            Cross(Optional("partition_unit", {"image", "track"}),
                  Optional("max_units_per_class", {"2"}))))))) :
        "max_units_per_class" \in DOMAIN c => Get(c, "partition_strategy") = "dirichlet"}

AlgorithmConfigs ==
    {c \in Cross(Either("aggregation_algorithm", {"FedAvg", "FedProx", "FIPA", "FedDisco"}),
            Cross(ResNet, Cross(FixedRest, Cross(Optional("fedprox_mu", {"0.05"}),
            Cross(Optional("fipa_warmup_rounds", {"3"}),
            Cross(Optional("fipa_rank", {"5", "20"}),
            Cross(Optional("fipa_grad_batches", {"64"}),
                  Optional("feddisco_a", {"0.5", "0.7"})))))))) :
        Get(c, "aggregation_algorithm") = "FedProx" => "fedprox_mu" \in DOMAIN c}

ModelConfigs ==
    Cross(Either("aggregation_algorithm", {"FedAvg"}),
    Cross(Either("encryption_mode", {"no_encryption", "direct_encrypted_update"}),
    Cross(Optional("train_augmentation", {"True", "False"}),
    Cross(Optional("augmentation_rotation_degrees", {"10.0", "15.0"}),
          Cross(ResNet, Cross(Either("num_custom_layers", {"2", "0"}),
                              Optional("image_size", {"224", "128"})))
            \cup Cross(Either("model_name", {"ConvNet"}),
                       Cross(Either("convnet_hidden1", {"32", "64"}),
                             Either("image_size", {"32", "128"})))))))

MCPairs == UNION {S \X S : S \in {PartitionConfigs, AlgorithmConfigs, ModelConfigs}}
=============================================================================
