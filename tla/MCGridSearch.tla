----------------------------- MODULE MCGridSearch -----------------------------
(* Instances of GridSearch.                                                *)
EXTENDS GridSearch, TLC

MCSearchKeys == {"aggregation_algorithm", "encryption_mode"}

Config(algorithm, alpha) ==
    [model_name |-> "ResNet18", aggregation_algorithm |-> algorithm,
     partition_strategy |-> "dirichlet", dirichlet_alpha |-> alpha]

WithRank(config, rank) == config @@ [fipa_rank |-> rank]

Encrypt(config) == config @@ [encryption_mode |-> "direct_encrypted_update"]

\* A sweep in which a dial of one algorithm multiplies the runs of another,
\* and one that shares a run with it and asks for splits that cannot be drawn,
\* once with a Trusted Authority and once without.
Sweep ==
    <<WithRank(Config("FedAvg", "0.1"), "5"), WithRank(Config("FedAvg", "0.1"), "20"),
      WithRank(Config("FIPA", "0.1"), "20")>>
Wider ==
    <<WithRank(Config("FIPA", "0.1"), "20"), Encrypt(Config("FedAvg", "0.01")),
      Config("FedAvg", "0.01")>>

MCGrids == {Sweep, Wider}

\* What a run of the program left before it had the keys of its extensions.
OldRow == [model_name |-> "ResNet18", aggregation_algorithm |-> "FedAvg",
           best_f1 |-> "scored", fedprox_mu |-> "0.0"]
OldFile == AppendedTo(EmptyFile, FieldNames(EmptyFile, OldRow), TRUE, OldRow)

NewFile == {EmptyFile}
FilesOfBefore == {OldFile}
MCStarving == {"0.01"}
=============================================================================
