------------------------------ MODULE ResultsFile ------------------------------
(***************************************************************************)
(* The shared results file of the grid search, as append_results_to_csv    *)
(* writes it and csv.DictReader reads it back.  A file is its first line   *)
(* and the lines after it; a line is a sequence of values, and the only    *)
(* thing that relates a value to its key is its place.                     *)
(***************************************************************************)
EXTENDS Naturals, Sequences, FiniteSets, ConfigFingerprint

EmptyFile == [header |-> <<>>, rows |-> <<>>]

\* sorted() of the keys that occur.
KeyOrder ==
    <<"aggregation_algorithm", "augmentation_rotation_degrees", "best_f1",
      "checkpoint_path", "convnet_hidden1", "dirichlet_alpha",
      "encryption_mode", "feddisco_a", "fedprox_mu", "fipa_grad_batches",
      "fipa_rank", "fipa_warmup_rounds", "image_size", "max_units_per_class",
      "model_name", "num_custom_layers", "partition_strategy",
      "partition_unit", "train_augmentation">>

SortedKeys(keys) ==
    LET places == {i \in DOMAIN KeyOrder : KeyOrder[i] \in keys}
    IN  [n \in 1..Cardinality(places) |->
            KeyOrder[CHOOSE i \in places : Cardinality({j \in places : j <= i}) = n]]

Header(file) == {file.header[i] : i \in DOMAIN file.header}

\* Mutant: the keys of the summary are not added to those of the header.
HeaderNames(file, summary) == SortedKeys(Header(file))

FieldNames(file, summary) == SortedKeys(DOMAIN summary \cup Header(file))

Values(fieldnames, summary) ==
    [i \in DOMAIN fieldnames |-> Get(summary, fieldnames[i])]

\* fileIsEmpty is what the writer found when it looked: it writes its field
\* names first then, whatever is in the file by now.
AppendedTo(file, fieldnames, fileIsEmpty, summary) ==
    LET row == Values(fieldnames, summary)
    IN  IF ~fileIsEmpty THEN [file EXCEPT !.rows = Append(@, row)]
        ELSE IF file.header = <<>>
        THEN [header |-> fieldnames, rows |-> Append(file.rows, row)]
        ELSE [file EXCEPT !.rows = @ \o <<fieldnames, row>>]

\* A short line leaves the last keys without a value, what is too many of a
\* long one has no key.
RowEntry(file, i) ==
    [key \in Header(file) |->
        LET at == CHOOSE j \in DOMAIN file.header : file.header[j] = key
        IN  IF at <= Len(file.rows[i]) THEN file.rows[i][at] ELSE Blank]

\* Aggregator.save_results: the configuration, the scores, and the checkpoint
\* where one was written, which is never with encryption.
RunSummary(config) ==
    LET scores == [best_f1 |-> "scored"]
    IN  IF GetOr(config, "encryption_mode", "no_encryption") = "no_encryption"
        THEN Update(config, Update(scores, [checkpoint_path |-> "saved"]))
        ELSE Update(config, scores)
=============================================================================
