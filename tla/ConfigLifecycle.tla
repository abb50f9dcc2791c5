---------------------------- MODULE ConfigLifecycle ----------------------------
(***************************************************************************)
(* One configuration from the grid file through the queue, the run and the *)
(* results file to the fingerprint a later session recognises it by, next  *)
(* to another configuration that session may generate.                     *)
(***************************************************************************)
EXTENDS ResultsFile

\* Pairs: the pairs of configurations to compare, as a grid file may ask for.
CONSTANT Pairs

ASSUME PairsAssumption ==
    \A pair \in Pairs : /\ WellFormed(pair[1]) /\ WellFormed(pair[2])
                       /\ OneSearch(pair[1], pair[2])

VARIABLES
    raw,    \* as the grid file asks for it
    other,  \* another one, of the session that reads the results
    entry,  \* what has become of raw
    stage

vars == <<raw, other, entry, stage>>

Init ==
    /\ \E pair \in Pairs : raw = pair[1] /\ other = pair[2]
    /\ entry = raw
    /\ stage = "generated"

Queue ==
    /\ stage = "generated"
    /\ entry' = Normalize(entry)
    /\ stage' = "queued"
    /\ UNCHANGED <<raw, other>>

Recorded(summary) ==
    RowEntry(AppendedTo(EmptyFile, FieldNames(EmptyFile, summary), TRUE, summary), 1)

\* A configuration that is refused leaves no row.
Record ==
    /\ stage = "queued"
    /\ Runs(entry)
    /\ entry' = Recorded(RunSummary(entry))
    /\ stage' = "recorded"
    /\ UNCHANGED <<raw, other>>

\* A row from before the keys of the extensions existed.
RecordByOldProgram ==
    /\ stage = "generated"
    /\ DOMAIN raw \cap (ExtraFingerprintKeys \ {"model_name"}) = {}
    /\ entry' = Recorded(NormalizeModelKeys(NormalizeProximal(raw)))
    /\ stage' = "recorded"
    /\ UNCHANGED <<raw, other>>

ReadBack ==
    /\ stage = "recorded"
    /\ entry' = Normalize(entry)
    /\ stage' = "known"
    /\ UNCHANGED <<raw, other>>

Next == Queue \/ Record \/ RecordByOldProgram \/ ReadBack

Spec == Init /\ [][Next]_vars
-----------------------------------------------------------------------------
(* An entry always says which model it is for, and its stage is one of the *)
(* four a configuration goes through in main and its workers.              *)
TypeOK ==
    /\ stage \in {"generated", "queued", "recorded", "known"}
    /\ "model_name" \in DOMAIN entry
    /\ \A key \in DOMAIN entry : entry[key] \in STRING

(* Normalising writes into the configuration that then runs.  The run is   *)
(* still the one the grid file asked for, and nothing that was written for *)
(* a setting the configuration does not use is refused where it is read    *)
(* all the same: fipa_warmup_rounds in every round of every algorithm (the *)
(* note at FIPA_INACTIVE_VALUES), alpha and unit under every strategy.     *)
(* The last holds of a Dirichlet split only: RunnableAsQueued.             *)
QueuedIsWhatWasAsked ==
    stage = "queued" =>
        /\ Experiment(entry) = Experiment(raw)
        /\ RoundsAccept(raw) => RoundsAccept(entry)
        /\ Get(raw, "partition_strategy") = "dirichlet" =>
              SplitterAccepts(entry) = SplitterAccepts(raw)

(* A later session skips a configuration exactly when the recorded run was *)
(* the same experiment: neither of the two failures the module docstring   *)
(* of config_fingerprint.py names, across the trip through the file and    *)
(* for rows that predate the keys.                                         *)
RowStandsForItsExperiment ==
    stage = "known" =>
        ((GetConfigFingerprint(entry) = GetConfigFingerprint(Normalize(other)))
            <=> (Experiment(raw) = Experiment(other)))

(* A configuration the splitter accepts as the grid file states it is      *)
(* accepted as it is queued (run_multiple_clients.main).                   *)
RunnableAsQueued ==
    stage = "queued" => (SplitterAccepts(raw) => SplitterAccepts(entry))
=============================================================================
