------------------------- MODULE ConfigLifecycle_proof -------------------------
(***************************************************************************)
(* What becomes of a configuration between the grid file and the           *)
(* fingerprint of its row, whatever it asks for: the trip through the      *)
(* results file loses nothing, and what a later session makes of the row   *)
(* is what the first one queued, the scores aside.                         *)
(***************************************************************************)
EXTENDS ConfigLifecycle, ResultsFile_proof

PairInv == WellFormed(raw) /\ WellFormed(other) /\ OneSearch(raw, other)

EntryInv ==
    /\ stage = "generated" => entry = raw
    /\ stage = "queued" => entry = Normalize(raw)
    /\ stage = "recorded" => Agree(Normalize(entry), Normalize(raw))
    /\ stage = "known" => Agree(entry, Normalize(raw))

IInv == TypeOK /\ PairInv /\ EntryInv
-----------------------------------------------------------------------------
(* What a row from before the extensions holds says the same of every key  *)
(* once it is normalised: the two normalisations the old program had are   *)
(* among the six, and change what they changed to itself.                  *)
LEMMA OldRowNormal ==
  ASSUME NEW e
  PROVE  Agree(Normalize(NormalizeModelKeys(NormalizeProximal(e))), Normalize(e))
PROOF
  <1> DEFINE p == NormalizeProximal(e)
             o == NormalizeModelKeys(p)
             m == Normalize(o)
             n == Normalize(e)
             Early == {"fedprox_mu", "image_size", "convnet_hidden1", "num_custom_layers"}
  <1>1. ASSUME NEW key, key \notin Early
        PROVE  Same(o, e, key)
    <2>1. Same(p, e, key) /\ Same(o, p, key)
      BY <1>1, ProximalSays, ModelSays
    <2> QED
      BY <2>1 DEF Same
  <1>2. ASSUME NEW key, key \notin Early
        PROVE  /\ Get(o, key) = Get(e, key)
               /\ \A default : GetOr(o, key, default) = GetOr(e, key, default)
    BY <1>1, <1>2, SameReads
  <1>3. ASSUME NEW a, NEW b, NEW key, NEW value, Says(a, key, value), Says(b, key, value)
        PROVE  Same(a, b, key)
    BY <1>3 DEF Says, Same
  <1>4. ASSUME NEW a, NEW b, NEW c, NEW key, Same(a, b, key), Same(b, c, key)
        PROVE  Same(a, c, key)
    BY <1>4 DEF Same
  <1>5. ASSUME NEW a, NEW b, NEW key, Same(a, b, key)
        PROVE  Same(b, a, key)
    BY <1>5 DEF Same
  <1>6. /\ Same(p, e, "model_name") /\ Same(p, e, "image_size")
        /\ Same(p, e, "convnet_hidden1") /\ Same(p, e, "num_custom_layers")
        /\ Same(o, p, "fedprox_mu")
        /\ IF Get(e, "aggregation_algorithm") = "FedProx"
           THEN Same(p, e, "fedprox_mu") ELSE Says(p, "fedprox_mu", "0.0")
    BY ProximalSays, ModelSays
  <1>7. Get(p, "model_name") = Get(e, "model_name")
    BY <1>6, SameReads
  <1> HIDE DEF p, o, m, n
  <1>8. ASSUME NEW key, key \notin Filled
        PROVE  Same(m, n, key)
    <2>1. Same(m, o, key) /\ Same(n, e, key) /\ Same(o, e, key)
      BY <1>1, <1>8, NormalSays DEF m, n, Filled
    <2> QED
      BY <1>4, <1>5, <2>1
  <1>9. ASSUME NEW key \in Filled, key \notin Early
        PROVE  Same(m, n, key)
    <2>1. \E value : Says(m, key, value) /\ Says(n, key, value)
      <3>1. /\ Get(o, "aggregation_algorithm") = Get(e, "aggregation_algorithm")
            /\ Get(o, "fipa_grad_batches") = Get(e, "fipa_grad_batches")
            /\ \A default :
                  /\ \A k \in Filled \ Early : GetOr(o, k, default) = GetOr(e, k, default)
        BY <1>2 DEF Filled
      <3> QED
        BY <1>9, <3>1, NormalSays DEF m, n, Filled
    <2> QED
      BY <1>3, <2>1
  <1>10. Same(m, n, "fedprox_mu")
    <2>1. Get(o, "aggregation_algorithm") = Get(e, "aggregation_algorithm")
      BY <1>2
    <2>2. CASE Get(e, "aggregation_algorithm") = "FedProx"
      <3>1. /\ Same(m, o, "fedprox_mu") /\ Same(o, p, "fedprox_mu")
            /\ Same(p, e, "fedprox_mu") /\ Same(n, e, "fedprox_mu")
        BY <1>6, <2>1, <2>2, NormalSays DEF m, n
      <3> QED
        BY <1>4, <1>5, <3>1
    <2>3. CASE Get(e, "aggregation_algorithm") # "FedProx"
      <3>1. Says(m, "fedprox_mu", "0.0") /\ Says(n, "fedprox_mu", "0.0")
        BY <2>1, <2>3, NormalSays DEF m, n
      <3> QED
        BY <1>3, <3>1
    <2> QED
      BY <2>2, <2>3
  <1>11. ASSUME NEW key \in {"image_size", "convnet_hidden1", "num_custom_layers"}
         PROVE  Same(m, n, key)
    <2>1. Get(o, "model_name") = Get(e, "model_name")
      BY <1>2
    <2>2. Same(p, e, key) /\ \A default : GetOr(p, key, default) = GetOr(e, key, default)
      BY <1>6, SameReads
    <2>3. ASSUME NEW default, Says(o, key, GetOr(p, key, default)),
                 Says(m, key, GetOr(o, key, default)), Says(n, key, GetOr(e, key, default))
          PROVE  Same(m, n, key)
      <3>1. GetOr(o, key, default) = GetOr(e, key, default)
        BY <2>2, <2>3, SaysReads
      <3> QED
        BY <1>3, <2>3, <3>1
    <2>4. ASSUME Same(o, p, key), Same(m, o, key), Same(n, e, key)
          PROVE  Same(m, n, key)
      BY <1>4, <1>5, <2>2, <2>4
    <2>5. CASE key \in {"image_size", "convnet_hidden1"}
      <3>1. CASE Get(e, "model_name") \in PretrainedNets
        <4> DEFINE default == IF key = "image_size" THEN "224" ELSE "-1"
        <4>1. /\ Says(o, key, GetOr(p, key, default))
              /\ Says(m, key, GetOr(o, key, default))
              /\ Says(n, key, GetOr(e, key, default))
          BY <1>7, <2>1, <2>5, <3>1, ModelSays, NormalSays DEF m, n, o
        <4> QED
          BY <2>3, <4>1
      <3>2. CASE Get(e, "model_name") \notin PretrainedNets
        <4>1. Same(o, p, key) /\ Same(m, o, key) /\ Same(n, e, key)
          <5>1. Same(o, p, key)
            BY <1>7, <2>5, <3>2, ModelSays DEF o
          <5> QED
            BY <2>1, <2>5, <3>2, <5>1, NormalSays DEF m, n
        <4> QED
          BY <2>4, <4>1
      <3> QED
        BY <3>1, <3>2
    <2>6. CASE key = "num_custom_layers"
      <3>1. CASE Get(e, "model_name") = "ConvNet"
        <4>1. /\ Says(o, key, GetOr(p, key, "-1"))
              /\ Says(m, key, GetOr(o, key, "-1"))
              /\ Says(n, key, GetOr(e, key, "-1"))
          BY <1>7, <2>1, <2>6, <3>1, ModelSays, NormalSays DEF m, n, o
        <4> QED
          BY <2>3, <4>1
      <3>2. CASE Get(e, "model_name") # "ConvNet"
        <4>1. Same(o, p, key)
          BY <1>7, <2>6, <3>2, ModelSays DEF o
        <4>2. Same(m, o, key) /\ Same(n, e, key)
          BY <2>1, <2>6, <3>2, NormalSays DEF m, n
        <4> QED
          BY <2>4, <4>1, <4>2
      <3> QED
        BY <3>1, <3>2
    <2> QED
      BY <2>5, <2>6
  <1> QED
    BY <1>8, <1>9, <1>10, <1>11 DEF Agree, m, n, o, p
-----------------------------------------------------------------------------
LEMMA InitInv == Init => IInv
PROOF
  <1> SUFFICES ASSUME Init PROVE IInv
    OBVIOUS
  <1>1. PairInv
    BY PairsAssumption DEF Init, PairInv
  <1>2. EntryInv
    BY DEF Init, EntryInv
  <1>3. TypeOK
    <2>1. WellFormed(entry)
      BY <1>1 DEF PairInv, Init
    <2>2. "model_name" \in DOMAIN entry
      BY <2>1 DEF WellFormed, Get, Blank, PretrainedNets
    <2> QED
      BY <2>1, <2>2 DEF Init, TypeOK, WellFormed
  <1> QED
    BY <1>1, <1>2, <1>3 DEF IInv

LEMMA StepInv == IInv /\ [Next]_vars => IInv'
PROOF
  <1> SUFFICES ASSUME IInv, [Next]_vars PROVE IInv'
    OBVIOUS
  <1>1. Strings(raw) /\ Strings(entry) /\ "model_name" \in DOMAIN entry
    BY DEF IInv, PairInv, TypeOK, WellFormed, Strings
  <1>2. DOMAIN raw \subseteq Untouched \cup Filled
    BY DEF IInv, PairInv, WellFormed
  <1>3. CASE Queue
    <2>1. entry' = Normalize(raw) /\ stage' = "queued" /\ UNCHANGED <<raw, other>>
      BY <1>3 DEF Queue, IInv, EntryInv
    <2>2. Strings(entry') /\ "model_name" \in DOMAIN entry'
      BY <1>1, <1>3, NormalStrings, NormalIsFcn DEF Queue
    <2> QED
      BY <2>1, <2>2 DEF IInv, TypeOK, PairInv, EntryInv, Strings
  <1>4. CASE Record
    <2> DEFINE summary == RunSummary(Normalize(raw))
    <2>1. /\ entry = Normalize(raw) /\ entry' = Recorded(summary)
          /\ stage' = "recorded" /\ UNCHANGED <<raw, other>>
      BY <1>4 DEF Record, IInv, EntryInv
    <2>2. IsFcn(summary) /\ DOMAIN summary \subseteq KeyNames
      BY <1>2, SummaryAgrees, NormalIsFcn, KnownKeys
    <2>3. entry' = summary
      <3> HIDE DEF summary
      <3> QED
        BY <2>1, <2>2, FirstRowReadsBack DEF Recorded
    <2>4. Agree(Normalize(entry'), Normalize(raw'))
      BY <2>1, <2>3, SummaryAgrees, NormalAgain
    <2>5. Strings(entry') /\ "model_name" \in DOMAIN entry'
      <3>1. DOMAIN entry \subseteq DOMAIN entry'
        BY <2>1, <2>3, SummaryAgrees
      <3>2. ASSUME NEW key \in DOMAIN entry' PROVE entry'[key] \in STRING
        <4>1. \/ entry'[key] \in {"scored", "saved"}
              \/ key \in DOMAIN entry /\ entry'[key] = entry[key]
          BY <2>1, <2>3, SummaryAgrees
        <4>2. "scored" \in STRING /\ "saved" \in STRING
          BY WrittenAssumption
        <4> QED
          BY <1>1, <4>1, <4>2 DEF Strings
      <3> QED
        BY <1>1, <3>1, <3>2 DEF Strings
    <2> QED
      BY <2>1, <2>4, <2>5 DEF IInv, TypeOK, PairInv, EntryInv, Strings
  <1>5. CASE RecordByOldProgram
    <2> DEFINE row == NormalizeModelKeys(NormalizeProximal(raw))
    <2>1. /\ entry = raw /\ entry' = Recorded(row)
          /\ stage' = "recorded" /\ UNCHANGED <<raw, other>>
      BY <1>5 DEF RecordByOldProgram, IInv, EntryInv
    <2>2. IsFcn(row)
      <3>1. ASSUME NEW d, Get(d, "model_name") \in PretrainedNets \cup {"ConvNet"}
            PROVE  IsFcn(NormalizeModelKeys(d))
        BY <3>1 DEF NormalizeModelKeys, SetDefaults, Update, IsFcn
      <3>2. Same(NormalizeProximal(raw), raw, "model_name")
        BY ProximalSays
      <3>3. Get(raw, "model_name") \in PretrainedNets \cup {"ConvNet"}
        BY DEF IInv, PairInv, WellFormed
      <3> QED
        BY <3>1, <3>2, <3>3, SameReads
    <2>3. /\ DOMAIN raw \subseteq DOMAIN row
          /\ DOMAIN row \subseteq DOMAIN raw \cup Filled
      <3>1. ASSUME NEW d
            PROVE  /\ DOMAIN d \subseteq DOMAIN NormalizeProximal(d)
                   /\ DOMAIN NormalizeProximal(d) \subseteq DOMAIN d \cup Filled
                   /\ DOMAIN d \subseteq DOMAIN NormalizeModelKeys(d)
                   /\ DOMAIN NormalizeModelKeys(d) \subseteq DOMAIN d \cup Filled
        BY DEF NormalizeProximal, NormalizeModelKeys, SetDefaults, Update, Filled
      <3> QED
        BY <3>1
    <2>4. entry' = row
      <3> HIDE DEF row
      <3> QED
        BY <1>2, <2>1, <2>2, <2>3, FirstRowReadsBack, KnownKeys DEF Recorded
    <2>5. Agree(Normalize(entry'), Normalize(raw'))
      BY <2>1, <2>4, OldRowNormal
    <2>6. Strings(entry') /\ "model_name" \in DOMAIN entry'
      BY <1>1, <2>1, <2>3, <2>4, NormalStrings
    <2> QED
      BY <2>1, <2>5, <2>6 DEF IInv, TypeOK, PairInv, EntryInv, Strings
  <1>6. CASE ReadBack
    <2>1. /\ entry' = Normalize(entry) /\ stage' = "known" /\ UNCHANGED <<raw, other>>
          /\ Agree(entry', Normalize(raw'))
      BY <1>6 DEF ReadBack, IInv, EntryInv
    <2>2. Strings(entry') /\ "model_name" \in DOMAIN entry'
      BY <1>1, <2>1, NormalStrings, NormalIsFcn
    <2> QED
      BY <2>1, <2>2 DEF IInv, TypeOK, PairInv, EntryInv, Strings
  <1>7. CASE UNCHANGED vars
    BY <1>7 DEF vars, IInv, TypeOK, PairInv, EntryInv
  <1> QED
    BY <1>3, <1>4, <1>5, <1>6, <1>7 DEF Next

LEMMA Invariance == Spec => []IInv
PROOF
  <1> QED
    BY InitInv, StepInv, PTL DEF Spec

(* Every entry names its model and holds values as str() writes them, from *)
(* the grid file to the normalised row, whatever configurations are asked  *)
(* for.                                                                    *)
THEOREM TypeCorrect == Spec => []TypeOK
PROOF
  <1>1. IInv => TypeOK
    BY DEF IInv
  <1> QED
    BY <1>1, Invariance, PTL

(* What is queued is run as the experiment the grid file asked for,        *)
(* whatever it gave and left out, and is refused nowhere the grid file's   *)
(* own configuration would not have been, but by the splitter under a      *)
(* stratified split (federated_grid_search.main's normalisations).         *)
THEOREM QueuedAsAsked == Spec => []QueuedIsWhatWasAsked
PROOF
  <1>1. IInv => QueuedIsWhatWasAsked
    <2> SUFFICES ASSUME IInv, stage = "queued"
                 PROVE  QueuedIsWhatWasAsked
      BY DEF QueuedIsWhatWasAsked
    <2>1. entry = Normalize(raw)
      BY DEF IInv, EntryInv
    <2>2. Experiment(entry) = Experiment(raw)
      BY <2>1, KeepsExperiment
    <2>3. RoundsAccept(raw) => RoundsAccept(entry)
      BY <2>1, KeepsAcceptance
    <2>4. ASSUME Get(raw, "partition_strategy") = "dirichlet"
          PROVE  SplitterAccepts(entry) = SplitterAccepts(raw)
      <3>1. GetOr(raw, "partition_strategy", "stratified") = "dirichlet"
        BY <2>4 DEF Get, GetOr, Blank
      <3> QED
        BY <2>1, <3>1, KeepsAcceptance
    <2> QED
      BY <2>2, <2>3, <2>4 DEF QueuedIsWhatWasAsked
  <1> QED
    BY <1>1, Invariance, PTL

(* A row's fingerprint is that of another configuration of the search      *)
(* exactly when both ask for the same experiment, for rows of this program *)
(* and of the one before the extensions (config_fingerprint.py).           *)
THEOREM RowsAreRecognised == Spec => []RowStandsForItsExperiment
PROOF
  <1>1. IInv => RowStandsForItsExperiment
    <2> SUFFICES ASSUME IInv, stage = "known"
                 PROVE  (GetConfigFingerprint(entry)
                            = GetConfigFingerprint(Normalize(other)))
                        <=> (Experiment(raw) = Experiment(other))
      BY DEF RowStandsForItsExperiment
    <2>1. GetConfigFingerprint(entry) = GetConfigFingerprint(Normalize(raw))
      BY AgreeFingerprint DEF IInv, EntryInv
    <2> QED
      BY <2>1, FingerprintIsExperiment DEF IInv, PairInv
  <1> QED
    BY <1>1, Invariance, PTL
=============================================================================
