-------------------------- MODULE StreamEvaluation --------------------------
(***************************************************************************)
(* The inference half (src/iot/stream_eval.py, routing.py, source_model.py *)
(* and bn_adapt.py): a checkpoint is recalibrated, a bank of statistics is *)
(* built over its network, and the same stream is classified under four    *)
(* arms that share one model.                                              *)
(*                                                                         *)
(* Images are told apart by where they lie along one axis of degradation:  *)
(* a condition has a centre, a batch lies within Jitter of it. Tensors,    *)
(* predictions and the tables made of them are left out.                   *)
(***************************************************************************)
EXTENDS BnBank, Sequences, FiniteSets, FiniteSetsExt

CONSTANTS
  BankConditions,       \* <<[name, at], ...>>, `clean` and the corruptions of the bank
  Stream,               \* <<[name, at], ...>>, the corruption behind each condition
  TrainAt,              \* where the clean training images lie
  Jitter,               \* how far from its centre a batch may lie
  BatchesPerCondition,
  CalibrationBatches,   \* build_bank's calibration_batches
  Percentile,           \* of the intra-condition distances
  SettingChoices        \* [method, cut, blended, recalibrate, layers]

ASSUME StreamAssumption ==
  /\ BankConditions \in Seq([name : STRING, at : Int]) \ {<<>>}
  /\ Stream \in Seq([name : STRING, at : Int]) \ {<<>>}
  /\ \A i \in DOMAIN BankConditions : BankConditions[i].name \notin {"none", "refuse"}
  /\ Jitter \subseteq Int
  /\ Percentile \in 0 .. 100
  /\ BatchesPerCondition \in Nat \ {0}
  /\ CalibrationBatches \in Nat \ {0}
  /\ \A s \in SettingChoices : s.layers \subseteq Layers

VARIABLES
  settings,             \* the options this evaluation was started with
  stage,                \* where `evaluate` is
  bn_stats,             \* the statistics the checkpoint carries, <<>> for none
  source_state,
  entries,              \* the bank so far: [name, state, descriptor]
  intra,                \* the intra-condition distances so far
  threshold,            \* hundred times the calibrated distance
  arms,                 \* the arms still to run
  arm,                  \* the one running, or "none"
  seen,                 \* batches of the stream it has met
  loaded_label,
  previous_descriptor,  \* <<>> before the first batch
  normalised,           \* what the last forward pass normalised with
  record                \* the last BatchRecord: [chosen, fallback, decided]

modelVars == <<buffers, sweepVars>>
bankVars  == <<bn_stats, source_state, entries, intra, threshold>>
armVars   == <<seen, loaded_label, previous_descriptor, normalised, record>>
streamVars == <<modelVars, settings, stage, bankVars, arms, arm, armVars>>

Arms == {"source", "blind", "routed", "oracle"}

NoRecord == [chosen |-> "none", fallback |-> FALSE, decided |-> FALSE]

StreamInit ==
  /\ buffers = Shipped
  /\ sweeping = FALSE /\ layer = 1
  /\ images = Pass("none", 0, FALSE, 0)
  /\ saved = Shipped /\ result = Shipped
  /\ settings \in SettingChoices
  /\ stage = "checkpoint"
  /\ bn_stats = <<>>
  /\ source_state = Shipped
  /\ entries = <<>> /\ intra = <<>> /\ threshold = 0
  /\ arms = Arms /\ arm = "none"
  /\ seen = 0 /\ loaded_label = "none" /\ previous_descriptor = <<>>
  /\ normalised = OnBatch /\ record = NoRecord

-----------------------------------------------------------------------------
\* iot.source_model as a tool of its own: always one layer at a time, over all
\* the images, and nothing is written unless the result is a fixed point.
RecalibrateCheckpoint ==
  /\ stage = "checkpoint"
  /\ BeginSweep(Pass("train", TrainAt, FALSE, 1))
  /\ stage' = "saving"
  /\ UNCHANGED <<settings, bankVars, arms, arm, armVars>>

SaveRecalibrated ==
  /\ stage = "saving" /\ Swept
  /\ FixedPoint(result, images)
  /\ bn_stats' = result
  /\ EndSweep(Shipped)
  /\ stage' = "checkpoint"
  /\ UNCHANGED <<settings, source_state, entries, intra, threshold, arms, arm, armVars>>

\* What the checkpoint carries wins over --recalibrate-on.
StartFrom(state) ==
  /\ buffers' = state
  /\ source_state' = state
  /\ stage' = "bank"

Evaluate ==
  /\ stage = "checkpoint"
  /\ LET train == Pass("train", TrainAt, settings.cut, 1) IN
     \/ /\ bn_stats # <<>>
        /\ StartFrom(bn_stats)
        /\ UNCHANGED sweepVars
     \/ /\ bn_stats = <<>> /\ ~settings.recalibrate
        /\ StartFrom(buffers)
        /\ UNCHANGED sweepVars
     \/ /\ bn_stats = <<>> /\ settings.recalibrate /\ settings.method # "sequential"
        /\ StartFrom(CollectOnePass(settings.method, train))
        /\ UNCHANGED sweepVars
     \/ /\ bn_stats = <<>> /\ settings.recalibrate /\ settings.method = "sequential"
        /\ BeginSweep(train)
        /\ stage' = "recalibrating"
        /\ UNCHANGED source_state
  /\ UNCHANGED <<settings, bn_stats, entries, intra, threshold, arms, arm, armVars>>

Recalibrate ==
  /\ stage = "recalibrating" /\ Swept
  /\ EndSweep(result)
  /\ source_state' = result
  /\ stage' = "bank"
  /\ UNCHANGED <<settings, bn_stats, entries, intra, threshold, arms, arm, armVars>>

-----------------------------------------------------------------------------
\* How far apart two images lie.
Away(x, y) == IF x > y THEN x - y ELSE y - x

Gap(x, y) == Away(x[3].at, y[3].at) + (IF x[4] = y[4] THEN 0 ELSE 1)

\* What symmetric_kl is here: zero between equal descriptors, growing with the
\* gap between the images and with statistics that differ above a layer.
Distance(a, b) == MapThenSumSet(LAMBDA n : Gap(a[n], b[n]), DOMAIN a)

\* The k-th of the values in order: the least that k of them do not exceed.
Ordered(values, k) ==
  Min({v \in Range(values) : k <= Cardinality({i \in DOMAIN values : values[i] <= v})})

\* numpy's percentile: linear between the two values around the rank.
PercentileOf(values, p) ==
  LET rank == (Len(values) - 1) * p
      low  == Ordered(values, rank \div 100 + 1)
  IN  IF rank % 100 = 0 THEN 100 * low
      ELSE 100 * low + (rank % 100) * (Ordered(values, rank \div 100 + 2) - low)

Entry(condition, state) ==
  [name |-> condition.name, state |-> state,
   descriptor |-> [n \in settings.layers |-> state[n]]]

NextEntry == BankConditions[Len(entries) + 1]

\* build_bank over the loaders of build_bank_from_disk.
CollectEntry ==
  /\ stage = "bank" /\ Len(entries) < Len(BankConditions)
  /\ LET pass == Pass(NextEntry.name, NextEntry.at, settings.cut, 1) IN
     \/ /\ settings.method = "sequential"
        /\ BeginSweep(pass)
        /\ stage' = "entry"
        /\ UNCHANGED entries
     \/ /\ settings.method # "sequential"
        /\ entries' = Append(entries, Entry(NextEntry, CollectOnePass(settings.method, pass)))
        /\ stage' = "calibrating"
        /\ UNCHANGED modelVars
  /\ UNCHANGED <<settings, bn_stats, source_state, intra, threshold, arms, arm, armVars>>

AddEntry ==
  /\ stage = "entry" /\ Swept
  /\ EndSweep(saved)
  /\ entries' = Append(entries, Entry(NextEntry, result))
  /\ stage' = "calibrating"
  /\ UNCHANGED <<settings, bn_stats, source_state, intra, threshold, arms, arm, armVars>>

\* Single batches against the entry just built.
CalibrateBatch ==
  /\ stage = "calibrating"
  /\ LET own == BankConditions[Len(entries)] IN
     \E j \in Jitter :
       intra' = Append(intra,
         Distance(Descriptor(settings.layers, Pass(own.name, own.at + j, TRUE, 1), buffers),
                  entries[Len(entries)].descriptor))
  /\ stage' = IF Len(intra') = CalibrationBatches * Len(entries) THEN "bank"
              ELSE "calibrating"
  /\ UNCHANGED <<modelVars, settings, bn_stats, source_state, entries, threshold, arms,
                 arm, armVars>>

FinishBank ==
  /\ stage = "bank" /\ Len(entries) = Len(BankConditions)
  /\ threshold' = PercentileOf(intra, Percentile)
  /\ buffers' = source_state
  /\ stage' = "stream"
  /\ UNCHANGED <<sweepVars, settings, bn_stats, source_state, entries, intra, arms, arm,
                 armVars>>

-----------------------------------------------------------------------------
DistanceTo(query, k) == Distance(query, entries[k].descriptor)

\* The nearest entry, the earlier one of two.
Nearest(query) ==
  CHOOSE k \in DOMAIN entries : \A j \in DOMAIN entries :
    \/ DistanceTo(query, k) < DistanceTo(query, j)
    \/ DistanceTo(query, k) = DistanceTo(query, j) /\ k <= j

\* Mutant: the router always picks something.
RouteAlways(query) == entries[Nearest(query)].name

Route(query) ==
  IF 100 * DistanceTo(query, Nearest(query)) > threshold THEN "refuse"
  ELSE entries[Nearest(query)].name

Known == {entries[k].name : k \in DOMAIN entries}

ChosenState(name) == entries[CHOOSE k \in DOMAIN entries : entries[k].name = name].state

\* Mutant: only the layers of the descriptor are taken from the entry.
DescriptorLayersOf(name) == [n \in settings.layers |-> ChosenState(name)[n]]

\* blend: the entry's state outright, or mixed with the source's.
StateOf(name) ==
  IF settings.blended
    THEN [n \in Layers |-> <<"blend", ChosenState(name)[n], source_state[n]>>]
    ELSE ChosenState(name)

StartArm ==
  /\ stage = "stream" /\ arm = "none"
  /\ arm' \in arms
  /\ arm' = "routed" => DescriptorIndependent(settings.layers)
  /\ arms' = arms \ {arm'}
  /\ buffers' = source_state
  /\ seen' = 0
  /\ loaded_label' = "none"
  /\ previous_descriptor' = <<>>
  /\ record' = NoRecord
  /\ UNCHANGED <<sweepVars, settings, stage, bankVars, normalised>>

\* The position of a batch among the conditions of the stream.
ConditionOf(i) == Stream[(i - 1) \div BatchesPerCondition + 1]

StreamLength == Len(Stream) * BatchesPerCondition

\* Mutant: a blind batch leaves the label of the state it overwrote.
LabelKept(target, blind) == IF target = "none" THEN loaded_label ELSE target

\* The label whose state the buffers hold. A blind batch overwrites them.
LoadedLabel(target, blind) ==
  IF blind THEN "none" ELSE IF target = "none" THEN loaded_label ELSE target

\* One forward pass: load the target if it is not the state already loaded, or
\* normalise on the batch, and read the batch's descriptor on the way.
Forward(target, blind, decided) ==
  LET load    == target # "none" /\ target # loaded_label
      running == IF load THEN StateOf(target) ELSE buffers
      here    == ConditionOf(seen + 1)
  IN
  /\ seen < StreamLength
  /\ seen' = seen + 1
  /\ loaded_label' = LoadedLabel(target, blind)
  /\ normalised' = IF blind THEN OnBatch ELSE running
  /\ buffers' = IF blind THEN Drifted ELSE running
  /\ IF arm = "routed"
       THEN \E j \in Jitter :
              previous_descriptor' = Descriptor(settings.layers,
                Pass(here.name, here.at + j, TRUE, 1), normalised')
       ELSE UNCHANGED previous_descriptor
  /\ record' = [chosen |-> target, fallback |-> decided /\ blind, decided |-> decided]
  /\ UNCHANGED <<sweepVars, settings, stage, bankVars, arms, arm>>

SourceBatch == arm = "source" /\ Forward("none", FALSE, FALSE)

BlindBatch == arm = "blind" /\ Forward("none", TRUE, FALSE)

\* The decision is taken on the previous batch; the first has none.
RoutedBatch ==
  /\ arm = "routed"
  /\ \/ previous_descriptor = <<>> /\ Forward("none", FALSE, FALSE)
     \/ /\ previous_descriptor # <<>>
        /\ LET verdict == Route(previous_descriptor) IN
           Forward(IF verdict = "refuse" THEN "none" ELSE verdict, verdict = "refuse", TRUE)

OracleBatch ==
  /\ arm = "oracle"
  /\ seen < StreamLength
  /\ LET truth == ConditionOf(seen + 1).name IN
     Forward(IF truth \in Known THEN truth ELSE "none", truth \notin Known, TRUE)

\* Mutant: the source statistics are not put back.
NotRestored == buffers

AfterArm == source_state

EndArm ==
  /\ arm # "none" /\ seen = StreamLength
  /\ arm' = "none"
  /\ buffers' = AfterArm
  /\ UNCHANGED <<sweepVars, settings, stage, bankVars, arms, armVars>>

\* An exception, or Ctrl-C, anywhere: the `finally` clauses run and the caller,
\* a notebook say, still holds the model.
Fail ==
  /\ stage # "failed"
  /\ stage' = "failed"
  /\ arm' = "none"
  /\ sweeping' = FALSE
  /\ buffers' = IF sweeping THEN saved ELSE IF arm # "none" THEN AfterArm ELSE buffers
  /\ UNCHANGED <<images, layer, saved, result, settings, bankVars, arms, armVars>>

StreamNext ==
  \/ RecalibrateCheckpoint \/ SaveRecalibrated
  \/ Evaluate \/ Recalibrate
  \/ CollectEntry \/ AddEntry \/ CalibrateBatch \/ FinishBank
  \/ SweepLayer /\ UNCHANGED <<settings, stage, bankVars, arms, arm, armVars>>
  \/ StartArm \/ SourceBatch \/ BlindBatch \/ RoutedBatch \/ OracleBatch \/ EndArm
  \/ Fail

StreamSpec == StreamInit /\ [][StreamNext]_streamVars

-----------------------------------------------------------------------------
IsState(s) == DOMAIN s = Layers /\ s = [n \in Layers |-> s[n]]

TypeOK ==
  /\ \A s \in {buffers, saved, result, source_state, normalised} : IsState(s)
  /\ sweeping \in BOOLEAN
  /\ layer \in 1 .. NumLayers + 1
  /\ settings \in SettingChoices
  /\ stage \in {"checkpoint", "saving", "recalibrating", "bank", "entry", "calibrating",
                "stream", "failed"}
  /\ bn_stats = <<>> \/ IsState(bn_stats)
  /\ Len(entries) <= Len(BankConditions)
  /\ \A k \in DOMAIN entries : /\ entries[k].name = BankConditions[k].name
                               /\ IsState(entries[k].state)
  /\ arms \subseteq Arms /\ arm \in Arms \cup {"none"}
  /\ seen \in 0 .. StreamLength
  /\ loaded_label \in Known \cup {"none"}

\* Loading what the sweep measured and measuring again on the same images does
\* not move it: the statistics of the checkpoint, of a recalibrated source and
\* of every bank entry describe the network that carries them (_sweep_bn_state).
SweptIsFixedPoint ==
  /\ bn_stats # <<>> => FixedPoint(bn_stats, Pass("train", TrainAt, FALSE, 1))
  /\ settings.method = "sequential" =>
       \A k \in DOMAIN entries : FixedPoint(entries[k].state,
         Pass(BankConditions[k].name, BankConditions[k].at, settings.cut, 1))

\* Building the bank and running an arm leave the model as they found it, even
\* when they fail: on the statistics the evaluation started from (the `finally`
\* clauses of _sweep_bn_state and run_arm).
ModelLeftAsFound ==
  stage \in {"bank", "calibrating", "stream", "failed"} /\ arm = "none" =>
    buffers = source_state

\* What the router reads of a batch is what it would read under the statistics
\* the arm started from: the decision never feeds back into its own input
\* (check_descriptor_independence).
DescriptorOfBatchAlone ==
  previous_descriptor # <<>> =>
    \A n \in DOMAIN previous_descriptor :
      previous_descriptor[n] = Fed(n, previous_descriptor[n][3], source_state)

\* Whether the last batch was the first of its condition.
Transition == (seen - 1) % BatchesPerCondition = 0

\* No entry of the bank is nearer to images that lie there, and none further from
\* its own calibration batches is accepted.
Resembles(name, at) ==
  \E k \in DOMAIN entries :
    /\ entries[k].name = name
    /\ 100 * Away(at, BankConditions[k].at) <= threshold
    /\ \A i \in DOMAIN entries : Away(at, BankConditions[k].at) <= Away(at, BankConditions[i].at)

\* Deciding on the batch before costs at most the first batch of a condition: on
\* every other one the entry loaded is what the bank has nearest to images of
\* that very condition, and near enough, or the batch is refused (module
\* docstring of stream_eval.py). Which entry that is the property leaves open:
\* the default sets keep noises and blurs that resemble each other
\* (gtsrb_c.py 86-106), and an unfamiliar one is to be mapped onto a relative.
LagIsOneBatch ==
  arm = "routed" /\ record.decided /\ ~Transition =>
    record.fallback \/ \E j \in Jitter : Resembles(record.chosen, ConditionOf(seen).at + j)

\* Every batch is normalised with what its arm prescribes for it, whatever the
\* arms before it, the fallbacks and the cached label left in the buffers.
Abstract == INSTANCE AdaptationArms WITH
  Truth   <- [i \in 1 .. StreamLength |-> ConditionOf(i).name],
  source  <- source_state,
  bank    <- [name \in Known |-> StateOf(name)],
  verdict <- IF previous_descriptor = <<>> THEN "none" ELSE Route(previous_descriptor),
  used    <- normalised

ArmsAsPrescribed == Abstract!Spec
=============================================================================
