----------------------- MODULE StreamEvaluation_proof -----------------------
(***************************************************************************)
(* For every network whose layers only reach later layers, every bank and  *)
(* every stream: swept statistics are a fixed point, the model comes back  *)
(* as it was found, the router never feeds back into what it reads, and    *)
(* each batch is normalised with what its arm prescribes.  Deciding on the *)
(* batch before costs at most one batch per condition as long as the       *)
(* conditions lie further apart than the batches of one of them.           *)
(***************************************************************************)
EXTENDS StreamEvaluation, SequenceTheorems, FiniteSetTheorems, TLAPS

\* What TypeOK says of the states, without the label the router picked: that one
\* of the bank is, ArmsTypeCorrect adds.
States ==
  /\ \A s \in {source_state, saved, result} : IsState(s)
  /\ bn_stats # <<>> => IsState(bn_stats)
  /\ sweeping => IsState(buffers)

\* Where `evaluate` is says who owns the model.
Stages ==
  /\ sweeping \in BOOLEAN
  /\ sweeping <=> stage \in {"saving", "recalibrating", "entry"}
  /\ arm # "none" => stage = "stream"
  /\ stage \in {"checkpoint", "saving", "recalibrating", "bank", "entry", "calibrating",
                "stream", "failed"}
  /\ stage \in {"checkpoint", "saving", "recalibrating"} => source_state = Shipped
  /\ ~sweeping /\ arm = "none" => buffers = source_state
  /\ sweeping => saved = source_state
  /\ previous_descriptor # <<>> => stage \in {"stream", "failed"}

\* The layers behind the sweep already carry what the finished network measures.
Sweep ==
  sweeping =>
    /\ layer \in 1 .. NumLayers + 1
    /\ result = buffers
    /\ \A n \in Layers : n < layer => buffers[n] = Fed(n, images, buffers)
    /\ stage = "saving" => images = Pass("train", TrainAt, FALSE, 1)
    /\ stage = "entry" => images = Pass(NextEntry.name, NextEntry.at, settings.cut, 1)

FixedEntry(k) ==
  FixedPoint(entries[k].state,
    Pass(BankConditions[k].name, BankConditions[k].at, settings.cut, 1))

Measures ==
  /\ \E S : entries \in Seq(S)
  /\ bn_stats # <<>> => FixedPoint(bn_stats, Pass("train", TrainAt, FALSE, 1))
  /\ settings.method = "sequential" => \A k \in DOMAIN entries : FixedEntry(k)

Descriptors ==
  /\ settings \in SettingChoices /\ arms \subseteq Arms
  /\ arm = "routed" => DescriptorIndependent(settings.layers)
  /\ DescriptorOfBatchAlone

Inv == States /\ Stages /\ Sweep /\ Measures /\ Descriptors

-----------------------------------------------------------------------------
\* A layer's input depends on the statistics upstream of it and on nothing else.
LEMMA FedAgrees ==
  ASSUME NEW n \in Layers, NEW data, NEW s, NEW t,
         \A m \in Upstream[n] : s[m] = t[m]
  PROVE  Fed(n, data, s) = Fed(n, data, t)
  BY DEF Fed

LEMMA UpstreamIsEarlier ==
  ASSUME NEW n \in Layers, NEW m \in Upstream[n]
  PROVE  m \in Layers /\ m < n
  BY BackboneAssumption

LEMMA ConstantStates ==
  /\ IsState(Shipped)
  /\ \A data, state : IsState(Measured(data, state))
  BY DEF IsState, Shipped, Measured

\* What committing the measurement of one layer does to the others.
LEMMA CommitKeepsMeasured ==
  ASSUME NEW s, IsState(s), NEW l \in Layers, NEW data,
         \A n \in Layers : n < l => s[n] = Fed(n, data, s)
  PROVE  LET t == [s EXCEPT ![l] = Fed(l, data, s)]
         IN  IsState(t) /\ \A n \in Layers : n < l + 1 => t[n] = Fed(n, data, t)
<1> DEFINE t == [s EXCEPT ![l] = Fed(l, data, s)]
<1>1. DOMAIN s = Layers
  BY DEF IsState
<1>2. /\ DOMAIN t = Layers /\ t = [n \in Layers |-> t[n]]
      /\ t[l] = Fed(l, data, s)
      /\ \A n \in Layers : n # l => t[n] = s[n]
  BY <1>1
<1> HIDE DEF t
<1>3. ASSUME NEW n \in Layers, n < l + 1
      PROVE  t[n] = Fed(n, data, t)
  <2>1. n <= l
    BY <1>3 DEF Layers
  <2>2. \A m \in Upstream[n] : t[m] = s[m]
    BY <1>2, <2>1, UpstreamIsEarlier DEF Layers
  <2>3. Fed(n, data, t) = Fed(n, data, s)
    BY <2>2, FedAgrees
  <2>4. CASE n = l
    BY <2>3, <2>4, <1>2
  <2>5. CASE n # l
    BY <2>1, <2>3, <2>5, <1>2 DEF Layers
  <2> QED BY <2>4, <2>5
<1> QED BY <1>2, <1>3 DEF IsState, t

\* When the loop is over every layer has been measured in its final network.
LEMMA SweptMeasured ==
  ASSUME NEW s, IsState(s), NEW data, NEW l, l \in 1 .. NumLayers + 1, l > NumLayers,
         \A n \in Layers : n < l => s[n] = Fed(n, data, s)
  PROVE  FixedPoint(s, data)
<1>0. NumLayers \in Nat
  BY BackboneAssumption
<1>1. \A n \in Layers : s[n] = Fed(n, data, s)
  BY <1>0 DEF Layers
<1>2. s = [n \in Layers |-> s[n]]
  BY DEF IsState
<1> QED BY <1>1, <1>2 DEF FixedPoint, Measured

\* A layer nothing precedes is fed the same under all statistics.
LEMMA IndependentFed ==
  ASSUME NEW layers, layers \subseteq Layers, DescriptorIndependent(layers),
         NEW n \in layers, NEW data, NEW s, NEW t
  PROVE  Fed(n, data, s) = Fed(n, data, t)
<1>1. \A m \in Upstream[n] : FALSE
  BY UpstreamIsEarlier DEF DescriptorIndependent
<1> QED BY <1>1, FedAgrees

LEMMA AppendTo ==
  ASSUME NEW s, NEW e, \E S : s \in Seq(S)
  PROVE  /\ \E S : Append(s, e) \in Seq(S)
         /\ Len(s) \in Nat
         /\ DOMAIN s = 1 .. Len(s)
         /\ DOMAIN Append(s, e) = 1 .. Len(s) + 1
         /\ Append(s, e)[Len(s) + 1] = e
         /\ \A k \in 1 .. Len(s) : Append(s, e)[k] = s[k]
<1>1. PICK S : s \in Seq(S)
  OBVIOUS
<1> DEFINE T == S \cup {e}
<1>2. s \in Seq(T) /\ e \in T
  BY <1>1
<1> HIDE DEF T
<1>3. Append(s, e) \in Seq(T)
  BY <1>2
<1> QED BY <1>2, <1>3, AppendProperties, LenProperties

-----------------------------------------------------------------------------
LEMMA InitInv == StreamInit => Inv
<1> SUFFICES ASSUME StreamInit PROVE Inv
  OBVIOUS
<1> USE DEF StreamInit
<1>1. States
  BY ConstantStates DEF States
<1>2. Stages
  BY DEF Stages
<1>3. Sweep
  BY DEF Sweep
<1>4. Measures
  <2>1. entries \in Seq({})
    OBVIOUS
  <2>2. DOMAIN entries = {}
    BY <2>1
  <2> QED BY <2>1, <2>2 DEF Measures
<1>5. Descriptors
  BY DEF Descriptors, DescriptorOfBatchAlone
<1> QED BY <1>1, <1>2, <1>3, <1>4, <1>5 DEF Inv

\* What the steps that open a sweep have in common.
LEMMA BeginSweepKeeps ==
  ASSUME Inv, NEW data, BeginSweep(data), arm = "none",
         UNCHANGED <<settings, bankVars, arms, arm, armVars>>,
         stage' \in {"saving", "recalibrating", "entry"},
         stage' \in {"saving", "recalibrating"} => source_state = Shipped,
         previous_descriptor = <<>>,
         stage' = "saving" => data = Pass("train", TrainAt, FALSE, 1),
         stage' = "entry" => data = Pass(NextEntry.name, NextEntry.at, settings.cut, 1)
  PROVE  Inv'
<1> USE DEF BeginSweep, bankVars, armVars
<1>0. buffers = source_state /\ ~sweeping /\ IsState(source_state)
  BY DEF Inv, Stages, States
<1>1. States'
  BY <1>0 DEF Inv, States, IsState
<1>2. Stages'
  BY <1>0 DEF Stages
<1>3. Sweep'
  <2>1. layer' = 1 /\ layer' \in 1 .. NumLayers + 1
    BY BackboneAssumption
  <2>2. \A n \in Layers : ~(n < layer')
    BY <2>1 DEF Layers
  <2> QED BY <2>1, <2>2 DEF Sweep, NextEntry
<1>4. Measures'
  BY DEF Inv, Measures, FixedEntry
<1>5. Descriptors'
  BY DEF Inv, Descriptors, DescriptorOfBatchAlone
<1> QED BY <1>1, <1>2, <1>3, <1>4, <1>5 DEF Inv

\* What a sweep has measured when its loop is over.
LEMMA SweptResult ==
  ASSUME Inv, Swept
  PROVE  /\ FixedPoint(result, images)
         /\ IsState(result) /\ IsState(saved)
         /\ saved = source_state
         /\ stage = "saving" => images = Pass("train", TrainAt, FALSE, 1)
         /\ stage = "entry" => images = Pass(NextEntry.name, NextEntry.at, settings.cut, 1)
<1>1. sweeping /\ layer > NumLayers
  BY DEF Swept
<1>2. /\ layer \in 1 .. NumLayers + 1
      /\ result = buffers
      /\ \A n \in Layers : n < layer => buffers[n] = Fed(n, images, buffers)
  BY <1>1 DEF Inv, Sweep
<1>3. IsState(result)
  BY DEF Inv, States
<1>4. FixedPoint(result, images)
  BY <1>1, <1>2, <1>3, SweptMeasured
<1> QED BY <1>1, <1>3, <1>4 DEF Inv, States, Stages, Sweep

LEMMA CheckpointKeepsInv ==
  Inv /\ (RecalibrateCheckpoint \/ SaveRecalibrated \/ Evaluate \/ Recalibrate) => Inv'
<1> USE DEF bankVars, armVars
<1>1. ASSUME Inv, RecalibrateCheckpoint PROVE Inv'
  <2> USE DEF RecalibrateCheckpoint
  <2>1. arm = "none" /\ previous_descriptor = <<>> /\ source_state = Shipped
    BY <1>1 DEF Inv, Stages
  <2> QED BY <1>1, <2>1, BeginSweepKeeps
<1>2. ASSUME Inv, SaveRecalibrated PROVE Inv'
  <2> USE DEF SaveRecalibrated, EndSweep
  <2>0. /\ IsState(result) /\ FixedPoint(result, Pass("train", TrainAt, FALSE, 1))
        /\ source_state = Shipped /\ arm = "none" /\ previous_descriptor = <<>>
    BY <1>2, SweptResult DEF Inv, Stages
  <2>1. States'
    BY <1>2, <2>0 DEF Inv, States, IsState
  <2>2. Stages'
    BY <1>2, <2>0 DEF Inv, Stages, Shipped
  <2>3. Sweep'
    BY <1>2 DEF Sweep
  <2>4. Measures'
    BY <1>2, <2>0 DEF Inv, Measures, FixedEntry
  <2>5. Descriptors'
    BY <1>2, <2>0 DEF Inv, Descriptors, DescriptorOfBatchAlone
  <2> QED BY <2>1, <2>2, <2>3, <2>4, <2>5 DEF Inv
<1>3. ASSUME Inv, Evaluate PROVE Inv'
  <2> DEFINE train == Pass("train", TrainAt, settings.cut, 1)
  <2>0. /\ stage = "checkpoint" /\ arm = "none" /\ ~sweeping
        /\ previous_descriptor = <<>>
        /\ source_state = Shipped /\ buffers = Shipped
    BY <1>3 DEF Inv, Stages, Evaluate
  <2>1. CASE /\ BeginSweep(train) /\ stage' = "recalibrating"
             /\ UNCHANGED source_state
    <3>1. UNCHANGED <<settings, bankVars, arms, arm, armVars>>
      BY <1>3, <2>1 DEF Evaluate
    <3> QED BY <1>3, <2>0, <2>1, <3>1, BeginSweepKeeps
  <2>2. ASSUME NEW state, IsState(state), StartFrom(state), UNCHANGED sweepVars
        PROVE  Inv'
    <3> USE DEF StartFrom, sweepVars
    <3>0. UNCHANGED <<settings, bn_stats, entries, intra, threshold, arms, arm, armVars>>
      BY <1>3 DEF Evaluate
    <3>1. States'
      BY <1>3, <2>0, <2>2, <3>0 DEF Inv, States, IsState
    <3>2. Stages'
      BY <1>3, <2>0, <2>2, <3>0 DEF Inv, Stages
    <3>3. Sweep'
      BY <2>0, <2>2 DEF Sweep
    <3>4. Measures'
      BY <1>3, <2>2, <3>0 DEF Inv, Measures, FixedEntry
    <3>5. Descriptors'
      BY <1>3, <2>0, <2>2, <3>0 DEF Inv, Descriptors, DescriptorOfBatchAlone
    <3> QED BY <3>1, <3>2, <3>3, <3>4, <3>5 DEF Inv
  <2>3. IsState(buffers) /\ (bn_stats # <<>> => IsState(bn_stats))
    BY <1>3, <2>0, ConstantStates DEF Inv, States
  <2>4. IsState(CollectOnePass(settings.method, train))
    BY ConstantStates DEF CollectOnePass
  <2> QED BY <1>3, <2>1, <2>2, <2>3, <2>4 DEF Evaluate
<1>4. ASSUME Inv, Recalibrate PROVE Inv'
  <2> USE DEF Recalibrate, EndSweep
  <2>0. IsState(result) /\ arm = "none" /\ previous_descriptor = <<>>
    BY <1>4, SweptResult DEF Inv, Stages
  <2>1. States'
    BY <1>4, <2>0 DEF Inv, States, IsState
  <2>2. Stages'
    BY <1>4, <2>0 DEF Inv, Stages
  <2>3. Sweep'
    BY <1>4 DEF Sweep
  <2>4. Measures'
    BY <1>4 DEF Inv, Measures, FixedEntry
  <2>5. Descriptors'
    BY <1>4, <2>0 DEF Inv, Descriptors, DescriptorOfBatchAlone
  <2> QED BY <2>1, <2>2, <2>3, <2>4, <2>5 DEF Inv
<1> QED BY <1>1, <1>2, <1>3, <1>4

\* SweepLayer, with the rest of the evaluation waiting for it.
SweepStep ==
  SweepLayer /\ UNCHANGED <<settings, stage, bankVars, arms, arm, armVars>>

LEMMA SweepKeepsInv == Inv /\ SweepStep => Inv'
<1> SUFFICES ASSUME Inv, SweepStep PROVE Inv'
  OBVIOUS
<1> USE DEF SweepStep, SweepLayer, bankVars, armVars, ImagesFor, Commit
<1>0. /\ sweeping /\ layer \in Layers /\ IsState(buffers) /\ result = buffers
      /\ \A n \in Layers : n < layer => buffers[n] = Fed(n, images, buffers)
  BY DEF Inv, States, Sweep
<1> DEFINE t == [buffers EXCEPT ![layer] = Fed(layer, images, buffers)]
<1>1. buffers' = t /\ result' = t
  BY <1>0
<1>2. IsState(t) /\ \A n \in Layers : n < layer + 1 => t[n] = Fed(n, images, t)
  BY <1>0, CommitKeepsMeasured
<1> HIDE DEF t
<1>3. States'
  BY <1>0, <1>1, <1>2 DEF Inv, States, IsState
<1>4. Stages'
  BY <1>0 DEF Inv, Stages
<1>5. Sweep'
  <2>1. layer + 1 \in 1 .. NumLayers + 1
    BY <1>0, BackboneAssumption DEF Layers
  <2> QED BY <1>0, <1>1, <1>2, <2>1 DEF Inv, Sweep, NextEntry
<1>6. Measures'
  BY DEF Inv, Measures, FixedEntry
<1>7. Descriptors'
  BY DEF Inv, Descriptors, DescriptorOfBatchAlone
<1> QED BY <1>3, <1>4, <1>5, <1>6, <1>7 DEF Inv

LEMMA BankKeepsInv ==
  Inv /\ (CollectEntry \/ AddEntry \/ CalibrateBatch \/ FinishBank) => Inv'
<1> USE DEF bankVars, armVars
<1>1. ASSUME Inv, CollectEntry PROVE Inv'
  <2> DEFINE pass == Pass(NextEntry.name, NextEntry.at, settings.cut, 1)
             new  == Entry(NextEntry, CollectOnePass(settings.method, pass))
  <2>0. /\ stage = "bank" /\ arm = "none" /\ previous_descriptor = <<>> /\ ~sweeping
        /\ sweeping \in BOOLEAN
        /\ UNCHANGED <<settings, bn_stats, source_state, intra, threshold, arms, arm, armVars>>
    BY <1>1 DEF Inv, Stages, CollectEntry
  <2>1. CASE BeginSweep(pass) /\ stage' = "entry" /\ UNCHANGED entries
    BY <1>1, <2>0, <2>1, BeginSweepKeeps
  <2>2. CASE /\ settings.method # "sequential"
             /\ entries' = Append(entries, new)
             /\ stage' = "calibrating"
             /\ UNCHANGED modelVars
    <3> USE DEF modelVars, sweepVars
    <3> HIDE DEF new
    <3>1. States'
      BY <1>1, <2>0, <2>2 DEF Inv, States, IsState
    <3>2. Stages'
      BY <1>1, <2>0, <2>2 DEF Inv, Stages
    <3>3. Sweep'
      BY <2>0, <2>2 DEF Sweep
    <3>4. \E S : entries' \in Seq(S)
      BY <1>1, <2>2, AppendTo DEF Inv, Measures
    <3>5. Measures'
      BY <1>1, <2>0, <2>2, <3>4 DEF Inv, Measures
    <3>6. Descriptors'
      BY <1>1, <2>0 DEF Inv, Descriptors, DescriptorOfBatchAlone
    <3> QED BY <3>1, <3>2, <3>3, <3>5, <3>6 DEF Inv
  <2> QED BY <1>1, <2>1, <2>2 DEF CollectEntry
<1>2. ASSUME Inv, AddEntry PROVE Inv'
  <2> USE DEF AddEntry, EndSweep
  <2> DEFINE new == Entry(NextEntry, result)
  <2>0. /\ stage = "entry" /\ arm = "none" /\ previous_descriptor = <<>>
        /\ IsState(result) /\ IsState(saved) /\ saved = source_state
        /\ FixedPoint(result, Pass(NextEntry.name, NextEntry.at, settings.cut, 1))
    BY <1>2, SweptResult DEF Inv, Stages
  <2>1. States'
    BY <1>2, <2>0 DEF Inv, States, IsState
  <2>2. Stages'
    BY <1>2, <2>0 DEF Inv, Stages
  <2>3. Sweep'
    BY <1>2 DEF Sweep
  <2>4. Measures'
    <3>1. new.state = result
      BY DEF Entry
    <3>2. NextEntry = BankConditions[Len(entries) + 1]
      BY DEF NextEntry
    <3>0. entries' = Append(entries, new)
      BY <1>2
    <3> HIDE DEF new
    <3>3. \E S : entries \in Seq(S)
      BY <1>2 DEF Inv, Measures
    <3>4. /\ \E S : entries' \in Seq(S)
          /\ DOMAIN entries' = 1 .. Len(entries) + 1
          /\ Len(entries) \in Nat
          /\ DOMAIN entries = 1 .. Len(entries)
          /\ entries'[Len(entries) + 1] = new
          /\ \A k \in 1 .. Len(entries) : entries'[k] = entries[k]
      BY <3>0, <3>3, AppendTo
    <3>5. ASSUME settings.method = "sequential", NEW k \in DOMAIN entries'
          PROVE  FixedPoint(entries'[k].state,
                   Pass(BankConditions[k].name, BankConditions[k].at, settings.cut, 1))
      <4>1. CASE k = Len(entries) + 1
        BY <2>0, <3>1, <3>2, <3>4, <4>1
      <4>2. CASE k \in DOMAIN entries
        BY <1>2, <3>4, <3>5, <4>2 DEF Inv, Measures, FixedEntry
      <4> QED BY <3>4, <4>1, <4>2
    <3> QED BY <1>2, <3>4, <3>5 DEF Inv, Measures, FixedEntry
  <2>5. Descriptors'
    BY <1>2, <2>0 DEF Inv, Descriptors, DescriptorOfBatchAlone
  <2> QED BY <2>1, <2>2, <2>3, <2>4, <2>5 DEF Inv
<1>3. ASSUME Inv, CalibrateBatch PROVE Inv'
  <2> USE DEF modelVars, sweepVars
  <2>0. /\ stage = "calibrating" /\ stage' \in {"bank", "calibrating"}
        /\ UNCHANGED <<modelVars, settings, bn_stats, source_state, entries, threshold,
                       arms, arm, armVars>>
    BY <1>3 DEF CalibrateBatch
  <2>1. States'
    BY <1>3, <2>0 DEF Inv, States, IsState
  <2>2. Stages'
    BY <1>3, <2>0 DEF Inv, Stages
  <2>3. Sweep'
    BY <1>3, <2>0 DEF Inv, Stages, Sweep
  <2>4. Measures'
    BY <1>3, <2>0 DEF Inv, Measures, FixedEntry
  <2>5. Descriptors'
    BY <1>3, <2>0 DEF Inv, Descriptors, DescriptorOfBatchAlone
  <2> QED BY <2>1, <2>2, <2>3, <2>4, <2>5 DEF Inv
<1>4. ASSUME Inv, FinishBank PROVE Inv'
  <2> USE DEF sweepVars
  <2>0. /\ stage = "bank" /\ stage' = "stream" /\ buffers' = source_state
        /\ UNCHANGED <<sweepVars, settings, bn_stats, source_state, entries, intra, arms,
                       arm, armVars>>
    BY <1>4 DEF FinishBank
  <2>1. States'
    BY <1>4, <2>0 DEF Inv, States, IsState
  <2>2. Stages'
    BY <1>4, <2>0 DEF Inv, Stages
  <2>3. Sweep'
    BY <1>4, <2>0 DEF Inv, Stages, Sweep
  <2>4. Measures'
    BY <1>4, <2>0 DEF Inv, Measures, FixedEntry
  <2>5. Descriptors'
    BY <1>4, <2>0 DEF Inv, Descriptors, DescriptorOfBatchAlone
  <2> QED BY <2>1, <2>2, <2>3, <2>4, <2>5 DEF Inv
<1> QED BY <1>1, <1>2, <1>3, <1>4

\* The steps of the arms leave the statistics and the bank alone.
LEMMA ArmStepKeeps ==
  ASSUME Inv, stage = "stream",
         UNCHANGED <<sweepVars, settings, stage, bankVars>>,
         arms' \subseteq arms,
         arm' = "none" => buffers' = source_state,
         arm' = "routed" => DescriptorIndependent(settings.layers),
         DescriptorOfBatchAlone'
  PROVE  Inv'
<1> USE DEF sweepVars, bankVars
<1>1. States'
  BY DEF Inv, States, Stages, IsState
<1>2. Stages'
  BY DEF Inv, Stages
<1>3. Sweep'
  BY DEF Inv, Stages, Sweep
<1>4. Measures'
  BY DEF Inv, Measures, FixedEntry
<1>5. Descriptors'
  BY DEF Inv, Descriptors
<1> QED BY <1>1, <1>2, <1>3, <1>4, <1>5 DEF Inv

LEMMA ForwardKeepsInv ==
  ASSUME Inv, arm # "none", NEW target, NEW blind, NEW decided,
         Forward(target, blind, decided)
  PROVE  Inv'
<1>1. /\ stage = "stream"
      /\ UNCHANGED <<sweepVars, settings, stage, bankVars, arms, arm>>
  BY DEF Forward, Inv, Stages
<1>2. DescriptorOfBatchAlone'
  <2>1. CASE arm = "routed"
    <3> DEFINE here == ConditionOf(seen + 1)
    <3>1. PICK j \in Jitter : previous_descriptor' =
                 Descriptor(settings.layers, Pass(here.name, here.at + j, TRUE, 1), normalised')
      BY <2>1 DEF Forward
    <3> DEFINE data == Pass(here.name, here.at + j, TRUE, 1)
    <3> HIDE DEF data
    <3>2. DescriptorIndependent(settings.layers) /\ settings.layers \subseteq Layers
      BY <2>1, StreamAssumption DEF Inv, Descriptors
    <3>3. previous_descriptor' = [n \in settings.layers |-> Fed(n, data, normalised')]
      BY <3>1 DEF Descriptor, data
    <3>4. ASSUME NEW n \in settings.layers
          PROVE  previous_descriptor'[n] = Fed(n, previous_descriptor'[n][3], source_state)
      <4>1. previous_descriptor'[n] = Fed(n, data, normalised')
        BY <3>3
      <4>2. previous_descriptor'[n][3] = data
        BY <4>1 DEF Fed
      <4>3. Fed(n, data, normalised') = Fed(n, data, source_state)
        BY <3>2, IndependentFed
      <4> QED BY <4>1, <4>2, <4>3
    <3>5. source_state' = source_state
      BY <1>1 DEF bankVars
    <3> QED BY <3>3, <3>4, <3>5 DEF DescriptorOfBatchAlone
  <2>2. CASE arm # "routed"
    <3>1. UNCHANGED <<previous_descriptor, source_state>>
      BY <2>2, <1>1 DEF Forward, bankVars
    <3> QED BY <3>1 DEF Inv, Descriptors, DescriptorOfBatchAlone
  <2> QED BY <2>1, <2>2
<1> QED BY <1>1, <1>2, ArmStepKeeps DEF Inv, Descriptors

LEMMA ArmsKeepInv ==
  Inv /\ (StartArm \/ SourceBatch \/ BlindBatch \/ RoutedBatch \/ OracleBatch \/ EndArm) => Inv'
<1>1. ASSUME Inv, StartArm PROVE Inv'
  <2>1. /\ stage = "stream" /\ arm' # "none" /\ previous_descriptor' = <<>>
        /\ UNCHANGED <<sweepVars, settings, stage, bankVars>>
        /\ arms' \subseteq arms
        /\ arm' = "routed" => DescriptorIndependent(settings.layers)
    <3>1. arm' \in Arms
      BY <1>1 DEF StartArm, Inv, Descriptors
    <3> QED BY <1>1, <3>1 DEF StartArm, Arms
  <2> QED BY <1>1, <2>1, ArmStepKeeps DEF DescriptorOfBatchAlone
<1>2. ASSUME Inv, SourceBatch PROVE Inv'
  BY <1>2, ForwardKeepsInv DEF SourceBatch
<1>3. ASSUME Inv, BlindBatch PROVE Inv'
  BY <1>3, ForwardKeepsInv DEF BlindBatch
<1>4. ASSUME Inv, RoutedBatch PROVE Inv'
  BY <1>4, ForwardKeepsInv DEF RoutedBatch
<1>5. ASSUME Inv, OracleBatch PROVE Inv'
  BY <1>5, ForwardKeepsInv DEF OracleBatch
<1>6. ASSUME Inv, EndArm PROVE Inv'
  <2>1. /\ stage = "stream" /\ arm' = "none" /\ buffers' = source_state
        /\ arms' = arms
        /\ UNCHANGED <<sweepVars, settings, stage, bankVars, armVars>>
    BY <1>6 DEF EndArm, AfterArm, Inv, Stages
  <2>2. DescriptorOfBatchAlone'
    BY <1>6, <2>1 DEF Inv, Descriptors, DescriptorOfBatchAlone, armVars, bankVars
  <2> QED BY <1>6, <2>1, <2>2, ArmStepKeeps
<1> QED BY <1>1, <1>2, <1>3, <1>4, <1>5, <1>6

LEMMA FailKeepsInv == Inv /\ Fail => Inv'
<1> SUFFICES ASSUME Inv, Fail PROVE Inv'
  OBVIOUS
<1> USE DEF Fail, bankVars, armVars
<1>0. buffers' = source_state
  BY DEF Inv, Stages, AfterArm
<1>1. States'
  BY DEF Inv, States, IsState
<1>2. Stages'
  BY <1>0 DEF Inv, Stages
<1>3. Sweep'
  BY DEF Sweep
<1>4. Measures'
  BY DEF Inv, Measures, FixedEntry
<1>5. Descriptors'
  BY DEF Inv, Descriptors, DescriptorOfBatchAlone
<1> QED BY <1>1, <1>2, <1>3, <1>4, <1>5 DEF Inv

LEMMA StutterKeepsInv == Inv /\ UNCHANGED streamVars => Inv'
<1> SUFFICES ASSUME Inv, UNCHANGED streamVars PROVE Inv'
  OBVIOUS
<1> USE DEF streamVars, modelVars, sweepVars, bankVars, armVars
<1>1. States'
  BY DEF Inv, States, IsState
<1>2. Stages'
  BY DEF Inv, Stages
<1>3. Sweep'
  BY DEF Inv, Sweep, NextEntry
<1>4. Measures'
  BY DEF Inv, Measures, FixedEntry
<1>5. Descriptors'
  BY DEF Inv, Descriptors, DescriptorOfBatchAlone
<1> QED BY <1>1, <1>2, <1>3, <1>4, <1>5 DEF Inv

-----------------------------------------------------------------------------
\* The invariant of the whole evaluation.
THEOREM Invariance == StreamSpec => []Inv
<1>1. StreamInit => Inv
  BY InitInv
<1>2. Inv /\ [StreamNext]_streamVars => Inv'
  BY CheckpointKeepsInv, SweepKeepsInv, BankKeepsInv, ArmsKeepInv, FailKeepsInv,
     StutterKeepsInv DEF StreamNext, SweepStep
<1> QED BY <1>1, <1>2, PTL DEF StreamSpec

\* Every set of statistics a sweep produced describes the network that carries
\* it, whatever the network and its skip connections (_sweep_bn_state).
THEOREM SweptStatesAreFixedPoints == StreamSpec => []SweptIsFixedPoint
<1>1. Inv => SweptIsFixedPoint
  BY DEF Inv, Measures, FixedEntry, SweptIsFixedPoint
<1> QED BY <1>1, Invariance, PTL

\* Building the bank, running an arm and failing in the middle of either leave
\* the statistics the evaluation started from (the `finally` clauses).
THEOREM ModelComesBack == StreamSpec => []ModelLeftAsFound
<1>1. Inv => ModelLeftAsFound
  BY DEF Inv, Stages, ModelLeftAsFound
<1> QED BY <1>1, Invariance, PTL

\* A descriptor check_descriptor_independence lets through reads the same of a
\* batch whatever state the router has loaded.
THEOREM RouterReadsTheBatchAlone == StreamSpec => []DescriptorOfBatchAlone
<1>1. Inv => DescriptorOfBatchAlone
  BY DEF Inv, Descriptors
<1> QED BY <1>1, Invariance, PTL
-----------------------------------------------------------------------------
(* The arms.                                                               *)
-----------------------------------------------------------------------------
\* Order statistics.
LEMMA LeastNatural ==
  ASSUME NEW T \in SUBSET Nat, T # {}
  PROVE  \E x \in T : \A y \in T : x <= y
<1>1. PICK x \in T : \A y \in T : ~(<<y, x>> \in OpToRel(<, Nat))
  BY NatLessThanWellFounded, WFMin
<1>2. \A a, b \in Nat : a < b => <<a, b>> \in OpToRel(<, Nat)
  BY DEF OpToRel
<1>3. ASSUME NEW y \in T
      PROVE  x <= y
  <2>1. x \in Nat /\ y \in Nat
    OBVIOUS
  <2>2. ~(y < x)
    BY <1>1, <1>2, <2>1
  <2> QED BY <2>1, <2>2
<1> QED BY <1>3

LEMMA OrderedIsValue ==
  ASSUME NEW values \in Seq(Nat), NEW k \in 1 .. Len(values)
  PROVE  Ordered(values, k) \in Range(values)
<1> DEFINE upTo(v)  == {i \in DOMAIN values : values[i] <= v}
           count(v) == Cardinality(upTo(v))
           S        == {v \in Range(values) : k <= count(v)}
<1>0. DOMAIN values = 1 .. Len(values) /\ Len(values) \in Nat
  OBVIOUS
<1>1. Range(values) \subseteq Nat
  BY <1>0 DEF Range
<1>2. IsFiniteSet(DOMAIN values) /\ Cardinality(DOMAIN values) = Len(values)
  <2>1. \A n \in Nat : IsFiniteSet(1 .. n) /\ Cardinality(1 .. n) = n
    <3> TAKE n \in Nat
    <3>1. IsFiniteSet(1 .. n) /\ Cardinality(1 .. n) = IF 1 > n THEN 0 ELSE n - 1 + 1
      BY FS_Interval
    <3> QED BY <3>1
  <2> QED BY <1>0, <2>1
<1>3. \A v : /\ IsFiniteSet(upTo(v))
             /\ count(v) \in Nat /\ count(v) <= Len(values)
  <2>1. ASSUME NEW v
        PROVE  /\ IsFiniteSet(upTo(v))
               /\ count(v) \in Nat /\ count(v) <= Len(values)
    <3>1. upTo(v) \in SUBSET DOMAIN values
      OBVIOUS
    <3> HIDE DEF upTo
    <3> QED BY <1>2, <3>1, FS_Subset, FS_CardinalityType
  <2> HIDE DEF count, upTo
  <2> QED BY <2>1
<1>4. \E w \in Range(values) : count(w) = Len(values)
  <2> DEFINE missing == {Len(values) - count(v) : v \in Range(values)}
  <2>1. missing \in SUBSET Nat
    <3>1. ASSUME NEW v PROVE Len(values) - count(v) \in Nat
      <4>1. count(v) \in Nat /\ count(v) <= Len(values)
        BY <1>3
      <4> HIDE DEF count
      <4> QED BY <1>0, <4>1
    <3> HIDE DEF count
    <3> QED BY <3>1
  <2>2. missing # {}
    <3>1. k \in DOMAIN values
      BY <1>0
    <3>2. values[k] \in Range(values)
      BY <3>1 DEF Range
    <3> HIDE DEF count
    <3> QED BY <3>2
  <2>3. PICK w \in Range(values) :
          \A v \in Range(values) : Len(values) - count(w) <= Len(values) - count(v)
    <3> HIDE DEF count
    <3>1. PICK x \in missing : \A y \in missing : x <= y
      <4> HIDE DEF missing
      <4> QED BY <2>1, <2>2, LeastNatural
    <3>2. PICK w \in Range(values) : x = Len(values) - count(w)
      BY <3>1
    <3> QED BY <3>1, <3>2
  <2>4. ASSUME NEW i \in DOMAIN values, ~(values[i] <= w)
        PROVE  FALSE
    <3>1. values[i] \in Range(values) /\ values[i] \in Nat /\ w \in Nat
      BY <1>1 DEF Range
    <3>2. upTo(w) \subseteq upTo(values[i])
      BY <1>0, <2>4, <3>1
    <3>3. i \in upTo(values[i]) /\ i \notin upTo(w)
      BY <2>4, <3>1
    <3> HIDE DEF upTo
    <3>4. count(w) < count(values[i])
      BY <1>3, <3>2, <3>3, FS_Subset, FS_CardinalityType
    <3> HIDE DEF count
    <3> QED BY <1>0, <1>3, <2>3, <3>1, <3>4
  <2>5. upTo(w) = DOMAIN values
    BY <2>4
  <2> QED BY <1>2, <2>5
<1>5. S \in SUBSET Nat /\ S # {}
  <2> HIDE DEF count
  <2> QED BY <1>0, <1>1, <1>4
<1>6. \E v \in S : \A u \in S : v <= u
  <2> HIDE DEF S
  <2> QED BY <1>5, LeastNatural
<1>7. Min(S) \in S
  <2> HIDE DEF S
  <2> QED BY <1>6 DEF Min
<1>8. Ordered(values, k) = Min(S)
  BY DEF Ordered
<1> HIDE DEF count
<1> QED BY <1>7, <1>8

LEMMA WeightedBelow ==
  ASSUME NEW r \in 0 .. 99, NEW low \in Nat, NEW high \in Nat
  PROVE  100 * low + r * (high - low) <= 100 * low \/ 100 * low + r * (high - low) <= 100 * high
<1>1. CASE high <= low
  BY <1>1
<1>2. CASE high > low
  BY <1>2
<1> QED BY <1>1, <1>2

\* A percentile does not exceed the largest value.
LEMMA PercentileBound ==
  ASSUME NEW values \in Seq(Nat), values # <<>>, NEW p \in 0 .. 100
  PROVE  /\ PercentileOf(values, p) \in Int
         /\ \E v \in Range(values) : PercentileOf(values, p) <= 100 * v
<1> DEFINE n    == Len(values)
           rank == (n - 1) * p
           low  == Ordered(values, rank \div 100 + 1)
           high == Ordered(values, rank \div 100 + 2)
<1>0. n \in Nat \ {0}
  OBVIOUS
<1>1. rank \in Nat /\ rank <= 100 * (n - 1)
  <2> HIDE DEF n
  <2>1. \A m \in Nat : m * p \in Nat /\ m * p <= 100 * m
    OBVIOUS
  <2> QED BY <1>0, <2>1
<1>2. Range(values) \subseteq Nat
  BY DEF Range
<1>3. low \in Range(values)
  <2>1. rank \div 100 + 1 \in 1 .. n
    <3> HIDE DEF rank, n
    <3> QED BY <1>0, <1>1
  <2> QED BY <2>1, OrderedIsValue
<1>4. CASE rank % 100 = 0
  <2>1. PercentileOf(values, p) = 100 * low
    BY <1>4 DEF PercentileOf
  <2> HIDE DEF low
  <2> QED BY <1>2, <1>3, <2>1
<1>5. CASE rank % 100 # 0
  <2>1. rank \div 100 + 2 \in 1 .. n
    <3> HIDE DEF rank, n
    <3> QED BY <1>0, <1>1, <1>5
  <2>2. high \in Range(values)
    BY <2>1, OrderedIsValue
  <2>3. rank % 100 \in 0 .. 99
    <3> HIDE DEF rank
    <3> QED BY <1>1
  <2>4. PercentileOf(values, p) = 100 * low + (rank % 100) * (high - low)
    BY <1>5 DEF PercentileOf
  <2> HIDE DEF low, high, rank
  <2>5. low \in Nat /\ high \in Nat
    BY <1>2, <1>3, <2>2
  <2>6. \A r \in 0 .. 99, a, b \in Nat : 100 * a + r * (b - a) \in Int
    OBVIOUS
  <2> DEFINE r == rank % 100
  <2> HIDE DEF r
  <2>7. /\ PercentileOf(values, p) \in Int
        /\ PercentileOf(values, p) <= 100 * low \/ PercentileOf(values, p) <= 100 * high
    <3>1. r \in 0 .. 99 /\ PercentileOf(values, p) = 100 * low + r * (high - low)
      BY <2>3, <2>4 DEF r
    <3> QED BY <2>5, <2>6, <3>1, WeightedBelow
  <2> QED BY <1>3, <2>2, <2>7
<1> HIDE DEF rank
<1> QED BY <1>4, <1>5

-----------------------------------------------------------------------------
LEMMA AwayType == ASSUME NEW x \in Int, NEW y \in Int PROVE Away(x, y) \in Nat
  BY DEF Away

\* Distances. A descriptor the check lets through reads the first layer alone.
LEMMA IndependentLayers ==
  ASSUME NEW layers, layers \subseteq Layers, DescriptorIndependent(layers)
  PROVE  layers = {} \/ layers = {1}
<1>1. NumLayers \in Nat \ {0}
  BY BackboneAssumption
<1>2. 1 \in Layers /\ \A n \in Layers : n = 1 \/ 1 < n
  BY <1>1 DEF Layers
<1>3. \A n \in layers : n = 1
  BY <1>2 DEF DescriptorIndependent
<1> QED BY <1>3

LEMMA OneLayerDistance ==
  ASSUME NEW q, NEW e, DOMAIN q = {1}, Gap(q[1], e[1]) \in Nat
  PROVE  Distance(q, e) = Gap(q[1], e[1])
<1> DEFINE pick(s) == CHOOSE x \in s : TRUE
           step(f) == [s \in SUBSET {1} |->
                         IF s = {} THEN 0
                         ELSE Gap(q[pick(s)], e[pick(s)]) + f[s \ {pick(s)}]]
           sums    == [s \in SUBSET {1} |-> IF s = {} THEN 0 ELSE Gap(q[1], e[1])]
           iter    == CHOOSE f : f = step(f)
<1>1. Distance(q, e) = iter[{1}]
  BY DEF Distance, MapThenSumSet, MapThenFoldSet
<1>2. pick({1}) = 1
  OBVIOUS
<1>3. sums = step(sums)
  <2>1. sums[{}] = 0 /\ sums[{1}] = Gap(q[1], e[1])
    OBVIOUS
  <2>2. step(sums)[{}] = 0
    OBVIOUS
  <2>3. step(sums)[{1}] = Gap(q[1], e[1]) + sums[{1} \ {1}]
    BY <1>2
  <2>4. {1} \ {1} = {} /\ SUBSET {1} = {{}, {1}}
    OBVIOUS
  <2>5. /\ sums = [s \in SUBSET {1} |-> sums[s]]
        /\ step(sums) = [s \in SUBSET {1} |-> step(sums)[s]]
    OBVIOUS
  <2> HIDE DEF sums, step
  <2>6. sums[{1}] = step(sums)[{1}] /\ sums[{}] = step(sums)[{}]
    BY <2>1, <2>2, <2>3, <2>4
  <2>7. ASSUME NEW s \in SUBSET {1}
        PROVE  sums[s] = step(sums)[s]
    <3>1. s = {} \/ s = {1}
      OBVIOUS
    <3> QED BY <2>6, <3>1
  <2> QED BY <2>5, <2>7
<1>4. iter = step(iter)
  BY <1>3
<1> HIDE DEF iter
<1>5. iter[{}] = 0
  BY <1>4
<1>6. iter[{1}] = Gap(q[1], e[1]) + iter[{}]
  <2>1. {1} \ {1} = {}
    OBVIOUS
  <2> QED BY <1>2, <1>4, <2>1
<1> QED BY <1>1, <1>5, <1>6

LEMMA FirstLayerDistance ==
  ASSUME NEW p, NEW r, p.at \in Int, r.at \in Int, NEW s, NEW t
  PROVE  /\ Distance([n \in {1} |-> Fed(n, p, s)], [n \in {1} |-> Fed(n, r, t)])
              = Away(p.at, r.at)
         /\ Away(p.at, r.at) \in Nat
<1> DEFINE q == [n \in {1} |-> Fed(n, p, s)]
           e == [n \in {1} |-> Fed(n, r, t)]
<1>1. Upstream[1] = {}
  BY BackboneAssumption DEF Layers
<1>2. /\ DOMAIN q = {1}
      /\ q[1][3] = p /\ e[1][3] = r
      /\ q[1][4] = [m \in {} |-> s[m]] /\ e[1][4] = [m \in {} |-> t[m]]
  BY <1>1 DEF Fed
<1>3. q[1][4] = e[1][4]
  BY <1>2
<1> HIDE DEF q, e
<1>4. Gap(q[1], e[1]) = Away(p.at, r.at) /\ Away(p.at, r.at) \in Nat
  BY <1>2, <1>3 DEF Gap, Away
<1> QED BY <1>2, <1>4, OneLayerDistance DEF q, e

-----------------------------------------------------------------------------
\* What the bank holds: for each condition so far, in order, a measurement of it.
PassOf(k) == Pass(BankConditions[k].name, BankConditions[k].at, settings.cut, 1)

EntryOf(k) ==
  /\ entries[k].name = BankConditions[k].name
  /\ IsState(entries[k].state)
  /\ entries[k].state[1] = Fed(1, PassOf(k), source_state)
  /\ entries[k].descriptor = [n \in settings.layers |-> entries[k].state[n]]

BankInv ==
  /\ Len(entries) <= Len(BankConditions)
  /\ \A k \in DOMAIN entries : EntryOf(k)
  /\ stage \in {"checkpoint", "saving", "recalibrating"} => entries = <<>>
  /\ stage = "entry" => Len(entries) < Len(BankConditions)
  /\ stage = "calibrating" => entries # <<>>
  /\ stage = "stream" => Len(entries) = Len(BankConditions)

\* The threshold is no further than some batch of a condition is from its own.
CalibrationInv ==
  settings.layers = {1} =>
    /\ intra \in Seq(Nat)
    /\ \A i \in DOMAIN intra : \E j \in Jitter : intra[i] = Away(j, 0)
    /\ stage \in {"bank", "entry"} /\ entries # <<>> => intra # <<>>
    /\ stage = "stream" =>
         threshold \in Int /\ \E j \in Jitter : threshold <= 100 * Away(j, 0)

\* What a batch of the stream reads as.
BatchAt(i, j) == Pass(ConditionOf(i).name, ConditionOf(i).at + j, TRUE, 1)

\* What the buffers hold between two batches of an arm.
LoadInv ==
  /\ loaded_label \in Known \cup {"none"}
  /\ arm # "none" /\ loaded_label # "none" => buffers = StateOf(loaded_label)
  /\ arm = "source" => buffers = source_state
  /\ arm = "routed" /\ previous_descriptor = <<>> => buffers = source_state
  /\ arm = "routed" /\ previous_descriptor # <<>> =>
       /\ settings.layers = {1}
       /\ seen # 0
       /\ \E j \in Jitter :
            previous_descriptor = [n \in {1} |-> Fed(n, BatchAt(seen, j), source_state)]

RangeInv ==
  /\ IsState(buffers) /\ IsState(normalised)
  /\ layer \in 1 .. NumLayers + 1
  /\ arm \in Arms \cup {"none"}
  /\ seen \in 0 .. StreamLength
  /\ stage \notin {"stream", "failed"} => loaded_label = "none" /\ record = NoRecord

ArmInv == BankInv /\ CalibrationInv /\ LoadInv /\ RangeInv

AllInv == Inv /\ ArmInv

-----------------------------------------------------------------------------
\* The router.
LEMMA Entries ==
  ASSUME Measures, BankInv
  PROVE  /\ Len(entries) \in Nat /\ DOMAIN entries = 1 .. Len(entries)
         /\ entries # <<>> <=> 1 \in DOMAIN entries
         /\ DOMAIN entries \subseteq DOMAIN BankConditions
         /\ \A k \in DOMAIN BankConditions : BankConditions[k].at \in Int
<1>1. PICK S : entries \in Seq(S)
  BY DEF Measures
<1>2. Len(entries) \in Nat /\ DOMAIN entries = 1 .. Len(entries)
  BY <1>1
<1>3. entries # <<>> <=> 1 \in DOMAIN entries
  BY <1>1
<1>4. /\ Len(BankConditions) \in Nat
      /\ DOMAIN BankConditions = 1 .. Len(BankConditions)
      /\ \A k \in DOMAIN BankConditions : BankConditions[k].at \in Int
  <2> DEFINE R == [name : STRING, at : Int]
  <2>1. BankConditions \in Seq(R) /\ \A r \in R : r.at \in Int
    BY StreamAssumption
  <2> HIDE DEF R
  <2> QED BY <2>1, LenProperties
<1>5. DOMAIN entries \subseteq DOMAIN BankConditions
  <2>1. Len(entries) <= Len(BankConditions)
    BY DEF BankInv
  <2> QED BY <1>2, <1>4, <2>1
<1> QED BY <1>2, <1>3, <1>4, <1>5

\* How far a batch lies from an entry is how far their images lie apart.
LEMMA DistanceToEntry ==
  ASSUME Measures, BankInv, settings.layers = {1}, NEW k \in DOMAIN entries,
         NEW p, p.at \in Int, NEW query,
         query = [n \in {1} |-> Fed(n, p, source_state)]
  PROVE  /\ DistanceTo(query, k) = Away(p.at, BankConditions[k].at)
         /\ DistanceTo(query, k) \in Nat
<1>1. EntryOf(k) /\ BankConditions[k].at \in Int
  BY Entries DEF BankInv
<1>2. PassOf(k).at = BankConditions[k].at
  BY DEF PassOf, Pass
<1>3. entries[k].descriptor = [n \in {1} |-> Fed(n, PassOf(k), source_state)]
  BY <1>1 DEF EntryOf
<1> QED BY <1>1, <1>2, <1>3, FirstLayerDistance DEF DistanceTo

LEMMA NearestIsNearest ==
  ASSUME Measures, BankInv, entries # <<>>, NEW query,
         \A k \in DOMAIN entries : DistanceTo(query, k) \in Nat
  PROVE  /\ Nearest(query) \in DOMAIN entries
         /\ \A k \in DOMAIN entries : DistanceTo(query, Nearest(query)) <= DistanceTo(query, k)
<1> DEFINE d(k) == DistanceTo(query, k)
           closest == {k \in DOMAIN entries : \A j \in DOMAIN entries : d(k) <= d(j)}
<1> HIDE DEF d
<1>1. \A k \in DOMAIN entries : d(k) \in Nat
  BY DEF d
<1>2. closest # {}
  <2> DEFINE ds == {d(k) : k \in DOMAIN entries}
  <2>1. ds \in SUBSET Nat /\ ds # {}
    BY <1>1, Entries
  <2> HIDE DEF ds
  <2>2. PICK x \in ds : \A y \in ds : x <= y
    BY <2>1, LeastNatural
  <2>3. PICK k \in DOMAIN entries : x = d(k)
    BY DEF ds
  <2>4. \A j \in DOMAIN entries : d(j) \in ds
    BY DEF ds
  <2> QED BY <2>2, <2>3, <2>4
<1>3. closest \in SUBSET Nat
  BY Entries
<1> HIDE DEF closest
<1>4. PICK k \in closest : \A j \in closest : k <= j
  BY <1>2, <1>3, LeastNatural
<1> USE DEF closest
<1>5. ASSUME NEW j \in DOMAIN entries
      PROVE  d(k) < d(j) \/ (d(k) = d(j) /\ k <= j)
  <2>1. d(k) <= d(j) /\ d(k) \in Nat /\ d(j) \in Nat
    BY <1>1, <1>4
  <2>2. CASE d(k) = d(j)
    <3>1. j \in closest
      BY <2>2
    <3> QED BY <1>4, <2>2, <3>1
  <2> QED BY <2>1, <2>2
<1>6. Nearest(query) = CHOOSE i \in DOMAIN entries : \A j \in DOMAIN entries :
                         d(i) < d(j) \/ (d(i) = d(j) /\ i <= j)
  BY DEF Nearest, d
<1>7. /\ Nearest(query) \in DOMAIN entries
      /\ \A j \in DOMAIN entries :
           d(Nearest(query)) < d(j) \/ (d(Nearest(query)) = d(j) /\ Nearest(query) <= j)
  BY <1>4, <1>5, <1>6
<1>8. \A j \in DOMAIN entries : d(Nearest(query)) <= d(j)
  BY <1>1, <1>7
<1> QED BY <1>7, <1>8 DEF d

\* The router names an entry of the bank or refuses, and what it names is no
\* further from the batch than the threshold or any other entry.
LEMMA Routed ==
  ASSUME Measures, BankInv, settings.layers = {1}, entries # <<>>,
         NEW p, p.at \in Int, NEW query,
         query = [n \in {1} |-> Fed(n, p, source_state)]
  PROVE  \/ Route(query) = "refuse"
         \/ \E k \in DOMAIN entries :
              /\ Route(query) = BankConditions[k].name
              /\ Route(query) \in Known
              /\ ~(100 * Away(p.at, BankConditions[k].at) > threshold)
              /\ \A i \in DOMAIN entries :
                   Away(p.at, BankConditions[k].at) <= Away(p.at, BankConditions[i].at)
<1>1. /\ Nearest(query) \in DOMAIN entries
      /\ DistanceTo(query, Nearest(query)) = Away(p.at, BankConditions[Nearest(query)].at)
  BY DistanceToEntry, NearestIsNearest
<1>2. entries[Nearest(query)].name = BankConditions[Nearest(query)].name
  BY <1>1 DEF BankInv, EntryOf
<1>3. CASE 100 * DistanceTo(query, Nearest(query)) > threshold
  BY <1>3 DEF Route
<1>4. CASE ~(100 * DistanceTo(query, Nearest(query)) > threshold)
  <2>1. \A i \in DOMAIN entries : /\ DistanceTo(query, i) = Away(p.at, BankConditions[i].at)
                                 /\ DistanceTo(query, i) \in Nat
    BY DistanceToEntry
  <2>2. \A i \in DOMAIN entries : DistanceTo(query, Nearest(query)) <= DistanceTo(query, i)
    BY <2>1, NearestIsNearest
  <2>3. \A i \in DOMAIN entries :
          Away(p.at, BankConditions[Nearest(query)].at) <= Away(p.at, BankConditions[i].at)
    BY <1>1, <2>1, <2>2
  <2> QED BY <1>1, <1>2, <1>4, <2>3 DEF Route, Known
<1> QED BY <1>3, <1>4

LEMMA KnownNames ==
  ASSUME Measures, BankInv, NEW name \in Known
  PROVE  name \notin {"none", "refuse"} /\ IsState(StateOf(name))
<1>1. PICK k \in DOMAIN entries : entries[k].name = name
  BY DEF Known
<1>2. name \notin {"none", "refuse"}
  BY <1>1, Entries, StreamAssumption DEF BankInv, EntryOf
<1>3. (CHOOSE i \in DOMAIN entries : entries[i].name = name) \in DOMAIN entries
  BY <1>1
<1>4. IsState(ChosenState(name))
  BY <1>3 DEF ChosenState, BankInv, EntryOf
<1>5. settings.blended => IsState(StateOf(name))
  BY DEF StateOf, IsState
<1>6. ~settings.blended => IsState(StateOf(name))
  BY <1>4 DEF StateOf
<1> QED BY <1>2, <1>5, <1>6

-----------------------------------------------------------------------------
\* The stream: consecutive batches of a condition.
LEMMA QuotientBelow ==
  ASSUME NEW n \in Nat, NEW b \in Nat \ {0}, NEW a \in Nat, a < n * b
  PROVE  a \div b \in 0 .. n - 1
<1> DEFINE q == a \div b
<1>1. q \in Nat /\ b * q <= a
  OBVIOUS
<1> HIDE DEF q
<1>2. ASSUME n <= q
      PROVE  FALSE
  <2>1. b * n <= b * q
    BY <1>1, <1>2
  <2> QED BY <1>1, <2>1
<1>3. q < n
  BY <1>1, <1>2
<1> QED BY <1>1, <1>3 DEF q

LEMMA StreamPlaces ==
  /\ StreamLength \in Nat
  /\ \A i \in 1 .. StreamLength : /\ (i - 1) \div BatchesPerCondition + 1 \in DOMAIN Stream
                                 /\ ConditionOf(i).at \in Int
  /\ \A i \in Nat \ {0} : i % BatchesPerCondition # 0 => ConditionOf(i + 1) = ConditionOf(i)
<1>0. BatchesPerCondition \in Nat \ {0}
  BY StreamAssumption
<1>1. /\ Len(Stream) \in Nat /\ DOMAIN Stream = 1 .. Len(Stream)
      /\ \A k \in DOMAIN Stream : Stream[k].at \in Int
  <2> DEFINE R == [name : STRING, at : Int]
  <2>1. Stream \in Seq(R) /\ \A r \in R : r.at \in Int
    BY StreamAssumption
  <2> HIDE DEF R
  <2> QED BY <2>1, LenProperties
<1>2. StreamLength \in Nat
  <2>1. \A n, b \in Nat : n * b \in Nat
    OBVIOUS
  <2> QED BY <1>0, <1>1, <2>1 DEF StreamLength
<1>3. ASSUME NEW i \in 1 .. StreamLength
      PROVE  /\ (i - 1) \div BatchesPerCondition + 1 \in DOMAIN Stream
             /\ ConditionOf(i).at \in Int
  <2>1. i - 1 \in Nat /\ i - 1 < Len(Stream) * BatchesPerCondition
    BY <1>2 DEF StreamLength
  <2>2. (i - 1) \div BatchesPerCondition \in 0 .. Len(Stream) - 1
    BY <1>0, <1>1, <2>1, QuotientBelow
  <2> DEFINE q == (i - 1) \div BatchesPerCondition
  <2> HIDE DEF q
  <2>3. q + 1 \in DOMAIN Stream
    BY <1>1, <2>2 DEF q
  <2> QED BY <1>1, <2>3 DEF ConditionOf, q
<1>4. ASSUME NEW i \in Nat \ {0}, i % BatchesPerCondition # 0
      PROVE  ConditionOf(i + 1) = ConditionOf(i)
  <2>1. i \div BatchesPerCondition = (i - 1) \div BatchesPerCondition
    BY <1>0, <1>4
  <2>2. (i + 1) - 1 = i
    OBVIOUS
  <2> QED BY <2>1, <2>2 DEF ConditionOf
<1> QED BY <1>2, <1>3, <1>4

LEMMA NoLayers == ASSUME NEW e(_) PROVE [n \in {} |-> e(n)] = <<>>
  OBVIOUS

-----------------------------------------------------------------------------
\* Before the arms.
LEMMA InitArms == StreamInit => ArmInv
<1> SUFFICES ASSUME StreamInit PROVE ArmInv
  OBVIOUS
<1> USE DEF StreamInit
<1>0. entries = <<>> /\ Len(entries) = 0 /\ DOMAIN entries = {} /\ Len(BankConditions) \in Nat
  BY StreamAssumption
<1>1. BankInv
  BY <1>0 DEF BankInv
<1>2. CalibrationInv
  BY <1>0 DEF CalibrationInv
<1>3. LoadInv
  BY DEF LoadInv, Arms
<1>4. RangeInv
  <2>1. 1 \in 1 .. NumLayers + 1
    BY BackboneAssumption
  <2>2. 0 \in 0 .. StreamLength
    BY StreamPlaces
  <2>3. IsState(Shipped) /\ IsState(OnBatch)
    BY DEF Shipped, OnBatch, IsState
  <2> QED BY <2>1, <2>2, <2>3 DEF RangeInv
<1> QED BY <1>1, <1>2, <1>3, <1>4 DEF ArmInv

\* As long as no arm runs nothing is loaded, and the model is a whole one.
LEMMA BeforeArms ==
  ASSUME AllInv, Inv', stage \notin {"stream", "failed"},
         UNCHANGED <<settings, arm, armVars>>,
         layer' \in 1 .. NumLayers + 1
  PROVE  LoadInv' /\ RangeInv'
<1> USE DEF armVars
<1>1. arm = "none" /\ loaded_label = "none" /\ record = NoRecord
  BY DEF AllInv, ArmInv, Inv, Stages, RangeInv
<1>2. IsState(buffers)'
  BY <1>1 DEF Inv, States, Stages
<1>3. LoadInv'
  BY <1>1 DEF LoadInv
<1>4. RangeInv'
  BY <1>1, <1>2 DEF AllInv, ArmInv, RangeInv, IsState
<1> QED BY <1>3, <1>4

LEMMA CheckpointArms ==
  AllInv /\ (RecalibrateCheckpoint \/ SaveRecalibrated \/ Evaluate \/ Recalibrate) => ArmInv'
<1> SUFFICES ASSUME AllInv,
                    RecalibrateCheckpoint \/ SaveRecalibrated \/ Evaluate \/ Recalibrate
             PROVE  ArmInv'
  OBVIOUS
<1> USE DEF RecalibrateCheckpoint, SaveRecalibrated, Evaluate, Recalibrate, bankVars
<1>0. Inv'
  BY CheckpointKeepsInv DEF AllInv
<1>1. /\ stage \in {"checkpoint", "saving", "recalibrating"}
      /\ stage' \in {"checkpoint", "saving", "recalibrating", "bank"}
      /\ UNCHANGED <<settings, entries, intra, threshold, arm, armVars>>
  BY DEF StartFrom
<1>2. layer' = 1 \/ layer' = layer
  BY DEF BeginSweep, EndSweep, sweepVars
<1>3. layer' \in 1 .. NumLayers + 1
  BY <1>2, BackboneAssumption DEF AllInv, ArmInv, RangeInv
<1>4. entries = <<>> /\ DOMAIN entries = {}
  BY <1>1 DEF AllInv, ArmInv, BankInv
<1>5. BankInv'
  BY <1>1, <1>4 DEF AllInv, ArmInv, BankInv
<1>6. CalibrationInv'
  BY <1>1, <1>4 DEF AllInv, ArmInv, CalibrationInv
<1> QED BY <1>0, <1>1, <1>3, <1>5, <1>6, BeforeArms DEF ArmInv

LEMMA SweepArms == AllInv /\ SweepStep => ArmInv'
<1> SUFFICES ASSUME AllInv, SweepStep PROVE ArmInv'
  OBVIOUS
<1> USE DEF SweepStep, SweepLayer, bankVars
<1>0. Inv'
  BY SweepKeepsInv DEF AllInv
<1>1. /\ stage \notin {"stream", "failed"}
      /\ UNCHANGED <<settings, stage, source_state, entries, intra, threshold, arm, armVars>>
  BY DEF AllInv, Inv, Stages
<1>2. layer' \in 1 .. NumLayers + 1
  BY BackboneAssumption DEF Layers
<1>3. BankInv'
  BY <1>1 DEF AllInv, ArmInv, BankInv, EntryOf, PassOf, IsState
<1>4. CalibrationInv'
  BY <1>1 DEF AllInv, ArmInv, CalibrationInv
<1> QED BY <1>0, <1>1, <1>2, <1>3, <1>4, BeforeArms DEF ArmInv

-----------------------------------------------------------------------------
\* The bank.
LEMMA FirstLayerFed ==
  ASSUME NEW data, NEW s, NEW t
  PROVE  Fed(1, data, s) = Fed(1, data, t)
<1>1. 1 \in Layers /\ \A m \in Upstream[1] : FALSE
  BY BackboneAssumption DEF Layers
<1> QED BY <1>1, FedAgrees

LEMMA EntryAdded ==
  ASSUME AllInv, Len(entries) < Len(BankConditions),
         NEW state, IsState(state),
         NEW s, state[1] = Fed(1, Pass(NextEntry.name, NextEntry.at, settings.cut, 1), s),
         entries' = Append(entries, Entry(NextEntry, state)),
         stage' = "calibrating",
         UNCHANGED <<settings, source_state, intra, threshold>>
  PROVE  BankInv' /\ CalibrationInv'
<1> DEFINE new == Entry(NextEntry, state)
<1>1. /\ new.name = BankConditions[Len(entries) + 1].name
      /\ new.state = state
      /\ new.descriptor = [n \in settings.layers |-> state[n]]
  BY DEF Entry, NextEntry
<1> HIDE DEF new
<1>2. /\ \E S : entries' \in Seq(S)
      /\ DOMAIN entries' = 1 .. Len(entries) + 1
      /\ Len(entries) \in Nat
      /\ DOMAIN entries = 1 .. Len(entries)
      /\ entries'[Len(entries) + 1] = new
      /\ \A k \in 1 .. Len(entries) : entries'[k] = entries[k]
  <2>1. entries' = Append(entries, new)
    BY DEF new
  <2>2. \E S : entries \in Seq(S)
    BY DEF AllInv, Inv, Measures
  <2> QED BY <2>1, <2>2, AppendTo
<1>3. Len(entries') = Len(entries) + 1 /\ entries' # <<>>
  BY <1>2
<1>4. ASSUME NEW k \in DOMAIN entries'
      PROVE  EntryOf(k)'
  <2>1. CASE k = Len(entries) + 1
    <3>1. state[1] = Fed(1, Pass(NextEntry.name, NextEntry.at, settings.cut, 1), source_state)
      BY FirstLayerFed
    <3> QED BY <1>1, <1>2, <2>1, <3>1 DEF EntryOf, PassOf, NextEntry, IsState
  <2>2. CASE k \in DOMAIN entries
    <3>1. EntryOf(k) /\ entries'[k] = entries[k]
      BY <1>2, <2>2 DEF AllInv, ArmInv, BankInv
    <3> QED BY <3>1 DEF EntryOf, PassOf, IsState
  <2> QED BY <1>2, <2>1, <2>2
<1>5. BankInv'
  <2>1. Len(BankConditions) \in Nat
    BY StreamAssumption
  <2> QED BY <1>2, <1>3, <1>4, <2>1 DEF BankInv
<1>6. CalibrationInv'
  BY DEF AllInv, ArmInv, CalibrationInv
<1> QED BY <1>5, <1>6

\* A calibration batch is as far from its entry as it lies from its condition.
LEMMA CalibrationDistance ==
  ASSUME AllInv, stage = "calibrating", settings.layers = {1}, NEW j \in Jitter
  PROVE  LET own == BankConditions[Len(entries)]
             d   == Distance(Descriptor(settings.layers, Pass(own.name, own.at + j, TRUE, 1),
                                        buffers),
                             entries[Len(entries)].descriptor)
         IN  d = Away(j, 0) /\ d \in Nat
<1> DEFINE own == BankConditions[Len(entries)]
           p   == Pass(own.name, own.at + j, TRUE, 1)
<1>1. Len(entries) \in DOMAIN entries /\ own.at \in Int /\ j \in Int
  <2>1. Measures /\ BankInv /\ entries # <<>>
    BY DEF AllInv, Inv, ArmInv, BankInv
  <2>2. Len(entries) \in DOMAIN entries
    BY <2>1, Entries
  <2>3. j \in Int
    BY StreamAssumption
  <2> QED BY <2>1, <2>2, <2>3, Entries
<1>2. EntryOf(Len(entries))
  BY <1>1 DEF AllInv, ArmInv, BankInv
<1>3. entries[Len(entries)].descriptor
        = [n \in {1} |-> Fed(n, PassOf(Len(entries)), source_state)]
  BY <1>2 DEF EntryOf
<1>4. Descriptor(settings.layers, p, buffers) = [n \in {1} |-> Fed(n, p, buffers)]
  BY DEF Descriptor
<1>5. p.at = own.at + j /\ PassOf(Len(entries)).at = own.at
  BY DEF PassOf, Pass
<1>6. Away(own.at + j, own.at) = Away(j, 0) /\ Away(j, 0) \in Nat
  BY <1>1 DEF Away
<1> HIDE DEF own, p
<1>7. Distance(Descriptor(settings.layers, p, buffers), entries[Len(entries)].descriptor)
        = Away(own.at + j, own.at)
  <2>1. p.at \in Int /\ PassOf(Len(entries)).at \in Int
    BY <1>1, <1>5
  <2>2. Distance([n \in {1} |-> Fed(n, p, buffers)],
                 [n \in {1} |-> Fed(n, PassOf(Len(entries)), source_state)])
          = Away(p.at, PassOf(Len(entries)).at)
    BY <2>1, FirstLayerDistance
  <2> QED BY <1>3, <1>4, <1>5, <2>2
<1> QED BY <1>6, <1>7 DEF own, p

LEMMA BankArms ==
  AllInv /\ (CollectEntry \/ AddEntry \/ CalibrateBatch \/ FinishBank) => ArmInv'
<1> SUFFICES ASSUME AllInv, CollectEntry \/ AddEntry \/ CalibrateBatch \/ FinishBank
             PROVE  ArmInv'
  OBVIOUS
<1>0. Inv'
  BY BankKeepsInv DEF AllInv
<1>1. ASSUME CollectEntry
      PROVE  /\ BankInv' /\ CalibrationInv' /\ stage = "bank"
             /\ UNCHANGED <<settings, arm, armVars>>
             /\ layer' = layer \/ layer' = 1
  <2> DEFINE pass == Pass(NextEntry.name, NextEntry.at, settings.cut, 1)
             data == CollectOnePass(settings.method, pass)
  <2>0. /\ stage = "bank" /\ Len(entries) < Len(BankConditions)
        /\ UNCHANGED <<settings, bn_stats, source_state, intra, threshold, arms, arm, armVars>>
    BY <1>1 DEF CollectEntry
  <2>1. CASE BeginSweep(pass) /\ stage' = "entry" /\ UNCHANGED entries
    <3>1. BankInv'
      BY <2>0, <2>1 DEF AllInv, ArmInv, BankInv, EntryOf, PassOf, IsState
    <3>2. CalibrationInv'
      BY <2>0, <2>1 DEF AllInv, ArmInv, CalibrationInv
    <3> QED BY <2>0, <2>1, <3>1, <3>2 DEF BeginSweep
  <2>2. CASE entries' = Append(entries, Entry(NextEntry, data)) /\ stage' = "calibrating"
             /\ UNCHANGED modelVars
    <3>1. PICK s : data = Measured(pass, s)
      BY DEF CollectOnePass
    <3> HIDE DEF data, pass
    <3>2. IsState(data) /\ data[1] = Fed(1, pass, s)
      <4>1. 1 \in Layers
        BY BackboneAssumption DEF Layers
      <4> QED BY <3>1, <4>1, ConstantStates DEF Measured
    <3>3. BankInv' /\ CalibrationInv'
      BY <2>0, <2>2, <3>2, EntryAdded DEF pass
    <3> QED BY <2>0, <2>2, <3>3 DEF modelVars, sweepVars
  <2> QED BY <1>1, <2>1, <2>2 DEF CollectEntry
<1>2. ASSUME AddEntry
      PROVE  /\ BankInv' /\ CalibrationInv' /\ stage = "entry"
             /\ UNCHANGED <<settings, arm, armVars>>
             /\ layer' = layer
  <2> DEFINE pass == Pass(NextEntry.name, NextEntry.at, settings.cut, 1)
  <2>1. stage = "entry" /\ Len(entries) < Len(BankConditions)
    BY <1>2 DEF AddEntry, AllInv, ArmInv, BankInv
  <2>2. IsState(result) /\ FixedPoint(result, pass)
    BY <1>2, <2>1, SweptResult DEF AddEntry, AllInv
  <2> HIDE DEF pass
  <2>3. result[1] = Fed(1, pass, result)
    <3>1. 1 \in Layers
      BY BackboneAssumption DEF Layers
    <3>2. Measured(pass, result)[1] = Fed(1, pass, result)
      BY <3>1 DEF Measured
    <3> QED BY <2>2, <3>2 DEF FixedPoint
  <2>4. BankInv' /\ CalibrationInv'
    BY <1>2, <2>1, <2>2, <2>3, EntryAdded DEF AddEntry, pass
  <2> QED BY <1>2, <2>4 DEF AddEntry, EndSweep
<1>3. ASSUME CalibrateBatch
      PROVE  /\ BankInv' /\ CalibrationInv' /\ stage = "calibrating"
             /\ UNCHANGED <<settings, arm, armVars>>
             /\ layer' = layer
  <2>1. /\ stage = "calibrating" /\ stage' \in {"bank", "calibrating"}
        /\ UNCHANGED <<modelVars, settings, source_state, entries, threshold, arm, armVars>>
    BY <1>3 DEF CalibrateBatch
  <2>2. BankInv'
    BY <2>1 DEF AllInv, ArmInv, BankInv, EntryOf, PassOf, IsState
  <2>3. ASSUME settings.layers = {1}
        PROVE  /\ intra' \in Seq(Nat) /\ intra' # <<>>
               /\ \A i \in DOMAIN intra' : \E j \in Jitter : intra'[i] = Away(j, 0)
    <3>1. PICK j \in Jitter : intra' = Append(intra, Away(j, 0)) /\ Away(j, 0) \in Nat
      BY <1>3, <2>1, <2>3, CalibrationDistance DEF CalibrateBatch
    <3>2. intra \in Seq(Nat) /\ \A i \in DOMAIN intra : \E h \in Jitter : intra[i] = Away(h, 0)
      BY <2>3 DEF AllInv, ArmInv, CalibrationInv
    <3>3. /\ intra' \in Seq(Nat) /\ Len(intra') = Len(intra) + 1 /\ Len(intra) \in Nat
          /\ DOMAIN intra' = 1 .. Len(intra) + 1 /\ DOMAIN intra = 1 .. Len(intra)
          /\ intra'[Len(intra) + 1] = Away(j, 0)
          /\ \A i \in 1 .. Len(intra) : intra'[i] = intra[i]
      BY <3>1, <3>2
    <3>4. ASSUME NEW i \in DOMAIN intra'
          PROVE  \E h \in Jitter : intra'[i] = Away(h, 0)
      <4>1. CASE i = Len(intra) + 1
        BY <3>3, <4>1
      <4>2. CASE i \in DOMAIN intra
        BY <3>2, <3>3, <4>2
      <4> QED BY <3>3, <4>1, <4>2
    <3>5. intra' # <<>>
      BY <3>3
    <3> QED BY <3>3, <3>4, <3>5
  <2>4. CalibrationInv'
    BY <2>1, <2>3 DEF CalibrationInv
  <2> QED BY <2>1, <2>2, <2>4 DEF modelVars, sweepVars
<1>4. ASSUME FinishBank
      PROVE  /\ BankInv' /\ CalibrationInv' /\ stage = "bank"
             /\ UNCHANGED <<settings, arm, armVars>>
             /\ layer' = layer
  <2>1. /\ stage = "bank" /\ stage' = "stream" /\ Len(entries) = Len(BankConditions)
        /\ threshold' = PercentileOf(intra, Percentile)
        /\ UNCHANGED <<sweepVars, settings, source_state, entries, intra, arm, armVars>>
    BY <1>4 DEF FinishBank
  <2>2. BankInv'
    BY <2>1 DEF AllInv, ArmInv, BankInv, EntryOf, PassOf, IsState
  <2>3. ASSUME settings.layers = {1}
        PROVE  /\ threshold' \in Int
               /\ \E j \in Jitter : threshold' <= 100 * Away(j, 0)
    <3>1. entries # <<>>
      BY <2>1, StreamAssumption DEF AllInv, Inv, Measures
    <3>2. /\ intra \in Seq(Nat) /\ intra # <<>>
          /\ \A i \in DOMAIN intra : \E j \in Jitter : intra[i] = Away(j, 0)
      BY <2>1, <2>3, <3>1 DEF AllInv, ArmInv, CalibrationInv
    <3>3. PICK v \in Range(intra) : threshold' <= 100 * v /\ threshold' \in Int
      BY <2>1, <3>2, PercentileBound, StreamAssumption
    <3>4. \E j \in Jitter : v = Away(j, 0)
      BY <3>2 DEF Range
    <3> QED BY <3>3, <3>4
  <2>4. CalibrationInv'
    BY <2>1, <2>3 DEF AllInv, ArmInv, CalibrationInv
  <2> QED BY <2>1, <2>2, <2>4 DEF sweepVars
<1>5. /\ BankInv' /\ CalibrationInv' /\ stage \notin {"stream", "failed"}
      /\ UNCHANGED <<settings, arm, armVars>>
      /\ layer' = layer \/ layer' = 1
  BY <1>1, <1>2, <1>3, <1>4
<1>6. layer' \in 1 .. NumLayers + 1
  BY <1>5, BackboneAssumption DEF AllInv, ArmInv, RangeInv
<1> QED BY <1>0, <1>5, <1>6, BeforeArms DEF ArmInv

-----------------------------------------------------------------------------
\* The arms.
LEMMA InStream ==
  ASSUME AllInv, arm # "none"
  PROVE  stage = "stream" /\ entries # <<>> /\ Len(entries) = Len(BankConditions)
<1>1. stage = "stream"
  BY DEF AllInv, Inv, Stages
<1>2. Len(entries) = Len(BankConditions)
  BY <1>1 DEF AllInv, ArmInv, BankInv
<1>3. Len(BankConditions) # 0 /\ Len(<<>>) = 0
  BY StreamAssumption
<1> QED BY <1>1, <1>2, <1>3

LEMMA RouterNames ==
  ASSUME AllInv, arm = "routed", previous_descriptor # <<>>
  PROVE  Route(previous_descriptor) \in Known \cup {"refuse"}
<1>1. PICK j \in Jitter :
        previous_descriptor = [n \in {1} |-> Fed(n, BatchAt(seen, j), source_state)]
  BY DEF AllInv, ArmInv, LoadInv
<1>2. settings.layers = {1} /\ seen \in 1 .. StreamLength
  BY StreamPlaces DEF AllInv, ArmInv, LoadInv, RangeInv
<1>3. BatchAt(seen, j).at \in Int
  BY <1>2, StreamPlaces, StreamAssumption DEF BatchAt, Pass
<1>4. Measures /\ BankInv /\ entries # <<>>
  BY InStream DEF AllInv, Inv, ArmInv
<1> QED BY <1>1, <1>2, <1>3, <1>4, Routed

\* The steps of the arms leave the bank and its threshold alone.
LEMMA BankStands ==
  ASSUME AllInv, UNCHANGED <<settings, bankVars>>, stage' \in {stage, "failed"}
  PROVE  BankInv' /\ CalibrationInv'
<1> USE DEF bankVars
<1>1. BankInv'
  BY DEF AllInv, ArmInv, BankInv, EntryOf, PassOf, IsState
<1>2. CalibrationInv'
  BY DEF AllInv, ArmInv, CalibrationInv
<1> QED BY <1>1, <1>2

LEMMA SameBank ==
  ASSUME UNCHANGED <<settings, bankVars>>
  PROVE  Known' = Known /\ \A name : StateOf(name)' = StateOf(name)
  BY DEF bankVars, Known, StateOf, ChosenState

\* What a batch is normalised with: the target's statistics, whether they are
\* loaded now or were loaded before.
LEMMA ForwardUses ==
  ASSUME AllInv, arm # "none", NEW target \in Known \cup {"none"}, NEW blind, NEW decided,
         Forward(target, blind, decided)
  PROVE  /\ blind => normalised' = OnBatch /\ buffers' = Drifted /\ loaded_label' = "none"
         /\ ~blind /\ target = "none" =>
              /\ normalised' = buffers /\ buffers' = buffers
              /\ loaded_label' = loaded_label
         /\ ~blind /\ target # "none" =>
              /\ normalised' = StateOf(target) /\ buffers' = StateOf(target)
              /\ loaded_label' = target
<1>1. loaded_label # "none" => buffers = StateOf(loaded_label)
  BY DEF AllInv, ArmInv, LoadInv
<1> QED BY <1>1 DEF Forward, LoadedLabel

LEMMA ForwardReads ==
  ASSUME AllInv, arm = "routed", NEW target, NEW blind, NEW decided,
         Forward(target, blind, decided)
  PROVE  \/ /\ settings.layers = {} /\ previous_descriptor' = <<>>
            /\ previous_descriptor = <<>>
         \/ /\ settings.layers = {1} /\ previous_descriptor' # <<>>
            /\ \E j \in Jitter :
                 previous_descriptor'
                   = [n \in {1} |-> Fed(n, BatchAt(seen + 1, j), source_state)]
<1>1. settings.layers \subseteq Layers /\ DescriptorIndependent(settings.layers)
  BY StreamAssumption DEF AllInv, Inv, Descriptors
<1>2. PICK j \in Jitter : previous_descriptor'
        = Descriptor(settings.layers, BatchAt(seen + 1, j), normalised')
  BY DEF Forward, BatchAt
<1>3. CASE settings.layers = {}
  <2>1. previous_descriptor' = <<>>
    BY <1>2, <1>3, NoLayers DEF Descriptor
  <2>2. previous_descriptor = <<>>
    BY <1>3 DEF AllInv, ArmInv, LoadInv
  <2> QED BY <1>3, <2>1, <2>2
<1>4. CASE settings.layers = {1}
  <2>1. previous_descriptor'
          = [n \in {1} |-> Fed(n, BatchAt(seen + 1, j), normalised')]
    BY <1>2, <1>4 DEF Descriptor
  <2>2. Fed(1, BatchAt(seen + 1, j), normalised')
          = Fed(1, BatchAt(seen + 1, j), source_state)
    BY FirstLayerFed
  <2>3. previous_descriptor'
          = [n \in {1} |-> Fed(n, BatchAt(seen + 1, j), source_state)]
    BY <2>1, <2>2
  <2>4. previous_descriptor' # <<>>
    <3>1. DOMAIN previous_descriptor' = {1} /\ DOMAIN <<>> = {}
      BY <2>1
    <3> QED BY <3>1
  <2> QED BY <1>4, <2>3, <2>4
<1> QED BY <1>1, <1>3, <1>4, IndependentLayers

LEMMA ForwardArms ==
  ASSUME AllInv, arm # "none", NEW target \in Known \cup {"none"}, NEW blind, NEW decided,
         Forward(target, blind, decided),
         arm = "source" => target = "none" /\ ~blind,
         arm = "routed" /\ previous_descriptor = <<>> => target = "none" /\ ~blind
  PROVE  ArmInv'
<1>1. /\ seen < StreamLength /\ seen' = seen + 1 /\ stage = "stream"
      /\ UNCHANGED <<sweepVars, settings, stage, bankVars, arms, arm>>
  BY InStream DEF Forward
<1>2. BankInv' /\ CalibrationInv'
  BY <1>1, BankStands
<1>3. source_state' = source_state /\ settings' = settings /\ arm' = arm
  BY <1>1 DEF bankVars
<1>4. LoadInv'
  <2>1. loaded_label' \in Known' \cup {"none"}
    BY <1>1, SameBank, ForwardUses DEF AllInv, ArmInv, LoadInv
  <2>2. arm' # "none" /\ loaded_label' # "none" => buffers' = StateOf(loaded_label)'
    <3>1. loaded_label' # "none" => buffers' = StateOf(loaded_label')
      BY ForwardUses DEF AllInv, ArmInv, LoadInv
    <3>2. StateOf(loaded_label') = StateOf(loaded_label)'
      BY <1>1 DEF bankVars, StateOf, ChosenState
    <3> QED BY <3>1, <3>2
  <2>3. arm' = "source" => buffers' = source_state'
    BY <1>3, ForwardUses DEF AllInv, ArmInv, LoadInv
  <2>4. arm' = "routed" /\ previous_descriptor' = <<>> => buffers' = source_state'
    BY <1>3, ForwardUses, ForwardReads DEF AllInv, ArmInv, LoadInv
  <2>5. arm' = "routed" /\ previous_descriptor' # <<>> =>
          /\ settings'.layers = {1}
          /\ seen' # 0
          /\ \E j \in Jitter : previous_descriptor'
               = [n \in {1} |-> Fed(n, BatchAt(seen', j), source_state')]
    <3>1. seen' # 0
      BY <1>1, StreamPlaces DEF AllInv, ArmInv, RangeInv
    <3> QED BY <1>1, <1>3, <3>1, ForwardReads
  <2> QED BY <2>1, <2>2, <2>3, <2>4, <2>5 DEF LoadInv, BatchAt
<1>5. RangeInv'
  <2>1. Measures /\ BankInv /\ IsState(OnBatch) /\ IsState(Drifted) /\ IsState(buffers)
    BY DEF AllInv, Inv, ArmInv, RangeInv, IsState, OnBatch, Drifted
  <2>2. IsState(normalised') /\ IsState(buffers')
    BY <2>1, ForwardUses, KnownNames
  <2>3. seen' \in 0 .. StreamLength
    BY <1>1, StreamPlaces DEF AllInv, ArmInv, RangeInv
  <2>4. layer' = layer
    BY <1>1 DEF sweepVars
  <2> QED BY <1>1, <1>3, <2>2, <2>3, <2>4 DEF AllInv, ArmInv, RangeInv, IsState
<1> QED BY <1>2, <1>4, <1>5 DEF ArmInv

\* One batch of any arm.
SomeBatch == SourceBatch \/ BlindBatch \/ RoutedBatch \/ OracleBatch

\* What each arm asks of its forward pass.
Asks(target, blind, decided) ==
  /\ arm = "source" => target = "none" /\ ~blind /\ ~decided
  /\ arm = "blind" => blind /\ ~decided
  /\ arm = "routed" /\ previous_descriptor = <<>> => target = "none" /\ ~blind /\ ~decided
  /\ arm = "routed" /\ previous_descriptor # <<>> =>
       LET verdict == Route(previous_descriptor)
       IN  (verdict = "refuse" /\ blind) \/ (verdict = target /\ target \in Known /\ ~blind)
  /\ arm = "oracle" =>
       LET truth == ConditionOf(seen + 1).name
       IN  (truth \notin Known /\ blind) \/ (truth = target /\ target \in Known /\ ~blind)
  /\ blind => target = "none"

LEMMA Batches ==
  ASSUME AllInv, SomeBatch
  PROVE  /\ arm \in Arms
         /\ \E target \in Known \cup {"none"}, blind \in BOOLEAN, decided \in BOOLEAN :
              Forward(target, blind, decided) /\ Asks(target, blind, decided)
<1>0. \A name \in Known : name \notin {"none", "refuse"}
  BY KnownNames DEF AllInv, Inv, ArmInv
<1>1. CASE SourceBatch
  BY <1>1 DEF SourceBatch, Asks, Arms
<1>2. CASE BlindBatch
  BY <1>2 DEF BlindBatch, Asks, Arms
<1>3. CASE RoutedBatch
  <2>1. arm = "routed"
    BY <1>3 DEF RoutedBatch
  <2>2. CASE previous_descriptor = <<>>
    <3>1. Forward("none", FALSE, FALSE) /\ Asks("none", FALSE, FALSE)
      BY <1>3, <2>1, <2>2 DEF RoutedBatch, Asks
    <3> QED BY <2>1, <3>1 DEF Arms
  <2>3. CASE previous_descriptor # <<>>
    <3> DEFINE verdict == Route(previous_descriptor)
               target  == IF verdict = "refuse" THEN "none" ELSE verdict
    <3>1. verdict \in Known \cup {"refuse"}
      BY <2>1, <2>3, RouterNames
    <3>2. Forward(target, verdict = "refuse", TRUE)
      BY <1>3, <2>3 DEF RoutedBatch
    <3>3. Asks(target, verdict = "refuse", TRUE)
      BY <2>1, <2>3, <3>1 DEF Asks
    <3>4. target \in Known \cup {"none"}
      BY <3>1
    <3> HIDE DEF verdict, target
    <3> QED BY <2>1, <3>2, <3>3, <3>4 DEF Arms
  <2> QED BY <2>2, <2>3
<1>4. CASE OracleBatch
  <2> DEFINE truth  == ConditionOf(seen + 1).name
             target == IF truth \in Known THEN truth ELSE "none"
  <2>1. arm = "oracle" /\ Forward(target, truth \notin Known, TRUE)
    BY <1>4 DEF OracleBatch
  <2>2. Asks(target, truth \notin Known, TRUE)
    BY <1>0, <2>1 DEF Asks
  <2>3. target \in Known \cup {"none"}
    OBVIOUS
  <2> HIDE DEF target, truth
  <2> QED BY <2>1, <2>2, <2>3 DEF Arms
<1> QED BY <1>1, <1>2, <1>3, <1>4 DEF SomeBatch

LEMMA ArmsArms ==
  AllInv /\ (StartArm \/ SomeBatch \/ EndArm \/ Fail) => ArmInv'
<1> USE DEF bankVars, armVars
<1>1. ASSUME AllInv, StartArm
      PROVE  ArmInv'
  <2> USE DEF StartArm
  <2>0. stage = "stream" /\ arm' \in Arms /\ IsState(source_state)
    BY <1>1 DEF AllInv, Inv, Descriptors, States
  <2>1. BankInv' /\ CalibrationInv'
    BY <1>1, BankStands
  <2>2. LoadInv'
    BY <1>1 DEF LoadInv
  <2>3. RangeInv'
    BY <1>1, <2>0, StreamPlaces DEF AllInv, ArmInv, RangeInv, IsState, sweepVars
  <2> QED BY <2>1, <2>2, <2>3 DEF ArmInv
<1>2. ASSUME AllInv, SomeBatch
      PROVE  ArmInv'
  <2>1. arm # "none"
    BY <1>2, Batches DEF Arms
  <2>2. PICK target \in Known \cup {"none"}, blind \in BOOLEAN, decided \in BOOLEAN :
          Forward(target, blind, decided) /\ Asks(target, blind, decided)
    BY <1>2, Batches
  <2> QED BY <1>2, <2>1, <2>2, ForwardArms DEF Asks
<1>3. ASSUME AllInv, EndArm
      PROVE  ArmInv'
  <2> USE DEF EndArm, AfterArm
  <2>0. stage = "stream" /\ IsState(source_state)
    BY <1>3, InStream DEF AllInv, Inv, States
  <2>1. BankInv' /\ CalibrationInv'
    BY <1>3, BankStands
  <2>2. LoadInv'
    BY <1>3, SameBank DEF AllInv, ArmInv, LoadInv
  <2>3. RangeInv'
    BY <1>3, <2>0 DEF AllInv, ArmInv, RangeInv, IsState, sweepVars
  <2> QED BY <2>1, <2>2, <2>3 DEF ArmInv
<1>4. ASSUME AllInv, Fail
      PROVE  ArmInv'
  <2> USE DEF Fail
  <2>0. buffers' = source_state /\ IsState(source_state)
    BY <1>4 DEF AfterArm, AllInv, Inv, States, Stages
  <2>1. BankInv' /\ CalibrationInv'
    BY <1>4, BankStands
  <2>2. LoadInv'
    BY <1>4, SameBank DEF AllInv, ArmInv, LoadInv
  <2>3. RangeInv'
    BY <1>4, <2>0 DEF AllInv, ArmInv, RangeInv, IsState
  <2> QED BY <2>1, <2>2, <2>3 DEF ArmInv
<1> QED BY <1>1, <1>2, <1>3, <1>4

LEMMA StutterArms == AllInv /\ UNCHANGED streamVars => ArmInv'
<1> SUFFICES ASSUME AllInv, UNCHANGED streamVars PROVE ArmInv'
  OBVIOUS
<1> USE DEF streamVars, modelVars, sweepVars, bankVars, armVars
<1>1. BankInv' /\ CalibrationInv'
  BY BankStands
<1>2. LoadInv'
  <2>1. LoadInv
    BY DEF AllInv, ArmInv
  <2>2. UNCHANGED <<entries, settings, source_state, buffers, arm, loaded_label, seen,
                    previous_descriptor>>
    OBVIOUS
  <2>3. Known' = Known /\ StateOf(loaded_label)' = StateOf(loaded_label)
    BY <2>2 DEF Known, StateOf, ChosenState
  <2> QED BY <2>1, <2>2, <2>3 DEF LoadInv, BatchAt
<1>3. RangeInv'
  BY DEF AllInv, ArmInv, RangeInv, IsState
<1> QED BY <1>1, <1>2, <1>3 DEF ArmInv

LEMMA NextCases ==
  ASSUME StreamNext
  PROVE  \/ RecalibrateCheckpoint \/ SaveRecalibrated \/ Evaluate \/ Recalibrate
         \/ CollectEntry \/ AddEntry \/ CalibrateBatch \/ FinishBank
         \/ SweepStep \/ StartArm \/ SomeBatch \/ EndArm \/ Fail
  BY DEF StreamNext, SweepStep, SomeBatch

THEOREM ArmsInvariance == StreamSpec => []AllInv
<1>1. StreamInit => ArmInv
  BY InitArms
<1>2. AllInv /\ [StreamNext]_streamVars => ArmInv'
  BY NextCases, CheckpointArms, SweepArms, BankArms, ArmsArms, StutterArms
<1>3. Inv /\ ArmInv /\ [StreamNext]_streamVars => ArmInv'
  BY <1>2 DEF AllInv
<1>4. AllInv <=> Inv /\ ArmInv
  BY DEF AllInv
<1> QED BY <1>1, <1>3, <1>4, Invariance, PTL DEF StreamSpec

\* Every reachable state of an evaluation is well typed: whole sets of statistics
\* everywhere, and what is loaded is an entry of the bank.
THEOREM ArmsTypeCorrect == StreamSpec => []TypeOK
<1>1. AllInv => TypeOK
  <2> SUFFICES ASSUME AllInv PROVE TypeOK
    OBVIOUS
  <2>1. \A s \in {buffers, saved, result, source_state, normalised} : IsState(s)
    BY DEF AllInv, ArmInv, RangeInv, Inv, States
  <2>2. bn_stats = <<>> \/ IsState(bn_stats)
    BY DEF AllInv, Inv, States
  <2>3. /\ Len(entries) <= Len(BankConditions)
        /\ \A k \in DOMAIN entries : /\ entries[k].name = BankConditions[k].name
                                     /\ IsState(entries[k].state)
    BY DEF AllInv, ArmInv, BankInv, EntryOf
  <2>4. loaded_label \in Known \cup {"none"}
    BY DEF AllInv, ArmInv, LoadInv
  <2> QED BY <2>1, <2>2, <2>3, <2>4 DEF TypeOK, AllInv, ArmInv, RangeInv, Inv, Stages, Descriptors
<1> QED BY <1>1, ArmsInvariance, PTL

-----------------------------------------------------------------------------
\* The refinement, step by step.
\* What the router says of the last batch, as Abstract sees it.
verdictBar == IF previous_descriptor = <<>> THEN "none" ELSE Route(previous_descriptor)

LEMMA VerdictStands ==
  ASSUME previous_descriptor' = previous_descriptor,
         previous_descriptor = <<>> \/ UNCHANGED <<entries, threshold>>
  PROVE  verdictBar' = verdictBar
<1>1. CASE previous_descriptor = <<>>
  BY <1>1 DEF verdictBar
<1>2. CASE previous_descriptor' = previous_descriptor /\ entries' = entries /\ threshold' = threshold
  <2>1. \A q : Nearest(q)' = Nearest(q)
    BY <1>2 DEF Nearest, DistanceTo
  <2>2. \A q, k : DistanceTo(q, k)' = DistanceTo(q, k)
    BY <1>2 DEF DistanceTo
  <2>3. Route(previous_descriptor)' = Route(previous_descriptor)
    BY <1>2, <2>1, <2>2 DEF Route
  <2> QED BY <1>2, <2>3 DEF verdictBar
<1> QED BY <1>1, <1>2

LEMMA TruthBar ==
  LET truth == [i \in 1 .. StreamLength |-> ConditionOf(i).name]
  IN  /\ Len(truth) = StreamLength
      /\ \A i \in 1 .. StreamLength : truth[i] = ConditionOf(i).name
  BY StreamPlaces

\* Before the arms, and when an evaluation fails outside them.
LEMMA Preparing ==
  ASSUME arm = "none", arm' = "none",
         UNCHANGED <<seen, previous_descriptor, normalised>>,
         previous_descriptor = <<>> \/ UNCHANGED <<entries, threshold>>
  PROVE  Abstract!Prepare
<1>1. verdictBar' = verdictBar
  BY VerdictStands
<1> QED BY <1>1 DEF verdictBar, Abstract!Prepare

LEMMA BatchStep ==
  ASSUME AllInv, SomeBatch
  PROVE  Abstract!Batch
<1>1. arm # "none" /\ arm \in Arms
  BY Batches DEF Arms
<1>2. PICK target \in Known \cup {"none"}, blind \in BOOLEAN, decided \in BOOLEAN :
        Forward(target, blind, decided) /\ Asks(target, blind, decided)
  BY Batches
<1>3. /\ seen < StreamLength /\ seen' = seen + 1 /\ arm' = arm
      /\ UNCHANGED <<settings, bankVars>>
  BY <1>2 DEF Forward
<1>4. /\ blind => normalised' = OnBatch
      /\ ~blind /\ target = "none" => normalised' = buffers
      /\ ~blind /\ target # "none" => normalised' = StateOf(target)
  BY <1>1, <1>2, ForwardUses
<1>5. seen + 1 \in 1 .. StreamLength
  BY <1>3, StreamPlaces DEF AllInv, ArmInv, RangeInv
<1>6. \A name \in Known : name \notin {"none", "refuse"}
  BY KnownNames DEF AllInv, Inv, ArmInv
<1>7. UNCHANGED <<source_state, [name \in Known |-> StateOf(name)]>>
  BY <1>3 DEF bankVars, Known, StateOf, ChosenState
<1> DEFINE prescribed == Abstract!Prescribed
<1>8. CASE arm = "source"
  <2>1. normalised' = source_state
    BY <1>2, <1>4, <1>8 DEF Asks, AllInv, ArmInv, LoadInv
  <2> QED BY <1>3, <1>7, <1>8, <2>1, TruthBar DEF Abstract!Batch, Abstract!Prescribed
<1>9. CASE arm = "blind"
  <2>1. normalised' = OnBatch
    BY <1>2, <1>4, <1>9 DEF Asks
  <2> QED BY <1>3, <1>7, <1>9, <2>1, TruthBar DEF Abstract!Batch, Abstract!Prescribed
<1>10. CASE arm = "routed" /\ previous_descriptor = <<>>
  <2>1. normalised' = source_state
    BY <1>2, <1>4, <1>10 DEF Asks, AllInv, ArmInv, LoadInv
  <2> QED BY <1>3, <1>7, <1>10, <2>1, TruthBar DEF Abstract!Batch, Abstract!Prescribed
<1>11. CASE arm = "routed" /\ previous_descriptor # <<>>
  <2> DEFINE verdict == Route(previous_descriptor)
  <2>0. verdict \in Known \cup {"refuse"}
    BY <1>11, RouterNames
  <2>1. normalised' = IF verdict = "refuse" THEN OnBatch ELSE StateOf(verdict)
    BY <1>2, <1>4, <1>6, <1>11 DEF Asks
  <2> HIDE DEF verdict
  <2>2. normalised' = IF verdict = "none" THEN source_state
                      ELSE IF verdict = "refuse" THEN OnBatch
                      ELSE [name \in Known |-> StateOf(name)][verdict]
    BY <1>6, <2>0, <2>1
  <2>3. normalised' = Abstract!Prescribed
    BY <1>11, <2>2 DEF Abstract!Prescribed, verdict
  <2> QED BY <1>1, <1>3, <1>7, <2>3, TruthBar DEF Abstract!Batch
<1>12. CASE arm = "oracle"
  <2> DEFINE truth == ConditionOf(seen + 1).name
  <2>1. normalised' = IF truth \in Known THEN StateOf(truth) ELSE OnBatch
    BY <1>2, <1>4, <1>6, <1>12 DEF Asks
  <2>2. normalised' = Abstract!Prescribed
    BY <1>5, <1>12, <2>1, TruthBar DEF Abstract!Prescribed
  <2> QED BY <1>1, <1>3, <1>7, <2>2, TruthBar DEF Abstract!Batch
<1> QED BY <1>1, <1>8, <1>9, <1>10, <1>11, <1>12 DEF Arms

LEMMA AbstractStep ==
  ASSUME AllInv, [StreamNext]_streamVars
  PROVE  [Abstract!Next]_(Abstract!vars)
<1> USE DEF bankVars, armVars
<1>0. stage # "stream" => arm = "none"
  BY DEF AllInv, Inv, Stages
<1>1. stage \notin {"stream", "failed"} => previous_descriptor = <<>>
  BY DEF AllInv, Inv, Stages
<1>2. CASE RecalibrateCheckpoint \/ SaveRecalibrated \/ Evaluate \/ Recalibrate
  <2>1. stage \notin {"stream", "failed"} /\ UNCHANGED <<arm, armVars>>
    BY <1>2 DEF RecalibrateCheckpoint, SaveRecalibrated, Evaluate, Recalibrate
  <2>2. Abstract!Prepare
    BY <1>0, <1>1, <2>1, Preparing
  <2> QED BY <2>2 DEF Abstract!Next
<1>3. CASE CollectEntry \/ AddEntry \/ CalibrateBatch \/ FinishBank
  <2>1. stage \notin {"stream", "failed"} /\ UNCHANGED <<arm, armVars>>
    BY <1>3 DEF CollectEntry, AddEntry, CalibrateBatch, FinishBank
  <2>2. Abstract!Prepare
    BY <1>0, <1>1, <2>1, Preparing
  <2> QED BY <2>2 DEF Abstract!Next
<1>4. CASE SweepStep
  <2>1. stage \notin {"stream", "failed"} /\ UNCHANGED <<arm, armVars>>
    BY <1>4 DEF SweepStep, SweepLayer, AllInv, Inv, Stages
  <2>2. Abstract!Prepare
    BY <1>0, <1>1, <2>1, Preparing
  <2> QED BY <2>2 DEF Abstract!Next
<1>5. CASE StartArm
  <2>1. arm' \in Abstract!Arms
    BY <1>5 DEF StartArm, AllInv, Inv, Descriptors, Arms, Abstract!Arms
  <2>2. UNCHANGED <<source_state, [name \in Known |-> StateOf(name)]>>
    BY <1>5 DEF StartArm, Known, StateOf, ChosenState
  <2>3. previous_descriptor' = <<>>
    BY <1>5 DEF StartArm
  <2>4. verdictBar' = "none"
    BY <2>3 DEF verdictBar
  <2>5. Abstract!StartArm
    BY <1>5, <2>1, <2>2, <2>4 DEF StartArm, Abstract!StartArm, verdictBar
  <2> QED BY <2>5 DEF Abstract!Next
<1>6. CASE SomeBatch
  BY <1>6, BatchStep DEF Abstract!Next
<1>7. CASE EndArm \/ (Fail /\ arm # "none")
  <2>1. /\ arm # "none" /\ arm' = "none"
        /\ UNCHANGED <<settings, bankVars, armVars>>
    BY <1>7 DEF EndArm, Fail
  <2>2. UNCHANGED <<source_state, [name \in Known |-> StateOf(name)]>>
    BY <2>1 DEF Known, StateOf, ChosenState
  <2>3. verdictBar' = verdictBar
    BY <2>1, VerdictStands
  <2>4. Abstract!EndArm
    BY <2>1, <2>2, <2>3 DEF Abstract!EndArm, verdictBar
  <2> QED BY <2>4 DEF Abstract!Next
<1>8. CASE Fail /\ arm = "none"
  <2>1. arm' = "none" /\ UNCHANGED <<bankVars, armVars>>
    BY <1>8 DEF Fail
  <2>2. Abstract!Prepare
    BY <1>8, <2>1, Preparing
  <2> QED BY <2>2 DEF Abstract!Next
<1>9. CASE UNCHANGED streamVars
  <2>1. UNCHANGED <<settings, arm, bankVars, armVars>>
    BY <1>9 DEF streamVars
  <2>2. UNCHANGED <<source_state, [name \in Known |-> StateOf(name)]>>
    BY <2>1 DEF Known, StateOf, ChosenState
  <2>3. verdictBar' = verdictBar
    BY <2>1, VerdictStands
  <2> QED BY <2>1, <2>2, <2>3 DEF Abstract!vars, verdictBar
<1> QED BY <1>2, <1>3, <1>4, <1>5, <1>6, <1>7, <1>8, <1>9, NextCases

\* The evaluation implements the abstract arms: every batch is normalised with
\* what its arm prescribes, whatever the cached label and the arms before it left
\* in the one shared model (run_arm, load_bn_state).
THEOREM ArmsImplemented == StreamSpec => ArmsAsPrescribed
<1>1. StreamInit => Abstract!Init
  BY DEF StreamInit, Abstract!Init
<1>2. AllInv /\ [StreamNext]_streamVars => [Abstract!Next]_(Abstract!vars)
  BY AbstractStep
<1> QED BY <1>1, <1>2, ArmsInvariance, PTL DEF StreamSpec, ArmsAsPrescribed, Abstract!Spec

-----------------------------------------------------------------------------
\* What the router names is near to the batch it has read.
LEMMA NamesARelative ==
  ASSUME AllInv, arm = "routed", previous_descriptor # <<>>,
         Route(previous_descriptor) # "refuse"
  PROVE  \E j \in Jitter : Resembles(Route(previous_descriptor), ConditionOf(seen).at + j)
<1>1. PICK j \in Jitter :
        previous_descriptor = [n \in {1} |-> Fed(n, BatchAt(seen, j), source_state)]
  BY DEF AllInv, ArmInv, LoadInv
<1>2. settings.layers = {1} /\ seen \in 1 .. StreamLength
  BY StreamPlaces DEF AllInv, ArmInv, LoadInv, RangeInv
<1> DEFINE at == ConditionOf(seen).at + j
<1>3. at \in Int
  <2>1. ConditionOf(seen).at \in Int
    BY <1>2, StreamPlaces
  <2>2. j \in Int
    BY StreamAssumption
  <2> QED BY <2>1, <2>2
<1>4. BatchAt(seen, j).at = at
  BY DEF BatchAt, Pass
<1>5. Measures /\ BankInv /\ entries # <<>> /\ stage = "stream"
  BY InStream DEF AllInv, Inv, ArmInv
<1> HIDE DEF at
<1>6. PICK k \in DOMAIN entries :
        /\ Route(previous_descriptor) = BankConditions[k].name
        /\ ~(100 * Away(at, BankConditions[k].at) > threshold)
        /\ \A i \in DOMAIN entries :
             Away(at, BankConditions[k].at) <= Away(at, BankConditions[i].at)
  BY <1>1, <1>2, <1>3, <1>4, <1>5, Routed
<1>7. threshold \in Int
  BY <1>2, <1>5 DEF AllInv, ArmInv, CalibrationInv
<1>8. Away(at, BankConditions[k].at) \in Nat
  <2>1. BankConditions[k].at \in Int
    BY <1>5, Entries
  <2> QED BY <1>3, <2>1, AwayType
<1>9. entries[k].name = BankConditions[k].name
  BY <1>5 DEF BankInv, EntryOf
<1>10. 100 * Away(at, BankConditions[k].at) <= threshold
  BY <1>6, <1>7, <1>8
<1>11. Resembles(Route(previous_descriptor), at)
  BY <1>6, <1>9, <1>10 DEF Resembles
<1> QED BY <1>11 DEF at

LEMMA LagAfterBatch ==
  ASSUME AllInv, SomeBatch
  PROVE  LagIsOneBatch'
<1>0. arm \in Arms /\ arm # "none"
  BY Batches DEF Arms
<1>1. PICK target \in Known \cup {"none"}, blind \in BOOLEAN, decided \in BOOLEAN :
        Forward(target, blind, decided) /\ Asks(target, blind, decided)
  BY Batches
<1>2. /\ record' = [chosen |-> target, fallback |-> decided /\ blind, decided |-> decided]
      /\ seen' = seen + 1 /\ arm' = arm
      /\ UNCHANGED <<settings, bankVars>>
  BY <1>1 DEF Forward
<1>3. seen \in Nat /\ seen + 1 - 1 = seen
  BY StreamPlaces DEF AllInv, ArmInv, RangeInv
<1>4. UNCHANGED <<entries, threshold>>
  BY <1>2 DEF bankVars
<1> SUFFICES ASSUME arm = "routed", decided, ~blind, seen % BatchesPerCondition # 0
             PROVE  \E j \in Jitter : Resembles(target, ConditionOf(seen + 1).at + j)
  <2>1. /\ arm' = arm /\ seen' - 1 = seen /\ record'.decided = decided
        /\ record'.chosen = target /\ record'.fallback = (decided /\ blind)
        /\ ConditionOf(seen') = ConditionOf(seen + 1)
    BY <1>2, <1>3
  <2> QED BY <1>4, <2>1 DEF LagIsOneBatch, Transition, ConditionOf, Resembles
<1>5. previous_descriptor # <<>> /\ target = Route(previous_descriptor) /\ target # "refuse"
  <2>1. \A name \in Known : name # "refuse"
    BY KnownNames DEF AllInv, Inv, ArmInv
  <2> QED BY <1>1, <2>1 DEF Asks
<1>6. ConditionOf(seen + 1) = ConditionOf(seen)
  <2>1. seen # 0 /\ seen % BatchesPerCondition # 0
    BY <1>5 DEF AllInv, ArmInv, LoadInv
  <2> QED BY <1>3, <2>1, StreamPlaces
<1> QED BY <1>5, <1>6, NamesARelative

\* Nothing but a batch adds to what has been decided.
LEMMA LagStands ==
  ASSUME LagIsOneBatch, UNCHANGED <<record, seen, entries, threshold>>, arm' \in {arm, "none"}
  PROVE  LagIsOneBatch'
<1>1. \A name, at : Resembles(name, at)' = Resembles(name, at)
  BY DEF Resembles
<1> QED BY <1>1 DEF LagIsOneBatch, Transition, ConditionOf

LEMMA NothingDecided == ASSUME record' = NoRecord PROVE LagIsOneBatch'
  BY DEF LagIsOneBatch, NoRecord

LEMMA LagStep ==
  ASSUME AllInv, LagIsOneBatch, [StreamNext]_streamVars
  PROVE  LagIsOneBatch'
<1> USE DEF bankVars, armVars
<1>0. stage \notin {"stream", "failed"} => record = NoRecord
  BY DEF AllInv, ArmInv, RangeInv
<1>1. CASE RecalibrateCheckpoint \/ SaveRecalibrated \/ Evaluate \/ Recalibrate
  <2>1. stage \notin {"stream", "failed"} /\ UNCHANGED record
    BY <1>1 DEF RecalibrateCheckpoint, SaveRecalibrated, Evaluate, Recalibrate
  <2> QED BY <1>0, <2>1, NothingDecided
<1>2. CASE CollectEntry \/ AddEntry \/ CalibrateBatch \/ FinishBank
  <2>1. stage \notin {"stream", "failed"} /\ UNCHANGED record
    BY <1>2 DEF CollectEntry, AddEntry, CalibrateBatch, FinishBank
  <2> QED BY <1>0, <2>1, NothingDecided
<1>3. CASE SweepStep
  BY <1>3, LagStands DEF SweepStep
<1>4. CASE StartArm
  BY <1>4, NothingDecided DEF StartArm
<1>5. CASE SomeBatch
  BY <1>5, LagAfterBatch
<1>6. CASE EndArm \/ Fail
  BY <1>6, LagStands DEF EndArm, Fail
<1>7. CASE UNCHANGED streamVars
  BY <1>7, LagStands DEF streamVars
<1> QED BY <1>1, <1>2, <1>3, <1>4, <1>5, <1>6, <1>7, NextCases

\* Deciding on the batch before costs at most the first batch of a condition, for
\* every stream, bank, percentile and spread of the batches, conditions that
\* resemble each other included (module docstring of stream_eval.py).
THEOREM LagBounded == StreamSpec => []LagIsOneBatch
<1>1. StreamInit => LagIsOneBatch
  BY DEF StreamInit, LagIsOneBatch, NoRecord
<1>2. AllInv /\ LagIsOneBatch /\ [StreamNext]_streamVars => LagIsOneBatch'
  BY LagStep
<1> QED BY <1>1, <1>2, ArmsInvariance, PTL DEF StreamSpec

\* What is loaded for a batch after the first of its condition is an entry that
\* batches of this condition come as near to as some batch of the bank comes to
\* its own.
NoFarRelative ==
  /\ stage = "stream" /\ arm = "routed" /\ previous_descriptor # <<>>
  /\ record.decided /\ ~Transition /\ ~record.fallback
  =>
    \E k \in DOMAIN entries, j \in Jitter, own \in Jitter :
      /\ entries[k].name = record.chosen
      /\ Away(ConditionOf(seen).at + j, BankConditions[k].at) <= Away(own, 0)

\* The calibrated threshold keeps away what no batch of the bank resembles: a
\* condition further from every entry than batches of the bank lie from their
\* own is refused from its second batch on ("if you are further away than 95% of
\* batches are from their own corruption, I do not recognise you",
\* calibrate_threshold, routing.py 299-308).
THEOREM FarOnesRefused == StreamSpec => []NoFarRelative
<1>1. AllInv /\ LagIsOneBatch => NoFarRelative
  <2> SUFFICES ASSUME AllInv, LagIsOneBatch, stage = "stream", arm = "routed",
                      previous_descriptor # <<>>, record.decided, ~Transition, ~record.fallback
               PROVE  \E k \in DOMAIN entries, j \in Jitter, own \in Jitter :
                        /\ entries[k].name = record.chosen
                        /\ Away(ConditionOf(seen).at + j, BankConditions[k].at) <= Away(own, 0)
    BY DEF NoFarRelative
  <2>1. PICK j \in Jitter : Resembles(record.chosen, ConditionOf(seen).at + j)
    BY DEF LagIsOneBatch
  <2> DEFINE at == ConditionOf(seen).at + j
  <2>2. PICK k \in DOMAIN entries : /\ entries[k].name = record.chosen
                                    /\ 100 * Away(at, BankConditions[k].at) <= threshold
    BY <2>1 DEF Resembles
  <2>3. settings.layers = {1} /\ seen \in 1 .. StreamLength
    BY StreamPlaces DEF AllInv, ArmInv, LoadInv, RangeInv
  <2>4. PICK own \in Jitter : threshold \in Int /\ threshold <= 100 * Away(own, 0)
    BY <2>3 DEF AllInv, ArmInv, CalibrationInv
  <2>5. Away(at, BankConditions[k].at) \in Nat /\ Away(own, 0) \in Nat
    <3>1. BankConditions[k].at \in Int
      BY Entries DEF AllInv, Inv, ArmInv
    <3>2. at \in Int /\ own \in Int /\ 0 \in Int
      <4>1. ConditionOf(seen).at \in Int
        BY <2>3, StreamPlaces
      <4> QED BY <4>1, StreamAssumption
    <3> QED BY <3>1, <3>2, AwayType
  <2> HIDE DEF at
  <2>6. Away(at, BankConditions[k].at) <= Away(own, 0)
    BY <2>2, <2>4, <2>5
  <2> QED BY <2>2, <2>6 DEF at
<1> QED BY <1>1, ArmsInvariance, LagBounded, PTL
=============================================================================
