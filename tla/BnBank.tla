------------------------------- MODULE BnBank -------------------------------
(***************************************************************************)
(* How the statistics of a network's BatchNorm layers are measured         *)
(* (src/iot/bn_bank.py, recalibrate in src/iot/source_model.py).           *)
(*                                                                         *)
(* A statistic is the term that says what it was measured on: the layer,   *)
(* the images, and the statistics the layers above it normalised with at   *)
(* that moment. Nothing else reaches a layer's input, so two equal terms   *)
(* are equal numbers in every network, and different terms may differ.     *)
(***************************************************************************)
EXTENDS Integers

CONSTANTS
  NumLayers,   \* BatchNorm modules, numbered in definition order
  Upstream     \* Upstream[n]: the layers whose output reaches layer n

Layers == 1 .. NumLayers

\* Definition order is execution order. A downsample branch is defined after the
\* convolutions beside it and reads the input of the whole block.
ASSUME BackboneAssumption ==
  /\ NumLayers \in Nat \ {0}
  /\ Upstream \in [Layers -> SUBSET Layers]
  /\ \A n \in Layers : \A m \in Upstream[n] : m < n

VARIABLES
  buffers,    \* [Layers -> statistic], running_mean and running_var
  sweeping,   \* _sweep_bn_state is inside its loop over the layers
  images,     \* what the sweep measures on
  layer,      \* the next layer it measures
  saved,      \* the buffers it found
  result      \* what it has measured

sweepVars == <<sweeping, images, layer, saved, result>>

-----------------------------------------------------------------------------
Shipped  == [n \in Layers |-> <<"imagenet">>]
\* In train mode a layer normalises on the batch in front of it,
OnBatch  == [n \in Layers |-> <<"batch">>]
\* and its buffers become a moving average nobody measured.
Drifted  == [n \in Layers |-> <<"average">>]

\* The moments of layer n's input.
Fed(n, data, state) == <<"fed", n, data, [m \in Upstream[n] |-> state[m]]>>

\* One pass with everything normalising on `state`.
Measured(data, state) == [n \in Layers |-> Fed(n, data, state)]

\* 'as-is', 'batch-stats': one pass, the buffers as they were afterwards.
CollectOnePass(method, data) ==
  Measured(data, IF method = "batch-stats" THEN OnBatch ELSE buffers)

\* Loading the state and measuring again does not move it (state_residual).
FixedPoint(state, data) == Measured(data, state) = state

Descriptor(layers, data, state) == [n \in layers |-> Fed(n, data, state)]

\* Mutant: the layers of a descriptor are not checked.
AnyLayers(layers) == TRUE

\* Every layer is adapted, so none may precede a layer the descriptor reads.
DescriptorIndependent(layers) == \A n \in layers, m \in Layers : ~(m < n)

-----------------------------------------------------------------------------
\* A pass over a shuffled loader meets all its images, or when it is cut short
\* (max_batches) the ones that happen to come first in that pass.
Pass(name, at, cut, k) == [name |-> name, at |-> at, pass |-> IF cut THEN k ELSE 0]

\* Mutant: every layer is measured in a pass of its own.
Reshuffled(n) == [images EXCEPT !.pass = IF @ = 0 THEN 0 ELSE n]

\* The batches are snapshotted once when the pass is cut short.
ImagesFor(n) == images

\* "Commit before measuring the next one."
Commit(n, measured) == [buffers EXCEPT ![n] = measured]

BeginSweep(data) ==
  /\ ~sweeping
  /\ sweeping' = TRUE
  /\ images' = data
  /\ layer' = 1
  /\ saved' = buffers
  /\ result' = buffers
  /\ UNCHANGED buffers

\* _one_layer_moments stops the forward pass at the layer it wants.
SweepLayer ==
  /\ sweeping
  /\ layer \in Layers
  /\ LET measured == Fed(layer, ImagesFor(layer), buffers)
     IN  /\ result' = [result EXCEPT ![layer] = measured]
         /\ buffers' = Commit(layer, measured)
  /\ layer' = layer + 1
  /\ UNCHANGED <<sweeping, images, saved>>

\* The loop is over.
Swept == sweeping /\ layer > NumLayers

\* The `finally` of the sweep, and what its caller loads into the model.
EndSweep(loaded) ==
  /\ sweeping' = FALSE
  /\ buffers' = loaded
  /\ UNCHANGED <<images, layer, saved, result>>
=============================================================================
