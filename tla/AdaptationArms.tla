--------------------------- MODULE AdaptationArms ---------------------------
(***************************************************************************)
(* What the four arms of the stream evaluation promise (module docstring   *)
(* of src/iot/stream_eval.py), without buffers, caches or passes: which    *)
(* statistics each batch is normalised with, given what the router says of *)
(* the batch before it.                                                    *)
(*                                                                         *)
(* The docstring's table of the arms and its paragraph on the lag are what *)
(* is specified. One sentence of it is not: "whatever adaptation the model *)
(* has accumulated carries over" (stream_eval.py 26-28; bn_adapt.py 47-49  *)
(* says that a continuous stream wants it). A blind batch is normalised on *)
(* itself alone, a routed one with a state of the bank, so nothing a batch *)
(* leaves in the buffers reaches a later one: only the label of what is    *)
(* loaded and the descriptor read do.                                      *)
(***************************************************************************)
EXTENDS Naturals, Sequences

CONSTANTS
  OnBatch,   \* normalising on the batch itself
  Truth      \* the corruption of each batch of the stream, in order

VARIABLES
  arm,       \* "none" outside the arms
  source,    \* the statistics every arm starts from
  bank,      \* [label -> statistics]
  seen,      \* batches of the stream this arm has met
  verdict,   \* the router on the last batch: a label, "refuse", or "none" yet
  used       \* what the last batch was normalised with

vars == <<arm, source, bank, seen, verdict, used>>

Arms == {"source", "blind", "routed", "oracle"}

Init == arm = "none" /\ seen = 0 /\ verdict = "none" /\ used = OnBatch

\* The statistics and the bank are made ready before the arms.
Prepare ==
  /\ arm = "none" /\ arm' = "none"
  /\ UNCHANGED <<seen, verdict, used>>

StartArm ==
  /\ arm = "none" /\ arm' \in Arms
  /\ seen' = 0
  /\ verdict' = "none"
  /\ UNCHANGED <<source, bank, used>>

\* The statistics the arm prescribes for the next batch.
Prescribed ==
  CASE arm = "source" -> source
    [] arm = "blind"  -> OnBatch
    [] arm = "routed" -> IF verdict = "none" THEN source
                         ELSE IF verdict = "refuse" THEN OnBatch ELSE bank[verdict]
    [] arm = "oracle" -> IF Truth[seen + 1] \in DOMAIN bank THEN bank[Truth[seen + 1]]
                         ELSE OnBatch

Batch ==
  /\ arm # "none"
  /\ seen < Len(Truth)
  /\ used' = Prescribed
  /\ seen' = seen + 1
  /\ UNCHANGED <<arm, source, bank>>

EndArm ==
  /\ arm # "none" /\ arm' = "none"
  /\ UNCHANGED <<source, bank, seen, verdict, used>>

Next == Prepare \/ StartArm \/ Batch \/ EndArm

Spec == Init /\ [][Next]_vars
=============================================================================
