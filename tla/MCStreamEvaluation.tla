------------------------- MODULE MCStreamEvaluation -------------------------
(***************************************************************************)
(* An instance of StreamEvaluation for TLC: a stem layer and one residual  *)
(* block with a downsample branch, a bank of three of which two lie close  *)
(* together, and a stream with a corruption of the bank at a severity that *)
(* resembles another one, one that resembles nothing, and clean images at  *)
(* both ends.                                                              *)
(***************************************************************************)
EXTENDS StreamEvaluation

MCUpstream == <<{}, {1}, {1, 2}, {1}>>

MCBank == <<[name |-> "clean", at |-> 0], [name |-> "fog", at |-> 10],
            [name |-> "frost", at |-> 12]>>

MCStream == <<[name |-> "clean", at |-> 0], [name |-> "fog", at |-> 11],
              [name |-> "warp", at |-> 40], [name |-> "clean", at |-> 0]>>

MCJitter == {0, 1}

Setting(method, cut, blended, recalibrate, layers) ==
  [method |-> method, cut |-> cut, blended |-> blended, recalibrate |-> recalibrate,
   layers |-> layers]

MCSettings ==
  {Setting("sequential", cut, blended, recalibrate, {1}) :
     cut, blended, recalibrate \in BOOLEAN}
  \cup {Setting(method, FALSE, FALSE, recalibrate, {1}) :
     method \in {"as-is", "batch-stats"}, recalibrate \in BOOLEAN}
  \cup {Setting("sequential", FALSE, FALSE, FALSE, {1, 2})}
=============================================================================
