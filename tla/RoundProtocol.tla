--------------------------- MODULE RoundProtocol ----------------------------
(***************************************************************************)
(* What one federated run promises, without clients or messages: rounds    *)
(* are opened one after the other, each is aggregated once and evaluated   *)
(* once before the next one is opened, and the run leaves a summary        *)
(* exactly when it finished instead of being aborted.                      *)
(***************************************************************************)
EXTENDS Integers

CONSTANT GlobalEpoch

VARIABLES
  stage,     \* "ready", "training", "evaluating", "finished", "aborted"
  round,     \* the round being trained or evaluated, -1 before the first
  summary    \* whether there is a result to record

vars == <<stage, round, summary>>

TypeOK ==
  /\ stage \in {"ready", "training", "evaluating", "finished", "aborted"}
  /\ round \in -1 .. GlobalEpoch - 1
  /\ summary \in BOOLEAN

Init == stage = "ready" /\ round = -1 /\ summary = FALSE

OpenRound ==
  /\ stage \in {"ready", "evaluating"}
  /\ round < GlobalEpoch - 1
  /\ stage' = "training"
  /\ round' = round + 1
  /\ UNCHANGED summary

Aggregate ==
  /\ stage = "training"
  /\ stage' = "evaluating"
  /\ UNCHANGED <<round, summary>>

\* After the last round, or early.
Finish ==
  /\ stage = "evaluating"
  /\ stage' = "finished"
  /\ summary' = TRUE
  /\ UNCHANGED round

Abort ==
  /\ stage \in {"ready", "training", "evaluating"}
  /\ stage' = "aborted"
  /\ UNCHANGED <<round, summary>>

Next == OpenRound \/ Aggregate \/ Finish \/ Abort

Spec == Init /\ [][Next]_vars
=============================================================================
