---------------------------- MODULE FederatedRun ----------------------------
(***************************************************************************)
(* One run: the server and its clients over one network, from the first    *)
(* connection to the moment the launcher can go on - the server stopped    *)
(* and every client thread joined.                                         *)
(***************************************************************************)
EXTENDS FederatedServer, FederatedClient

vars == <<networkVars, serverVars, clientVars>>

TypeOK == NetworkTypeOK /\ ServerTypeOK /\ ClientTypeOK

Init == NetworkInit /\ ServerInit /\ ClientInit

RunOver == stopped /\ \A c \in Clients : link[c] = "gone"

\* What a live process sooner or later does.
Progress ==
  \/ ServerNext /\ UNCHANGED clientVars
  \/ ClientStep(~stopped) /\ UNCHANGED serverVars

\* The launcher has moved on.
Over == RunOver /\ UNCHANGED vars

Next ==
  \/ Progress
  \/ Disturbance(~stopped) /\ UNCHANGED serverVars
  \/ Over

Spec == Init /\ [][Next]_vars

\* Every thread that can take a step is eventually scheduled and the clock
\* advances; no fault is ever due.
FairSpec == Spec /\ WF_vars(Progress)

-----------------------------------------------------------------------------
\* Two connections of one client are never registered together, whatever the
\* order in which reconnections, readiness messages and disconnections are
\* handled (_on_client_ready, _on_disconnect): a round could sample the client
\* twice, once on a dead sid.
OneRegistrationPerClient ==
  \A s, u \in registered_clients : s[1] = u[1] => s = u

\* No client is counted twice in a round and nothing of another round is counted
\* (_on_client_update): the barrier counts list entries, not senders.
UpdatesCountOnce ==
  LET updates == client_updates_this_round IN
  \A i, j \in DOMAIN updates :
    /\ updates[i].round = current_round
    /\ updates[i].sid[1] = updates[j].sid[1] => i = j

\* A row of test metrics averages evaluations of that round's own model
\* (_on_client_eval has only the order of arrival to go by).
EvaluationsOfTheirRound ==
  \A m \in test_metrics : m.on = m.round

\* Once written, the test metrics of a round are final: an evaluation that comes
\* after the barrier does not fire it again.
TestMetricsFinal ==
  [][\A m \in test_metrics :
       {n \in test_metrics' : n.round = m.round} =
         {n \in test_metrics : n.round = m.round}]_vars

\* A round is opened only when the one before it was aggregated, and there is
\* no round after global_epoch.
RoundsInOrder ==
  [][current_round' # current_round =>
       /\ current_round' = current_round + 1
       /\ current_round' < GlobalEpoch
       /\ current_round = -1 \/ current_round \in train_metrics]_vars

\* A client never trains and evaluates at the same time: the worker thread and
\* the stop_and_eval handler share local_model without a lock.
OneUserOfLocalModel ==
  \A t, u \in tasks :
    /\ t.client = u.client
    /\ {t.event, u.event} \subseteq {"request_update", "stop_and_eval"}
    => t = u

\* No client is asked to train a FedLC round before it applied the calibration
\* term it was sent (_finalize_initialization_and_start_training's sleep).
CalibratedBeforeTraining ==
  FedLC => \A t \in tasks : t.event = "request_update" => calibrated[t.client]

\* A run the watchdog ended leaves no row for the shared results file
\* (_abort_run clears run_summary).
NoSummaryOfAbortedRun == aborted => ~run_summary

\* Every run comes to an end, and with it the launcher's wait, when clients never
\* connect, get no keys or die while training, and when an update cannot be read
\* or aggregated (_round_watchdog). Connections that are lost are TrainingEnds'.
RunEnds == <>RunOver

\* Whatever connections are lost or processes restarted, a run does not hang
\* before the last evaluation: a client that is back under a new sid and never
\* said so, or one that enlarged the evaluation barrier of a round it was not
\* asked to evaluate, is waited for no longer than the timeout
\* (_round_watchdog). What comes after is_training_finished is RunEnds'.
TrainingEnds == <>is_training_finished

\* The round was full and summed, but its aggregation raised.
AggregationRaised ==
  /\ total_training_size_in_round = current_round
  /\ current_round \notin train_metrics

\* A run is over without a result to record only when an answer it waited for
\* never came - a client that never reported ready, or one asked to train whose
\* update is missing or could not be read - or when the aggregation of a full
\* round raised. No answer that did come is left out of the barrier it belongs
\* to. Evaluations that fail are not in it: they leave the last barrier open.
AnswersSuffice ==
  RunOver /\ ~run_summary =>
    \/ Cardinality(client_stats) < NumClients
    \/ Len(client_updates_this_round) < num_clients_per_round
    \/ AggregationRaised

-----------------------------------------------------------------------------
\* The run as RoundProtocol sees it.
stage ==
  CASE aborted -> "aborted"
    [] ~aborted /\ run_summary -> "finished"
    [] ~aborted /\ ~run_summary /\ current_round = -1 -> "ready"
    [] ~aborted /\ ~run_summary /\ current_round # -1 ->
         IF current_round \in train_metrics THEN "evaluating" ELSE "training"

Protocol == INSTANCE RoundProtocol WITH round <- current_round, summary <- run_summary

FollowsProtocol == Protocol!Spec
=============================================================================
