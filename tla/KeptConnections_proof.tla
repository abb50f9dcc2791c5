------------------------ MODULE KeptConnections_proof ------------------------
(***************************************************************************)
(* What FederatedRun promises when no connection is lost while the server  *)
(* runs: faults of training, of evaluation and of the start remain. The    *)
(* barriers of the server count answers, not senders, so the invariant is  *)
(* a budget: what is buffered and what is still on its way never exceeds   *)
(* what the barrier waits for. When a barrier opens nothing is left behind.*)
(***************************************************************************)
EXTENDS FederatedRun_proof, FiniteSetTheorems

ConnectionsKept == {"drop", "restart"} \cap Failures = {}

\* Every sid in use is the only one its client ever had, and as long as the
\* server has not begun to stop, its client can be reached on it.
LinkInv ==
  /\ \A c \in Clients : link[c] = "new" => conn[c] = 0
  /\ \A c \in Clients : link[c] = "down" => stopped
  /\ \A s \in open : conn[s[1]] = s[2]
  /\ \A s \in registered_clients : conn[s[1]] = s[2]
  /\ \A e \in events : conn[e.sid[1]] = e.sid[2]
  /\ ~stopping => \A c \in Clients : link[c] = "up" \/ conn[c] = 0
  /\ \A t \in tasks : t.event = "shutdown" => stopping
  /\ stopped => stopping
  /\ stopping => is_training_finished

Evaluates(t) == t.event = "stop_and_eval"
Evaluated(e) == e.event = "client_eval"

Evaluating == current_round \in train_metrics

\* Only the current round is asked for, first to train and then to evaluate.
MessageInv ==
  /\ \A t \in tasks : Request(t) => t.round = current_round /\ ~Evaluating
  /\ \A e \in events : Reply(e) => e.round = current_round /\ ~Evaluating
  /\ \A t \in tasks : Evaluates(t) => t.round = current_round /\ Evaluating
  /\ \A e \in events : Evaluated(e) => e.round = current_round /\ Evaluating

\* The clients that may still answer.
Awaited(ask, answer) ==
  {t.client : t \in {u \in tasks : u.event = ask}} \cup
  {e.sid[1] : e \in {f \in events : f.event = answer}}

AwaitedUpdates     == Awaited("request_update", "client_update")
AwaitedEvaluations == Awaited("stop_and_eval", "client_eval")

UpdateBudget ==
  /\ IsFiniteSet(AwaitedUpdates)
  /\ Cardinality(AwaitedUpdates) + Len(client_updates_this_round) <= num_clients_per_round
  /\ Evaluating => Len(client_updates_this_round) >= num_clients_per_round

\* The request to a client to evaluate and its answer are one token.
EvaluationToken ==
  /\ \A t \in tasks, e \in events : Evaluates(t) /\ Evaluated(e) => t.client # e.sid[1]
  /\ \A e, f \in events : Evaluated(e) /\ Evaluated(f) /\ e.sid[1] = f.sid[1] => e = f

EvaluationBudget ==
  /\ IsFiniteSet(registered_clients)
  /\ IsFiniteSet(AwaitedEvaluations)
  /\ Evaluating /\ ~stopping =>
       Cardinality(AwaitedEvaluations) + Len(client_evaluations_this_round)
         <= Cardinality(registered_clients)
  /\ Evaluating => \A i \in DOMAIN client_evaluations_this_round :
       client_evaluations_this_round[i].on = current_round

KeptInv ==
  LinkInv /\ MessageInv /\ UpdateBudget /\ EvaluationToken /\ EvaluationBudget
    /\ EvaluationsOfTheirRound

-----------------------------------------------------------------------------
\* When everybody is there from the start.
AllClients ==
  IsFiniteSet(Clients) /\ Cardinality(Clients) = NumClients

CalibrationTask(c) == \E t \in tasks : t.event = "distribute_calibration" /\ t.client = c

CalibrationInv ==
  /\ \A c \in client_stats : conn[c] # 0
  /\ ~stopping => \A c \in client_stats : <<c, conn[c]>> \in registered_clients
  /\ training_started => client_stats = Clients
  /\ FedLC /\ starting =>
       \A c \in Clients : link[c] = "up" => calibrated[c] \/ CalibrationTask(c)
  /\ FedLC /\ current_round # -1 => \A c \in Clients : link[c] = "up" => calibrated[c]
  /\ CalibratedBeforeTraining

\* The end of a run when the timeout covers the clients' work.
EndInv ==
  /\ stopping => NothingPending
  /\ stopping => aborted \/ run_summary
  /\ silent \/ aborted => /\ events = {} /\ \A t \in tasks : t.event = "shutdown"
                          /\ \A c \in Clients : link[c] # "new"
  /\ \A m \in test_metrics : m.round \in train_metrics
  /\ (\E m \in test_metrics : m.round = current_round) => AwaitedEvaluations = {}

\* A round always waits for MinNumWorkers clients, and none waits in vain for an
\* update it already has, unless its aggregation raised.
RoundsUnderWay ==
  /\ NumClients <= Cardinality(client_stats) => training_started
  /\ training_started /\ ~starting /\ ~stopping => current_round # -1
  /\ current_round # -1 => num_clients_per_round = MinNumWorkers
  /\ current_round # -1 /\ ~Evaluating =>
       \/ Len(client_updates_this_round) < num_clients_per_round
       \/ AggregationRaised

\* While a round is evaluated the barrier is open, and everybody registered has
\* answered or still will.
EvaluationsComing ==
  Evaluating /\ ~stopping =>
    /\ Len(client_evaluations_this_round) < Cardinality(registered_clients)
    /\ \A s \in registered_clients :
         \/ s[1] \in AwaitedEvaluations
         \/ \E i \in DOMAIN client_evaluations_this_round :
              client_evaluations_this_round[i].sid = s

AbortExplained ==
  aborted => \/ Cardinality(client_stats) < NumClients
             \/ Len(client_updates_this_round) < num_clients_per_round
             \/ AggregationRaised

EveryoneAnswers == RoundsUnderWay /\ EvaluationsComing /\ AbortExplained
-----------------------------------------------------------------------------
\* What a step of a client may be.
NewConnection(c) ==
  /\ link[c] = "new"
  /\ OpenConnection(c) /\ WakeUp(c)
  /\ UNCHANGED <<tasks, calibrated>>

LinkEnds(c) ==
  /\ \E state \in {"down", "gone"} :
       /\ link' = [link EXCEPT ![c] = state]
       /\ state = "down" => stopped
  /\ tasks' \subseteq tasks /\ tasks \ tasks' \subseteq TasksOf(c)
  /\ stopping \/ (conn[c] = 0 /\ UNCHANGED tasks)
  /\ UNCHANGED <<conn, open, events, calibrated>>

Works(t) ==
  /\ t.event # "shutdown"
  /\ tasks' = tasks \ {t}
  /\ calibrated' = IF t.event = "distribute_calibration"
                     THEN [calibrated EXCEPT ![t.client] = TRUE] ELSE calibrated
  /\ events \subseteq events'
  /\ \A e \in events' \ events : e.sid = <<t.client, conn[t.client]>>
  /\ Evaluates(t) /\ "eval" \notin Failures => events' = Send(t.client, "client_eval", t.round)
  /\ UNCHANGED <<link, conn, open>>

LEMMA KeptClientStep ==
  ASSUME TypeInv, LinkInv, ConnectionsKept, ClientNext
  PROVE  \/ \E c \in Clients : NewConnection(c) \/ LinkEnds(c)
         \/ \E t \in tasks : Works(t)
<1> DEFINE up == ~stopped
<1>1. ASSUME NEW t \in tasks, HandleTask(t)
      PROVE  Works(t) \/ \E c \in Clients : LinkEnds(c)
  <2>1. t.client \in Clients /\ t.round \in Rounds
    BY TaskTyped DEF TypeInv
  <2>2. ASSUME NEW event, NEW kind, Fail(t, event, kind),
               event \notin {"distribute_calibration", "shutdown"},
               event = "stop_and_eval" => kind = "eval"
        PROVE  Works(t)
    BY <2>2 DEF Fail, Works, Evaluates
  <2>3. ASSUME NEW event, NEW reply \in ClientEvents, Answer(t, event, reply),
               event \notin {"distribute_calibration", "shutdown"},
               event = "stop_and_eval" => reply = "client_eval"
        PROVE  Works(t)
    <3>1. \A e \in events' \ events : e.sid = <<t.client, conn[t.client]>>
      BY <2>1, <2>3, SendLemma DEF Answer
    <3> QED  BY <2>3, <3>1 DEF Answer, Works, Evaluates, Send
  <2>4. {"client_ready", "client_update", "client_eval"} \subseteq ClientEvents
    BY DEF ClientEvents
  <2>5. CASE OnDistributeCalibration(t)
    BY <2>5 DEF OnDistributeCalibration, Works, Evaluates
  <2>6. CASE OnShutdown(t)
    BY <2>1, <2>6 DEF OnShutdown, LinkEnds, LinkInv
  <2> QED
    BY <1>1, <2>2, <2>3, <2>4, <2>5, <2>6
    DEF HandleTask, OnInit, UpdateWorker, OnStopAndEval
<1>2. ASSUME NEW c \in Clients, Connect(c, up)
      PROVE  NewConnection(c) \/ LinkEnds(c)
  BY <1>2 DEF Connect, NewConnection, LinkEnds, LinkInv
<1>3. ASSUME NEW c \in Clients, Reconnect(c, up) \/ Restart(c, up)
      PROVE  FALSE
  BY <1>3 DEF Reconnect, Restart, LinkInv, ConnectionsKept
<1>4. ASSUME NEW c \in Clients, GiveUp(c) \/ LoseConnection(c, up)
      PROVE  LinkEnds(c)
  BY <1>4 DEF GiveUp, LoseConnection, LinkEnds, LinkInv, ConnectionsKept
<1> QED
  BY <1>1, <1>2, <1>3, <1>4 DEF ClientNext, ClientStep, Disturbance

\* What a step of the server does to the registry and to the end of the run.
LEMMA ServerFrame ==
  ASSUME TypeInv, ServerNext
  PROVE  /\ ~stopped
         /\ registered_clients' \subseteq registered_clients \cup {e.sid : e \in events}
         /\ stopping => stopping'
         /\ is_training_finished => is_training_finished'
         /\ stopped' => stopping'
         /\ stopping' => stopping \/ is_training_finished'
         /\ \A t \in tasks' \ tasks : t.event = "shutdown" => stopping'
<1>1. NetworkTypeOK /\ ServerTypeOK
  BY DEF TypeInv, TypeOK
<1>2. \A event \in ServerEvents, sids \in SUBSET Sids, r \in Rounds :
        \A t \in Emit(event, sids, r) \ tasks : t.event = event
  BY <1>1, EmitLemma
<1>3. ServerEvents = {"init", "distribute_calibration", "request_update",
                      "stop_and_eval", "shutdown"}
      /\ -1 \in Rounds
  BY DEF ServerEvents, Rounds
<1>4. ASSUME NEW s \in open, OnDisconnect(s)
      PROVE  /\ ~stopped /\ registered_clients' \subseteq registered_clients
             /\ UNCHANGED <<tasks, stopping, stopped, is_training_finished>>
  BY <1>4 DEF OnDisconnect, endVars
<1>5. ASSUME NEW e \in events, OnClientWakeUp(e)
      PROVE  /\ ~stopped /\ \A t \in tasks' \ tasks : t.event = "init"
             /\ UNCHANGED <<registered_clients, stopping, stopped, is_training_finished>>
  <2>1. {e.sid} \in SUBSET Sids
    BY EventTyped
  <2> QED
    BY <1>2, <1>3, <1>5, <2>1 DEF OnClientWakeUp, Receive, serverVars, registryVars, endVars
<1>6. ASSUME NEW e \in events, OnClientReady(e)
      PROVE  /\ ~stopped /\ \A t \in tasks' \ tasks : t.event = "distribute_calibration"
             /\ registered_clients' \subseteq registered_clients \cup {e.sid}
             /\ UNCHANGED <<stopping, stopped, is_training_finished>>
  <2>1. registered_clients' \in SUBSET Sids
    BY <1>1, <1>6, EventTyped DEF OnClientReady, ServerTypeOK
  <2> QED
    BY <1>2, <1>3, <1>6, <2>1 DEF OnClientReady, Receive, endVars
<1>7. ASSUME NEW e \in events, IgnoreUpdate(e)
      PROVE  ~stopped
             /\ UNCHANGED <<tasks, registered_clients, stopping, stopped, is_training_finished>>
  BY <1>7 DEF IgnoreUpdate, Receive, serverVars, registryVars, endVars
<1>8. ASSUME NEW e \in events, OnClientUpdate(e)
      PROVE  /\ ~stopped /\ \A t \in tasks' \ tasks : t.event = "stop_and_eval"
             /\ is_training_finished => is_training_finished'
             /\ UNCHANGED <<registered_clients, stopping, stopped>>
  <2>1. registered_clients \in SUBSET Sids /\ current_round \in Rounds
    BY <1>1 DEF ServerTypeOK
  <2> QED
    BY <1>1, <1>2, <1>3, <1>8, <2>1
    DEF OnClientUpdate, Receive, TriggerGlobalEvaluation, registryVars, ServerTypeOK
<1>9. ASSUME NEW e \in events, OnClientEval(e)
      PROVE  /\ ~stopped
             /\ \/ UNCHANGED <<tasks, stopping>>
                \/ stopping' /\ is_training_finished'
                \/ UNCHANGED stopping /\ \A t \in tasks' \ tasks : t.event = "request_update"
             /\ is_training_finished => is_training_finished'
             /\ UNCHANGED <<registered_clients, stopped>>
  <2>1. is_training_finished => is_training_finished'
    BY <1>1, <1>9 DEF OnClientEval, ServerTypeOK
  <2> QED
    BY <1>9, <2>1, StartRoundLemma
    DEF OnClientEval, Receive, NextRoundOrFinish, FinishRun, registryVars
<1>10. CASE StartTraining
  BY <1>10, StartRoundLemma DEF StartTraining, registryVars, endVars
<1>11. CASE Silence
  BY <1>11 DEF Silence, registryVars, endVars
<1>12. CASE RoundWatchdog
  BY <1>12 DEF RoundWatchdog, AbortRun, registryVars
<1>13. CASE StopServer
  BY <1>13 DEF StopServer, registryVars
<1> QED
  BY <1>1, <1>4, <1>5, <1>6, <1>7, <1>8, <1>9, <1>10, <1>11, <1>12, <1>13
  DEF ServerNext, HandleEvent, ServerTypeOK

LEMMA LinkInvStep ==
  ASSUME ConnectionsKept, TypeInv, LinkInv, [Next]_vars
  PROVE  LinkInv'
<1>1. NetworkTypeOK /\ link \in [Clients -> LinkState] /\ conn \in [Clients -> 0..MaxConn]
      /\ \A s \in Sids : s[1] \in Clients /\ s[2] # 0 /\ s = <<s[1], s[2]>>
  BY DEF TypeInv, TypeOK, NetworkTypeOK, Sids
<1>2. CASE ServerNext /\ ServerEffect
  BY <1>2, ServerFrame DEF ServerEffect, LinkInv
<1>3. CASE UNCHANGED serverVars /\ ClientEffect /\ ClientNext
  <2>1. UNCHANGED <<registered_clients, stopping, stopped, is_training_finished>>
        /\ tasks' \subseteq tasks
    BY <1>3 DEF serverVars, registryVars, endVars, ClientEffect
  <2>2. ASSUME NEW c \in Clients, NewConnection(c) PROVE LinkInv'
    <3>1. conn[c] = 0
      BY <2>2 DEF NewConnection, LinkInv
    <3>2. /\ link' = [link EXCEPT ![c] = "up"] /\ conn' = [conn EXCEPT ![c] = @ + 1]
          /\ open' = open \cup {<<c, conn[c] + 1>>}
          /\ \A e \in events' : e \in events \/ e.sid = <<c, conn[c] + 1>>
      BY <2>2 DEF NewConnection, OpenConnection, WakeUp
    <3>3. \A s \in Sids : conn[s[1]] = s[2] => s[1] # c
      BY <1>1, <3>1
    <3>4. \A s \in Sids : conn[s[1]] = s[2] => conn'[s[1]] = s[2]
      BY <1>1, <3>2, <3>3
    <3>5. open \subseteq Sids /\ registered_clients \subseteq Sids /\ \A e \in events : e.sid \in Sids
      BY EventTyped DEF TypeInv, TypeOK, NetworkTypeOK, ServerTypeOK
    <3>6. conn'[c] = conn[c] + 1 /\ \A b \in Clients : b # c => conn'[b] = conn[b]
      BY <1>1, <3>2
    <3>7. link'[c] = "up" /\ \A b \in Clients : b # c => link'[b] = link[b]
      BY <1>1, <3>2
    <3>8. /\ \A s \in open' : conn'[s[1]] = s[2]
          /\ \A s \in registered_clients' : conn'[s[1]] = s[2]
          /\ \A e \in events' : conn'[e.sid[1]] = e.sid[2]
      BY <2>1, <3>2, <3>4, <3>5, <3>6 DEF LinkInv
    <3> QED
      BY <2>1, <3>6, <3>7, <3>8 DEF LinkInv
  <2>3. ASSUME NEW c \in Clients, LinkEnds(c) PROVE LinkInv'
    BY <1>1, <2>1, <2>3 DEF LinkEnds, LinkInv
  <2>4. ASSUME NEW t \in tasks, Works(t) PROVE LinkInv'
    BY <1>1, <2>1, <2>4, TaskTyped DEF Works, LinkInv
  <2> QED  BY <1>3, <2>2, <2>3, <2>4, KeptClientStep
<1>4. CASE UNCHANGED vars
  BY <1>4 DEF vars, networkVars, serverVars, registryVars, endVars, LinkInv
<1> QED
  BY <1>2, <1>3, <1>4, StepLemma

-----------------------------------------------------------------------------
\* Counting clients.
LEMMA FirstComponents ==
  ASSUME NEW S, IsFiniteSet(S)
  PROVE  /\ IsFiniteSet({s[1] : s \in S})
         /\ Cardinality({s[1] : s \in S}) <= Cardinality(S)
<1> DEFINE T == {s[1] : s \in S}
           f == [s \in S |-> s[1]]
<1>1. f \in Surjection(S, T)
  BY DEF Surjection
<1> QED
  BY <1>1, FS_Surjection

LEMMA FinitelyMore ==
  ASSUME NEW S, NEW x, IsFiniteSet(S)
  PROVE  /\ IsFiniteSet(S \ {x}) /\ IsFiniteSet(S \cup {x})
         /\ Cardinality(S) \in Nat
         /\ x \in S => Cardinality(S \ {x}) = Cardinality(S) - 1
  BY FS_CardinalityType, FS_RemoveElement, FS_AddElement

LEMMA Smaller ==
  ASSUME NEW S, NEW T, IsFiniteSet(S), T \subseteq S
  PROVE  /\ IsFiniteSet(T) /\ Cardinality(T) \in Nat /\ Cardinality(S) \in Nat
         /\ Cardinality(T) <= Cardinality(S)
  BY FS_Subset, FS_CardinalityType

-----------------------------------------------------------------------------
\* Rounds. Most steps take messages away or turn a request into its answer.
MessagesOnlyAnswered ==
  /\ \A t \in tasks' \ tasks : ~Asks(t)
  /\ \A e \in events' \ events : Answers(e) => \E t \in tasks \ tasks' : IsAnswer(e, t)
  /\ \A e, f \in events' \ events : e = f

\* They leave the round as it is and nobody's registration is lost to it.
RoundFrame ==
  /\ UNCHANGED <<roundVars, client_evaluations_this_round, train_metrics, test_metrics>>
  /\ registered_clients \subseteq registered_clients' \/ stopping'
  /\ IsFiniteSet(registered_clients) => IsFiniteSet(registered_clients')
  /\ stopping => stopping'
  /\ MessagesOnlyAnswered

LEMMA AwaitedShrinks ==
  ASSUME MessagesOnlyAnswered
  PROVE  AwaitedUpdates' \subseteq AwaitedUpdates
         /\ AwaitedEvaluations' \subseteq AwaitedEvaluations
<1>1. AwaitedUpdates' \subseteq AwaitedUpdates
  BY DEF MessagesOnlyAnswered, AwaitedUpdates, Awaited, Asks, Answers, IsAnswer
<1>2. AwaitedEvaluations' \subseteq AwaitedEvaluations
  BY DEF MessagesOnlyAnswered, AwaitedEvaluations, Awaited, Asks, Answers, IsAnswer
<1> QED
  BY <1>1, <1>2

\* A readiness message re-registers a client, a disconnection is only seen once
\* the server stops: while it runs no registration disappears.
LEMMA RegistrationsKept ==
  ASSUME TypeInv, LinkInv
  PROVE  /\ \A s \in open : OnDisconnect(s) => stopping
         /\ \A e \in events : RegistryInv /\ OnClientReady(e) =>
              registered_clients' = registered_clients \cup {e.sid}
<1>1. ASSUME NEW s \in open, OnDisconnect(s), ~stopping PROVE FALSE
  <2>1. s[1] \in Clients /\ s[2] # 0
    BY DEF TypeInv, TypeOK, NetworkTypeOK, Sids
  <2> QED
    BY <1>1, <2>1 DEF OnDisconnect, Reachable, LinkInv
<1>2. ASSUME NEW e \in events, RegistryInv, OnClientReady(e)
      PROVE  registered_clients' = registered_clients \cup {e.sid}
  <2>1. \A u \in registered_clients : u = <<u[1], u[2]>> /\ conn[u[1]] = u[2]
    BY DEF TypeInv, TypeOK, ServerTypeOK, Sids, LinkInv
  <2>2. e.sid = <<e.sid[1], e.sid[2]>> /\ conn[e.sid[1]] = e.sid[2]
    BY EventTyped DEF Sids, LinkInv
  <2>3. registered_clients \cap StaleSids(e.sid) = {}
    BY <1>2, <2>1, <2>2 DEF StaleSids, RegistryInv
  <2> QED
    BY <1>2, <2>3 DEF OnClientReady
<1> QED
  BY <1>1, <1>2

LEMMA KeptSteps ==
  ASSUME TypeInv, LinkInv, RegistryInv, [Next]_vars
  PROVE  \/ RoundFrame
         \/ /\ ServerNext /\ ServerEffect
            /\ \/ StartTraining
               \/ \E e \in events : OnClientUpdate(e) \/ OnClientEval(e)
<1>1. CASE ServerNext /\ ServerEffect
  <2>1. stopping => stopping'
    BY <1>1, ServerFrame
  <2>2. CASE LeavesRound
    <3>1. MessagesOnlyAnswered
      BY <1>1, <2>2 DEF LeavesRound, ServerEffect, MessagesOnlyAnswered
    <3>2. ASSUME NEW s \in open, OnDisconnect(s) PROVE RoundFrame
      <4>1. stopping' /\ registered_clients' = registered_clients \ {s}
        BY <2>1, <3>2, RegistrationsKept DEF OnDisconnect
      <4> QED
        BY <2>1, <3>1, <3>2, <4>1, FinitelyMore DEF OnDisconnect, RoundFrame, metricVars
    <3>3. ASSUME NEW e \in events, OnClientReady(e) PROVE RoundFrame
      <4>1. registered_clients' = registered_clients \cup {e.sid}
        BY <3>3, RegistrationsKept
      <4> QED
        BY <2>1, <3>1, <3>3, <4>1, FinitelyMore DEF OnClientReady, RoundFrame, metricVars
    <3>4. ASSUME NEW e \in events, OnClientWakeUp(e) \/ IgnoreUpdate(e) PROVE RoundFrame
      BY <2>1, <3>1, <3>4
      DEF OnClientWakeUp, IgnoreUpdate, RoundFrame, serverVars, registryVars, metricVars
    <3>5. CASE Silence \/ RoundWatchdog \/ StopServer
      BY <2>1, <3>1, <3>5
      DEF Silence, RoundWatchdog, StopServer, RoundFrame, registryVars, metricVars
    <3> QED
      BY <1>1, <3>2, <3>3, <3>4, <3>5 DEF ServerNext, HandleEvent
  <2> QED
    BY <1>1, <2>2, RoundSteps
<1>2. CASE UNCHANGED serverVars /\ ClientEffect
  BY <1>2
  DEF ClientEffect, Answers, RoundFrame, MessagesOnlyAnswered, serverVars, registryVars,
      metricVars, endVars
<1>3. CASE UNCHANGED vars
  BY <1>3
  DEF RoundFrame, MessagesOnlyAnswered, vars, networkVars, serverVars, registryVars,
      metricVars, endVars
<1> QED
  BY <1>1, <1>2, <1>3, StepLemma

-----------------------------------------------------------------------------
\* The part of the invariant that is about messages and buffers.
CountInv ==
  MessageInv /\ UpdateBudget /\ EvaluationToken /\ EvaluationBudget
    /\ EvaluationsOfTheirRound

LEMMA CountInvFrame ==
  ASSUME TypeInv, CountInv, RoundFrame
  PROVE  CountInv'
<1>1. /\ UNCHANGED <<current_round, num_clients_per_round, client_updates_this_round,
                     client_evaluations_this_round, train_metrics, test_metrics>>
      /\ Evaluating' = Evaluating
  BY DEF RoundFrame, roundVars, Evaluating
<1>2. /\ AwaitedUpdates' \subseteq AwaitedUpdates
      /\ AwaitedEvaluations' \subseteq AwaitedEvaluations
  BY AwaitedShrinks DEF RoundFrame
<1>3. /\ num_clients_per_round \in Nat
      /\ Len(client_updates_this_round) \in Nat /\ Len(client_evaluations_this_round) \in Nat
  BY DEF TypeInv, TypeOK, ServerTypeOK
<1>4. MessageInv'
  <2>1. \A t \in tasks' : Request(t) \/ Evaluates(t) => t \in tasks
    BY DEF RoundFrame, MessagesOnlyAnswered, Asks, Request, Evaluates
  <2>2. \A e \in events' : Reply(e) \/ Evaluated(e) =>
          e \in events \/ \E t \in tasks : IsAnswer(e, t)
    BY DEF RoundFrame, MessagesOnlyAnswered, Answers, Reply, Evaluated
  <2>3. \A e \in events' : Reply(e) => e.round = current_round /\ ~Evaluating
    BY <2>2 DEF CountInv, MessageInv, IsAnswer, Request, Reply
  <2>4. \A e \in events' : Evaluated(e) => e.round = current_round /\ Evaluating
    BY <2>2 DEF CountInv, MessageInv, IsAnswer, Evaluates, Evaluated
  <2> QED
    BY <1>1, <2>1, <2>3, <2>4 DEF CountInv, MessageInv
<1>5. UpdateBudget'
  BY <1>1, <1>2, <1>3, Smaller DEF CountInv, UpdateBudget
<1>6. EvaluationToken'
  <2>1. \A t \in tasks' : Evaluates(t) => t \in tasks
    BY DEF RoundFrame, MessagesOnlyAnswered, Asks, Evaluates
  <2>2. \A e \in events' : Evaluated(e) =>
          \/ e \in events
          \/ \E t \in tasks \ tasks' : Evaluates(t) /\ t.client = e.sid[1] /\ e \notin events
    BY DEF RoundFrame, MessagesOnlyAnswered, Answers, Evaluated, Evaluates, IsAnswer
  <2>3. \A e, f \in events' \ events : e = f
    BY DEF RoundFrame, MessagesOnlyAnswered
  <2>4. \A t, u \in tasks : Evaluates(t) /\ Evaluates(u) /\ t.client = u.client => t = u
    BY DEF CountInv, MessageInv, Evaluates, TypeInv, TypeOK, NetworkTypeOK, Task
  <2>5. \A t \in tasks', e \in events' : Evaluates(t) /\ Evaluated(e) => t.client # e.sid[1]
    BY <2>1, <2>2, <2>4 DEF CountInv, EvaluationToken
  <2>6. \A e, f \in events' :
          Evaluated(e) /\ Evaluated(f) /\ e.sid[1] = f.sid[1] => e = f
    BY <2>2, <2>3 DEF CountInv, EvaluationToken
  <2> QED
    BY <2>5, <2>6 DEF EvaluationToken
<1>7. EvaluationBudget'
  <2>1. IsFiniteSet(registered_clients')
    BY DEF CountInv, EvaluationBudget, RoundFrame
  <2>2. ASSUME Evaluating, ~stopping'
        PROVE  Cardinality(AwaitedEvaluations') + Len(client_evaluations_this_round)
                 <= Cardinality(registered_clients')
    <3>1. registered_clients \subseteq registered_clients' /\ ~stopping
      BY <2>2 DEF RoundFrame
    <3>2. Cardinality(registered_clients) <= Cardinality(registered_clients')
          /\ Cardinality(registered_clients) \in Nat
          /\ Cardinality(registered_clients') \in Nat
      BY <2>1, <3>1, Smaller
    <3>3. /\ Cardinality(AwaitedEvaluations') <= Cardinality(AwaitedEvaluations)
          /\ Cardinality(AwaitedEvaluations') \in Nat
          /\ Cardinality(AwaitedEvaluations) \in Nat
      BY <1>2, Smaller DEF CountInv, EvaluationBudget
    <3>4. Cardinality(AwaitedEvaluations) + Len(client_evaluations_this_round)
            <= Cardinality(registered_clients)
      BY <2>2, <3>1 DEF CountInv, EvaluationBudget
    <3> QED
      BY <1>3, <3>2, <3>3, <3>4
  <2>3. IsFiniteSet(AwaitedEvaluations')
    BY <1>2, Smaller DEF CountInv, EvaluationBudget
  <2>4. Evaluating => \A i \in DOMAIN client_evaluations_this_round :
          client_evaluations_this_round[i].on = current_round
    BY DEF CountInv, EvaluationBudget
  <2> QED
    BY <1>1, <2>1, <2>2, <2>3, <2>4 DEF EvaluationBudget
<1>8. EvaluationsOfTheirRound'
  BY <1>1 DEF CountInv, EvaluationsOfTheirRound
<1> QED
  BY <1>4, <1>5, <1>6, <1>7, <1>8 DEF CountInv

\* A round opened when nobody owes an answer asks as many as it waits for.
LEMMA CountInvOpened ==
  ASSUME TypeInv, StartNextTrainingRound, IsFiniteSet(registered_clients),
         UNCHANGED registered_clients, EvaluationsOfTheirRound',
         current_round' \notin train_metrics',
         \A t \in tasks : ~Asks(t), \A e \in events' : ~Answers(e)
  PROVE  CountInv'
<1>1. /\ current_round' = current_round + 1 /\ client_updates_this_round' = <<>>
      /\ num_clients_per_round' \in Nat
      /\ \A t \in tasks' \ tasks : Request(t) /\ t.round = current_round'
  BY StartRoundLemma DEF Request
<1>2. MessageInv'
  BY <1>1 DEF MessageInv, Request, Reply, Evaluates, Evaluated, Evaluating, Asks, Answers
<1>3. EvaluationToken' /\ AwaitedEvaluations' = {}
  BY <1>1
  DEF EvaluationToken, AwaitedEvaluations, Awaited, Request, Evaluates, Evaluated, Asks,
      Answers
<1>4. EvaluationBudget'
  BY <1>3, FS_EmptySet DEF EvaluationBudget, Evaluating
<1>5. IsFiniteSet(AwaitedUpdates')
      /\ Cardinality(AwaitedUpdates') <= num_clients_per_round'
  <2>1. CASE UNCHANGED tasks
    <3>1. AwaitedUpdates' = {}
      BY <2>1 DEF AwaitedUpdates, Awaited, Asks, Answers
    <3> QED
      BY <1>1, <3>1, FS_EmptySet
  <2>2. ASSUME NEW selected \in SUBSET registered_clients,
               Cardinality(selected) = MinNumWorkers, num_clients_per_round' = MinNumWorkers,
               tasks' = Emit("request_update", selected, current_round')
        PROVE  IsFiniteSet(AwaitedUpdates')
               /\ Cardinality(AwaitedUpdates') <= num_clients_per_round'
    <3>1. IsFiniteSet(selected)
      BY FS_Subset
    <3>2. AwaitedUpdates' \subseteq {s[1] : s \in selected}
      BY <2>2 DEF AwaitedUpdates, Awaited, Emit, Asks, Answers
    <3>3. /\ IsFiniteSet({s[1] : s \in selected})
          /\ Cardinality({s[1] : s \in selected}) <= MinNumWorkers
      BY <2>2, <3>1, FirstComponents
    <3>4. MinNumWorkers \in Nat
      BY ServerAssumption
    <3> QED
      BY <2>2, <3>2, <3>3, <3>4, Smaller
  <2> QED
    BY <2>1, <2>2 DEF StartNextTrainingRound
<1>6. UpdateBudget'
  <2>1. Cardinality(AwaitedUpdates') \in Nat
    BY <1>5, FS_CardinalityType
  <2> QED
    BY <1>1, <1>5, <2>1 DEF UpdateBudget, Evaluating
<1> QED
  BY <1>2, <1>3, <1>4, <1>6 DEF CountInv

\* An update leaves the wire for the buffer; the one that completes the barrier
\* leaves nobody behind, and everybody registered is asked to evaluate.
LEMMA CountInvBuffered ==
  ASSUME TypeInv, TokenInv, CountInv, NEW e \in events, OnClientUpdate(e)
  PROVE  CountInv'
<1> DEFINE c == e.sid[1]
           updates == Append(client_updates_this_round, [sid |-> e.sid, round |-> e.round])
<1>1. /\ Reply(e) /\ e.round = current_round /\ ~Evaluating
      /\ events' = events \ {e}
      /\ client_updates_this_round' = updates
      /\ UNCHANGED <<current_round, num_clients_per_round, test_metrics, registered_clients,
                     stopping>>
  BY DEF OnClientUpdate, Receive, OfThisRound, Reply, CountInv, MessageInv, registryVars
<1>2. /\ num_clients_per_round \in Nat
      /\ Len(client_updates_this_round) \in Nat
      /\ Len(updates) = Len(client_updates_this_round) + 1
      /\ registered_clients \in SUBSET Sids
  BY DEF TypeInv, TypeOK, ServerTypeOK
<1> HIDE DEF updates
<1>3. \A t \in tasks' \ tasks : Evaluates(t) /\ ~Request(t)
  <2>1. NetworkTypeOK /\ "stop_and_eval" \in ServerEvents /\ current_round \in Rounds
    BY DEF TypeInv, TypeOK, ServerTypeOK, ServerEvents
  <2> QED
    BY <1>2, <2>1, EmitLemma DEF OnClientUpdate, TriggerGlobalEvaluation, Request, Evaluates
<1>4. c \in AwaitedUpdates
  BY <1>1 DEF AwaitedUpdates, Awaited, Reply
<1>5. AwaitedUpdates' \subseteq AwaitedUpdates \ {c}
  <2>1. \A t \in tasks : Request(t) => t.client # c
    BY <1>1 DEF CountInv, MessageInv, TokenInv, OneToken
  <2>2. \A f \in events \ {e} : Reply(f) => f.sid[1] # c
    BY <1>1 DEF CountInv, MessageInv, TokenInv, OneToken
  <2> QED
    BY <1>1, <1>3, <2>1, <2>2 DEF AwaitedUpdates, Awaited, Request, Reply
<1>6. /\ IsFiniteSet(AwaitedUpdates') /\ Cardinality(AwaitedUpdates') \in Nat
      /\ Cardinality(AwaitedUpdates') + Len(updates) <= num_clients_per_round
  <2>1. /\ IsFiniteSet(AwaitedUpdates \ {c})
        /\ Cardinality(AwaitedUpdates \ {c}) = Cardinality(AwaitedUpdates) - 1
        /\ Cardinality(AwaitedUpdates) \in Nat
    BY <1>4, FinitelyMore DEF CountInv, UpdateBudget
  <2>2. /\ IsFiniteSet(AwaitedUpdates') /\ Cardinality(AwaitedUpdates') \in Nat
        /\ Cardinality(AwaitedUpdates') <= Cardinality(AwaitedUpdates \ {c})
    BY <1>5, <2>1, Smaller
  <2> QED
    BY <1>2, <2>1, <2>2 DEF CountInv, UpdateBudget
<1>7. EvaluationsOfTheirRound'
  BY <1>1 DEF CountInv, EvaluationsOfTheirRound
<1>8. \A t \in tasks : ~Evaluates(t)
  BY <1>1 DEF CountInv, MessageInv
<1>9. \A f \in events' : ~Evaluated(f)
  BY <1>1 DEF CountInv, MessageInv
<1>10. CASE UNCHANGED <<tasks, client_evaluations_this_round, train_metrics>>
  <2>1. Evaluating' = Evaluating /\ MessageInv' /\ EvaluationToken'
    BY <1>1, <1>10 DEF CountInv, MessageInv, EvaluationToken, Evaluating
  <2>2. UpdateBudget'
    BY <1>1, <1>6, <2>1 DEF UpdateBudget
  <2>3. AwaitedEvaluations' = {}
    BY <1>8, <1>9, <1>10 DEF AwaitedEvaluations, Awaited, Evaluates, Evaluated
  <2>4. EvaluationBudget'
    BY <1>1, <2>1, <2>3, FS_EmptySet DEF CountInv, EvaluationBudget
  <2> QED
    BY <1>7, <2>1, <2>2, <2>4 DEF CountInv
<1>11. CASE AllUpdatesIn(updates) /\ AggregateUpdates /\ TriggerGlobalEvaluation
  <2>1. Evaluating' /\ client_evaluations_this_round' = <<>>
    BY <1>1, <1>11 DEF AggregateUpdates, TriggerGlobalEvaluation, Evaluating
  <2>2. Cardinality(AwaitedUpdates') = 0
    BY <1>2, <1>6, <1>11 DEF AllUpdatesIn
  <2>3. AwaitedUpdates' = {}
    BY <1>6, <2>2, FS_EmptySet
  <2>4. UpdateBudget'
    BY <1>1, <1>6, <1>11 DEF UpdateBudget, AllUpdatesIn
  <2>5. tasks' = tasks \cup {[client |-> s[1], event |-> "stop_and_eval", round |-> current_round] :
                                s \in {x \in registered_clients : Reachable(x)}}
    BY <1>11 DEF TriggerGlobalEvaluation, Emit
  <2>6. \A t \in tasks' : Evaluates(t) =>
          t.round = current_round /\ t.client \in {s[1] : s \in registered_clients}
    BY <1>8, <2>5
  <2>7. MessageInv'
    BY <1>1, <1>9, <2>1, <2>3, <2>6
    DEF MessageInv, AwaitedUpdates, Awaited, Request, Reply
  <2>8. EvaluationToken'
    BY <1>9 DEF EvaluationToken
  <2>9. AwaitedEvaluations' \subseteq {s[1] : s \in registered_clients}
    BY <1>9, <2>6 DEF AwaitedEvaluations, Awaited, Evaluates, Evaluated
  <2>10. EvaluationBudget'
    <3>1. IsFiniteSet(registered_clients)
      BY DEF CountInv, EvaluationBudget
    <3>2. /\ IsFiniteSet({s[1] : s \in registered_clients})
          /\ Cardinality({s[1] : s \in registered_clients}) <= Cardinality(registered_clients)
      BY <3>1, FirstComponents
    <3>3. /\ IsFiniteSet(AwaitedEvaluations')
          /\ Cardinality(AwaitedEvaluations') \in Nat
          /\ Cardinality({s[1] : s \in registered_clients}) \in Nat
          /\ Cardinality(AwaitedEvaluations') <= Cardinality({s[1] : s \in registered_clients})
      BY <2>9, <3>2, Smaller
    <3>4. Cardinality(registered_clients) \in Nat
      BY <3>1, FS_CardinalityType
    <3> QED
      BY <1>1, <2>1, <3>1, <3>2, <3>3, <3>4 DEF EvaluationBudget
  <2> QED
    BY <1>7, <2>4, <2>7, <2>8, <2>10 DEF CountInv
<1> QED
  BY <1>10, <1>11 DEF OnClientUpdate, updates

\* What an evaluation finds, and who is left to answer once it is handled.
LEMMA EvaluationHandled ==
  ASSUME TypeInv, CountInv, NEW e \in events, OnClientEval(e)
  PROVE  /\ Evaluated(e) /\ e.round = current_round /\ Evaluating
         /\ e.sid[1] \in AwaitedEvaluations
         /\ \A f \in events' : Evaluated(f) => f.sid[1] # e.sid[1]
         /\ \A t \in tasks : Evaluates(t) => t.client # e.sid[1]
         /\ \A t \in tasks : ~Request(t)
         /\ \A f \in events' : ~Reply(f)
         /\ Len(client_evaluations_this_round) \in Nat
         /\ Len(client_evaluations_this_round') = Len(client_evaluations_this_round) + 1
         /\ DOMAIN client_evaluations_this_round' =
              DOMAIN client_evaluations_this_round \cup {Len(client_evaluations_this_round')}
         /\ \A i \in DOMAIN client_evaluations_this_round' :
              client_evaluations_this_round'[i].on = current_round
<1>1. /\ Evaluated(e) /\ events' = events \ {e}
      /\ client_evaluations_this_round' =
           Append(client_evaluations_this_round, [sid |-> e.sid, on |-> e.round])
      /\ client_evaluations_this_round \in Seq(Evaluation)
  BY DEF OnClientEval, Receive, Evaluated, TypeInv, TypeOK, ServerTypeOK
<1>2. e.round = current_round /\ Evaluating
  BY <1>1 DEF CountInv, MessageInv
<1>3. e.sid[1] \in AwaitedEvaluations
  BY <1>1 DEF AwaitedEvaluations, Awaited, Evaluated
<1>4. \A f \in events' : Evaluated(f) => f.sid[1] # e.sid[1]
  BY <1>1 DEF CountInv, EvaluationToken
<1>5. \A t \in tasks : Evaluates(t) => t.client # e.sid[1]
  BY <1>1 DEF CountInv, EvaluationToken
<1>6. (\A t \in tasks : ~Request(t)) /\ \A f \in events' : ~Reply(f)
  BY <1>1, <1>2 DEF CountInv, MessageInv
<1>7. \A i \in DOMAIN client_evaluations_this_round :
        client_evaluations_this_round[i].on = current_round
  BY <1>2 DEF CountInv, EvaluationBudget
<1>8. /\ Len(client_evaluations_this_round) \in Nat
      /\ Len(client_evaluations_this_round') = Len(client_evaluations_this_round) + 1
      /\ DOMAIN client_evaluations_this_round' =
           DOMAIN client_evaluations_this_round \cup {Len(client_evaluations_this_round')}
      /\ client_evaluations_this_round'[Len(client_evaluations_this_round')].on = current_round
      /\ \A i \in DOMAIN client_evaluations_this_round :
           client_evaluations_this_round'[i] = client_evaluations_this_round[i]
  BY <1>1, <1>2
<1> QED
  BY <1>1, <1>2, <1>3, <1>4, <1>5, <1>6, <1>7, <1>8

\* A handler that leaves the evaluation requests alone takes its sender out of
\* those that may still answer.
LEMMA EvaluationsLeft ==
  ASSUME TypeInv, CountInv, NEW e \in events, OnClientEval(e),
         \A t \in tasks' \ tasks : ~Evaluates(t)
  PROVE  /\ AwaitedEvaluations' \subseteq AwaitedEvaluations \ {e.sid[1]}
         /\ IsFiniteSet(AwaitedEvaluations') /\ Cardinality(AwaitedEvaluations') \in Nat
         /\ ~stopping => Cardinality(AwaitedEvaluations') + Len(client_evaluations_this_round')
                           <= Cardinality(registered_clients)
<1>1. events' \subseteq events
  BY DEF OnClientEval, Receive
<1>2. AwaitedEvaluations' \subseteq AwaitedEvaluations \ {e.sid[1]}
  BY <1>1, EvaluationHandled DEF AwaitedEvaluations, Awaited, Evaluates, Evaluated
<1>3. /\ IsFiniteSet(AwaitedEvaluations \ {e.sid[1]})
      /\ Cardinality(AwaitedEvaluations \ {e.sid[1]}) = Cardinality(AwaitedEvaluations) - 1
      /\ Cardinality(AwaitedEvaluations) \in Nat
  BY EvaluationHandled, FinitelyMore DEF CountInv, EvaluationBudget
<1>4. /\ IsFiniteSet(AwaitedEvaluations') /\ Cardinality(AwaitedEvaluations') \in Nat
      /\ Cardinality(AwaitedEvaluations') <= Cardinality(AwaitedEvaluations \ {e.sid[1]})
  BY <1>2, <1>3, Smaller
<1>5. Cardinality(registered_clients) \in Nat
  BY FS_CardinalityType DEF CountInv, EvaluationBudget
<1>6. Evaluating /\ ~stopping =>
        Cardinality(AwaitedEvaluations) + Len(client_evaluations_this_round)
          <= Cardinality(registered_clients)
  BY DEF CountInv, EvaluationBudget
<1> QED
  BY <1>2, <1>3, <1>4, <1>5, <1>6, EvaluationHandled

\* The evaluation that completes the barrier leaves nobody behind either.
LEMMA BarrierLeavesNobody ==
  ASSUME TypeInv, CountInv, ~stopping, NEW e \in events, OnClientEval(e),
         AllEvaluationsIn(client_evaluations_this_round'),
         tasks \subseteq tasks', \A t \in tasks' \ tasks : ~Evaluates(t)
  PROVE  /\ AwaitedEvaluations' = {}
         /\ \A t \in tasks : ~Asks(t)
         /\ \A f \in events' : ~Answers(f)
<1>1. UNCHANGED registered_clients
  BY DEF OnClientEval, registryVars
<1>2. Cardinality(registered_clients) \in Nat
  BY FS_CardinalityType DEF CountInv, EvaluationBudget
<1>3. AwaitedEvaluations' = {}
  <2>1. Cardinality(AwaitedEvaluations') = 0
    BY <1>2, EvaluationsLeft, EvaluationHandled DEF AllEvaluationsIn
  <2> QED
    BY <2>1, EvaluationsLeft, FS_EmptySet
<1>4. \A t \in tasks : ~Asks(t)
  <2>1. \A t \in tasks' : t.event # "stop_and_eval"
    BY <1>3 DEF AwaitedEvaluations, Awaited
  <2> QED
    BY <2>1, EvaluationHandled DEF Asks, Request
<1>5. \A f \in events' : ~Answers(f)
  <2>1. \A f \in events' : f.event # "client_eval"
    BY <1>3 DEF AwaitedEvaluations, Awaited
  <2> QED
    BY <2>1, EvaluationHandled DEF Answers, Reply
<1> QED
  BY <1>3, <1>4, <1>5

\* The row a completed barrier writes averages evaluations of its round's model.
LEMMA RowOfItsRound ==
  ASSUME TypeInv, CountInv, NEW e \in events, OnClientEval(e)
  PROVE  EvaluationsOfTheirRound'
<1>1. CASE UNCHANGED test_metrics
  BY <1>1 DEF CountInv, EvaluationsOfTheirRound
<1>2. CASE AggregateEvaluationResults(client_evaluations_this_round')
  BY <1>2, EvaluationHandled
  DEF AggregateEvaluationResults, CountInv, EvaluationsOfTheirRound
<1> QED
  BY <1>1, <1>2 DEF OnClientEval

LEMMA CountInvEvaluated ==
  ASSUME TypeInv, LinkInv, RoundInv, CountInv, NEW e \in events, OnClientEval(e)
  PROVE  CountInv'
<1>1. /\ UNCHANGED <<registered_clients, train_metrics>>
      /\ is_training_finished => is_training_finished'
      /\ current_round \in Rounds
  BY DEF OnClientEval, registryVars, TypeInv, TypeOK, ServerTypeOK
<1>2. EvaluationsOfTheirRound'
  BY RowOfItsRound
<1>3. events' \subseteq events
  BY DEF OnClientEval, Receive
<1>4. ASSUME \A t \in tasks' \ tasks : t.event = "shutdown",
             UNCHANGED roundVars, UNCHANGED stopping \/ stopping'
      PROVE  CountInv'
  <2>1. Evaluating' /\ Evaluating /\ UNCHANGED <<current_round, num_clients_per_round,
                                                 client_updates_this_round>>
    BY <1>1, <1>4, EvaluationHandled DEF roundVars, Evaluating
  <2>2. \A t \in tasks' \ tasks : ~Evaluates(t) /\ ~Request(t)
    BY <1>4 DEF Evaluates, Request
  <2>3. MessageInv'
    BY <1>3, <2>1, <2>2, EvaluationHandled DEF CountInv, MessageInv
  <2>4. AwaitedUpdates' = {} /\ UpdateBudget'
    <3>1. AwaitedUpdates' = {}
      BY <2>2, EvaluationHandled DEF AwaitedUpdates, Awaited, Request, Reply
    <3>2. Len(client_updates_this_round) \in Nat
      BY DEF TypeInv, TypeOK, ServerTypeOK
    <3>3. IsFiniteSet(AwaitedUpdates) /\ Cardinality(AwaitedUpdates) \in Nat
          /\ num_clients_per_round \in Nat
      BY FS_CardinalityType DEF CountInv, UpdateBudget, TypeInv, TypeOK, ServerTypeOK
    <3> QED
      BY <2>1, <3>1, <3>2, <3>3, FS_EmptySet DEF CountInv, UpdateBudget
  <2>5. EvaluationToken'
    BY <1>3, <2>2 DEF CountInv, EvaluationToken
  <2>6. EvaluationBudget'
    BY <1>1, <1>4, <2>1, <2>2, EvaluationsLeft, EvaluationHandled
    DEF CountInv, EvaluationBudget
  <2> QED
    BY <1>2, <2>3, <2>4, <2>5, <2>6 DEF CountInv
<1>5. ASSUME StartNextTrainingRound, ~is_training_finished',
             AllEvaluationsIn(client_evaluations_this_round')
      PROVE  CountInv'
  <2>1. ~stopping
    BY <1>1, <1>5 DEF LinkInv
  <2>2. /\ current_round' = current_round + 1
        /\ \A t \in tasks' \ tasks : ~Evaluates(t)
    BY <1>5, StartRoundLemma DEF Evaluates
  <2>3. tasks \subseteq tasks'
    <3>1. CASE UNCHANGED tasks
      BY <3>1
    <3>2. ASSUME NEW selected, tasks' = Emit("request_update", selected, current_round')
          PROVE  tasks \subseteq tasks'
      BY <3>2 DEF Emit
    <3> QED
      BY <1>5, <3>1, <3>2 DEF StartNextTrainingRound
  <2>4. (\A t \in tasks : ~Asks(t)) /\ \A f \in events' : ~Answers(f)
    BY <1>5, <2>1, <2>2, <2>3, BarrierLeavesNobody
  <2>5. current_round' \notin train_metrics'
    BY <1>1, <2>2 DEF RoundInv, Rounds
  <2> QED
    BY <1>1, <1>2, <1>5, <2>4, <2>5, CountInvOpened DEF CountInv, EvaluationBudget
<1>6. ASSUME FinishRun(e) PROVE CountInv'
  <2>1. /\ NetworkTypeOK /\ registered_clients \cup {e.sid} \in SUBSET Sids
        /\ "shutdown" \in ServerEvents /\ -1 \in Rounds
    BY EventTyped DEF TypeInv, TypeOK, ServerTypeOK, ServerEvents, Rounds
  <2>2. \A t \in tasks' \ tasks : t.event = "shutdown"
    BY <1>6, <2>1, EmitLemma DEF FinishRun
  <2> QED
    BY <1>4, <1>6, <2>2 DEF FinishRun
<1>7. CASE UNCHANGED <<tasks, roundVars, stopping>>
  BY <1>4, <1>7
<1> QED
  BY <1>5, <1>6, <1>7 DEF OnClientEval, NextRoundOrFinish

LEMMA CountInvStarted ==
  ASSUME TypeInv, RoundInv, CountInv, StartTraining
  PROVE  CountInv'
<1>1. current_round = -1 /\ current_round' = 0 /\ train_metrics' = {}
  BY FirstRound
<1>2. /\ StartNextTrainingRound /\ UNCHANGED <<events, registered_clients, test_metrics>>
  BY DEF StartTraining, registryVars, metricVars
<1>3. (\A t \in tasks : ~Asks(t)) /\ \A e \in events : ~Answers(e)
  BY <1>1
  DEF CountInv, MessageInv, Request, Reply, Evaluates, Evaluated, Asks, Answers, TypeInv,
      MessageRounds
<1>4. EvaluationsOfTheirRound'
  BY <1>2 DEF CountInv, EvaluationsOfTheirRound
<1> QED
  BY <1>1, <1>2, <1>3, <1>4, CountInvOpened DEF CountInv, EvaluationBudget

LEMMA KeptInvariant ==
  ASSUME ConnectionsKept
  PROVE  Spec => []KeptInv
<1>1. KeptInv <=> LinkInv /\ CountInv
  BY DEF KeptInv, CountInv
<1>2. Init => KeptInv
  <2> SUFFICES ASSUME Init PROVE KeptInv
    OBVIOUS
  <2>1. LinkInv
    BY DEF Init, NetworkInit, ServerInit, LinkInv
  <2>2. MessageInv /\ EvaluationToken /\ EvaluationsOfTheirRound
    BY DEF Init, NetworkInit, ServerInit, MessageInv, EvaluationToken, EvaluationsOfTheirRound
  <2>3. ~Evaluating /\ AwaitedUpdates = {} /\ AwaitedEvaluations = {}
    BY DEF Init, NetworkInit, ServerInit, Evaluating, AwaitedUpdates, AwaitedEvaluations,
           Awaited
  <2>4. UpdateBudget /\ EvaluationBudget
    BY <2>3, FS_EmptySet DEF Init, ServerInit, UpdateBudget, EvaluationBudget
  <2> QED
    BY <2>1, <2>2, <2>4 DEF KeptInv
<1>3. TypeInv /\ RoundInv /\ RegistryInv /\ TokenInv /\ KeptInv /\ [Next]_vars => KeptInv'
  <2> SUFFICES ASSUME TypeInv, RoundInv, RegistryInv, TokenInv, KeptInv, [Next]_vars
               PROVE  KeptInv'
    OBVIOUS
  <2>1. LinkInv'
    BY <1>1, LinkInvStep
  <2>2. CountInv'
    BY <1>1, KeptSteps, CountInvFrame, CountInvStarted, CountInvBuffered, CountInvEvaluated
  <2> QED
    BY <2>1, <2>2 DEF KeptInv, CountInv
<1> QED
  BY <1>2, <1>3, TypeInvariant, RoundInvariant, RegistryInvariant, TokenInvariant, PTL
  DEF Spec

-----------------------------------------------------------------------------
\* While no connection is lost, every row of test metrics averages evaluations
\* of its own round's model: an evaluation carries no round, so this rests on
\* nobody being left behind when a barrier opens (_on_client_eval).
THEOREM RowsOfTheirRound ==
  ASSUME ConnectionsKept
  PROVE  Spec => []EvaluationsOfTheirRound
<1>1. KeptInv => EvaluationsOfTheirRound
  BY DEF KeptInv
<1> QED
  BY <1>1, KeptInvariant, PTL

\* While no connection is lost, no client trains and evaluates at the same time:
\* it is asked to evaluate only when no request to train is left anywhere, and
\* to train again only when no request to evaluate is (update_worker and
\* on_stop_and_eval share local_model without a lock).
THEOREM LocalModelUnshared ==
  ASSUME ConnectionsKept
  PROVE  Spec => []OneUserOfLocalModel
<1>1. TypeInv /\ KeptInv => OneUserOfLocalModel
  <2> SUFFICES ASSUME TypeInv, KeptInv, NEW t \in tasks, NEW u \in tasks,
                      t.client = u.client,
                      {t.event, u.event} \subseteq {"request_update", "stop_and_eval"}
               PROVE  t = u
    BY DEF OneUserOfLocalModel
  <2>1. t \in Task /\ u \in Task
    BY DEF TypeInv, TypeOK, NetworkTypeOK
  <2>2. t.event = u.event /\ t.round = u.round
    BY DEF KeptInv, MessageInv, Request, Evaluates
  <2> QED
    BY <2>1, <2>2 DEF Task
<1> QED
  BY <1>1, TypeInvariant, KeptInvariant, PTL

-----------------------------------------------------------------------------
\* The start. The server never takes a task back, asks only clients it can reach
\* to train, and only does so once a first round has been opened.
LEMMA StartFrame ==
  ASSUME TypeInv, LinkInv, RegistryInv, RoundsPast, RoundInv, ServerNext
  PROVE  /\ tasks \subseteq tasks'
         /\ registered_clients \subseteq registered_clients' \/ stopping'
         /\ stopping => stopping'
         /\ \/ \E e \in events : OnClientReady(e)
            \/ UNCHANGED <<client_stats, training_started>> /\ (starting' => starting)
         /\ \/ StartTraining
            \/ /\ current_round' # -1 => current_round # -1
               /\ \A t \in tasks' \ tasks : Request(t) => current_round # -1
         /\ \A t \in tasks' \ tasks : Request(t) => link[t.client] = "up"
<1>1. stopping => stopping'
  BY ServerFrame
<1>2. \A event, sids, r : tasks \subseteq Emit(event, sids, r)
  BY DEF Emit
<1>3. \A event, sids, r : \A t \in Emit(event, sids, r) \ tasks :
        t.event = event /\ link[t.client] = "up"
  BY DEF Emit, Reachable
<1>4. StartNextTrainingRound =>
        /\ tasks \subseteq tasks'
        /\ \A t \in tasks' \ tasks : link[t.client] = "up"
  BY <1>2, <1>3 DEF StartNextTrainingRound
<1>5. ASSUME NEW s \in open, OnDisconnect(s)
      PROVE  /\ stopping' /\ UNCHANGED <<tasks, current_round, client_stats, startVars>>
    BY <1>1, <1>5, RegistrationsKept DEF OnDisconnect, roundVars
<1>6. ASSUME NEW e \in events, OnClientReady(e)
      PROVE  /\ tasks \subseteq tasks' /\ \A t \in tasks' \ tasks : ~Request(t)
             /\ registered_clients \subseteq registered_clients'
             /\ UNCHANGED current_round
  <2>1. \A t \in tasks' \ tasks : t.event = "distribute_calibration"
    BY <1>3, <1>6 DEF OnClientReady
  <2> QED
    BY <1>2, <1>6, <2>1, RegistrationsKept DEF OnClientReady, roundVars, Request
<1>7. ASSUME NEW e \in events, OnClientUpdate(e)
      PROVE  /\ tasks \subseteq tasks' /\ \A t \in tasks' \ tasks : ~Request(t)
             /\ UNCHANGED <<current_round, registryVars, startVars>>
  BY <1>2, <1>3, <1>7 DEF OnClientUpdate, TriggerGlobalEvaluation, Request
<1>8. ASSUME NEW e \in events, OnClientEval(e)
      PROVE  /\ tasks \subseteq tasks' /\ \A t \in tasks' \ tasks : link[t.client] = "up"
             /\ current_round # -1 /\ UNCHANGED <<registryVars, startVars>>
  <2>1. current_round # -1
    BY <1>8, EvaluationInRound
  <2>2. UNCHANGED <<registryVars, startVars>>
    BY <1>8 DEF OnClientEval
  <2> QED
    BY <1>2, <1>3, <1>4, <1>8, <2>1, <2>2 DEF OnClientEval, NextRoundOrFinish, FinishRun
<1>9. CASE StartTraining
  BY <1>1, <1>4, <1>9 DEF StartTraining, registryVars, TypeInv, TypeOK, ServerTypeOK
<1>10. ASSUME NEW e \in events, OnClientWakeUp(e) \/ IgnoreUpdate(e)
       PROVE  /\ tasks \subseteq tasks' /\ \A t \in tasks' \ tasks : ~Request(t)
              /\ UNCHANGED <<current_round, registryVars, startVars>>
  BY <1>2, <1>3, <1>10
  DEF OnClientWakeUp, IgnoreUpdate, Request, serverVars, roundVars
<1>11. ASSUME Silence \/ RoundWatchdog \/ StopServer
       PROVE  /\ tasks \subseteq tasks' /\ \A t \in tasks' \ tasks : ~Request(t)
              /\ UNCHANGED <<current_round, registryVars, startVars>>
  BY <1>2, <1>3, <1>11 DEF Silence, RoundWatchdog, StopServer, Request, roundVars
<1> QED
  BY <1>1, <1>5, <1>6, <1>7, <1>8, <1>9, <1>10, <1>11
  DEF ServerNext, HandleEvent, registryVars, startVars

\* The readiness barrier opens when the last client reports.
LEMMA BarrierIsEverybody ==
  ASSUME AllClients, TypeInv, NEW c \in Clients,
         Cardinality(client_stats \cup {c}) >= NumClients
  PROVE  client_stats \cup {c} = Clients
<1>1. client_stats \cup {c} \in SUBSET Clients
  BY DEF TypeInv, TypeOK, ServerTypeOK
<1>2. Cardinality(client_stats \cup {c}) <= Cardinality(Clients)
      /\ Cardinality(client_stats \cup {c}) \in Nat
  BY <1>1, Smaller DEF AllClients
<1>3. Cardinality(client_stats \cup {c}) = Cardinality(Clients)
  BY <1>2, ServerAssumption DEF AllClients
<1> QED
  BY <1>1, <1>3, FS_Subset DEF AllClients

LEMMA CalibrationReady ==
  ASSUME AllClients, TypeInv, LinkInv, RegistryInv, RoundInv, CalibrationInv,
         NEW e \in events, OnClientReady(e), UNCHANGED <<link, conn, calibrated>>
  PROVE  CalibrationInv'
<1> DEFINE c == e.sid[1]
<1>1. c \in Clients /\ conn[c] # 0 /\ e.sid = <<c, conn[c]>>
  <2>1. e.sid \in Sids /\ conn[c] = e.sid[2]
    BY EventTyped DEF LinkInv
  <2> QED
    BY <2>1 DEF Sids
<1>2. registered_clients' = registered_clients \cup {e.sid}
      /\ client_stats' = client_stats \cup {c}
      /\ UNCHANGED <<stopping, current_round>>
  BY RegistrationsKept DEF OnClientReady, endVars, roundVars
<1>3. \A b \in client_stats' : conn[b] # 0
  BY <1>1, <1>2 DEF CalibrationInv
<1>4. ~stopping => \A b \in client_stats' : <<b, conn[b]>> \in registered_clients'
  BY <1>1, <1>2 DEF CalibrationInv
<1>5. training_started' => client_stats' = Clients
  <2>1. training_started' = (training_started \/ ReadyToStart(c))
    BY DEF OnClientReady
  <2>2. CASE training_started
    BY <1>1, <1>2, <2>2 DEF CalibrationInv
  <2>3. CASE ReadyToStart(c)
    BY <1>1, <1>2, <2>3, BarrierIsEverybody DEF ReadyToStart
  <2> QED
    BY <2>1, <2>2, <2>3
<1>6. ASSUME FedLC, starting', NEW b \in Clients, link[b] = "up"
      PROVE  calibrated[b] \/ CalibrationTask(b)'
  <2>1. CASE starting
    <3>1. tasks \subseteq tasks'
      BY DEF OnClientReady, Emit
    <3> QED
      BY <1>6, <2>1, <3>1 DEF CalibrationInv, CalibrationTask
  <2>2. CASE ~starting
    <3>1. ReadyToStart(c) /\ ~stopping
          /\ tasks' = Emit("distribute_calibration", registered_clients', -1)
      BY <1>6, <2>2 DEF OnClientReady
    <3>2. client_stats' = Clients
      BY <1>1, <1>2, <3>1, BarrierIsEverybody DEF ReadyToStart
    <3>3. <<b, conn[b]>> \in registered_clients' /\ Reachable(<<b, conn[b]>>)
      BY <1>4, <1>6, <3>1, <3>2 DEF Reachable
    <3> DEFINE t == [client |-> b, event |-> "distribute_calibration", round |-> -1]
    <3>4. t \in tasks'
      BY <3>1, <3>3 DEF Emit
    <3> QED
      BY <3>4 DEF CalibrationTask
  <2> QED
    BY <2>1, <2>2
<1>7. \A t \in tasks' \ tasks : t.event = "distribute_calibration"
  BY DEF OnClientReady, Emit
<1>8. CalibratedBeforeTraining'
  BY <1>7 DEF CalibrationInv, CalibratedBeforeTraining
<1> QED
  BY <1>2, <1>3, <1>4, <1>5, <1>6, <1>8 DEF CalibrationInv

LEMMA CalibrationClient ==
  ASSUME TypeInv, LinkInv, RoundInv, CalibrationInv, UNCHANGED serverVars, ClientEffect,
         \/ \E c \in Clients : NewConnection(c) \/ LinkEnds(c)
         \/ \E t \in tasks : Works(t)
  PROVE  CalibrationInv'
<1>1. /\ UNCHANGED <<client_stats, registered_clients, stopping, training_started, starting,
                     current_round>>
      /\ tasks' \subseteq tasks
  BY DEF serverVars, registryVars, startVars, roundVars, endVars, ClientEffect
<1>2. /\ link \in [Clients -> LinkState] /\ conn \in [Clients -> 0..MaxConn]
      /\ calibrated \in [Clients -> BOOLEAN] /\ client_stats \subseteq Clients
      /\ training_started \in BOOLEAN
  BY DEF TypeInv, TypeOK, NetworkTypeOK, ServerTypeOK, ClientTypeOK
<1>3. ASSUME NEW c \in Clients, NewConnection(c) PROVE CalibrationInv'
  <2>1. conn[c] = 0 /\ c \notin client_stats
    BY <1>3 DEF NewConnection, LinkInv, CalibrationInv
  <2>2. ~training_started /\ ~starting /\ current_round = -1
    BY <2>1 DEF CalibrationInv, RoundInv
  <2>3. UNCHANGED <<tasks, calibrated>> /\ \A b \in client_stats : conn'[b] = conn[b]
    BY <1>2, <1>3, <2>1 DEF NewConnection, OpenConnection
  <2> QED
    BY <1>1, <2>2, <2>3 DEF CalibrationInv, CalibratedBeforeTraining
<1>4. ASSUME NEW c \in Clients, LinkEnds(c) PROVE CalibrationInv'
  <2>1. /\ UNCHANGED <<conn, calibrated>> /\ link'[c] # "up"
        /\ \A b \in Clients : b # c => link'[b] = link[b]
        /\ tasks \ tasks' \subseteq TasksOf(c)
    BY <1>2, <1>4 DEF LinkEnds
  <2>2. \A b \in Clients : b # c /\ CalibrationTask(b) => CalibrationTask(b)'
    BY <2>1 DEF CalibrationTask, TasksOf
  <2> QED
    BY <1>1, <2>1, <2>2 DEF CalibrationInv, CalibratedBeforeTraining
<1>5. ASSUME NEW t \in tasks, Works(t) PROVE CalibrationInv'
  <2>1. UNCHANGED <<link, conn>> /\ tasks' = tasks \ {t} /\ t.client \in Clients
    BY <1>5, TaskTyped DEF Works, TypeInv
  <2>2. \A b \in Clients : calibrated[b] => calibrated'[b]
    BY <1>2, <1>5 DEF Works
  <2>3. \A b \in Clients : CalibrationTask(b) => CalibrationTask(b)' \/ calibrated'[b]
    BY <1>2, <1>5, <2>1 DEF CalibrationTask, Works
  <2>4. CalibratedBeforeTraining'
    <3>1. \A u \in tasks : u.client \in Clients
      BY TaskTyped DEF TypeInv
    <3> QED
      BY <1>1, <2>2, <3>1 DEF CalibrationInv, CalibratedBeforeTraining
  <2> QED
    BY <1>1, <2>1, <2>2, <2>3, <2>4 DEF CalibrationInv
<1> QED
  BY <1>3, <1>4, <1>5

LEMMA CalibrationServer ==
  ASSUME AllClients, TypeInv, LinkInv, RegistryInv, RoundsPast, RoundInv, CalibrationInv,
         ServerNext, UNCHANGED <<link, conn, calibrated>>
  PROVE  CalibrationInv'
<1>1. CASE \E e \in events : OnClientReady(e)
  BY <1>1, CalibrationReady
<1>2. CASE UNCHANGED <<client_stats, training_started>> /\ (starting' => starting)
  <2>1. /\ \A b \in client_stats' : conn'[b] # 0
        /\ ~stopping' => \A b \in client_stats' : <<b, conn'[b]>> \in registered_clients'
        /\ training_started' => client_stats' = Clients
    BY <1>2, StartFrame DEF CalibrationInv
  <2>2. FedLC /\ starting' =>
          \A c \in Clients : link[c] = "up" => calibrated[c] \/ CalibrationTask(c)'
    BY <1>2, StartFrame DEF CalibrationInv, CalibrationTask
  <2>3. ASSUME FedLC, StartTraining
        PROVE  \A c \in Clients : link[c] = "up" => calibrated[c]
    BY <2>3 DEF StartTraining, CalibrationApplied, CalibrationInv, CalibrationTask
  <2>4. FedLC /\ current_round' # -1 => \A c \in Clients : link[c] = "up" => calibrated[c]
    BY <2>3, StartFrame DEF CalibrationInv
  <2>5. ASSUME FedLC, NEW t \in tasks', t.event = "request_update"
        PROVE  calibrated[t.client]
    <3>1. CASE t \in tasks
      BY <2>5, <3>1 DEF CalibrationInv, CalibratedBeforeTraining
    <3>2. CASE t \notin tasks
      <4>1. link[t.client] = "up" /\ (StartTraining \/ current_round # -1)
        BY <2>5, <3>2, StartFrame DEF Request
      <4>2. t.client \in Clients
        BY ServerStepLemma DEF ServerEffect, Task, clientVars
      <4> QED
        BY <2>3, <2>5, <4>1, <4>2 DEF CalibrationInv
    <3> QED
      BY <3>1, <3>2
  <2> QED
    BY <2>1, <2>2, <2>4, <2>5 DEF CalibrationInv, CalibratedBeforeTraining
<1> QED
  BY <1>1, <1>2, StartFrame

LEMMA CalibrationInvariant ==
  ASSUME ConnectionsKept, AllClients
  PROVE  Spec => []CalibrationInv
<1>1. Init => CalibrationInv
  BY DEF Init, NetworkInit, ServerInit, CalibrationInv, CalibratedBeforeTraining
<1>2. /\ TypeInv /\ KeptInv /\ RegistryInv /\ RoundsPast /\ RoundInv /\ CalibrationInv
      /\ [Next]_vars
      => CalibrationInv'
  <2> SUFFICES ASSUME TypeInv, KeptInv, RegistryInv, RoundsPast, RoundInv, CalibrationInv,
                      [Next]_vars
               PROVE  CalibrationInv'
    OBVIOUS
  <2>1. CASE UNCHANGED vars
    BY <2>1
    DEF vars, networkVars, serverVars, clientVars, registryVars, startVars, roundVars,
        endVars, CalibrationInv, CalibrationTask, CalibratedBeforeTraining
  <2> QED
    BY <2>1, StepLemma, KeptClientStep, CalibrationClient, CalibrationServer
    DEF ServerEffect, KeptInv
<1> QED
  BY <1>1, <1>2, TypeInvariant, KeptInvariant, RegistryInvariant, RoundsPastInvariant,
     RoundInvariant, PTL DEF Spec

\* While no connection is lost and everybody the server waits for was launched,
\* no client is asked to train a FedLC round before it applied the calibration
\* term (_finalize_initialization_and_start_training's sleep).
THEOREM TrainingCalibrated ==
  ASSUME ConnectionsKept, AllClients
  PROVE  Spec => []CalibratedBeforeTraining
<1>1. CalibrationInv => CalibratedBeforeTraining
  BY DEF CalibrationInv
<1> QED
  BY <1>1, CalibrationInvariant, PTL

-----------------------------------------------------------------------------
\* The end. Nothing is pending when the run stops, in either of its two ways.
LEMMA EndClient ==
  ASSUME EndInv, UNCHANGED serverVars, ClientEffect, RoundFrame,
         \/ \E c \in Clients : NewConnection(c) \/ LinkEnds(c)
         \/ \E t \in tasks : Works(t),
         TypeInv
  PROVE  EndInv'
<1>1. UNCHANGED <<starting, stopping, aborted, run_summary, silent, test_metrics,
                  train_metrics, current_round>>
  BY DEF serverVars, startVars, endVars, metricVars, roundVars
<1>2. NothingPending => NothingPending'
  BY <1>1 DEF NothingPending, ClientEffect, IsAnswer, Asks, Answers
<1>3. AwaitedEvaluations' \subseteq AwaitedEvaluations
  BY AwaitedShrinks DEF RoundFrame
<1>4. ASSUME silent \/ aborted
      PROVE  /\ events' = {} /\ \A t \in tasks' : t.event = "shutdown"
             /\ \A c \in Clients : link'[c] # "new"
  <2>1. /\ events = {} /\ \A t \in tasks : t.event = "shutdown"
        /\ \A c \in Clients : link[c] # "new"
    BY <1>4 DEF EndInv
  <2>2. \A c \in Clients : ~NewConnection(c)
    BY <2>1 DEF NewConnection
  <2>3. \A t \in tasks : ~Works(t)
    BY <2>1 DEF Works
  <2>4. ASSUME NEW c \in Clients, LinkEnds(c)
        PROVE  events' = events /\ \A b \in Clients : link'[b] # "new"
    BY <2>1, <2>4 DEF LinkEnds, TypeInv, TypeOK, NetworkTypeOK
  <2> QED
    BY <2>1, <2>2, <2>3, <2>4 DEF ClientEffect
<1> QED
  BY <1>1, <1>2, <1>3, <1>4 DEF EndInv

\* What holds of a handler of an event: the run was neither silent nor aborted.
LEMMA HandledWhileAlive ==
  ASSUME EndInv, NEW e \in events
  PROVE  ~silent /\ ~aborted
  BY DEF EndInv

LEMMA EndEvaluated ==
  ASSUME TypeInv, CountInv, RoundsPast, RoundInv, EndInv, NEW e \in events,
         OnClientEval(e)
  PROVE  EndInv'
<1>1. /\ ~silent /\ ~aborted /\ ~silent' /\ ~aborted'
      /\ ~stopping /\ ~starting' /\ events' \subseteq events
      /\ UNCHANGED train_metrics
  <2>1. ~stopping
    BY EvaluationHandled DEF EndInv, NothingPending, Answers, Evaluated
  <2> QED
    BY <2>1, HandledWhileAlive, EvaluationInRound DEF OnClientEval, Receive, startVars
<1>2. current_round \in train_metrics
  BY EvaluationHandled DEF Evaluating
<1>3. ~\E m \in test_metrics : m.round = current_round
  BY EvaluationHandled DEF EndInv
<1>4. \A m \in test_metrics' : m.round \in train_metrics'
  BY <1>1, <1>2 DEF OnClientEval, AggregateEvaluationResults, EndInv
<1>5. CASE UNCHANGED <<roundVars, test_metrics, stopping>>
  BY <1>1, <1>3, <1>4, <1>5 DEF EndInv, roundVars
<1>6. ASSUME AllEvaluationsIn(client_evaluations_this_round'), NextRoundOrFinish(e)
      PROVE  EndInv'
  <2>1. \A t \in tasks' \ tasks : t.event = "shutdown" \/ t.event = "request_update"
    BY <1>6, NextRoundOrFinishLemma
  <2>2. tasks \subseteq tasks'
    BY <1>6 DEF NextRoundOrFinish, FinishRun, StartNextTrainingRound, Emit
  <2>3. /\ AwaitedEvaluations' = {}
        /\ \A t \in tasks : ~Asks(t)
        /\ \A f \in events' : ~Answers(f)
    BY <1>1, <1>6, <2>1, <2>2, BarrierLeavesNobody DEF Evaluates
  <2>4. CASE FinishRun(e)
    <3>1. \A t \in tasks' \ tasks : ~Asks(t)
      BY <2>4 DEF FinishRun, Emit, Asks
    <3>2. NothingPending'
      BY <1>1, <2>3, <3>1 DEF NothingPending
    <3> QED
      BY <1>1, <1>4, <2>3, <2>4, <3>2 DEF EndInv, FinishRun
  <2>5. CASE UNCHANGED stopping
    BY <1>1, <1>4, <2>3, <2>5 DEF EndInv
  <2> QED
    BY <1>6, <2>4, <2>5 DEF NextRoundOrFinish
<1> QED
  BY <1>5, <1>6 DEF OnClientEval

LEMMA EndServer ==
  ASSUME TimeoutCoversWork, TypeInv, LinkInv, CountInv, RegistryInv, RoundsPast, RoundInv,
         QuietInv, EndInv, [Next]_vars, ServerNext, ServerEffect
  PROVE  EndInv'
<1>1. ASSUME NEW e \in events, OnClientEval(e) PROVE EndInv'
  BY <1>1, EndEvaluated
<1>2. ASSUME NEW e \in events, OnClientUpdate(e) PROVE EndInv'
  <2>1. ~silent' /\ ~aborted' /\ ~stopping'
    BY <1>2, HandledWhileAlive
    DEF OnClientUpdate, Receive, EndInv, NothingPending, Answers
  <2>2. ~\E m \in test_metrics : m.round = current_round
    BY <1>2 DEF OnClientUpdate, Receive, CountInv, MessageInv, Reply, EndInv, Evaluating
  <2>3. UNCHANGED <<test_metrics, current_round>> /\ train_metrics \subseteq train_metrics'
    BY <1>2 DEF OnClientUpdate, AggregateUpdates
  <2> QED
    BY <2>1, <2>2, <2>3 DEF EndInv
<1>3. CASE StartTraining
  <2>1. ~stopping' /\ ~silent' /\ ~aborted' /\ UNCHANGED <<test_metrics, train_metrics>>
    BY <1>3 DEF StartTraining, EndInv, QuietInv, NothingPending, endVars, metricVars
  <2>2. test_metrics = {}
    BY <1>3, <2>1, FirstRound DEF EndInv
  <2> QED
    BY <2>1, <2>2 DEF EndInv
<1>4. CASE RoundFrame /\ ~\E e \in events : OnClientEval(e) \/ OnClientUpdate(e)
  <2>1. UNCHANGED <<test_metrics, train_metrics, current_round>>
        /\ AwaitedEvaluations' \subseteq AwaitedEvaluations
    BY <1>4, AwaitedShrinks DEF RoundFrame, roundVars
  <2>2. ASSUME NothingPending, starting' => starting
        PROVE  NothingPending'
    BY <1>4, <2>2 DEF NothingPending, RoundFrame, MessagesOnlyAnswered, ServerEffect
  <2>3. ASSUME NEW s \in open, OnDisconnect(s) PROVE EndInv'
    BY <2>1, <2>2, <2>3 DEF OnDisconnect, EndInv, ServerEffect, startVars, endVars
  <2>4. ASSUME NEW e \in events, OnClientReady(e) PROVE EndInv'
    <3>1. ~silent' /\ ~aborted'
      BY <2>4, HandledWhileAlive DEF OnClientReady, endVars
    <3>2. stopping => (starting' => starting)
      BY <2>4 DEF OnClientReady
    <3>3. UNCHANGED <<stopping, aborted, run_summary>>
      BY <2>4 DEF OnClientReady, endVars
    <3> QED
      BY <2>1, <2>2, <3>1, <3>2, <3>3 DEF EndInv
  <2>5. ASSUME NEW e \in events, OnClientWakeUp(e) \/ IgnoreUpdate(e) PROVE EndInv'
    <3>1. ~silent /\ ~aborted
          /\ UNCHANGED <<starting, silent, aborted, stopping, run_summary>>
      BY <2>5, HandledWhileAlive
      DEF OnClientWakeUp, IgnoreUpdate, serverVars, startVars, endVars
    <3> QED
      BY <2>1, <2>2, <3>1 DEF EndInv
  <2>6. CASE Silence
    BY <2>1, <2>6 DEF Silence, EndInv, ServerEffect, startVars, endVars
  <2>7. CASE RoundWatchdog
    <3>1. NothingPending'
      BY <2>2, <2>7 DEF RoundWatchdog, QuietInv, startVars
    <3>2. \A t \in tasks' \ tasks : t.event = "shutdown"
      BY <2>7 DEF RoundWatchdog, Emit
    <3> QED
      BY <2>1, <2>7, <3>1, <3>2 DEF RoundWatchdog, AbortRun, EndInv, ServerEffect
  <2>8. CASE StopServer
    BY <2>1, <2>2, <2>8 DEF StopServer, EndInv, ServerEffect, startVars
  <2> QED
    BY <1>3, <1>4, <2>3, <2>4, <2>5, <2>6, <2>7, <2>8 DEF ServerNext, HandleEvent
<1> QED
  BY <1>1, <1>2, <1>3, <1>4, KeptSteps

LEMMA EndInvariant ==
  ASSUME ConnectionsKept, TimeoutCoversWork
  PROVE  Spec => []EndInv
<1>1. Init => EndInv
  BY DEF Init, ServerInit, EndInv
<1>2. /\ TypeInv /\ KeptInv /\ RegistryInv /\ RoundsPast /\ RoundInv /\ QuietInv /\ EndInv
      /\ [Next]_vars
      => EndInv'
  <2> SUFFICES ASSUME TypeInv, KeptInv, RegistryInv, RoundsPast, RoundInv, QuietInv, EndInv,
                      [Next]_vars
               PROVE  EndInv'
    OBVIOUS
  <2>1. LinkInv /\ CountInv
    BY DEF KeptInv, CountInv
  <2>2. CASE UNCHANGED vars
    BY <2>2
    DEF vars, networkVars, serverVars, startVars, roundVars, metricVars, endVars, EndInv,
        NothingPending, AwaitedEvaluations, Awaited
  <2>3. CASE ClientNext /\ UNCHANGED serverVars /\ ClientEffect
    <3>1. RoundFrame
      BY <2>3
      DEF ClientEffect, Answers, RoundFrame, MessagesOnlyAnswered, serverVars,
          registryVars, metricVars, endVars
    <3> QED
      BY <2>1, <2>3, <3>1, KeptClientStep, EndClient
  <2> QED
    BY <2>1, <2>2, <2>3, StepLemma, EndServer
<1> QED
  BY <1>1, <1>2, TypeInvariant, KeptInvariant, RegistryInvariant, RoundsPastInvariant,
     RoundInvariant, QuietInvariant, PTL DEF Spec

\* While no connection is lost and the timeout covers the clients' work, no
\* evaluation is left to arrive once the row of its round is written, so the
\* row never changes again (_on_client_eval's barrier reads >=, not =).
THEOREM TestMetricsStay ==
  ASSUME ConnectionsKept, TimeoutCoversWork
  PROVE  Spec => TestMetricsFinal
<1>1. TypeInv /\ KeptInv /\ RegistryInv /\ EndInv /\ [Next]_vars =>
        [\A m \in test_metrics :
           {n \in test_metrics' : n.round = m.round} =
             {n \in test_metrics : n.round = m.round}]_vars
  <2> SUFFICES ASSUME TypeInv, KeptInv, RegistryInv, EndInv, [Next]_vars,
                      NEW m \in test_metrics
               PROVE  {n \in test_metrics' : n.round = m.round} =
                        {n \in test_metrics : n.round = m.round}
    OBVIOUS
  <2>1. LinkInv /\ CountInv
    BY DEF KeptInv, CountInv
  <2>2. ASSUME NEW e \in events, OnClientEval(e)
        PROVE  {n \in test_metrics' : n.round = m.round} =
                 {n \in test_metrics : n.round = m.round}
    <3>1. m.round # current_round
      BY <2>1, <2>2, EvaluationHandled DEF EndInv
    <3> QED
      BY <2>2, <3>1 DEF OnClientEval, AggregateEvaluationResults
  <2>3. RoundFrame \/ StartTraining \/ (\E e \in events : OnClientUpdate(e)) =>
          UNCHANGED test_metrics
    BY DEF RoundFrame, StartTraining, OnClientUpdate, metricVars
  <2> QED
    BY <2>1, <2>2, <2>3, KeptSteps
<1> QED
  BY <1>1, TypeInvariant, KeptInvariant, RegistryInvariant, EndInvariant, PTL
  DEF Spec, TestMetricsFinal

-----------------------------------------------------------------------------
\* Every answer arrives. While the server runs, everybody who has reported is
\* registered and can be reached.
EverybodyIn ==
  /\ \A c \in Clients : <<c, conn[c]>> \in registered_clients
  /\ NumClients <= Cardinality(registered_clients)

LEMMA EverybodyRegistered ==
  ASSUME AllClients, CalibrationInv, EvaluationBudget, training_started, ~stopping
  PROVE  EverybodyIn
<1>1. \A c \in Clients : <<c, conn[c]>> \in registered_clients
  BY DEF CalibrationInv
<1>2. IsFiniteSet(registered_clients)
  BY DEF EvaluationBudget
<1>3. Clients \subseteq {s[1] : s \in registered_clients}
  <2>1. \A c \in Clients : \E s \in registered_clients : s[1] = c
    <3> TAKE c \in Clients
    <3>1. <<c, conn[c]>>[1] = c
      OBVIOUS
    <3> QED
      BY <1>1, <3>1
  <2> QED
    BY <2>1
<1>4. IsFiniteSet({s[1] : s \in registered_clients})
      /\ NumClients <= Cardinality({s[1] : s \in registered_clients})
  <2>1. IsFiniteSet({s[1] : s \in registered_clients})
    BY <1>2, FirstComponents
  <2> QED
    BY <1>3, <2>1, Smaller DEF AllClients
<1>5. Cardinality({s[1] : s \in registered_clients}) <= Cardinality(registered_clients)
  BY <1>2, FirstComponents
<1>6. /\ Cardinality({s[1] : s \in registered_clients}) \in Nat
      /\ Cardinality(registered_clients) \in Nat
  BY <1>2, <1>4, FS_CardinalityType
<1> QED
  BY <1>1, <1>4, <1>5, <1>6, ServerAssumption DEF EverybodyIn

\* The evaluations that are in cannot be from everybody when fewer than the
\* registered clients have answered.
LEMMA SomebodyMissing ==
  ASSUME NEW evals \in Seq(Evaluation), NEW S, IsFiniteSet(S),
         Len(evals) < Cardinality(S)
  PROVE  \E s \in S : \A i \in DOMAIN evals : evals[i].sid # s
<1> SUFFICES ASSUME \A s \in S : \E i \in DOMAIN evals : evals[i].sid = s
             PROVE  FALSE
  OBVIOUS
<1>1. Len(evals) \in Nat /\ DOMAIN evals = 1..Len(evals) /\ Cardinality(S) \in Nat
  BY FS_CardinalityType
<1> DEFINE named == {i \in 1..Len(evals) : evals[i].sid \in S}
           f == [i \in named |-> evals[i].sid]
<1>2. IsFiniteSet(named) /\ Cardinality(named) <= Len(evals) /\ Cardinality(named) \in Nat
  <2> DEFINE n == Len(evals)
  <2> HIDE DEF n
  <2>1. n \in Nat => IsFiniteSet(1..n) /\ Cardinality(1..n) = n
    BY FS_Interval
  <2>2. named \subseteq 1..n
    BY DEF n
  <2> QED
    BY <1>1, <2>1, <2>2, Smaller DEF n
<1>3. f \in Surjection(named, S)
  BY <1>1 DEF Surjection
<1>4. Cardinality(S) <= Cardinality(named)
  BY <1>2, <1>3, FS_Surjection
<1> QED
  BY <1>1, <1>2, <1>4

\* A round can be filled.
WorkersSuffice == MinNumWorkers \in 1..NumClients

\* Opening a round while the server runs and everybody is registered.
LEMMA RoundFilled ==
  ASSUME TypeInv, WorkersSuffice, EverybodyIn, IsFiniteSet(registered_clients),
         StartNextTrainingRound
  PROVE  num_clients_per_round' = MinNumWorkers
<1>1. Cardinality(registered_clients) \in Nat
  BY FS_CardinalityType
<1> QED
  BY <1>1, ServerAssumption DEF StartNextTrainingRound, EverybodyIn, WorkersSuffice

LEMMA RoundsUnderWayStep ==
  ASSUME AllClients, WorkersSuffice, TypeInv, KeptInv, CalibrationInv, RoundsPast, RoundInv,
         EndInv, RoundsUnderWay, ServerNext
  PROVE  RoundsUnderWay'
<1>1. /\ MinNumWorkers \in Nat /\ 0 < MinNumWorkers
      /\ training_started \in BOOLEAN /\ starting \in BOOLEAN
      /\ stopping => stopping'
      /\ IsFiniteSet(registered_clients) /\ EvaluationBudget
  BY ServerFrame, ServerAssumption
  DEF WorkersSuffice, TypeInv, TypeOK, ServerTypeOK, KeptInv, EvaluationBudget
<1>2. ASSUME UNCHANGED <<client_stats, training_started, starting, current_round,
                         num_clients_per_round, client_updates_this_round,
                         total_training_size_in_round, train_metrics>>
      PROVE  RoundsUnderWay'
  BY <1>1, <1>2 DEF RoundsUnderWay, Evaluating, AggregationRaised
<1>3. ASSUME NEW s \in open, OnDisconnect(s) PROVE RoundsUnderWay'
  BY <1>2, <1>3 DEF OnDisconnect, startVars, roundVars, metricVars
<1>4. ASSUME NEW e \in events, OnClientReady(e) PROVE RoundsUnderWay'
  <2>1. /\ UNCHANGED <<stopping, current_round, num_clients_per_round,
                       client_updates_this_round, total_training_size_in_round,
                       train_metrics>>
    BY <1>4 DEF OnClientReady, endVars, roundVars, metricVars
  <2>2. NumClients <= Cardinality(client_stats') => training_started'
    BY <1>4 DEF OnClientReady, ReadyToStart
  <2>3. training_started' /\ ~starting' /\ ~stopping => current_round # -1
    BY <1>1, <1>4 DEF OnClientReady, RoundsUnderWay
  <2> QED
    BY <2>1, <2>2, <2>3 DEF RoundsUnderWay, Evaluating, AggregationRaised
<1>5. ASSUME NEW e \in events, OnClientUpdate(e) PROVE RoundsUnderWay'
  <2>1. /\ UNCHANGED <<client_stats, training_started, starting, stopping, current_round,
                       num_clients_per_round>>
        /\ Evaluating' \/ ~AllUpdatesIn(client_updates_this_round') \/ AggregationRaised'
    BY <1>5
    DEF OnClientUpdate, AggregateUpdates, registryVars, startVars, Evaluating,
        AggregationRaised
  <2>2. Len(client_updates_this_round') \in Nat /\ num_clients_per_round \in Nat
    BY <1>5 DEF OnClientUpdate, TypeInv, TypeOK, ServerTypeOK
  <2> QED
    BY <2>1, <2>2 DEF RoundsUnderWay, AllUpdatesIn
<1>6. ASSUME NEW e \in events, OnClientEval(e) PROVE RoundsUnderWay'
  <2>1. /\ UNCHANGED <<client_stats, training_started, starting, train_metrics,
                       total_training_size_in_round>>
        /\ current_round # -1
    <3>1. current_round \in Nat
      BY <1>6, EvaluationInRound
    <3> QED
      BY <1>6, <3>1 DEF OnClientEval, registryVars, startVars
  <2>2. CASE UNCHANGED roundVars
    BY <1>2, <2>1, <2>2 DEF roundVars
  <2>3. CASE StartNextTrainingRound
    <3>1. client_updates_this_round' = <<>> /\ current_round' \in Nat
      BY <2>3, StartRoundLemma
    <3>2. num_clients_per_round' = MinNumWorkers
      BY <2>1, <2>3 DEF StartNextTrainingRound, RoundsUnderWay
    <3> QED
      BY <1>1, <2>1, <3>1, <3>2 DEF RoundsUnderWay
  <2> QED
    BY <1>6, <2>2, <2>3 DEF OnClientEval, NextRoundOrFinish, FinishRun
<1>7. CASE StartTraining
  <2>1. /\ ~stopping /\ training_started /\ UNCHANGED <<client_stats, training_started>>
        /\ current_round' = 0 /\ StartNextTrainingRound
    BY <1>7, FirstRound
    DEF StartTraining, EndInv, NothingPending, RoundInv, registryVars
  <2>2. num_clients_per_round' = MinNumWorkers /\ client_updates_this_round' = <<>>
    BY <1>1, <2>1, EverybodyRegistered, RoundFilled, StartRoundLemma
  <2> QED
    BY <1>1, <2>1, <2>2 DEF RoundsUnderWay
<1>8. ASSUME NEW e \in events, OnClientWakeUp(e) \/ IgnoreUpdate(e)
      PROVE  RoundsUnderWay'
  BY <1>2, <1>8
  DEF OnClientWakeUp, IgnoreUpdate, serverVars, registryVars, startVars, roundVars,
      metricVars
<1>9. CASE Silence \/ RoundWatchdog \/ StopServer
  BY <1>2, <1>9
  DEF Silence, RoundWatchdog, StopServer, registryVars, startVars, roundVars, metricVars
<1> QED
  BY <1>3, <1>4, <1>5, <1>6, <1>7, <1>8, <1>9 DEF ServerNext, HandleEvent

\* A registered client that still owes its evaluation goes on owing it, until
\* its answer is handled: it can be reached as long as the server runs.
LEMMA EvaluationStaysDue ==
  ASSUME "eval" \notin Failures, TypeInv, LinkInv, ~stopping,
         \/ \E c \in Clients : NewConnection(c) \/ LinkEnds(c)
         \/ \E t \in tasks : Works(t),
         NEW s \in registered_clients, s[1] \in AwaitedEvaluations
  PROVE  s[1] \in AwaitedEvaluations'
<1>1. s[1] \in Clients /\ link[s[1]] = "up"
  BY DEF TypeInv, TypeOK, ServerTypeOK, Sids, LinkInv
<1>2. events \subseteq events'
  BY DEF NewConnection, WakeUp, LinkEnds, Works
<1>3. CASE \E e \in events : Evaluated(e) /\ e.sid[1] = s[1]
  BY <1>2, <1>3 DEF AwaitedEvaluations, Awaited, Evaluated
<1>4. ASSUME NEW t \in tasks, Evaluates(t), t.client = s[1]
      PROVE  s[1] \in AwaitedEvaluations'
  <2>1. CASE t \in tasks'
    BY <1>4, <2>1 DEF AwaitedEvaluations, Awaited, Evaluates
  <2>2. CASE t \notin tasks'
    <3>1. Works(t)
      BY <2>2 DEF NewConnection, LinkEnds, Works
    <3> DEFINE e == [sid |-> <<s[1], conn[s[1]]>>, event |-> "client_eval", round |-> t.round]
    <3>2. e \in events'
      BY <1>1, <1>4, <3>1 DEF Works, Send, CurrentSid
    <3>3. e.event = "client_eval" /\ e.sid[1] = s[1]
      OBVIOUS
    <3> QED
      BY <3>2, <3>3 DEF AwaitedEvaluations, Awaited
  <2> QED
    BY <2>1, <2>2
<1> QED
  BY <1>3, <1>4 DEF AwaitedEvaluations, Awaited, Evaluates, Evaluated

\* The evaluation a handler takes off the wire is the one it buffers.
LEMMA EvaluationCounted ==
  ASSUME TypeInv, LinkInv, CountInv, EvaluationsComing, ~stopping,
         NEW e \in events, OnClientEval(e), UNCHANGED tasks,
         NEW s \in registered_clients
  PROVE  \/ s[1] \in AwaitedEvaluations'
         \/ \E i \in DOMAIN client_evaluations_this_round' :
              client_evaluations_this_round'[i].sid = s
<1>1. /\ events' = events \ {e} /\ Evaluating
      /\ client_evaluations_this_round' =
           Append(client_evaluations_this_round, [sid |-> e.sid, on |-> e.round])
      /\ client_evaluations_this_round \in Seq(Evaluation)
  BY EvaluationHandled DEF OnClientEval, Receive, TypeInv, TypeOK, ServerTypeOK
<1>2. CASE s[1] = e.sid[1]
  <2>1. s = e.sid
    <3>1. s \in Sids /\ e.sid \in Sids /\ conn[s[1]] = s[2] /\ conn[e.sid[1]] = e.sid[2]
      BY EventTyped DEF TypeInv, TypeOK, ServerTypeOK, LinkInv
    <3> QED
      BY <1>2, <3>1 DEF Sids
  <2>2. /\ Len(client_evaluations_this_round) + 1 \in DOMAIN client_evaluations_this_round'
        /\ client_evaluations_this_round'[Len(client_evaluations_this_round) + 1].sid = e.sid
    BY <1>1
  <2> QED
    BY <2>1, <2>2
<1>3. ASSUME NEW i \in DOMAIN client_evaluations_this_round,
             client_evaluations_this_round[i].sid = s
      PROVE  \E j \in DOMAIN client_evaluations_this_round' :
               client_evaluations_this_round'[j].sid = s
  <2>1. /\ i \in DOMAIN client_evaluations_this_round'
        /\ client_evaluations_this_round'[i] = client_evaluations_this_round[i]
    BY <1>1
  <2> QED
    BY <1>3, <2>1
<1>4. CASE s[1] # e.sid[1] /\ s[1] \in AwaitedEvaluations
  <2>1. \A f \in events : f.sid[1] = s[1] => f \in events'
    BY <1>1, <1>4
  <2> QED
    BY <1>4, <2>1 DEF AwaitedEvaluations, Awaited
<1> QED
  BY <1>1, <1>2, <1>3, <1>4 DEF EvaluationsComing

\* Completing the updates of a round asks everybody registered.
LEMMA EverybodyAsked ==
  ASSUME AllClients, TypeInv, KeptInv, CalibrationInv, RoundInv, ~stopping,
         NEW e \in events, OnClientUpdate(e), TriggerGlobalEvaluation,
         UNCHANGED <<link, conn>>
  PROVE  /\ Len(client_evaluations_this_round') < Cardinality(registered_clients)
         /\ \A s \in registered_clients : s[1] \in AwaitedEvaluations'
<1>1. current_round \in Nat
  BY EventTyped DEF OnClientUpdate, Receive, OfThisRound
<1>2. training_started
  BY <1>1 DEF RoundInv, TypeInv, TypeOK, ServerTypeOK
<1>3. EverybodyIn /\ IsFiniteSet(registered_clients)
  BY <1>2, EverybodyRegistered DEF KeptInv, EvaluationBudget
<1>4. Len(client_evaluations_this_round') = 0
  BY DEF TriggerGlobalEvaluation
<1>5. Cardinality(registered_clients) \in Nat
  BY <1>3, FS_CardinalityType
<1>6. ASSUME NEW s \in registered_clients PROVE s[1] \in AwaitedEvaluations'
  <2>1. Reachable(s)
    BY DEF KeptInv, LinkInv, TypeInv, TypeOK, ServerTypeOK, Sids, Reachable
  <2> DEFINE t == [client |-> s[1], event |-> "stop_and_eval", round |-> current_round]
  <2>2. t \in tasks'
    BY <2>1 DEF TriggerGlobalEvaluation, Emit
  <2>3. t.event = "stop_and_eval" /\ t.client = s[1]
    OBVIOUS
  <2> QED
    BY <2>2, <2>3 DEF AwaitedEvaluations, Awaited
<1> QED
  BY <1>3, <1>4, <1>5, <1>6, ServerAssumption DEF EverybodyIn

LEMMA EvaluationsComingServer ==
  ASSUME AllClients, TypeInv, KeptInv, CalibrationInv, RegistryInv, RoundInv,
         EvaluationsComing, ServerNext, ServerEffect
  PROVE  EvaluationsComing'
<1> SUFFICES ASSUME Evaluating', ~stopping'
             PROVE  EvaluationsComing'
  BY DEF EvaluationsComing
<1>1. /\ ~stopping /\ UNCHANGED <<link, conn>> /\ LinkInv /\ CountInv
  BY ServerFrame DEF ServerEffect, KeptInv, CountInv
<1>2. ASSUME UNCHANGED <<registered_clients, client_evaluations_this_round, current_round,
                         train_metrics>>,
             tasks \subseteq tasks',
             \A f \in events : Evaluated(f) => f \in events'
      PROVE  EvaluationsComing'
  <2>1. AwaitedEvaluations \subseteq AwaitedEvaluations'
    BY <1>2 DEF AwaitedEvaluations, Awaited, Evaluated
  <2> QED
    BY <1>1, <1>2, <2>1 DEF EvaluationsComing, Evaluating
<1>3. ASSUME NEW s \in open, OnDisconnect(s) PROVE EvaluationsComing'
  BY <1>1, <1>3, RegistrationsKept DEF OnDisconnect
<1>4. ASSUME NEW e \in events, OnClientReady(e) PROVE EvaluationsComing'
  <2>1. training_started /\ UNCHANGED <<current_round, train_metrics>>
    BY <1>4 DEF OnClientReady, roundVars, metricVars, RoundInv, Evaluating, TypeInv, TypeOK,
                ServerTypeOK
  <2>2. EverybodyIn
    BY <1>1, <2>1, EverybodyRegistered DEF KeptInv
  <2>3. e.sid = <<e.sid[1], conn[e.sid[1]]>> /\ e.sid[1] \in Clients
    BY <1>1, EventTyped DEF LinkInv, Sids
  <2>4. UNCHANGED registered_clients
    BY <1>1, <1>4, <2>2, <2>3, RegistrationsKept DEF EverybodyIn
  <2>5. tasks \subseteq tasks'
    BY <1>4 DEF OnClientReady, Emit
  <2> QED
    BY <1>2, <1>4, <2>1, <2>4, <2>5 DEF OnClientReady, Receive, Evaluated
<1>5. ASSUME NEW e \in events, OnClientWakeUp(e) \/ IgnoreUpdate(e)
      PROVE  EvaluationsComing'
  BY <1>2, <1>5
  DEF OnClientWakeUp, IgnoreUpdate, Receive, Evaluated, Emit, serverVars, registryVars,
      roundVars, metricVars
<1>6. ASSUME NEW e \in events, OnClientUpdate(e) PROVE EvaluationsComing'
  <2>1. TriggerGlobalEvaluation /\ UNCHANGED registered_clients
    BY <1>1, <1>6
    DEF OnClientUpdate, Receive, OfThisRound, CountInv, MessageInv, Reply, Evaluating,
        registryVars
  <2> QED
    BY <1>1, <1>6, <2>1, EverybodyAsked DEF EvaluationsComing
<1>7. ASSUME NEW e \in events, OnClientEval(e) PROVE EvaluationsComing'
  <2>1. HasRow /\ UNCHANGED <<registered_clients, train_metrics>>
    BY <1>1, <1>7, EvaluationHandled DEF HasRow, Evaluating, OnClientEval, registryVars
  <2>2. ~(NextRoundOrFinish(e))
    <3>1. ~FinishRun(e)
      BY DEF FinishRun
    <3>2. ASSUME StartNextTrainingRound PROVE FALSE
      <4>1. current_round' = current_round + 1 /\ current_round \in Rounds
        BY <3>2, StartRoundLemma DEF TypeInv, TypeOK, ServerTypeOK
      <4> QED
        BY <2>1, <4>1 DEF RoundInv, Evaluating, Rounds
    <3> QED
      BY <3>1, <3>2 DEF NextRoundOrFinish
  <2>3. UNCHANGED tasks /\ ~AllEvaluationsIn(client_evaluations_this_round')
    BY <1>7, <2>1, <2>2 DEF OnClientEval
  <2>4. Len(client_evaluations_this_round') \in Nat
        /\ Cardinality(registered_clients) \in Nat
    BY <1>1, <1>7, EvaluationHandled, FS_CardinalityType DEF CountInv, EvaluationBudget
  <2>5. Len(client_evaluations_this_round') < Cardinality(registered_clients)
    BY <2>3, <2>4 DEF AllEvaluationsIn
  <2> QED
    BY <1>1, <1>7, <2>1, <2>3, <2>5, EvaluationCounted DEF EvaluationsComing
<1>8. CASE StartTraining
  BY <1>8, FirstRound DEF Evaluating
<1>9. CASE Silence \/ RoundWatchdog \/ StopServer
  BY <1>1, <1>2, <1>9
  DEF Silence, RoundWatchdog, StopServer, Emit, registryVars, roundVars, metricVars
<1> QED
  BY <1>3, <1>4, <1>5, <1>6, <1>7, <1>8, <1>9 DEF ServerNext, HandleEvent

\* The watchdog ends only a run in which somebody never reported, an update is
\* missing or the aggregation raised.
LEMMA AbortExplainedServer ==
  ASSUME AllClients, TypeInv, KeptInv, RoundInv, QuietInv, EndInv, RoundsUnderWay,
         EvaluationsComing, AbortExplained, ServerNext
  PROVE  AbortExplained'
<1>1. ASSUME NEW e \in events, OnClientReady(e) \/ OnClientUpdate(e) \/ OnClientEval(e)
      PROVE  AbortExplained'
  BY <1>1, HandledWhileAlive
  DEF OnClientReady, OnClientUpdate, OnClientEval, AbortExplained, endVars
<1>2. CASE StartTraining
  BY <1>2 DEF StartTraining, QuietInv, NothingPending, AbortExplained, endVars
<1>3. CASE RoundWatchdog
  <2> SUFFICES ASSUME ~(Cardinality(client_stats) < NumClients),
                      ~(Len(client_updates_this_round) < num_clients_per_round),
                      ~AggregationRaised
               PROVE  FALSE
    BY <1>3
    DEF RoundWatchdog, AbortExplained, AggregationRaised, registryVars, roundVars, metricVars
  <2>1. ~stopping /\ silent
    BY <1>3 DEF RoundWatchdog, Watching, KeptInv, LinkInv
  <2>2. /\ NothingPending /\ AwaitedEvaluations = {}
    BY <2>1 DEF QuietInv, NothingPending, AwaitedEvaluations, Awaited, Asks, Answers
  <2>3. ASSUME Evaluating PROVE FALSE
    <3>1. /\ IsFiniteSet(registered_clients)
          /\ Len(client_evaluations_this_round) < Cardinality(registered_clients)
          /\ client_evaluations_this_round \in Seq(Evaluation)
          /\ \A s \in registered_clients : \E i \in DOMAIN client_evaluations_this_round :
               client_evaluations_this_round[i].sid = s
      BY <2>1, <2>2, <2>3
      DEF EvaluationsComing, KeptInv, EvaluationBudget, TypeInv, TypeOK, ServerTypeOK
    <3> QED
      BY <3>1, SomebodyMissing
  <2>4. training_started
    <3>1. Cardinality(client_stats) \in Nat
      BY Smaller DEF AllClients, TypeInv, TypeOK, ServerTypeOK
    <3> QED
      BY <3>1, ServerAssumption DEF RoundsUnderWay
  <2> QED
    BY <2>1, <2>2, <2>3, <2>4 DEF NothingPending, RoundsUnderWay
<1>4. CASE UNCHANGED <<aborted, client_stats, client_updates_this_round,
                       num_clients_per_round, current_round,
                       total_training_size_in_round, train_metrics>>
  BY <1>4 DEF AbortExplained, AggregationRaised
<1> QED
  BY <1>1, <1>2, <1>3, <1>4
  DEF ServerNext, HandleEvent, OnDisconnect, OnClientWakeUp, IgnoreUpdate, Silence,
      StopServer, serverVars, registryVars, roundVars, metricVars, endVars

LEMMA EveryoneAnswersInvariant ==
  ASSUME ConnectionsKept, "eval" \notin Failures, TimeoutCoversWork, AllClients,
         WorkersSuffice
  PROVE  Spec => []EveryoneAnswers
<1>1. Init => EveryoneAnswers
  <2> SUFFICES ASSUME Init PROVE EveryoneAnswers
    OBVIOUS
  <2>1. Cardinality(client_stats) = 0 /\ ~Evaluating /\ ~aborted
        /\ ~training_started /\ current_round = -1
    BY FS_EmptySet DEF Init, ServerInit, Evaluating
  <2> QED
    BY <2>1, ServerAssumption
    DEF EveryoneAnswers, RoundsUnderWay, EvaluationsComing, AbortExplained
<1>2. /\ TypeInv /\ KeptInv /\ CalibrationInv /\ RegistryInv /\ RoundsPast /\ RoundInv
      /\ QuietInv /\ EndInv /\ EveryoneAnswers /\ [Next]_vars
      => EveryoneAnswers'
  <2> SUFFICES ASSUME TypeInv, KeptInv, CalibrationInv, RegistryInv, RoundsPast, RoundInv,
                      QuietInv, EndInv, EveryoneAnswers, [Next]_vars
               PROVE  EveryoneAnswers'
    OBVIOUS
  <2>1. CASE ServerNext /\ ServerEffect
    BY <2>1, RoundsUnderWayStep, EvaluationsComingServer, AbortExplainedServer
    DEF EveryoneAnswers
  <2>2. CASE ClientNext /\ UNCHANGED serverVars
    <3>1. RoundsUnderWay' /\ AbortExplained'
      BY <2>2
      DEF EveryoneAnswers, RoundsUnderWay, AbortExplained, AggregationRaised, Evaluating,
          serverVars, registryVars, startVars, roundVars, metricVars, endVars
    <3>2. UNCHANGED <<registered_clients, client_evaluations_this_round, current_round,
                      train_metrics, stopping>>
      BY <2>2 DEF serverVars, registryVars, roundVars, metricVars, endVars
    <3>3. EvaluationsComing'
      BY <2>2, <3>2, KeptClientStep, EvaluationStaysDue
      DEF EveryoneAnswers, EvaluationsComing, Evaluating, KeptInv
    <3> QED
      BY <3>1, <3>3 DEF EveryoneAnswers
  <2>3. CASE UNCHANGED vars
    BY <2>3
    DEF EveryoneAnswers, RoundsUnderWay, EvaluationsComing, AbortExplained,
        AggregationRaised, Evaluating, AwaitedEvaluations, Awaited, vars, networkVars, serverVars, registryVars,
        startVars, roundVars, metricVars, endVars
  <2> QED
    BY <2>1, <2>2, <2>3, StepLemma
<1> QED
  BY <1>1, <1>2, TypeInvariant, KeptInvariant, CalibrationInvariant, RegistryInvariant,
     RoundsPastInvariant, RoundInvariant, QuietInvariant, EndInvariant, PTL DEF Spec

\* While no connection is lost, no evaluation fails, everybody was launched and
\* the timeout covers the clients' work, a run ends without a summary only when
\* a client never reported, an update of the round is missing or unreadable, or
\* its aggregation raised: an answer that came is never left out of the barrier
\* it belongs to (_round_watchdog).
THEOREM AnswersCounted ==
  ASSUME ConnectionsKept, "eval" \notin Failures, TimeoutCoversWork, AllClients,
         WorkersSuffice
  PROVE  Spec => []AnswersSuffice
<1>1. KeptInv /\ EndInv /\ EveryoneAnswers => AnswersSuffice
  BY DEF KeptInv, LinkInv, EndInv, EveryoneAnswers, AbortExplained, AnswersSuffice, RunOver
<1> QED
  BY <1>1, KeptInvariant, EndInvariant, EveryoneAnswersInvariant, PTL
=============================================================================
