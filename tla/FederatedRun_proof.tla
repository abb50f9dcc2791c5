------------------------- MODULE FederatedRun_proof -------------------------
(***************************************************************************)
(* Proofs about FederatedRun, for every number of clients, rounds and      *)
(* connections and every combination of faults. They follow one pattern:   *)
(* a lemma says what any step of a client can do to the messages; the      *)
(* steps of the server are then taken one by one.                          *)
(***************************************************************************)
EXTENDS FederatedRun, TLAPS

\* Messages that answer a round, or ask for an answer, name a real round.
MessageRounds ==
  /\ \A t \in tasks : t.event \in {"request_update", "stop_and_eval"} => t.round \in Nat
  /\ \A e \in events : e.event \in {"client_update", "client_eval"} => e.round \in Nat

\* A client with a connection has opened one.
LinkHasConnection == \A c \in Clients : link[c] = "up" => conn[c] # 0

TypeInv == TypeOK /\ MessageRounds /\ LinkHasConnection

-----------------------------------------------------------------------------
\* Emit only adds the named event, for the named round, to clients of the room.
LEMMA EmitLemma ==
  ASSUME NetworkTypeOK,
         NEW event \in ServerEvents, NEW sids \in SUBSET Sids, NEW r \in Rounds
  PROVE  /\ Emit(event, sids, r) \subseteq Task
         /\ \A t \in Emit(event, sids, r) :
              t \in tasks \/ (t.event = event /\ t.round = r)
  BY DEF Emit, NetworkTypeOK, Task, Sids

\* What a client's step can do to the messages: it takes tasks away, and every
\* event it sends is a greeting or the answer to a task it took away.
IsAnswer(e, t) ==
  /\ t.client = e.sid[1]
  /\ t.round = e.round
  /\ \/ t.event = "request_update" /\ e.event = "client_update"
     \/ t.event = "stop_and_eval" /\ e.event = "client_eval"

ClientEffect ==
  /\ tasks' \subseteq tasks
  /\ \A e \in events' \ events :
       \/ e.event \in {"client_wake_up", "client_ready"}
       \/ \E t \in tasks \ tasks' : IsAnswer(e, t)
  /\ \A e, f \in events' \ events : e = f

ClientNext == ClientStep(~stopped) \/ Disturbance(~stopped)

LEMMA TaskTyped ==
  ASSUME TypeOK, NEW t \in tasks
  PROVE  /\ t.client \in Clients /\ t.event \in ServerEvents /\ t.round \in Rounds
         /\ link[t.client] \in LinkState /\ conn[t.client] \in 0..MaxConn
  BY DEF TypeOK, NetworkTypeOK, Task

LEMMA SendLemma ==
  ASSUME TypeInv, NEW c \in Clients, NEW event \in ClientEvents, NEW r \in Rounds
  PROVE  /\ Send(c, event, r) \subseteq Event
         /\ \A e \in Send(c, event, r) \ events :
              e = [sid |-> <<c, conn[c]>>, event |-> event, round |-> r]
  BY NetworkAssumption
  DEF Send, CurrentSid, TypeInv, LinkHasConnection, TypeOK, NetworkTypeOK, Event, Sids

ClientSideInv == NetworkTypeOK /\ ClientTypeOK /\ MessageRounds /\ LinkHasConnection

\* A handler that answers sends one message, for its task's round and client.
LEMMA AnswerLemma ==
  ASSUME TypeInv, NEW t \in tasks, NEW event, NEW reply \in ClientEvents,
         Answer(t, event, reply),
         \/ event = "init" /\ reply = "client_ready"
         \/ event = "request_update" /\ reply = "client_update"
         \/ event = "stop_and_eval" /\ reply = "client_eval"
  PROVE  ClientSideInv' /\ ClientEffect
<1>1. TypeOK /\ MessageRounds /\ LinkHasConnection
  BY DEF TypeInv
<1>2. t.client \in Clients /\ t.round \in Rounds
  BY <1>1, TaskTyped
<1>3. /\ Send(t.client, reply, t.round) \subseteq Event
      /\ \A e \in Send(t.client, reply, t.round) \ events :
           e = [sid |-> <<t.client, conn[t.client]>>, event |-> reply, round |-> t.round]
  BY <1>2, SendLemma
<1>4. /\ events' = Send(t.client, reply, t.round)
      /\ tasks' = tasks \ {t}
      /\ t.event = event
      /\ UNCHANGED <<link, conn, open, calibrated>>
  BY DEF Answer
<1>5. NetworkTypeOK' /\ ClientTypeOK' /\ LinkHasConnection'
  BY <1>1, <1>3, <1>4 DEF TypeOK, NetworkTypeOK, ClientTypeOK, LinkHasConnection
<1>6. \A e \in events' \ events :
        /\ e = [sid |-> <<t.client, conn[t.client]>>, event |-> reply, round |-> t.round]
        /\ e.event = "client_ready" \/ IsAnswer(e, t)
  BY <1>3, <1>4 DEF IsAnswer
<1>7. ClientEffect
  BY <1>4, <1>6 DEF ClientEffect
<1>8. MessageRounds'
  BY <1>1, <1>4, <1>6 DEF MessageRounds, IsAnswer
<1> QED
  BY <1>5, <1>7, <1>8 DEF ClientSideInv

\* A new connection has a fresh, typed sid; the greeting is the only message.
LEMMA ConnectionLemma ==
  ASSUME TypeInv, NEW c \in Clients, OpenConnection(c),
         tasks' \subseteq tasks, WakeUp(c) \/ UNCHANGED events, ClientTypeOK'
  PROVE  ClientSideInv' /\ ClientEffect
<1>1. TypeOK /\ MessageRounds /\ LinkHasConnection
  BY DEF TypeInv
<1>2. conn[c] \in 0..MaxConn /\ conn[c] < MaxConn /\ MaxConn \in Nat
  BY <1>1, NetworkAssumption DEF TypeOK, NetworkTypeOK, OpenConnection
<1>3. <<c, conn[c] + 1>> \in Sids
  BY <1>2 DEF Sids
<1>4. \A e \in events' \ events :
        e = [sid |-> <<c, conn[c] + 1>>, event |-> "client_wake_up", round |-> -1]
  BY DEF WakeUp
<1>5. events' \subseteq Event
  BY <1>1, <1>3, <1>4 DEF Event, TypeOK, NetworkTypeOK, ClientEvents, Rounds
<1>6. link' \in [Clients -> LinkState] /\ conn' \in [Clients -> 0..MaxConn]
  BY <1>1, <1>2 DEF OpenConnection, TypeOK, NetworkTypeOK, LinkState
<1>7. open' \subseteq Sids /\ tasks' \subseteq Task
  BY <1>1, <1>3 DEF OpenConnection, TypeOK, NetworkTypeOK
<1>8. LinkHasConnection'
  BY <1>1, <1>2 DEF OpenConnection, TypeOK, NetworkTypeOK, LinkHasConnection
<1>9. ClientEffect
  BY <1>4 DEF ClientEffect
<1>10. MessageRounds'
  BY <1>1, <1>4 DEF MessageRounds
<1> QED
  BY <1>5, <1>6, <1>7, <1>8, <1>9, <1>10 DEF ClientSideInv, NetworkTypeOK

\* Every other step of a client takes tasks away and sends nothing.
LEMMA QuietStepLemma ==
  ASSUME TypeInv, NEW c \in Clients, NEW state \in LinkState \ {"up"},
         link' = link \/ link' = [link EXCEPT ![c] = state],
         UNCHANGED <<conn, open, events>>, tasks' \subseteq tasks, ClientTypeOK'
  PROVE  ClientSideInv' /\ ClientEffect
<1>1. TypeOK /\ MessageRounds /\ LinkHasConnection
  BY DEF TypeInv
<1>2. link' \in [Clients -> LinkState] /\ LinkHasConnection'
  BY <1>1 DEF TypeOK, NetworkTypeOK, LinkHasConnection
<1>3. NetworkTypeOK' /\ MessageRounds' /\ ClientEffect
  BY <1>1, <1>2 DEF TypeOK, NetworkTypeOK, MessageRounds, ClientEffect
<1> QED
  BY <1>2, <1>3 DEF ClientSideInv

LEMMA ClientStepLemma ==
  ASSUME TypeInv, ClientNext
  PROVE  ClientSideInv' /\ ClientEffect
<1> DEFINE up == ~stopped
<1>1. TypeOK /\ ClientTypeOK
  BY DEF TypeInv, TypeOK
<1>2. {"client_ready", "client_update", "client_eval"} \subseteq ClientEvents
  BY DEF ClientEvents
<1>3. {"down", "gone"} \subseteq LinkState \ {"up"}
  BY DEF LinkState
<1>4. ASSUME NEW t \in tasks, HandleTask(t)
      PROVE  ClientSideInv' /\ ClientEffect
  <2>1. t.client \in Clients
    BY <1>1, TaskTyped
  <2>2. ASSUME NEW event, NEW kind, Fail(t, event, kind)
        PROVE  ClientSideInv' /\ ClientEffect
    <3>1. UNCHANGED <<link, conn, open, events>> /\ tasks' \subseteq tasks /\ ClientTypeOK'
      BY <1>1, <2>2 DEF Fail, ClientTypeOK
    <3> QED
      BY <3>1, <1>3, <2>1, QuietStepLemma
  <2>3. CASE OnInit(t)
    BY <2>3, <2>2, <1>2, AnswerLemma DEF OnInit
  <2>4. CASE OnDistributeCalibration(t)
    <3>1. UNCHANGED <<link, conn, open, events>> /\ tasks' \subseteq tasks /\ ClientTypeOK'
      BY <1>1, <2>1, <2>4 DEF OnDistributeCalibration, ClientTypeOK
    <3> QED
      BY <3>1, <1>3, <2>1, QuietStepLemma
  <2>5. CASE UpdateWorker(t)
    BY <2>5, <2>2, <1>2, AnswerLemma DEF UpdateWorker
  <2>6. CASE OnStopAndEval(t)
    BY <2>6, <2>2, <1>2, AnswerLemma DEF OnStopAndEval
  <2>7. CASE OnShutdown(t)
    <3>1. /\ link' = [link EXCEPT ![t.client] = "gone"]
          /\ UNCHANGED <<conn, open, events>> /\ tasks' \subseteq tasks /\ ClientTypeOK'
      BY <1>1, <2>7 DEF OnShutdown, ClientTypeOK
    <3> QED
      BY <3>1, <1>3, <2>1, QuietStepLemma
  <2> QED
    BY <1>4, <2>3, <2>4, <2>5, <2>6, <2>7 DEF HandleTask
<1>5. ASSUME NEW c \in Clients, Connect(c, up)
      PROVE  ClientSideInv' /\ ClientEffect
  <2>1. UNCHANGED <<tasks, calibrated>> /\ ClientTypeOK'
    BY <1>1, <1>5 DEF Connect, ClientTypeOK
  <2>2. CASE OpenConnection(c) /\ WakeUp(c)
    BY <2>1, <2>2, ConnectionLemma
  <2>3. CASE link' = [link EXCEPT ![c] = "gone"] /\ UNCHANGED <<conn, open, events>>
    BY <2>1, <2>3, <1>3, QuietStepLemma
  <2> QED
    BY <1>5, <2>2, <2>3 DEF Connect
<1>6. ASSUME NEW c \in Clients, Reconnect(c, up)
      PROVE  ClientSideInv' /\ ClientEffect
  <2>1. OpenConnection(c) /\ UNCHANGED <<tasks, events>> /\ ClientTypeOK'
    BY <1>1, <1>6 DEF Reconnect, ClientTypeOK
  <2> QED
    BY <2>1, ConnectionLemma
<1>7. ASSUME NEW c \in Clients, GiveUp(c)
      PROVE  ClientSideInv' /\ ClientEffect
  <2>1. /\ link' = [link EXCEPT ![c] = "gone"]
        /\ UNCHANGED <<conn, open, events>> /\ tasks' \subseteq tasks /\ ClientTypeOK'
    BY <1>1, <1>7 DEF GiveUp, ClientTypeOK
  <2> QED
    BY <2>1, <1>3, QuietStepLemma
<1>8. ASSUME NEW c \in Clients, LoseConnection(c, up)
      PROVE  ClientSideInv' /\ ClientEffect
  <2>1. /\ link' = [link EXCEPT ![c] = "down"]
        /\ UNCHANGED <<conn, open, events>> /\ tasks' \subseteq tasks /\ ClientTypeOK'
    BY <1>1, <1>8 DEF LoseConnection, ClientTypeOK
  <2> QED
    BY <2>1, <1>3, QuietStepLemma
<1>9. ASSUME NEW c \in Clients, Restart(c, up)
      PROVE  ClientSideInv' /\ ClientEffect
  <2>1. OpenConnection(c) /\ WakeUp(c) /\ tasks' \subseteq tasks /\ ClientTypeOK'
    BY <1>1, <1>9 DEF Restart, ClientTypeOK
  <2> QED
    BY <2>1, ConnectionLemma
<1> QED
  BY <1>4, <1>5, <1>6, <1>7, <1>8, <1>9 DEF ClientNext, ClientStep, Disturbance

-----------------------------------------------------------------------------
\* What a step of the server can do to the messages: it takes events away, and
\* the tasks it adds ask for an answer only for the round it is then in.
ServerEffect ==
  /\ UNCHANGED <<link, conn, calibrated>>
  /\ open' \subseteq open
  /\ events' \subseteq events
  /\ tasks' \subseteq Task
  /\ \A t \in tasks' \ tasks :
       t.event \in {"request_update", "stop_and_eval"} =>
         t.round = current_round' /\ current_round' \in Nat

LEMMA SeqElement ==
  ASSUME NEW S, NEW s \in Seq(S), NEW i \in DOMAIN s
  PROVE  s[i] \in S
  OBVIOUS

LEMMA EventTyped ==
  ASSUME TypeInv, NEW e \in events
  PROVE  /\ e.sid \in Sids /\ e.sid[1] \in Clients /\ e.sid[2] \in 1..MaxConn
         /\ e.round \in Rounds
         /\ e.event \in {"client_update", "client_eval"} => e.round \in Nat
  BY DEF TypeInv, TypeOK, NetworkTypeOK, Event, Sids, MessageRounds

\* Opening a round.
LEMMA StartRoundLemma ==
  ASSUME TypeInv, StartNextTrainingRound
  PROVE  /\ current_round' = current_round + 1 /\ current_round' \in Nat
         /\ client_updates_this_round' = <<>>
         /\ num_clients_per_round' \in Nat
         /\ tasks' \subseteq Task
         /\ \A t \in tasks' \ tasks :
              t.event = "request_update" /\ t.round = current_round'
<1>1. NetworkTypeOK /\ ServerTypeOK
  BY DEF TypeInv, TypeOK
<1>2. current_round' = current_round + 1 /\ current_round' \in Nat
  BY <1>1 DEF ServerTypeOK, Rounds, StartNextTrainingRound
<1>3. client_updates_this_round' = <<>>
  BY DEF StartNextTrainingRound
<1>4. CASE UNCHANGED <<num_clients_per_round, tasks>>
  BY <1>1, <1>2, <1>3, <1>4 DEF NetworkTypeOK, ServerTypeOK
<1>5. ASSUME NEW selected \in SUBSET registered_clients,
             num_clients_per_round' = MinNumWorkers,
             tasks' = Emit("request_update", selected, current_round')
      PROVE  /\ num_clients_per_round' \in Nat
             /\ tasks' \subseteq Task
             /\ \A t \in tasks' \ tasks :
                  t.event = "request_update" /\ t.round = current_round'
  <2>1. selected \in SUBSET Sids /\ "request_update" \in ServerEvents
    BY <1>1 DEF ServerTypeOK, ServerEvents
  <2>2. current_round' \in Rounds
    BY <1>2 DEF Rounds
  <2> QED
    BY <1>1, <1>5, <2>1, <2>2, EmitLemma, ServerAssumption
<1> QED
  BY <1>2, <1>3, <1>4, <1>5 DEF StartNextTrainingRound

\* The end of a round whose evaluations are in.
LEMMA NextRoundOrFinishLemma ==
  ASSUME TypeInv, NEW e \in events, NextRoundOrFinish(e)
  PROVE  /\ current_round' \in Rounds
         /\ client_updates_this_round' \in Seq(Update)
         /\ num_clients_per_round' \in Nat
         /\ run_summary' \in BOOLEAN /\ stopping' \in BOOLEAN
         /\ tasks' \subseteq Task
         /\ \A t \in tasks' \ tasks :
              \/ t.event = "shutdown"
              \/ t.event = "request_update" /\ t.round = current_round' /\ current_round' \in Nat
<1>1. NetworkTypeOK /\ ServerTypeOK
  BY DEF TypeInv, TypeOK
<1>2. CASE FinishRun(e)
  <2>1. e.sid \in Sids
    BY EventTyped
  <2>2. registered_clients \cup {e.sid} \in SUBSET Sids /\ "shutdown" \in ServerEvents
        /\ -1 \in Rounds
    BY <1>1, <2>1 DEF ServerTypeOK, ServerEvents, Rounds
  <2>3. tasks' = Emit("shutdown", registered_clients \cup {e.sid}, -1)
    BY <1>2 DEF FinishRun
  <2>4. tasks' \subseteq Task /\ \A t \in tasks' \ tasks : t.event = "shutdown"
    BY <1>1, <2>2, <2>3, EmitLemma
  <2> QED
    BY <1>1, <1>2, <2>4 DEF FinishRun, roundVars, ServerTypeOK
<1>3. CASE StartNextTrainingRound /\ UNCHANGED <<run_summary, stopping>>
  <2>1. <<>> \in Seq(Update)
    OBVIOUS
  <2> QED
    BY <1>1, <1>3, <2>1, StartRoundLemma DEF ServerTypeOK, Rounds
<1> QED
  BY <1>2, <1>3 DEF NextRoundOrFinish

LEMMA ServerStepLemma ==
  ASSUME TypeInv, ServerNext, UNCHANGED clientVars
  PROVE  ServerTypeOK' /\ ServerEffect
<1>1. NetworkTypeOK /\ ServerTypeOK
  BY DEF TypeInv, TypeOK
<1>2. UNCHANGED <<link, conn, calibrated>>
  BY DEF ServerNext, clientVars
<1>3. ASSUME NEW s \in open, OnDisconnect(s)
      PROVE  ServerTypeOK' /\ ServerEffect
  <2>1. s \in Sids /\ s[1] \in Clients
    BY <1>1 DEF NetworkTypeOK, Sids
  <2>2. client_sid' \in [Clients -> 0..MaxConn]
    BY <1>1, <1>3, <2>1, NetworkAssumption DEF OnDisconnect, ServerTypeOK
  <2>3. ServerTypeOK'
    BY <1>1, <1>3, <2>2
    DEF OnDisconnect, ServerTypeOK, startVars, roundVars, metricVars, endVars
  <2>4. ServerEffect
    BY <1>1, <1>2, <1>3 DEF OnDisconnect, ServerEffect, NetworkTypeOK
  <2> QED
    BY <2>3, <2>4
<1>4. ASSUME NEW e \in events, OnClientWakeUp(e)
      PROVE  ServerTypeOK' /\ ServerEffect
  <2>1. {e.sid} \in SUBSET Sids /\ "init" \in ServerEvents /\ -1 \in Rounds
    BY EventTyped DEF ServerEvents, Rounds
  <2>2. tasks' \subseteq Task /\ \A t \in tasks' \ tasks : t.event = "init"
    BY <1>1, <1>4, <2>1, EmitLemma DEF OnClientWakeUp
  <2>3. ServerTypeOK'
    BY <1>1, <1>4
    DEF OnClientWakeUp, serverVars, ServerTypeOK, registryVars, startVars, roundVars,
        metricVars, endVars
  <2>4. ServerEffect
    BY <1>2, <1>4, <2>2 DEF OnClientWakeUp, Receive, ServerEffect
  <2> QED
    BY <2>3, <2>4
<1>5. ASSUME NEW e \in events, OnClientReady(e)
      PROVE  ServerTypeOK' /\ ServerEffect
  <2>1. e.sid \in Sids /\ e.sid[1] \in Clients /\ e.sid[2] \in 1..MaxConn
    BY EventTyped
  <2>2. /\ registered_clients' \in SUBSET Sids
        /\ sid_to_client' \in SUBSET Sids
        /\ client_stats' \in SUBSET Clients
    BY <1>1, <1>5, <2>1 DEF OnClientReady, ServerTypeOK
  <2>3. client_sid' \in [Clients -> 0..MaxConn]
    BY <1>1, <1>5, <2>1, NetworkAssumption DEF OnClientReady, ServerTypeOK
  <2>4. training_started' \in BOOLEAN /\ starting' \in BOOLEAN /\ silent' \in BOOLEAN
    BY <1>1, <1>5 DEF OnClientReady, ServerTypeOK
  <2>5. ServerTypeOK'
    BY <1>1, <1>5, <2>2, <2>3, <2>4
    DEF OnClientReady, ServerTypeOK, roundVars, metricVars, endVars
  <2>6. "distribute_calibration" \in ServerEvents /\ -1 \in Rounds
    BY DEF ServerEvents, Rounds
  <2>7. /\ tasks' \subseteq Task
        /\ \A t \in tasks' \ tasks : t.event = "distribute_calibration"
    <3>1. CASE tasks' = tasks
      BY <1>1, <3>1 DEF NetworkTypeOK
    <3>2. CASE tasks' = Emit("distribute_calibration", registered_clients', -1)
      BY <1>1, <2>2, <2>6, <3>2, EmitLemma
    <3> QED
      BY <1>5, <3>1, <3>2 DEF OnClientReady
  <2>8. ServerEffect
    BY <1>2, <1>5, <2>7 DEF OnClientReady, Receive, ServerEffect
  <2> QED
    BY <2>5, <2>8
<1>6. ASSUME NEW e \in events, IgnoreUpdate(e)
      PROVE  ServerTypeOK' /\ ServerEffect
  <2>1. ServerTypeOK'
    BY <1>1, <1>6
    DEF IgnoreUpdate, serverVars, ServerTypeOK, registryVars, startVars, roundVars,
        metricVars, endVars
  <2>2. ServerEffect
    BY <1>1, <1>2, <1>6 DEF IgnoreUpdate, Receive, ServerEffect, NetworkTypeOK
  <2> QED
    BY <2>1, <2>2
<1>7. ASSUME NEW e \in events, OnClientUpdate(e)
      PROVE  ServerTypeOK' /\ ServerEffect
  <2> DEFINE updates == Append(client_updates_this_round, [sid |-> e.sid, round |-> e.round])
  <2>1. e.sid \in Sids /\ e.round \in Nat /\ current_round = e.round
    BY <1>7, EventTyped DEF OnClientUpdate, Receive, OfThisRound
  <2>2. [sid |-> e.sid, round |-> e.round] \in Update
    BY <2>1 DEF Update
  <2>3. updates \in Seq(Update)
    BY <1>1, <2>2 DEF ServerTypeOK
  <2>4. CASE UNCHANGED <<tasks, client_evaluations_this_round, train_metrics,
                         is_training_finished>>
    <3>1. ServerTypeOK'
      BY <1>1, <1>7, <2>3, <2>4
      DEF OnClientUpdate, ServerTypeOK, registryVars, startVars
    <3>2. ServerEffect
      BY <1>1, <1>2, <1>7, <2>4 DEF OnClientUpdate, Receive, ServerEffect, NetworkTypeOK
    <3> QED
      BY <3>1, <3>2
  <2>5. CASE /\ AggregateUpdates
             /\ is_training_finished' =
                  (is_training_finished \/ current_round >= GlobalEpoch - 1)
             /\ TriggerGlobalEvaluation
    <3>1. registered_clients \in SUBSET Sids /\ "stop_and_eval" \in ServerEvents
          /\ current_round \in Rounds
      BY <1>1 DEF ServerTypeOK, ServerEvents
    <3>2. /\ tasks' \subseteq Task
          /\ \A t \in tasks' \ tasks : t.event = "stop_and_eval" /\ t.round = current_round
      BY <1>1, <2>5, <3>1, EmitLemma DEF TriggerGlobalEvaluation
    <3>3. train_metrics' \in SUBSET Rounds /\ is_training_finished' \in BOOLEAN
      BY <1>1, <2>5 DEF AggregateUpdates, ServerTypeOK
    <3>4. client_evaluations_this_round' \in Seq(Evaluation)
      BY <2>5 DEF TriggerGlobalEvaluation
    <3>5. ServerTypeOK'
      BY <1>1, <1>7, <2>3, <3>3, <3>4
      DEF OnClientUpdate, ServerTypeOK, registryVars, startVars
    <3>6. ServerEffect
      BY <1>2, <1>7, <2>1, <3>2 DEF OnClientUpdate, Receive, ServerEffect
    <3> QED
      BY <3>5, <3>6
  <2> QED
    BY <1>7, <2>4, <2>5 DEF OnClientUpdate
<1>8. ASSUME NEW e \in events, OnClientEval(e)
      PROVE  ServerTypeOK' /\ ServerEffect
  <2> DEFINE evals == Append(client_evaluations_this_round, [sid |-> e.sid, on |-> e.round])
  <2>1. e.sid \in Sids /\ e.round \in Nat
    BY <1>8, EventTyped DEF OnClientEval, Receive
  <2>2. [sid |-> e.sid, on |-> e.round] \in Evaluation
    BY <2>1 DEF Evaluation
  <2>3. evals \in Seq(Evaluation) /\ client_evaluations_this_round' = evals
    BY <1>1, <1>8, <2>2 DEF ServerTypeOK, OnClientEval
  <2>4. CASE UNCHANGED <<tasks, roundVars, test_metrics, early_stop_counter,
                         is_training_finished, run_summary, stopping>>
    <3>1. ServerTypeOK'
      BY <1>1, <1>8, <2>3, <2>4
      DEF OnClientEval, ServerTypeOK, registryVars, startVars, roundVars
    <3>2. ServerEffect
      BY <1>1, <1>2, <1>8, <2>4 DEF OnClientEval, Receive, ServerEffect, NetworkTypeOK
    <3> QED
      BY <3>1, <3>2
  <2>5. CASE /\ test_metrics' \in SUBSET TestMetric /\ early_stop_counter' \in Nat
             /\ is_training_finished' \in BOOLEAN
             /\ NextRoundOrFinish(e)
    <3>1. ServerTypeOK'
      BY <1>1, <1>8, <2>3, <2>5, NextRoundOrFinishLemma
      DEF OnClientEval, ServerTypeOK, registryVars, startVars
    <3>2. ServerEffect
      BY <1>2, <1>8, <2>5, NextRoundOrFinishLemma DEF OnClientEval, Receive, ServerEffect
    <3> QED
      BY <3>1, <3>2
  <2>6. ASSUME AggregateEvaluationResults(evals),
               is_training_finished' =
                 (is_training_finished \/ early_stop_counter' >= Patience)
        PROVE  /\ test_metrics' \in SUBSET TestMetric /\ early_stop_counter' \in Nat
               /\ is_training_finished' \in BOOLEAN
    <3> HIDE DEF evals
    <3>1. \A i \in DOMAIN evals : evals[i].sid \in Sids /\ evals[i].on \in Nat
      <4>1. \A i \in DOMAIN evals : evals[i] \in Evaluation
        BY <2>3, SeqElement
      <4> QED
        BY <4>1 DEF Evaluation
    <3>2. \A i \in DOMAIN evals :
            [round |-> current_round, sid |-> evals[i].sid, on |-> evals[i].on] \in TestMetric
      BY <1>1, <3>1 DEF TestMetric, ServerTypeOK
    <3>3. test_metrics' \in SUBSET TestMetric
      BY <1>1, <2>6, <3>2 DEF AggregateEvaluationResults, ServerTypeOK
    <3>4. early_stop_counter' \in Nat /\ is_training_finished' \in BOOLEAN
      BY <1>1, <2>6 DEF AggregateEvaluationResults, ServerTypeOK
    <3> QED
      BY <3>3, <3>4
  <2>7. ASSUME UNCHANGED <<test_metrics, early_stop_counter, is_training_finished>>
        PROVE  /\ test_metrics' \in SUBSET TestMetric /\ early_stop_counter' \in Nat
               /\ is_training_finished' \in BOOLEAN
    BY <1>1, <2>7 DEF ServerTypeOK
  <2> QED
    BY <1>8, <2>4, <2>5, <2>6, <2>7 DEF OnClientEval
<1>9. CASE StartTraining
  <2>1. StartNextTrainingRound
    BY <1>9 DEF StartTraining
  <2>2. <<>> \in Seq(Update)
    OBVIOUS
  <2>3. starting' \in BOOLEAN /\ silent' \in BOOLEAN
    BY <1>1, <1>9 DEF StartTraining, ServerTypeOK
  <2>4. ServerTypeOK'
    BY <1>1, <1>9, <2>1, <2>2, <2>3, StartRoundLemma
    DEF StartTraining, ServerTypeOK, registryVars, metricVars, endVars, Rounds
  <2>5. ServerEffect
    BY <1>2, <1>9, <2>1, StartRoundLemma DEF StartTraining, ServerEffect
  <2> QED
    BY <2>4, <2>5
<1>10. CASE Silence
  <2>1. ServerTypeOK'
    BY <1>1, <1>10
    DEF Silence, ServerTypeOK, registryVars, startVars, roundVars, metricVars, endVars
  <2>2. ServerEffect
    BY <1>1, <1>2, <1>10 DEF Silence, ServerEffect, NetworkTypeOK
  <2> QED
    BY <2>1, <2>2
<1>11. CASE RoundWatchdog
  <2>1. ServerTypeOK'
    BY <1>1, <1>11
    DEF RoundWatchdog, AbortRun, ServerTypeOK, registryVars, startVars, roundVars,
        metricVars
  <2>2. open \in SUBSET Sids /\ "shutdown" \in ServerEvents /\ -1 \in Rounds
    BY <1>1 DEF NetworkTypeOK, ServerEvents, Rounds
  <2>3. tasks' \subseteq Task /\ \A t \in tasks' \ tasks : t.event = "shutdown"
    BY <1>1, <1>11, <2>2, EmitLemma DEF RoundWatchdog
  <2>4. ServerEffect
    BY <1>2, <1>11, <2>3 DEF RoundWatchdog, ServerEffect
  <2> QED
    BY <2>1, <2>4
<1>12. CASE StopServer
  <2>1. ServerTypeOK'
    BY <1>1, <1>12
    DEF StopServer, ServerTypeOK, registryVars, startVars, roundVars, metricVars
  <2>2. ServerEffect
    BY <1>1, <1>2, <1>12 DEF StopServer, ServerEffect, NetworkTypeOK
  <2> QED
    BY <2>1, <2>2
<1> QED
  BY <1>3, <1>4, <1>5, <1>6, <1>7, <1>8, <1>9, <1>10, <1>11, <1>12
  DEF ServerNext, HandleEvent

\* Every step is one of the server's, one of a client's, or none.
LEMMA StepLemma ==
  ASSUME TypeInv, [Next]_vars
  PROVE  \/ ServerNext /\ UNCHANGED clientVars /\ ServerTypeOK' /\ ServerEffect
         \/ ClientNext /\ UNCHANGED serverVars /\ ClientSideInv' /\ ClientEffect
         \/ UNCHANGED vars
  BY ServerStepLemma, ClientStepLemma DEF Next, Progress, Over, ClientNext

LEMMA TypeInvariant == Spec => []TypeInv
<1>1. Init => TypeInv
  <2> SUFFICES ASSUME Init PROVE TypeInv
    OBVIOUS
  <2>1. NetworkTypeOK /\ ClientTypeOK
    BY NetworkAssumption
    DEF Init, NetworkInit, NetworkTypeOK, LinkState, ClientInit, ClientTypeOK
  <2>2. ServerTypeOK
    <3>1. <<>> \in Seq(Update) /\ <<>> \in Seq(Evaluation)
      OBVIOUS
    <3>2. [c \in Clients |-> 0] \in [Clients -> 0..MaxConn]
      BY NetworkAssumption
    <3> QED
      BY <3>1, <3>2 DEF Init, ServerInit, ServerTypeOK, Rounds
  <2>3. MessageRounds /\ LinkHasConnection
    BY DEF Init, NetworkInit, MessageRounds, LinkHasConnection
  <2> QED
    BY <2>1, <2>2, <2>3 DEF TypeInv, TypeOK
<1>2. TypeInv /\ [Next]_vars => TypeInv'
  <2> SUFFICES ASSUME TypeInv, [Next]_vars PROVE TypeInv'
    OBVIOUS
  <2>1. CASE ServerNext /\ UNCHANGED clientVars /\ ServerTypeOK' /\ ServerEffect
    <3>1. NetworkTypeOK' /\ ClientTypeOK'
      BY <2>1 DEF ServerEffect, TypeInv, TypeOK, NetworkTypeOK, ClientTypeOK
    <3>2. MessageRounds' /\ LinkHasConnection'
      BY <2>1 DEF ServerEffect, TypeInv, MessageRounds, LinkHasConnection
    <3> QED
      BY <2>1, <3>1, <3>2 DEF TypeInv, TypeOK
  <2>2. CASE ClientNext /\ UNCHANGED serverVars /\ ClientSideInv' /\ ClientEffect
    <3>1. ServerTypeOK'
      BY <2>2
      DEF TypeInv, TypeOK, ServerTypeOK, serverVars, registryVars, startVars, roundVars,
          metricVars, endVars
    <3> QED
      BY <2>2, <3>1 DEF ClientSideInv, TypeInv, TypeOK
  <2>3. CASE UNCHANGED vars
    BY <2>3
    DEF vars, networkVars, clientVars, TypeInv, TypeOK, NetworkTypeOK, ServerTypeOK,
        ClientTypeOK, MessageRounds, LinkHasConnection, serverVars, registryVars,
        startVars, roundVars, metricVars, endVars
  <2> QED
    BY <2>1, <2>2, <2>3, StepLemma
<1> QED
  BY <1>1, <1>2, PTL DEF Spec

\* Every reachable state is well typed, whatever fails (the runs faults and
\* lost_worker check the same formula on two and on three clients).
THEOREM TypeCorrect == Spec => []TypeOK
<1>1. TypeInv => TypeOK
  BY DEF TypeInv
<1> QED
  BY <1>1, TypeInvariant, PTL

-----------------------------------------------------------------------------
\* Registration. What is registered for a client is what client_sid holds for
\* it, so a client has at most one registered sid.
RegistryInv == \A s \in registered_clients : client_sid[s[1]] = s[2]

LEMMA RegistryFrame ==
  ASSUME ServerNext
  PROVE  \/ UNCHANGED <<registered_clients, client_sid>>
         \/ \E s \in open : OnDisconnect(s)
         \/ \E e \in events : OnClientReady(e)
  BY DEF ServerNext, HandleEvent, OnClientWakeUp, IgnoreUpdate, OnClientUpdate,
     OnClientEval, StartTraining, Silence, RoundWatchdog, StopServer, registryVars,
     serverVars

LEMMA RegistryInvariant == Spec => []RegistryInv
<1>1. Init => RegistryInv
  BY DEF Init, ServerInit, RegistryInv
<1>2. TypeInv /\ RegistryInv /\ [Next]_vars => RegistryInv'
  <2> SUFFICES ASSUME TypeInv, RegistryInv, [Next]_vars PROVE RegistryInv'
    OBVIOUS
  <2>1. registered_clients \subseteq Sids /\ client_sid \in [Clients -> 0..MaxConn]
    BY DEF TypeInv, TypeOK, ServerTypeOK
  <2>2. \A s \in Sids : s[1] \in Clients /\ s = <<s[1], s[2]>>
    BY DEF Sids
  <2>3. ASSUME NEW s \in open, OnDisconnect(s)
        PROVE  RegistryInv'
    <3>1. s \in Sids
      BY DEF TypeInv, TypeOK, NetworkTypeOK
    <3>2. ASSUME NEW u \in registered_clients \ {s}
          PROVE  client_sid'[u[1]] = u[2]
      <4>1. u \in Sids /\ client_sid[u[1]] = u[2] /\ u # s
        BY <2>1 DEF RegistryInv
      <4>2. u[1] = s[1] => client_sid[s[1]] # s[2]
        BY <2>2, <3>1, <4>1
      <4> QED
        BY <2>1, <2>2, <2>3, <3>1, <4>1, <4>2 DEF OnDisconnect
    <3> QED
      BY <2>3, <3>2 DEF OnDisconnect, RegistryInv
  <2>4. ASSUME NEW e \in events, OnClientReady(e)
        PROVE  RegistryInv'
    <3>1. e.sid \in Sids
      BY EventTyped
    <3>2. registered_clients' = (registered_clients \ StaleSids(e.sid)) \cup {e.sid}
          /\ client_sid' = [client_sid EXCEPT ![e.sid[1]] = e.sid[2]]
      BY <2>4 DEF OnClientReady
    <3>3. ASSUME NEW u \in registered_clients \ StaleSids(e.sid), u # e.sid
          PROVE  client_sid'[u[1]] = u[2]
      <4>1. u \in Sids /\ client_sid[u[1]] = u[2]
        BY <2>1 DEF RegistryInv
      <4>2. u[1] # e.sid[1]
        BY <2>2, <3>1, <3>3, <4>1 DEF StaleSids
      <4> QED
        BY <2>1, <2>2, <3>1, <3>2, <4>1, <4>2
    <3>4. client_sid'[e.sid[1]] = e.sid[2]
      BY <2>1, <2>2, <3>1, <3>2
    <3> QED
      BY <3>2, <3>3, <3>4 DEF RegistryInv
  <2>5. CASE UNCHANGED <<registered_clients, client_sid>>
    BY <2>5 DEF RegistryInv
  <2> QED
    BY <2>3, <2>4, <2>5, StepLemma, RegistryFrame
    DEF serverVars, registryVars, vars
<1> QED
  BY <1>1, <1>2, TypeInvariant, PTL DEF Spec

\* No client is registered under two sids, in any order of reconnections,
\* readiness messages and disconnections (_on_client_ready, _on_disconnect).
THEOREM RegistrationUnique == Spec => []OneRegistrationPerClient
<1>1. TypeInv /\ RegistryInv => OneRegistrationPerClient
  <2> SUFFICES ASSUME TypeInv, RegistryInv,
                      NEW s \in registered_clients, NEW u \in registered_clients,
                      s[1] = u[1]
               PROVE  s = u
    BY DEF OneRegistrationPerClient
  <2>1. s = <<s[1], s[2]>> /\ u = <<u[1], u[2]>>
    BY DEF TypeInv, TypeOK, ServerTypeOK, Sids
  <2> QED
    BY <2>1 DEF RegistryInv
<1> QED
  BY <1>1, TypeInvariant, RegistryInvariant, PTL

-----------------------------------------------------------------------------
\* Rounds. A step of the server opens a round, buffers an update, or leaves the
\* round alone and asks nobody for anything that belongs to one.
Asks(t) == t.event \in {"request_update", "stop_and_eval"}
Answers(e) == e.event \in {"client_update", "client_eval"}

LeavesRound ==
  /\ UNCHANGED roundVars
  /\ \A t \in tasks' \ tasks : ~Asks(t)

LEMMA EmitsNothingToAnswer ==
  ASSUME NetworkTypeOK, NEW event \in {"init", "distribute_calibration", "shutdown"},
         NEW sids \in SUBSET Sids, tasks' = Emit(event, sids, -1)
  PROVE  \A t \in tasks' \ tasks : ~Asks(t)
<1>1. event \in ServerEvents /\ -1 \in Rounds
  BY DEF ServerEvents, Rounds
<1> QED
  BY <1>1, EmitLemma DEF Asks

LEMMA RoundSteps ==
  ASSUME TypeInv, ServerNext
  PROVE  \/ LeavesRound
         \/ StartTraining
         \/ \E e \in events : OnClientUpdate(e)
         \/ \E e \in events : OnClientEval(e) /\ StartNextTrainingRound
<1>1. NetworkTypeOK /\ ServerTypeOK
  BY DEF TypeInv, TypeOK
<1>2. ASSUME NEW s \in open, OnDisconnect(s) PROVE LeavesRound
  BY <1>2 DEF OnDisconnect, LeavesRound
<1>3. ASSUME NEW e \in events, OnClientWakeUp(e) PROVE LeavesRound
  <2>1. {e.sid} \in SUBSET Sids
    BY EventTyped
  <2> QED
    BY <1>1, <1>3, <2>1, EmitsNothingToAnswer DEF OnClientWakeUp, LeavesRound, serverVars
<1>4. ASSUME NEW e \in events, OnClientReady(e) PROVE LeavesRound
  <2>1. registered_clients' \in SUBSET Sids
    BY <1>1, <1>4, EventTyped DEF OnClientReady, ServerTypeOK
  <2>2. CASE UNCHANGED tasks
    BY <1>4, <2>2 DEF OnClientReady, LeavesRound
  <2>3. CASE tasks' = Emit("distribute_calibration", registered_clients', -1)
    BY <1>1, <1>4, <2>1, <2>3, EmitsNothingToAnswer DEF OnClientReady, LeavesRound
  <2> QED
    BY <1>4, <2>2, <2>3 DEF OnClientReady
<1>5. ASSUME NEW e \in events, IgnoreUpdate(e) PROVE LeavesRound
  BY <1>5 DEF IgnoreUpdate, LeavesRound, serverVars
<1>6. ASSUME NEW e \in events, OnClientEval(e)
      PROVE  LeavesRound \/ StartNextTrainingRound
  <2>1. registered_clients \cup {e.sid} \in SUBSET Sids
    BY <1>1, EventTyped DEF ServerTypeOK
  <2>2. CASE FinishRun(e)
    BY <1>1, <2>1, <2>2, EmitsNothingToAnswer DEF FinishRun, LeavesRound
  <2>3. CASE UNCHANGED <<tasks, roundVars>>
    BY <2>3 DEF LeavesRound
  <2> QED
    BY <1>6, <2>2, <2>3 DEF OnClientEval, NextRoundOrFinish
<1>7. CASE Silence
  BY <1>7 DEF Silence, LeavesRound
<1>8. CASE RoundWatchdog
  <2>1. open \in SUBSET Sids
    BY <1>1 DEF NetworkTypeOK
  <2> QED
    BY <1>1, <1>8, <2>1, EmitsNothingToAnswer DEF RoundWatchdog, LeavesRound
<1>9. CASE StopServer
  BY <1>9 DEF StopServer, LeavesRound
<1> QED
  BY <1>2, <1>3, <1>4, <1>5, <1>6, <1>7, <1>8, <1>9 DEF ServerNext, HandleEvent

\* Every request, update and evaluation on its way belongs to a round that has
\* been opened.
RoundsPast ==
  /\ \A t \in tasks : Asks(t) => t.round <= current_round
  /\ \A e \in events : Answers(e) => e.round <= current_round

LEMMA RoundsPastInvariant == Spec => []RoundsPast
<1>1. Init => RoundsPast
  BY DEF Init, NetworkInit, RoundsPast
<1>2. TypeInv /\ RoundsPast /\ [Next]_vars => RoundsPast'
  <2> SUFFICES ASSUME TypeInv, RoundsPast, [Next]_vars PROVE RoundsPast'
    OBVIOUS
  <2>1. MessageRounds /\ current_round \in Rounds
    BY DEF TypeInv, TypeOK, ServerTypeOK
  <2>2. CASE ServerNext /\ ServerEffect
    <3>1. current_round' = current_round \/ current_round' = current_round + 1
      BY <2>2, RoundSteps, StartRoundLemma
      DEF LeavesRound, roundVars, StartTraining, OnClientUpdate
    <3> QED
      BY <2>1, <2>2, <3>1
      DEF RoundsPast, ServerEffect, MessageRounds, Asks, Answers, Rounds
  <2>3. CASE UNCHANGED serverVars /\ ClientEffect
    <3>1. current_round' = current_round
      BY <2>3 DEF serverVars, roundVars
    <3> QED
      BY <2>3, <3>1 DEF RoundsPast, ClientEffect, IsAnswer, Asks, Answers
  <2>4. CASE UNCHANGED vars
    BY <2>4 DEF RoundsPast, vars, networkVars, serverVars, roundVars
  <2> QED
    BY <2>2, <2>3, <2>4, StepLemma
<1> QED
  BY <1>1, <1>2, TypeInvariant, PTL DEF Spec

-----------------------------------------------------------------------------
\* Counting. The request to a client to train a round, the update that answers
\* it and the buffered entry it becomes are one token: of the three there is
\* never more than one for a client and a round.
Request(t) == t.event = "request_update"
Reply(e)   == e.event = "client_update"

OneToken ==
  /\ \A t \in tasks, e \in events :
       Request(t) /\ Reply(e) /\ t.client = e.sid[1] => t.round # e.round
  /\ \A e, f \in events :
       Reply(e) /\ Reply(f) /\ e.sid[1] = f.sid[1] /\ e.round = f.round => e = f
  /\ \A i \in DOMAIN client_updates_this_round :
       LET c == client_updates_this_round[i].sid[1] IN
       /\ \A t \in tasks : Request(t) /\ t.client = c => t.round # current_round
       /\ \A e \in events : Reply(e) /\ e.sid[1] = c => e.round # current_round

TokenInv == OneToken /\ UpdatesCountOnce

\* A step that adds no request and no update keeps the tokens.
LEMMA TokensKept ==
  ASSUME TokenInv, UNCHANGED roundVars, events' \subseteq events,
         \A t \in tasks' \ tasks : ~Request(t)
  PROVE  TokenInv'
  BY DEF TokenInv, OneToken, UpdatesCountOnce, roundVars

\* A client turns its request into the update that answers it.
LEMMA TokensAnswered ==
  ASSUME TypeInv, TokenInv, UNCHANGED roundVars, ClientEffect
  PROVE  TokenInv'
<1>1. tasks \subseteq Task
  BY DEF TypeInv, TypeOK, NetworkTypeOK
<1>2. \A t, u \in tasks :
        Request(t) /\ Request(u) /\ t.client = u.client /\ t.round = u.round => t = u
  BY <1>1 DEF Task, Request
<1>3. \A e \in events' \ events : Reply(e) =>
        \E t \in tasks \ tasks' : Request(t) /\ t.client = e.sid[1] /\ t.round = e.round
  BY DEF ClientEffect, IsAnswer, Request, Reply
<1>4. tasks' \subseteq tasks /\ \A e, f \in events' \ events : e = f
  BY DEF ClientEffect
<1>5. \A t \in tasks', e \in events' :
        Request(t) /\ Reply(e) /\ t.client = e.sid[1] => t.round # e.round
  BY <1>2, <1>3, <1>4 DEF TokenInv, OneToken
<1>6. \A e, f \in events' :
        Reply(e) /\ Reply(f) /\ e.sid[1] = f.sid[1] /\ e.round = f.round => e = f
  BY <1>3, <1>4 DEF TokenInv, OneToken
<1>7. \A i \in DOMAIN client_updates_this_round :
        LET c == client_updates_this_round[i].sid[1] IN
        /\ \A t \in tasks' : Request(t) /\ t.client = c => t.round # current_round
        /\ \A e \in events' : Reply(e) /\ e.sid[1] = c => e.round # current_round
  BY <1>3, <1>4 DEF TokenInv, OneToken
<1>8. OneToken'
  BY <1>5, <1>6, <1>7 DEF OneToken, roundVars
<1>9. UpdatesCountOnce'
  BY DEF TokenInv, UpdatesCountOnce, roundVars
<1> QED
  BY <1>8, <1>9 DEF TokenInv

\* A new round starts with no update in the buffer, and no older message names it.
LEMMA TokensOpened ==
  ASSUME TypeInv, RoundsPast, TokenInv, StartNextTrainingRound, events' \subseteq events
  PROVE  TokenInv'
<1>1. /\ current_round' = current_round + 1 /\ client_updates_this_round' = <<>>
      /\ \A t \in tasks' \ tasks : t.round = current_round'
  BY StartRoundLemma
<1>2. \A t \in tasks : Request(t) => t.round \in Nat /\ t.round <= current_round
  BY DEF TypeInv, MessageRounds, RoundsPast, Asks, Request
<1>3. \A e \in events : Reply(e) => e.round \in Nat /\ e.round <= current_round
  BY DEF TypeInv, MessageRounds, RoundsPast, Answers, Reply
<1>4. current_round \in Rounds
  BY DEF TypeInv, TypeOK, ServerTypeOK
<1>5. \A t \in tasks', e \in events' :
        Request(t) /\ Reply(e) /\ t.client = e.sid[1] => t.round # e.round
  BY <1>1, <1>2, <1>3, <1>4 DEF TokenInv, OneToken, Rounds
<1>6. OneToken'
  BY <1>1, <1>5 DEF TokenInv, OneToken
<1>7. UpdatesCountOnce'
  BY <1>1 DEF UpdatesCountOnce
<1> QED
  BY <1>6, <1>7 DEF TokenInv

\* An update of this round leaves the wire for the buffer; one of another round
\* has been refused (OfThisRound).
LEMMA TokensBuffered ==
  ASSUME TypeInv, TokenInv, NEW e \in events, OnClientUpdate(e)
  PROVE  TokenInv'
<1> DEFINE old == client_updates_this_round
           new == Append(old, [sid |-> e.sid, round |-> e.round])
<1>1. /\ old \in Seq(Update) /\ current_round' = current_round
      /\ client_updates_this_round' = new /\ events' = events \ {e}
      /\ Reply(e) /\ e.round = current_round
  BY DEF TypeInv, TypeOK, ServerTypeOK, OnClientUpdate, Receive, OfThisRound, Reply
<1>2. \A t \in tasks' \ tasks : ~Request(t)
  <2>1. NetworkTypeOK /\ registered_clients \in SUBSET Sids
        /\ "stop_and_eval" \in ServerEvents /\ current_round \in Rounds
    BY DEF TypeInv, TypeOK, ServerTypeOK, ServerEvents
  <2> QED
    BY <2>1, EmitLemma DEF OnClientUpdate, TriggerGlobalEvaluation, Request
<1>3. \A i \in DOMAIN new :
        \/ i \in DOMAIN old /\ new[i] = old[i]
        \/ i = Len(old) + 1 /\ new[i] = [sid |-> e.sid, round |-> e.round]
  BY <1>1
<1>4. \A i \in DOMAIN old : old[i].sid[1] # e.sid[1] /\ old[i].round = current_round
  BY <1>1 DEF TokenInv, OneToken, UpdatesCountOnce
<1> HIDE DEF new
<1>5. UpdatesCountOnce'
  <2>1. \A i \in DOMAIN new : new[i].round = current_round
    BY <1>1, <1>3, <1>4
  <2>2. \A i, j \in DOMAIN new : new[i].sid[1] = new[j].sid[1] => i = j
    BY <1>1, <1>3, <1>4 DEF TokenInv, UpdatesCountOnce
  <2> QED
    BY <1>1, <2>1, <2>2 DEF UpdatesCountOnce
<1>6. OneToken'
  <2>1. \A i \in DOMAIN new :
          /\ \A t \in tasks' : Request(t) /\ t.client = new[i].sid[1] => t.round # current_round
          /\ \A f \in events' : Reply(f) /\ f.sid[1] = new[i].sid[1] => f.round # current_round
    BY <1>1, <1>2, <1>3 DEF TokenInv, OneToken
  <2>2. \A t \in tasks', f \in events' :
          Request(t) /\ Reply(f) /\ t.client = f.sid[1] => t.round # f.round
    BY <1>1, <1>2 DEF TokenInv, OneToken
  <2>3. \A f, g \in events' :
          Reply(f) /\ Reply(g) /\ f.sid[1] = g.sid[1] /\ f.round = g.round => f = g
    BY <1>1 DEF TokenInv, OneToken
  <2> QED
    BY <1>1, <2>1, <2>2, <2>3 DEF OneToken
<1> QED
  BY <1>5, <1>6 DEF TokenInv

LEMMA TokenInvariant == Spec => []TokenInv
<1>1. Init => TokenInv
  BY DEF Init, NetworkInit, ServerInit, TokenInv, OneToken, UpdatesCountOnce
<1>2. TypeInv /\ RoundsPast /\ TokenInv /\ [Next]_vars => TokenInv'
  <2> SUFFICES ASSUME TypeInv, RoundsPast, TokenInv, [Next]_vars PROVE TokenInv'
    OBVIOUS
  <2>1. CASE ServerNext /\ ServerEffect
    <3>1. CASE LeavesRound
      BY <2>1, <3>1, TokensKept DEF LeavesRound, ServerEffect, Asks, Request
    <3>2. CASE StartNextTrainingRound
      BY <2>1, <3>2, TokensOpened DEF ServerEffect
    <3> QED
      BY <2>1, <3>1, <3>2, TokensBuffered, RoundSteps DEF StartTraining
  <2>2. CASE UNCHANGED serverVars /\ ClientEffect
    BY <2>2, TokensAnswered DEF serverVars
  <2>3. CASE UNCHANGED vars
    BY <2>3, TokensKept DEF vars, networkVars, serverVars
  <2> QED
    BY <2>1, <2>2, <2>3, StepLemma
<1> QED
  BY <1>1, <1>2, TypeInvariant, RoundsPastInvariant, PTL DEF Spec

\* No client is counted twice in a round and no update of another round is
\* counted, with any faults (_on_client_update's buffer and its round check).
THEOREM UpdatesCounted == Spec => []UpdatesCountOnce
<1>1. TokenInv => UpdatesCountOnce
  BY DEF TokenInv
<1> QED
  BY <1>1, TokenInvariant, PTL

-----------------------------------------------------------------------------
\* The end of a run. When the timeout covers the clients' work, a silent run has
\* nothing left that could still answer, and an aborted one never gets it back.
NothingPending ==
  /\ ~starting
  /\ \A t \in tasks : ~Asks(t)
  /\ \A e \in events : ~Answers(e)

QuietInv ==
  /\ silent \/ aborted => NothingPending
  /\ aborted => stopping /\ is_training_finished /\ ~run_summary

LEMMA QuietInvariant ==
  ASSUME TimeoutCoversWork
  PROVE  Spec => []QuietInv
<1>1. Init => QuietInv
  BY DEF Init, ServerInit, QuietInv
<1>2. TypeInv /\ QuietInv /\ [Next]_vars => QuietInv'
  <2> SUFFICES ASSUME TypeInv, QuietInv, [Next]_vars PROVE QuietInv'
    OBVIOUS
  <2>1. CASE ServerNext /\ ServerEffect
    <3>1. CASE StartTraining
      BY <3>1 DEF StartTraining, QuietInv, NothingPending, endVars
    <3>2. ASSUME NEW e \in events, OnClientUpdate(e) PROVE QuietInv'
      BY <3>2 DEF OnClientUpdate, Receive, QuietInv, NothingPending, Answers
    <3>3. ASSUME NEW e \in events, OnClientEval(e) PROVE QuietInv'
      BY <3>3 DEF OnClientEval, Receive, QuietInv, NothingPending, Answers
    <3>4. CASE LeavesRound
      <4>1. ASSUME NothingPending, starting' => starting
            PROVE  NothingPending'
        BY <2>1, <3>4, <4>1 DEF NothingPending, LeavesRound, ServerEffect
      <4>2. CASE UNCHANGED <<starting, silent, aborted, stopping, is_training_finished,
                             run_summary>>
        BY <4>1, <4>2 DEF QuietInv
      <4>3. ASSUME NEW e \in events, OnClientReady(e) PROVE QuietInv'
        BY <4>1, <4>3 DEF OnClientReady, QuietInv, endVars
      <4>4. CASE Silence
        BY <4>4 DEF Silence, QuietInv, NothingPending, startVars, endVars
      <4>5. CASE RoundWatchdog
        BY <4>1, <4>5 DEF RoundWatchdog, AbortRun, QuietInv, startVars
      <4>6. CASE StopServer
        BY <4>1, <4>6 DEF StopServer, QuietInv, startVars
      <4> QED
        BY <2>1, <3>1, <3>2, <3>3, <4>2, <4>3, <4>4, <4>5, <4>6
        DEF ServerNext, HandleEvent, OnDisconnect, OnClientWakeUp, IgnoreUpdate,
            serverVars, startVars, endVars
    <3> QED
      BY <2>1, <3>1, <3>2, <3>3, <3>4, RoundSteps
  <2>2. CASE UNCHANGED serverVars /\ ClientEffect
    <3>1. NothingPending => NothingPending'
      BY <2>2
      DEF NothingPending, ClientEffect, IsAnswer, Asks, Answers, serverVars, startVars
    <3> QED
      BY <2>2, <3>1 DEF QuietInv, serverVars, endVars
  <2>3. CASE UNCHANGED vars
    BY <2>3 DEF QuietInv, NothingPending, vars, networkVars, serverVars, startVars, endVars
  <2> QED
    BY <2>1, <2>2, <2>3, StepLemma
<1> QED
  BY <1>1, <1>2, TypeInvariant, PTL DEF Spec

\* When the timeout covers the clients' work, a run the watchdog ended leaves no
\* summary (_abort_run drops it and nothing writes another).
THEOREM AbortedUnrecorded ==
  ASSUME TimeoutCoversWork
  PROVE  Spec => []NoSummaryOfAbortedRun
<1>1. QuietInv => NoSummaryOfAbortedRun
  BY DEF QuietInv, NoSummaryOfAbortedRun
<1> QED
  BY <1>1, QuietInvariant, PTL

-----------------------------------------------------------------------------
\* Order of the rounds. The row of a round appears while it is the current one,
\* and the row of the last round finishes the run.
RoundInv ==
  /\ starting => current_round = -1
  /\ ~training_started => current_round = -1 /\ ~starting
  /\ \A r \in train_metrics : r \in Nat /\ r <= current_round
  /\ current_round \in train_metrics =>
       is_training_finished \/ current_round < GlobalEpoch - 1
  /\ is_training_finished => aborted \/ current_round # -1
  /\ run_summary => is_training_finished

\* The first round is opened once, by the readiness barrier.
LEMMA FirstRound ==
  ASSUME TypeInv, RoundInv, StartTraining
  PROVE  /\ current_round = -1 /\ current_round' = 0
         /\ training_started' /\ ~starting' /\ train_metrics' = {}
<1>1. current_round = -1 /\ training_started /\ train_metrics = {}
  BY DEF RoundInv, StartTraining, TypeInv, TypeOK, ServerTypeOK
<1>2. StartNextTrainingRound
  BY DEF StartTraining
<1> QED
  BY <1>1, <1>2, StartRoundLemma DEF StartTraining, metricVars, TypeInv, TypeOK, ServerTypeOK

\* An evaluation can only arrive in a round, so never before or during the start.
LEMMA EvaluationInRound ==
  ASSUME TypeInv, RoundsPast, RoundInv, NEW e \in events, OnClientEval(e)
  PROVE  current_round \in Nat /\ training_started /\ ~starting
<1>1. e.round \in Nat /\ e.round <= current_round
  BY EventTyped DEF OnClientEval, Receive, RoundsPast, Answers
<1>2. current_round \in Rounds /\ training_started \in BOOLEAN
  BY DEF TypeInv, TypeOK, ServerTypeOK
<1> QED
  BY <1>1, <1>2 DEF RoundInv, Rounds

LEMMA RoundInvariant == Spec => []RoundInv
<1>1. Init => RoundInv
  BY DEF Init, ServerInit, RoundInv
<1>2. TypeInv /\ RoundsPast /\ RoundInv /\ [Next]_vars => RoundInv'
  <2> SUFFICES ASSUME TypeInv, RoundsPast, RoundInv, [Next]_vars PROVE RoundInv'
    OBVIOUS
  <2>1. ServerTypeOK /\ GlobalEpoch \in Nat \ {0}
    BY ServerAssumption DEF TypeInv, TypeOK
  <2>2. CASE ServerNext
    <3>1. ASSUME NEW s \in open, OnDisconnect(s) PROVE RoundInv'
      BY <3>1 DEF OnDisconnect, RoundInv, startVars, roundVars, metricVars, endVars
    <3>2. ASSUME NEW e \in events, OnClientWakeUp(e) \/ IgnoreUpdate(e) PROVE RoundInv'
      BY <3>2
      DEF OnClientWakeUp, IgnoreUpdate, serverVars, RoundInv, startVars, roundVars,
          metricVars, endVars
    <3>3. ASSUME NEW e \in events, OnClientReady(e) PROVE RoundInv'
      BY <2>1, <3>3
      DEF OnClientReady, ReadyToStart, ServerTypeOK, RoundInv, roundVars, metricVars, endVars
    <3>4. ASSUME NEW e \in events, OnClientUpdate(e) PROVE RoundInv'
      <4>1. current_round \in Nat
        BY <3>4, EventTyped DEF OnClientUpdate, Receive, OfThisRound
      <4>2. /\ UNCHANGED <<startVars, current_round, aborted, run_summary>>
            /\ is_training_finished => is_training_finished'
        BY <2>1, <3>4 DEF OnClientUpdate, ServerTypeOK
      <4>3. /\ train_metrics' \subseteq train_metrics \cup {current_round}
            /\ train_metrics' = train_metrics \/
                 (current_round >= GlobalEpoch - 1 => is_training_finished')
        BY <3>4 DEF OnClientUpdate, AggregateUpdates
      <4> QED
        BY <2>1, <4>1, <4>2, <4>3 DEF RoundInv, startVars
    <3>5. ASSUME NEW e \in events, OnClientEval(e) PROVE RoundInv'
      <4>1. current_round \in Nat /\ training_started /\ ~starting
        BY <3>5, EvaluationInRound
      <4>2. UNCHANGED <<startVars, train_metrics, aborted>>
        BY <3>5 DEF OnClientEval
      <4>3. CASE UNCHANGED <<roundVars, is_training_finished, run_summary>>
        BY <4>2, <4>3 DEF RoundInv, startVars, roundVars
      <4>4. ASSUME is_training_finished => is_training_finished', is_training_finished',
                   FinishRun(e)
            PROVE  RoundInv'
        BY <4>1, <4>2, <4>4 DEF RoundInv, FinishRun, startVars, roundVars
      <4>5. ASSUME is_training_finished => is_training_finished', ~is_training_finished',
                   StartNextTrainingRound, UNCHANGED run_summary
            PROVE  RoundInv'
        <5>1. current_round' = current_round + 1
          BY <4>5, StartRoundLemma
        <5> QED
          BY <4>1, <4>2, <4>5, <5>1 DEF RoundInv, startVars
      <4>6. is_training_finished => is_training_finished'
        BY <3>5 DEF OnClientEval
      <4> QED
        BY <3>5, <4>3, <4>4, <4>5, <4>6 DEF OnClientEval, NextRoundOrFinish
    <3>6. CASE StartTraining
      <4>1. UNCHANGED <<metricVars, endVars>>
        BY <3>6 DEF StartTraining
      <4> QED
        BY <2>1, <3>6, <4>1, FirstRound DEF RoundInv, metricVars, endVars
    <3>7. CASE Silence \/ RoundWatchdog \/ StopServer
      BY <3>7
      DEF Silence, RoundWatchdog, AbortRun, StopServer, RoundInv, startVars, roundVars,
          metricVars, endVars
    <3> QED
      BY <2>2, <3>1, <3>2, <3>3, <3>4, <3>5, <3>6, <3>7 DEF ServerNext, HandleEvent
  <2>3. CASE UNCHANGED serverVars
    BY <2>3 DEF serverVars, RoundInv, startVars, roundVars, metricVars, endVars
  <2> QED
    BY <2>2, <2>3, StepLemma DEF vars
<1> QED
  BY <1>1, <1>2, TypeInvariant, RoundsPastInvariant, PTL DEF Spec

\* With test data everywhere, a barrier that moves the run on has found the row
\* of the round it closes.
LEMMA BarrierHasRow ==
  ASSUME TypeInv, NoTestData = {}, NEW e \in events, OnClientEval(e)
  PROVE  \/ /\ UNCHANGED <<roundVars, is_training_finished, run_summary>>
         \/ current_round \in train_metrics /\ NextRoundOrFinish(e)
<1> DEFINE evals == Append(client_evaluations_this_round, [sid |-> e.sid, on |-> e.round])
<1>1. client_evaluations_this_round \in Seq(Evaluation)
  BY DEF TypeInv, TypeOK, ServerTypeOK
<1>2. /\ Len(client_evaluations_this_round) + 1 \in DOMAIN evals
      /\ evals[Len(client_evaluations_this_round) + 1].sid = e.sid
  BY <1>1
<1> HIDE DEF evals
<1>3. Tested(evals)
  BY <1>2 DEF Tested
<1> QED
  BY <1>3 DEF OnClientEval, HasRow, evals

\* A round is opened only after the one before it was aggregated, and none after
\* global_epoch (_start_next_training_round's two callers).
THEOREM RoundsOrdered ==
  ASSUME NoTestData = {}
  PROVE  Spec => RoundsInOrder
<1>1. TypeInv /\ RoundsPast /\ RoundInv /\ [Next]_vars =>
        [current_round' # current_round =>
           /\ current_round' = current_round + 1
           /\ current_round' < GlobalEpoch
           /\ current_round = -1 \/ current_round \in train_metrics]_vars
  <2> SUFFICES ASSUME TypeInv, RoundsPast, RoundInv, [Next]_vars,
                      current_round' # current_round
               PROVE  /\ current_round' = current_round + 1
                      /\ current_round' < GlobalEpoch
                      /\ current_round = -1 \/ current_round \in train_metrics
    OBVIOUS
  <2>1. ServerNext
    BY StepLemma DEF vars, serverVars, roundVars
  <2>2. current_round \in Rounds /\ GlobalEpoch \in Nat \ {0}
    BY ServerAssumption DEF TypeInv, TypeOK, ServerTypeOK
  <2>3. CASE StartTraining
    BY <2>2, <2>3, FirstRound
  <2>4. ASSUME NEW e \in events, OnClientEval(e), StartNextTrainingRound
        PROVE  /\ current_round' = current_round + 1
               /\ current_round' < GlobalEpoch
               /\ current_round \in train_metrics
    <3>1. current_round' = current_round + 1
      BY <2>4, StartRoundLemma
    <3>2. current_round \in train_metrics /\ NextRoundOrFinish(e)
      BY <2>4, BarrierHasRow DEF roundVars
    <3>3. ~is_training_finished'
      BY <3>2 DEF NextRoundOrFinish, FinishRun, roundVars
    <3>4. is_training_finished => is_training_finished'
      BY <2>4 DEF OnClientEval, TypeInv, TypeOK, ServerTypeOK
    <3> QED
      BY <2>2, <3>1, <3>2, <3>3, <3>4 DEF RoundInv, Rounds
  <2> QED
    BY <2>1, <2>3, <2>4, RoundSteps DEF LeavesRound, roundVars, OnClientUpdate
<1> QED
  BY <1>1, TypeInvariant, RoundsPastInvariant, RoundInvariant, PTL DEF Spec, RoundsInOrder

-----------------------------------------------------------------------------
\* Refinement. The abstract stage by cases, in this state and in the next.
StageByCases ==
  /\ aborted => stage = "aborted"
  /\ ~aborted /\ run_summary => stage = "finished"
  /\ ~aborted /\ ~run_summary /\ current_round = -1 => stage = "ready"
  /\ ~aborted /\ ~run_summary /\ current_round # -1 =>
       stage = IF current_round \in train_metrics THEN "evaluating" ELSE "training"

LEMMA StageLemma ==
  ASSUME TypeInv, TypeInv'
  PROVE  StageByCases /\ StageByCases'
<1>1. StageByCases
  BY DEF StageByCases, stage, TypeInv, TypeOK, ServerTypeOK
<1>2. StageByCases'
  BY DEF StageByCases, stage, TypeInv, TypeOK, ServerTypeOK
<1> QED
  BY <1>1, <1>2

AbstractlyUnchanged == UNCHANGED <<aborted, run_summary, current_round, train_metrics>>

LEMMA StutterLemma ==
  ASSUME AbstractlyUnchanged
  PROVE  UNCHANGED Protocol!vars
  BY DEF AbstractlyUnchanged, Protocol!vars, stage

\* Completing the update barrier aggregates the round, unless it already is.
LEMMA UpdateRefines ==
  ASSUME TypeInv, TypeInv', QuietInv, NEW e \in events, OnClientUpdate(e)
  PROVE  [Protocol!Next]_Protocol!vars
<1>1. current_round \in Nat /\ ~aborted
  BY EventTyped
  DEF OnClientUpdate, Receive, OfThisRound, QuietInv, NothingPending, Answers
<1>2. UNCHANGED <<aborted, run_summary, current_round>>
  BY DEF OnClientUpdate
<1>3. train_metrics' \in {train_metrics, train_metrics \cup {current_round}}
  BY DEF OnClientUpdate, AggregateUpdates
<1>4. CASE run_summary \/ train_metrics' = train_metrics
  BY <1>1, <1>2, <1>4, StageLemma, StutterLemma
  DEF StageByCases, AbstractlyUnchanged, Protocol!vars
<1>5. CASE ~run_summary /\ train_metrics' # train_metrics
  <2>1. stage = "training" /\ stage' = "evaluating"
    BY <1>1, <1>2, <1>3, <1>5, StageLemma DEF StageByCases
  <2> QED
    BY <1>2, <2>1 DEF Protocol!Next, Protocol!Aggregate
<1> QED
  BY <1>4, <1>5

\* Completing the evaluation barrier opens the next round or finishes the run.
LEMMA EvalRefines ==
  ASSUME TypeInv, TypeInv', RoundsPast, RoundInv, QuietInv, NoTestData = {},
         NEW e \in events, OnClientEval(e)
  PROVE  [Protocol!Next]_Protocol!vars
<1>1. current_round \in Nat
  BY EvaluationInRound
<1>2. ~aborted
  BY DEF OnClientEval, Receive, QuietInv, NothingPending, Answers
<1>3. UNCHANGED <<aborted, train_metrics>>
  BY DEF OnClientEval
<1>4. is_training_finished => is_training_finished'
  BY DEF OnClientEval, TypeInv, TypeOK, ServerTypeOK
<1>5. CASE UNCHANGED <<roundVars, run_summary>>
  BY <1>3, <1>5, StutterLemma DEF AbstractlyUnchanged, roundVars
<1>6. CASE current_round \in train_metrics /\ FinishRun(e)
  <2>1. run_summary' /\ current_round' = current_round
    BY <1>6 DEF FinishRun, roundVars
  <2>2. stage' = "finished"
    BY <1>2, <1>3, <2>1, StageLemma DEF StageByCases
  <2>3. CASE run_summary
    BY <1>2, <2>1, <2>2, <2>3, StageLemma
      DEF StageByCases, Protocol!vars, TypeInv, TypeOK, ServerTypeOK
  <2>4. CASE ~run_summary
    <3>1. stage = "evaluating" /\ run_summary' = TRUE
      BY <1>1, <1>2, <1>6, <2>4, StageLemma DEF FinishRun, StageByCases
    <3> QED
      BY <2>1, <2>2, <3>1 DEF Protocol!Next, Protocol!Finish
  <2> QED
    BY <2>3, <2>4
<1>7. CASE /\ current_round \in train_metrics /\ ~is_training_finished'
           /\ StartNextTrainingRound /\ UNCHANGED run_summary
  <2>1. current_round' = current_round + 1
    BY <1>7, StartRoundLemma
  <2>2. current_round < GlobalEpoch - 1 /\ ~run_summary /\ ~run_summary'
    BY <1>4, <1>7 DEF RoundInv
  <2>3. current_round' \notin train_metrics'
    BY <1>1, <1>3, <2>1 DEF RoundInv
  <2>4. stage = "evaluating" /\ stage' = "training"
    BY <1>1, <1>2, <1>3, <1>7, <2>1, <2>2, <2>3, StageLemma DEF StageByCases
  <2> QED
    BY <1>7, <2>1, <2>2, <2>4 DEF Protocol!Next, Protocol!OpenRound
<1> QED
  BY <1>5, <1>6, <1>7, BarrierHasRow DEF NextRoundOrFinish

LEMMA StartRefines ==
  ASSUME TypeInv, TypeInv', RoundInv, QuietInv, StartTraining
  PROVE  [Protocol!Next]_Protocol!vars
<1>1. current_round = -1 /\ current_round' = 0 /\ train_metrics' = {}
  BY FirstRound
<1>2. ~aborted /\ ~run_summary
  BY <1>1 DEF StartTraining, QuietInv, NothingPending, RoundInv
<1>3. UNCHANGED <<aborted, run_summary>>
  BY DEF StartTraining, endVars
<1>4. stage = "ready" /\ stage' = "training"
  BY <1>1, <1>2, <1>3, StageLemma DEF StageByCases
<1> QED
  BY <1>1, <1>3, <1>4, ServerAssumption DEF Protocol!Next, Protocol!OpenRound

LEMMA WatchdogRefines ==
  ASSUME TypeInv, TypeInv', RoundInv, RoundWatchdog
  PROVE  [Protocol!Next]_Protocol!vars
<1>1. ~aborted /\ aborted' /\ ~run_summary /\ run_summary' = FALSE
  BY DEF RoundWatchdog, Watching, AbortRun, RoundInv
<1>2. UNCHANGED <<current_round, train_metrics>>
  BY DEF RoundWatchdog, roundVars, metricVars
<1>3. stage \in {"ready", "training", "evaluating"} /\ stage' = "aborted"
  BY <1>1, StageLemma DEF StageByCases
<1>4. run_summary' = run_summary
  BY <1>1 DEF TypeInv, TypeOK, ServerTypeOK
<1> QED
  BY <1>2, <1>3, <1>4 DEF Protocol!Next, Protocol!Abort

\* The run keeps the promise of RoundProtocol whatever fails, provided every
\* client has test data and the timeout covers the clients' work.
THEOREM ProtocolImplemented ==
  ASSUME NoTestData = {}, TimeoutCoversWork
  PROVE  Spec => FollowsProtocol
<1>1. Init => Protocol!Init
  BY DEF Init, ServerInit, Protocol!Init, stage
<1>2. /\ TypeInv /\ TypeInv' /\ RoundsPast /\ RoundInv /\ QuietInv /\ [Next]_vars
      => [Protocol!Next]_Protocol!vars
  <2> SUFFICES ASSUME TypeInv, TypeInv', RoundsPast, RoundInv, QuietInv, [Next]_vars
               PROVE  [Protocol!Next]_Protocol!vars
    OBVIOUS
  <2>1. CASE ServerNext
    <3>1. AbstractlyUnchanged \/ StartTraining \/ RoundWatchdog
          \/ \E e \in events : OnClientUpdate(e) \/ OnClientEval(e)
      BY <2>1
      DEF ServerNext, HandleEvent, OnDisconnect, OnClientWakeUp, OnClientReady,
          IgnoreUpdate, Silence, StopServer, AbstractlyUnchanged, serverVars,
          roundVars, metricVars, endVars
    <3> QED
      BY <3>1, StutterLemma, UpdateRefines, EvalRefines, StartRefines, WatchdogRefines
  <2>2. CASE UNCHANGED serverVars
    BY <2>2, StutterLemma DEF AbstractlyUnchanged, serverVars, roundVars, metricVars, endVars
  <2> QED
    BY <2>1, <2>2, StepLemma DEF vars
<1> QED
  BY <1>1, <1>2, TypeInvariant, RoundsPastInvariant, RoundInvariant, QuietInvariant, PTL
  DEF Spec, FollowsProtocol, Protocol!Spec

=============================================================================
