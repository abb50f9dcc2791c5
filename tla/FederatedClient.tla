-------------------------- MODULE FederatedClient ---------------------------
(***************************************************************************)
(* FederatedClient (src/federated_client.py): what one client thread does  *)
(* with the events it is sent, and the ways it fails. A task stays in      *)
(* `tasks` from the server's emit until the last statement of its handler  *)
(* (of the worker thread, for request_update), so two tasks of one client  *)
(* in `tasks` are two threads that may be inside local_model together.     *)
(***************************************************************************)
EXTENDS FederatedNetwork

CONSTANT Failures   \* the faults a run admits, a subset of FailureKinds

\* "connect": the first connection fails; "keys": no keys from the Trusted
\* Authority within its timeout; "train", "eval": the handler dies before it
\* answers; "drop": the connection is lost and Socket.IO retries; "restart": the
\* process is killed and started again on the same data directory.
FailureKinds == {"connect", "keys", "train", "eval", "drop", "restart"}

ASSUME ClientAssumption == Failures \subseteq FailureKinds

VARIABLE calibrated   \* [Clients -> BOOLEAN], local_model holds the FedLC term

clientVars == <<calibrated>>

ClientTypeOK == calibrated \in [Clients -> BOOLEAN]

ClientInit == calibrated = [c \in Clients |-> FALSE]

-----------------------------------------------------------------------------
\* sio.connect followed by the wake-up message. Only connect_to_server sends it:
\* an automatic reconnection does not.
OpenConnection(c) ==
  /\ conn[c] < MaxConn
  /\ link' = [link EXCEPT ![c] = "up"]
  /\ conn' = [conn EXCEPT ![c] = @ + 1]
  /\ open' = open \cup {<<c, conn[c] + 1>>}

WakeUp(c) ==
  events' = events \cup {[sid   |-> <<c, conn[c] + 1>>,
                          event |-> "client_wake_up", round |-> -1]}

Connect(c, serverUp) ==
  /\ link[c] = "new"
  /\ \/ /\ serverUp
        /\ OpenConnection(c)
        /\ WakeUp(c)
     \/ /\ "connect" \in Failures \/ ~serverUp
        /\ link' = [link EXCEPT ![c] = "gone"]
        /\ UNCHANGED <<conn, open, events>>
  /\ UNCHANGED <<tasks, calibrated>>

\* A handler ends by answering with `reply`, or not at all.
Answer(t, event, reply) ==
  /\ t.event = event
  /\ link[t.client] # "gone"
  /\ tasks' = tasks \ {t}
  /\ events' = Send(t.client, reply, t.round)
  /\ UNCHANGED <<link, conn, open, calibrated>>

Fail(t, event, kind) ==
  /\ t.event = event
  /\ kind \in Failures
  /\ tasks' = tasks \ {t}
  /\ UNCHANGED <<link, conn, open, events, calibrated>>

\* Keys, local model, data statistics, client_ready. Without keys exit(1) only
\* ends the handler's thread: the client stays connected and never reports ready.
OnInit(t) ==
  \/ Answer(t, "init", "client_ready")
  \/ Fail(t, "init", "keys")

OnDistributeCalibration(t) ==
  /\ t.event = "distribute_calibration"
  /\ tasks' = tasks \ {t}
  /\ calibrated' = [calibrated EXCEPT ![t.client] = TRUE]
  /\ UNCHANGED <<link, conn, open, events>>

\* An exception anywhere in the worker is logged and swallowed.
UpdateWorker(t) ==
  \/ Answer(t, "request_update", "client_update")
  \/ Fail(t, "request_update", "train")

\* exit(0) after STOP ends the handler's thread, not the client.
OnStopAndEval(t) ==
  \/ Answer(t, "stop_and_eval", "client_eval")
  \/ Fail(t, "stop_and_eval", "eval")

\* sio.disconnect() makes sio.wait() return; nothing a thread still running
\* could send would arrive.
OnShutdown(t) ==
  /\ t.event = "shutdown"
  /\ link' = [link EXCEPT ![t.client] = "gone"]
  /\ tasks' = tasks \ TasksOf(t.client)
  /\ UNCHANGED <<conn, open, events, calibrated>>

HandleTask(t) ==
  \/ OnInit(t)
  \/ OnDistributeCalibration(t)
  \/ UpdateWorker(t)
  \/ OnStopAndEval(t)
  \/ OnShutdown(t)

-----------------------------------------------------------------------------
\* The connection is lost, and with it whatever was still on its way; threads
\* already running go on. When the server has stopped every connection is lost.
LoseConnection(c, serverUp) ==
  /\ link[c] = "up"
  /\ "drop" \in Failures \/ ~serverUp
  /\ link' = [link EXCEPT ![c] = "down"]
  /\ \E lost \in SUBSET TasksOf(c) : tasks' = tasks \ lost
  /\ UNCHANGED <<conn, open, events, calibrated>>

\* Socket.IO's automatic reconnection: a new sid and no wake-up message.
Reconnect(c, serverUp) ==
  /\ link[c] = "down"
  /\ serverUp
  /\ OpenConnection(c)
  /\ UNCHANGED <<tasks, events, calibrated>>

\* reconnection_attempts are used up.
GiveUp(c) ==
  /\ link[c] = "down"
  /\ link' = [link EXCEPT ![c] = "gone"]
  /\ tasks' = tasks \ TasksOf(c)
  /\ UNCHANGED <<conn, open, events, calibrated>>

Restart(c, serverUp) ==
  /\ "restart" \in Failures
  /\ serverUp
  /\ link[c] \in {"up", "down"}
  /\ OpenConnection(c)
  /\ WakeUp(c)
  /\ tasks' = tasks \ TasksOf(c)
  /\ calibrated' = [calibrated EXCEPT ![c] = FALSE]

ClientStep(serverUp) ==
  \/ \E t \in tasks : HandleTask(t)
  \/ \E c \in Clients : \/ Connect(c, serverUp)
                        \/ Reconnect(c, serverUp)
                        \/ GiveUp(c)
                        \/ ~serverUp /\ LoseConnection(c, serverUp)

\* Nothing obliges a connection to be lost or a process to be restarted.
Disturbance(serverUp) ==
  \E c \in Clients : \/ serverUp /\ LoseConnection(c, serverUp)
                     \/ Restart(c, serverUp)
=============================================================================
