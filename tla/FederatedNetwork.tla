-------------------------- MODULE FederatedNetwork --------------------------
(***************************************************************************)
(* The Socket.IO layer between federated_server.py and federated_client.py *)
(* as those two files use it: connections, the events each side has been   *)
(* sent, and what is lost when a connection is.                            *)
(*                                                                         *)
(* A session id is <<c, k>>: the k-th connection of client c. Every client *)
(* message carries the client id, so the first component is also what      *)
(* `_client_key` returns for it.                                           *)
(*                                                                         *)
(* Both sides run their handlers concurrently: the server spawns a green   *)
(* thread per event and python-socketio's client a thread per event. So    *)
(* neither `tasks` nor `events` is a queue; any pending handler may be the *)
(* next one to finish.                                                     *)
(***************************************************************************)
EXTENDS Integers

CONSTANTS
  Clients,    \* the clients the launcher starts
  MaxConn     \* bound on the connections one client opens in a run

ASSUME NetworkAssumption == MaxConn \in Nat \ {0}

VARIABLES
  link,    \* [Clients -> LinkState], the client's own view of its connection
  conn,    \* [Clients -> 0..MaxConn], how many connections it has opened
  open,    \* the sids the server has not yet seen disconnect
  tasks,   \* events delivered to a client whose handler has not finished
  events   \* events sent by a client whose server handler has not run

networkVars == <<link, conn, open, tasks, events>>

Sids == Clients \X (1..MaxConn)

\* "new": the thread has not connected; "down": connection lost, the Socket.IO
\* client is retrying; "gone": sio.wait() has returned and the thread is over.
LinkState == {"new", "up", "down", "gone"}

ServerEvents == {"init", "distribute_calibration", "request_update",
                 "stop_and_eval", "shutdown"}
ClientEvents == {"client_wake_up", "client_ready", "client_update", "client_eval"}

Rounds == Nat \cup {-1}   \* -1 in the messages that belong to no round

Task  == [client : Clients, event : ServerEvents, round : Rounds]
Event == [sid : Sids, event : ClientEvents, round : Rounds]

NetworkTypeOK ==
  /\ link \in [Clients -> LinkState]
  /\ conn \in [Clients -> 0..MaxConn]
  /\ open \in SUBSET Sids
  /\ tasks \in SUBSET Task
  /\ events \in SUBSET Event

NetworkInit ==
  /\ link = [c \in Clients |-> "new"]
  /\ conn = [c \in Clients |-> 0]
  /\ open = {}
  /\ tasks = {}
  /\ events = {}

-----------------------------------------------------------------------------
CurrentSid(c) == <<c, conn[c]>>

\* Only the connection the client holds right now can deliver anything to it.
Reachable(sid) == link[sid[1]] = "up" /\ conn[sid[1]] = sid[2]

TasksOf(c) == {t \in tasks : t.client = c}

\* emit(event, ..., room=sid) for every sid of a set: a room whose connection
\* is gone swallows the event without an error.
Emit(event, sids, r) ==
  tasks \cup {[client |-> s[1], event |-> event, round |-> r] :
                 s \in {x \in sids : Reachable(x)}}

\* sio.emit from a client thread: it goes out on whatever connection the client
\* has by then, and raises inside that thread when it has none.
Send(c, event, r) ==
  IF link[c] = "up"
    THEN events \cup {[sid |-> CurrentSid(c), event |-> event, round |-> r]}
    ELSE events
=============================================================================
