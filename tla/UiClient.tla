------------------------------ MODULE UiClient ------------------------------
(***************************************************************************)
(* wxUI with the WebSocket server.  A press of the button runs a whole     *)
(* client session, from the connection to the closing handshake, in the    *)
(* thread of the user interface, which does nothing else until ioc.run()   *)
(* returns.  Other clients do as they please.                              *)
(***************************************************************************)
EXTENDS WebSocketServer

CONSTANTS
  UiConns,   \* the connections of wxUI, one for each press of the button
  UiPort,    \* the port that OnSend names
  SrvPorts   \* the ports that websocket_srv may be started on

ASSUME UiAssumption == UiConns \subseteq Conns /\ MaxMessages > 0

VARIABLES
  port,      \* the port of websocket_srv, an argument of its main
  step,      \* the handler the session of wxUI waits for, or "idle"
  current,   \* its connection, the last one used when idle
  outcome    \* how each press of the button ended

uiVars == <<step, current, outcome>>
vars == <<port, listening, serverVars, uiVars>>

(* What OnSend connects to is this websocket_srv.                          *)
Reachable == UiPort = port /\ listening

Waiting == {"connect", "handshake", "read", "close"}

TypeUi ==
  /\ TypeOK
  /\ port \in SrvPorts
  /\ step \in Waiting \cup {"idle", "exited"}
  /\ current \in UiConns
  /\ outcome \in [UiConns -> {"none", "echo", "timeout", "error"}]
  /\ step \in Waiting => outcome[current] = "none"
  /\ step \in {"read", "close"} => Len(sent[current]) = 1

Init ==
  /\ ServerInit
  /\ port \in SrvPorts
  /\ step = "idle"
  /\ current \in UiConns
  /\ outcome = [c \in UiConns |-> "none"]

-----------------------------------------------------------------------------
(* wxUI.                                                                   *)

Await(next) == step' = next /\ UNCHANGED <<current, outcome>>

Return(how) ==
  /\ step' = "idle"
  /\ outcome' = [outcome EXCEPT ![current] = how]
  /\ UNCHANGED current

(* A session starts; its resolver has a literal address to resolve.        *)
Start(c) == current' = c /\ step' = "connect"

(* spawn_client, which returns when the session is over.                   *)
OnSend ==
  /\ step = "idle"
  /\ \E c \in UiConns : client[c] = "idle" /\ outcome[c] = "none" /\ Start(c)
  /\ UNCHANGED <<outcome, serverVars>>

OnExit == step = "idle" /\ Await("exited") /\ UNCHANGED serverVars

OnConnect ==
  /\ step = "connect" /\ Reachable
  /\ Connect(current)
  /\ Await("handshake")

(* Another service listens on the port, or none.                           *)
OnConnectElsewhere ==
  /\ step = "connect" /\ ~Reachable
  /\ Await("handshake") \/ Return("error")
  /\ UNCHANGED serverVars

(* An HTTP response that declines the upgrade.                             *)
OnHandshakeDeclined ==
  /\ step = "handshake" /\ ~Reachable
  /\ Return("error")
  /\ UNCHANGED serverVars

(* Faulty variant: nothing is written before the read.                     *)
OnHandshakeMute ==
  /\ step = "handshake" /\ client[current] = "open"
  /\ Await("read")
  /\ UNCHANGED serverVars

(* on_handshake and on_write: a message this short does not wait.          *)
OnHandshake ==
  /\ step = "handshake" /\ client[current] = "open"
  /\ SendMessage(current, TRUE)
  /\ Await("read")

(* The echo is in the client's buffer_, and async_close begins.            *)
OnEcho ==
  /\ step = "read" /\ client[current] = "open"
  /\ received[current] < Len(echoed[current])
  /\ received' = [received EXCEPT ![current] = @ + 1]
  /\ client' = [client EXCEPT ![current] = "closing"]
  /\ Await("close")
  /\ UNCHANGED <<session, stream, timed, sent, taken, buffer, echoed>>

(* Only now is the echo printed.                                           *)
OnClose ==
  /\ step = "close" /\ client[current] = "closing" /\ session[current] = "over"
  /\ Return("echo")
  /\ UNCHANGED serverVars

(* Every handler returns on an error.                                      *)
OnUiError ==
  /\ step \in Waiting /\ client[current] = "reset"
  /\ Return("error")
  /\ UNCHANGED serverVars

(* 30 s for the connection, for the handshake and for the closing one; the *)
(* client's suggested timeouts have none for a message.                    *)
OnUiTimeout ==
  /\ step \in {"connect", "handshake", "close"}
  /\ Return("timeout")
  /\ client' = [client EXCEPT ![current] = IF @ = "idle" THEN @ ELSE "reset"]
  /\ UNCHANGED <<session, stream, timed, traffic>>

Connecting == OnConnect \/ OnConnectElsewhere \/ OnHandshakeDeclined \/ OnHandshake
Finishing == OnEcho \/ OnClose \/ OnUiError \/ OnUiTimeout
Ui == Connecting \/ Finishing

Others == \E c \in Conns \ UiConns : Client(c) /\ UNCHANGED uiVars
Server == \E c \in Conns : (Session(c) \/ Timeout(c)) /\ UNCHANGED uiVars

Next ==
  /\ OnSend \/ OnExit \/ Ui \/ Others \/ Server
  /\ UNCHANGED <<port, listening>>

Spec == Init /\ [][Next]_vars

(* Nobody has to press the button, and no other client has to do anything. *)
FairSpec == Spec /\ ServerFairness /\ WF_vars(Ui /\ UNCHANGED <<port, listening>>)

-----------------------------------------------------------------------------
(* Properties.                                                             *)

(* websocket_client.cpp:33, "Sends a WebSocket message and prints the       *)
(* response": a press of the button that meets no timeout, its own or the  *)
(* server's, ends with an echo.                                            *)
PressAnswered == \A c \in UiConns : outcome[c] = "error" => stream[c] = "failed"

(* So it does when websocket_srv listens on the port that OnSend names,    *)
(* and the echo is the message.                                            *)
EchoShown ==
  /\ Reachable => PressAnswered
  /\ \A c \in UiConns :
       outcome[c] = "echo" => received[c] = 1 /\ echoed[c][1].body = <<1>>

(* The user interface comes back: no step of the session waits for ever,   *)
(* though the read has no timeout of its own.                              *)
UiReturns == (step \in Waiting) ~> (step = "idle")
=============================================================================
