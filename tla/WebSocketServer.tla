--------------------------- MODULE WebSocketServer ---------------------------
(***************************************************************************)
(* websocket_srv: sessions that accept a WebSocket handshake and then read *)
(* a message, write it back and read again, each step a completion handler *)
(* on the session's strand.                                                *)
(*                                                                         *)
(* on_read goes on after an error: it reports it and writes what is in     *)
(* buffer_.  Only the stream, which refuses to write once it has failed,   *)
(* keeps a fragment from being echoed.                                     *)
(***************************************************************************)
EXTENDS Naturals, Sequences

CONSTANTS
  Conns,        \* connections ever opened
  MaxMessages,  \* bound: messages sent over one connection
  SendBuffer    \* echoes the client has not got that fit the buffers

ASSUME EchoAssumption == MaxMessages \in Nat /\ SendBuffer \in Nat \ {0}

VARIABLES
  listening, \* whether the constructor of the listener reached its end
  client,    \* what each client has done
  session,   \* what each CWSSession waits for
  stream,    \* ws_: "new", "open" or "failed"
  timed,     \* whether ws_ has its timeouts set
  sent,      \* the messages of each client: whether each is text
  taken,     \* how many of them the session has read
  buffer,    \* buffer_: the messages whose bytes it holds, 0 for a fragment
  echoed,    \* what the session wrote
  received   \* how much of that the client has got

traffic == <<sent, taken, buffer, echoed, received>>
serverVars == <<client, session, stream, timed, traffic>>

Live == {"accepting", "reading", "writing"}
Fragment == 0

TypeOK ==
  /\ listening \in BOOLEAN
  /\ client \in [Conns -> {"idle", "connected", "invalid", "open", "closing",
                           "reset", "silent"}]
  /\ session \in [Conns -> Live \cup {"none", "over"}]
  /\ stream \in [Conns -> {"new", "open", "failed"}]
  /\ timed \in [Conns -> BOOLEAN]
  /\ sent \in [Conns -> Seq(BOOLEAN)]
  /\ taken \in [Conns -> 0..MaxMessages]
  /\ buffer \in [Conns -> Seq(0..MaxMessages)]
  /\ echoed \in [Conns -> Seq([body: Seq(0..MaxMessages), text: BOOLEAN])]
  /\ received \in [Conns -> 0..MaxMessages]
  /\ \A c \in Conns : session[c] \in {"accepting", "reading"} => buffer[c] = << >>

(* The constructor returns where it fails to open, to bind or to listen,   *)
(* and run() goes on all the same: every accept fails and is begun again,  *)
(* and no client ever gets in.                                             *)
ListenerInit == listening \in BOOLEAN

ServerInit ==
  /\ ListenerInit
  /\ client = [c \in Conns |-> "idle"]
  /\ session = [c \in Conns |-> "none"]
  /\ stream = [c \in Conns |-> "new"]
  /\ timed = [c \in Conns |-> FALSE]
  /\ sent = [c \in Conns |-> << >>]
  /\ taken = [c \in Conns |-> 0]
  /\ buffer = [c \in Conns |-> << >>]
  /\ echoed = [c \in Conns |-> << >>]
  /\ received = [c \in Conns |-> 0]

-----------------------------------------------------------------------------
(* Clients.  A silent one is cut off: nothing of it arrives any more.      *)

Turn(c, from, to) ==
  /\ client[c] \in from
  /\ client' = [client EXCEPT ![c] = to]
  /\ UNCHANGED <<session, stream, timed, traffic>>

Connect(c) == listening /\ Turn(c, {"idle"}, "connected")
BadHandshake(c) == Turn(c, {"connected"}, "invalid")
CloseHandshake(c) == Turn(c, {"open"}, "closing")
Reset(c) == Turn(c, {"connected", "invalid", "open", "closing"}, "reset")
Vanish(c) == Turn(c, {"connected", "open", "closing"}, "silent")

SendMessage(c, text) ==
  /\ client[c] = "open" /\ Len(sent[c]) < MaxMessages
  /\ sent' = [sent EXCEPT ![c] = Append(@, text)]
  /\ UNCHANGED <<client, session, stream, timed, taken, buffer, echoed,
                 received>>

ReceiveEcho(c) ==
  /\ client[c] \in {"open", "closing"} /\ received[c] < Len(echoed[c])
  /\ received' = [received EXCEPT ![c] = @ + 1]
  /\ UNCHANGED <<client, session, stream, timed, sent, taken, buffer, echoed>>

-----------------------------------------------------------------------------
(* A session.                                                              *)

Become(c, state) == session' = [session EXCEPT ![c] = state]

(* Faulty variant: no timeouts are set.                                    *)
RunUntimed(c) ==
  /\ session[c] = "none" /\ client[c] # "idle"
  /\ Become(c, "accepting")
  /\ UNCHANGED <<client, stream, timed, traffic>>

(* The listener's on_accept, run and on_run.                               *)
Run(c) ==
  /\ session[c] = "none" /\ client[c] # "idle"
  /\ Become(c, "accepting")
  /\ timed' = [timed EXCEPT ![c] = TRUE]
  /\ UNCHANGED <<client, stream, traffic>>

(* The handshake, and do_read.                                             *)
OnAccept(c) ==
  /\ session[c] = "accepting" /\ client[c] = "connected"
  /\ stream[c] = "new"
  /\ client' = [client EXCEPT ![c] = "open"]
  /\ stream' = [stream EXCEPT ![c] = "open"]
  /\ Become(c, "reading")
  /\ UNCHANGED <<timed, traffic>>

(* Not a valid handshake, or none in time.                                 *)
OnAcceptError(c) ==
  /\ session[c] = "accepting"
  /\ client[c] \in {"invalid", "reset"} \/ stream[c] = "failed"
  /\ Become(c, "over")
  /\ client' = [client EXCEPT ![c] = "reset"]
  /\ UNCHANGED <<stream, timed, traffic>>

HasNext(c) == taken[c] < Len(sent[c])

(* Having set the type of the message, on_read writes buffer_.             *)
OnRead(c) ==
  /\ session[c] = "reading" /\ stream[c] = "open" /\ HasNext(c)
  /\ taken' = [taken EXCEPT ![c] = @ + 1]
  /\ buffer' = [buffer EXCEPT ![c] = Append(@, taken[c] + 1)]
  /\ Become(c, "writing")
  /\ UNCHANGED <<client, stream, timed, sent, echoed, received>>

OnReadClosed(c) ==
  /\ session[c] = "reading" /\ stream[c] = "open"
  /\ client[c] = "closing" /\ ~HasNext(c)
  /\ Become(c, "over")
  /\ UNCHANGED <<client, stream, timed, traffic>>

(* The connection or the timeout failed the read, maybe within a message.  *)
(* on_read reports it and does not return.                                 *)
OnReadError(c) ==
  /\ session[c] = "reading"
  /\ client[c] = "reset" \/ stream[c] = "failed"
  /\ stream' = [stream EXCEPT ![c] = "failed"]
  /\ buffer' \in {buffer, [buffer EXCEPT ![c] = Append(@, Fragment)]}
  /\ Become(c, "writing")
  /\ UNCHANGED <<client, timed, sent, taken, echoed, received>>

Echo(c) == [body |-> buffer[c], text |-> sent[c][taken[c]]]

Written(c) ==
  /\ session[c] = "writing" /\ stream[c] = "open" /\ client[c] # "reset"
  /\ Len(echoed[c]) - received[c] < SendBuffer
  /\ echoed' = [echoed EXCEPT ![c] = Append(@, Echo(c))]

(* Faulty variant: the buffer is not consumed.                             *)
OnWriteKeeping(c) ==
  /\ Written(c)
  /\ Become(c, "reading")
  /\ UNCHANGED <<client, stream, timed, sent, taken, buffer, received>>

(* Faulty variant: no further read, and the last reference goes.           *)
OnWriteLast(c) ==
  /\ Written(c)
  /\ buffer' = [buffer EXCEPT ![c] = << >>]
  /\ client' = [client EXCEPT ![c] = "reset"]
  /\ Become(c, "over")
  /\ UNCHANGED <<stream, timed, sent, taken, received>>

OnWrite(c) ==
  /\ Written(c)
  /\ buffer' = [buffer EXCEPT ![c] = << >>]
  /\ Become(c, "reading")
  /\ UNCHANGED <<client, stream, timed, sent, taken, received>>

(* A failed stream aborts the write that on_read began.  The session's     *)
(* last reference goes, and the connection with it.                        *)
OnWriteError(c) ==
  /\ session[c] = "writing"
  /\ client[c] = "reset" \/ stream[c] = "failed"
  /\ Become(c, "over")
  /\ client' = [client EXCEPT ![c] = "reset"]
  /\ UNCHANGED <<stream, timed, traffic>>

(* The handshake's 30 s, or 300 s without a sign of the client: pings are  *)
(* answered by a client that is there, but only read while a read is       *)
(* pending, so a write that long fails too.                                *)
Timeout(c) ==
  /\ timed[c] /\ stream[c] # "failed"
  /\ \/ session[c] = "accepting" \/ session[c] = "writing"
     \/ session[c] = "reading" /\ client[c] = "silent"
  /\ stream' = [stream EXCEPT ![c] = "failed"]
  /\ UNCHANGED <<client, session, timed, traffic>>

Client(c) ==
  \/ Connect(c) \/ BadHandshake(c) \/ CloseHandshake(c) \/ Reset(c)
  \/ Vanish(c) \/ ReceiveEcho(c)
  \/ \E text \in BOOLEAN : SendMessage(c, text)

Accepting(c) == Run(c) \/ OnAccept(c) \/ OnAcceptError(c)
Reading(c) == OnRead(c) \/ OnReadClosed(c) \/ OnReadError(c)
Writing(c) == OnWrite(c) \/ OnWriteError(c)
Session(c) == Accepting(c) \/ Reading(c) \/ Writing(c)

(* ioc.run() runs the handlers that are ready, and time passes.            *)
ServerFairness ==
  \A c \in Conns : WF_serverVars(Session(c)) /\ WF_serverVars(Timeout(c))

-----------------------------------------------------------------------------
(* Properties.                                                             *)

(* Each echo is one whole message of its connection, with its type, in the *)
(* order they were sent: buffer_ is emptied between two, and what a failed *)
(* read left in it is not written.                                         *)
EchoFaithful == \A c \in Conns : \A i \in 1..Len(echoed[c]) :
  echoed[c][i] = [body |-> <<i>>, text |-> sent[c][i]]

(* The session of a client that is gone, with or without a word, ends.     *)
GoneClientDropped == \A c \in Conns :
  (client[c] \in {"reset", "silent"} /\ session[c] \in Live)
    ~> session[c] = "over"
=============================================================================
