----------------------------- MODULE HttpServer -----------------------------
(***************************************************************************)
(* The connections of http_server: the listener that accepts them and the  *)
(* session that reads a request, has it handled, writes the response and   *)
(* reads again, each step a completion handler run by one of the threads   *)
(* inside ioc.run().  A session's handlers run on its strand, one at a     *)
(* time; the handlers of different sessions interleave.                    *)
(*                                                                         *)
(* A connection is two byte streams.  Both are kept whole: sent[c] is what *)
(* the client ever sent and taken[c] how much of it the session has read,  *)
(* written[c] what the session ever wrote and received[c] how much of it   *)
(* the client has got.  What the answer to a request is, HttpResponse says. *)
(***************************************************************************)
EXTENDS HttpResponse

CONSTANTS
  Conns,        \* connections that clients ever open
  Threads,      \* threads inside ioc.run(), the third argument of main
  MaxSessions,  \* sessions the process has file descriptors for
  Requests,     \* what each client sends
  MaxRequests,  \* bound: requests sent over one connection
  SendBuffer    \* responses the client has not got that fit the buffers

ASSUME ServerAssumption == /\ Requests \in [Conns -> SUBSET Request]
                           /\ Threads \in Nat \ {0}
                           /\ MaxSessions \in Nat \ {0}
                           /\ MaxRequests \in Nat
                           /\ SendBuffer \in Nat \ {0}

VARIABLES
  up,         \* whether the process runs
  listening,  \* whether the listener's constructor reached its end
  acceptor,   \* "accepting", or "failed" inside on_accept(ec)
  backlog,    \* connections the kernel has and the listener has not
  client,     \* what each client has done
  server,     \* what each session does
  timer,      \* stream_.expires_after: "off", "running" or "expired"
  sent, taken, req,             \* req is the session's req_, 0 when empty
  handled, written, received

links == <<up, listening, acceptor, backlog>>
streams == <<sent, taken, req, handled, written, received>>
vars == <<links, client, server, timer, streams>>

Live == {"created", "reading", "handling", "writing"}
Over == {"closed", "failed"}

(* Every variable has its type, and a session that waits for its client    *)
(* does so with the timer of do_read set.                                  *)
TypeOK ==
  /\ up \in BOOLEAN /\ listening \in BOOLEAN
  /\ acceptor \in {"accepting", "failed"}
  /\ backlog \in Seq(Conns)
  /\ client \in [Conns -> {"idle", "open", "finished", "reset"}]
  /\ server \in [Conns -> Live \cup Over \cup {"none"}]
  /\ timer \in [Conns -> {"off", "running", "expired"}]
  /\ \A c \in Conns : sent[c] \in Seq(Requests[c])
  /\ taken \in [Conns -> 0..MaxRequests]
  /\ req \in [Conns -> 0..MaxRequests]
  /\ handled \in [Conns -> Seq(1..MaxRequests)]
  /\ written \in [Conns -> Seq(1..MaxRequests)]
  /\ received \in [Conns -> 0..MaxRequests]
  /\ \A c \in Conns : server[c] \in Live \ {"created"} => timer[c] # "off"

Init ==
  /\ up = TRUE
  /\ listening \in BOOLEAN
  /\ acceptor = "accepting"
  /\ backlog = << >>
  /\ client = [c \in Conns |-> "idle"]
  /\ server = [c \in Conns |-> "none"]
  /\ timer = [c \in Conns |-> "off"]
  /\ sent = [c \in Conns |-> << >>]
  /\ taken = [c \in Conns |-> 0]
  /\ req = [c \in Conns |-> 0]
  /\ handled = [c \in Conns |-> << >>]
  /\ written = [c \in Conns |-> << >>]
  /\ received = [c \in Conns |-> 0]

-----------------------------------------------------------------------------
(* Clients.                                                                *)

Connect(c) ==
  /\ up /\ listening /\ client[c] = "idle"
  /\ client' = [client EXCEPT ![c] = "open"]
  /\ backlog' = Append(backlog, c)
  /\ UNCHANGED <<up, listening, acceptor, server, timer, streams>>

(* A client need not wait for a response before its next request.  What    *)
(* follows bytes that are no request is part of them.                      *)
SendRequest(c, r) ==
  /\ client[c] = "open" /\ server[c] \notin Over
  /\ \A i \in DOMAIN sent[c] : sent[c][i].method # "garbled"
  /\ Len(sent[c]) < MaxRequests
  /\ sent' = [sent EXCEPT ![c] = Append(@, r)]
  /\ UNCHANGED <<links, client, server, timer, taken, req, handled, written,
                 received>>

ReceiveResponse(c) ==
  /\ client[c] \in {"open", "finished"}
  /\ received[c] < Len(written[c])
  /\ received' = [received EXCEPT ![c] = @ + 1]
  /\ UNCHANGED <<links, client, server, timer, sent, taken, req, handled,
                 written>>

FinishSending(c) ==
  /\ client[c] = "open"
  /\ client' = [client EXCEPT ![c] = "finished"]
  /\ UNCHANGED <<links, server, timer, streams>>

Reset(c) ==
  /\ client[c] \in {"open", "finished"}
  /\ client' = [client EXCEPT ![c] = "reset"]
  /\ UNCHANGED <<links, server, timer, streams>>

-----------------------------------------------------------------------------
(* The listener.                                                           *)

Handling == {c \in Conns : server[c] = "handling"}
Sessions == {c \in Conns : server[c] \in Live}

FreeThread == up /\ Cardinality(Handling) < Threads
FreeDescriptor == Cardinality(Sessions) < MaxSessions

(* on_accept without an error: a session for the connection, then          *)
(* do_accept.                                                              *)
Accept ==
  /\ FreeThread /\ listening /\ acceptor = "accepting"
  /\ backlog # << >> /\ FreeDescriptor
  /\ server' = [server EXCEPT ![Head(backlog)] = "created"]
  /\ backlog' = Tail(backlog)
  /\ UNCHANGED <<up, listening, acceptor, client, timer, streams>>

(* on_accept with an error, from a process out of descriptors or from an   *)
(* acceptor that was never opened, bound or set to listen.                 *)
AcceptFails ==
  /\ FreeThread /\ acceptor = "accepting"
  /\ listening => backlog # << >> /\ ~FreeDescriptor
  /\ acceptor' = "failed"
  /\ UNCHANGED <<up, listening, backlog, client, server, timer, streams>>

(* do_accept after the error was reported.                                 *)
AcceptAgain ==
  /\ FreeThread /\ acceptor = "failed"
  /\ acceptor' = "accepting"
  /\ UNCHANGED <<up, listening, backlog, client, server, timer, streams>>

-----------------------------------------------------------------------------
(* A session.                                                              *)

Become(c, state) == server' = [server EXCEPT ![c] = state]

(* Faulty variant: no expires_after.                                       *)
DoReadUntimed(c) ==
  /\ Become(c, "reading")
  /\ req' = [req EXCEPT ![c] = 0]
  /\ timer' = [timer EXCEPT ![c] = "off"]

DoRead(c) ==
  /\ Become(c, "reading")
  /\ req' = [req EXCEPT ![c] = 0]
  /\ timer' = [timer EXCEPT ![c] = "running"]

(* Nothing refers to the session any more and its socket is closed.  If    *)
(* the client's bytes were not all read, the kernel may reset the          *)
(* connection, and with it the responses on their way.                     *)
End(c, state) ==
  /\ Become(c, state)
  /\ timer' = [timer EXCEPT ![c] = "off"]
  /\ \/ UNCHANGED client
     \/ taken[c] < Len(sent[c]) /\ client' = [client EXCEPT ![c] = "reset"]

Run(c) ==
  /\ FreeThread /\ server[c] = "created"
  /\ DoRead(c)
  /\ UNCHANGED <<links, client, sent, taken, handled, written, received>>

Upcoming(c) == sent[c][taken[c] + 1]
HasNext(c) == taken[c] < Len(sent[c])

Take(c) ==
  /\ HasNext(c) /\ Upcoming(c).method # "garbled"
  /\ Become(c, "handling")
  /\ taken' = [taken EXCEPT ![c] = @ + 1]
  /\ req' = [req EXCEPT ![c] = taken[c] + 1]
  /\ UNCHANGED <<links, client, timer, sent, handled, written, received>>

(* Faulty variant: the next request is read while a response is written.   *)
OnReadOverlapped(c) == FreeThread /\ server[c] \in {"reading", "writing"}
                       /\ Take(c)

(* on_read of a whole request: handle_request begins in this thread.       *)
OnRead(c) == FreeThread /\ server[c] = "reading" /\ Take(c)

(* on_read with end_of_stream: do_close.                                   *)
OnReadEnd(c) ==
  /\ FreeThread /\ server[c] = "reading"
  /\ client[c] = "finished" /\ ~HasNext(c)
  /\ End(c, "closed")
  /\ UNCHANGED <<links, streams>>

(* on_read with any other error, the timer's included.                     *)
OnReadError(c) ==
  /\ FreeThread /\ server[c] = "reading"
  /\ \/ HasNext(c) /\ Upcoming(c).method = "garbled"
     \/ client[c] = "reset"
     \/ timer[c] = "expired"
  /\ End(c, "failed")
  /\ UNCHANGED <<links, streams>>

(* handle_request, to the start of async_write.                            *)
Handle(c) ==
  /\ up /\ server[c] = "handling"
  /\ handled' = [handled EXCEPT ![c] = Append(@, req[c])]
  /\ Become(c, "writing")
  /\ UNCHANGED <<links, client, timer, sent, taken, req, written, received>>

Asked(c) == sent[c][req[c]]

(* The bytes of the response reach the kernel's buffer.                    *)
Write(c) ==
  /\ client[c] # "reset" /\ Writable(Asked(c))
  /\ Len(written[c]) - received[c] < SendBuffer
  /\ written' = [written EXCEPT ![c] = Append(@, req[c])]

(* Faulty variant: on_write ignores that the response ends the connection. *)
AfterWriteKeepAlive(c) == DoRead(c) /\ UNCHANGED client

(* Faulty variant: every response ends the connection.                     *)
AfterWriteAlwaysClose(c) == End(c, "closed") /\ UNCHANGED req

(* The rest of on_write: do_close if the response said so, else do_read.   *)
AfterWrite(c) ==
  IF \A res \in handle_request(Asked(c)) : need_eof(res)
  THEN End(c, "closed") /\ UNCHANGED req
  ELSE DoRead(c) /\ UNCHANGED client

OnWrite(c) ==
  /\ FreeThread /\ server[c] = "writing"
  /\ Write(c)
  /\ AfterWrite(c)
  /\ UNCHANGED <<links, sent, taken, handled, received>>

(* on_write with an error.  When it is the timer's, the response may have  *)
(* been written all the same.                                              *)
OnWriteError(c) ==
  /\ FreeThread /\ server[c] = "writing"
  /\ \/ UNCHANGED written /\ (client[c] = "reset" \/ ~Writable(Asked(c)))
     \/ timer[c] = "expired" /\ (Write(c) \/ UNCHANGED written)
  /\ End(c, "failed")
  /\ UNCHANGED <<links, sent, taken, req, handled, received>>

(* Thirty seconds since the session began to read: for the request, for    *)
(* its handling and for its response together.                             *)
Expire(c) ==
  /\ up /\ timer[c] = "running"
  /\ timer' = [timer EXCEPT ![c] = "expired"]
  /\ UNCHANGED <<links, client, server, streams>>

-----------------------------------------------------------------------------
(* The process.                                                            *)

(* stop.sh, or an exception out of HandleApiRequest.  The kernel closes    *)
(* every connection; what was written is still delivered.                  *)
Down ==
  /\ up /\ up' = FALSE
  /\ acceptor' = "accepting"
  /\ backlog' = << >>
  /\ server' = [c \in Conns |->
                  IF server[c] \in Live \/ c \in Range(backlog) THEN "failed"
                                                              ELSE server[c]]
  /\ timer' = [c \in Conns |-> "off"]
  /\ UNCHANGED <<client, sent, taken, req, written, received>>

HandleThrows(c) ==
  /\ server[c] = "handling" /\ AsksApi(Asked(c))
  /\ Down
  /\ UNCHANGED <<listening, handled>>

Stop == Down /\ UNCHANGED <<listening, handled>>

Start ==
  /\ ~up /\ up' = TRUE
  /\ listening' \in BOOLEAN
  /\ UNCHANGED <<acceptor, backlog, client, server, timer, streams>>

Clients == \E c \in Conns :
  \/ Connect(c) \/ ReceiveResponse(c) \/ FinishSending(c) \/ Reset(c)
  \/ \E r \in Requests[c] : SendRequest(c, r)

Listener == Accept \/ AcceptFails \/ AcceptAgain

Reading(c) == OnRead(c) \/ OnReadEnd(c) \/ OnReadError(c)
Writing(c) == OnWrite(c) \/ OnWriteError(c)
Session(c) == Run(c) \/ Reading(c) \/ Handle(c) \/ Writing(c)

Next ==
  \/ Clients
  \/ Listener
  \/ \E c \in Conns : Session(c) \/ Expire(c) \/ HandleThrows(c)
  \/ Stop \/ Start

Spec == Init /\ [][Next]_vars

(* ioc.run() runs every handler that is ready, a session's next one with   *)
(* them (it never has two that could run); time passes.  Nothing is        *)
(* assumed of clients, nor that anyone starts the process again.           *)
FairSpec ==
  /\ Spec
  /\ WF_vars(Accept) /\ WF_vars(AcceptAgain)
  /\ \A c \in Conns : WF_vars(Session(c)) /\ WF_vars(Expire(c))

-----------------------------------------------------------------------------
(* Properties.                                                             *)

Ordinals(n) == [i \in 1..n |-> i]

(* Requests are handled in the order they came, each at most once, and the *)
(* responses follow in that order: however requests are pipelined, a new   *)
(* one is not begun before the last one's response is written (on_write    *)
(* calls do_read, on_read does not).                                       *)
InOrder == \A c \in Conns :
  /\ handled[c] = Ordinals(Len(handled[c]))
  /\ written[c] = Ordinals(Len(written[c]))
  /\ Len(handled[c]) - Len(written[c]) \in {0, 1}
  /\ server[c] = "reading" => Len(handled[c]) = Len(written[c])

(* The service that a client sees, and the refinement: what handlers,      *)
(* timers, buffers and the end of the process do to a connection is one    *)
(* step of ConnectionService or none.                                      *)
StateOf(s) == CASE s = "closed" -> "ended"
                [] s = "failed" -> "lost"
                [] OTHER -> "open"

Standing == [c \in Conns |-> StateOf(server[c])]

Service == INSTANCE ConnectionService WITH
             Wanted <- Request, asked <- sent, done <- handled, answered <- written,
             state <- Standing

ServedInTurn == Service!Spec

(* Once a request with Connection: close was handled, no later request of  *)
(* the connection takes effect, though it may have arrived before.         *)
CloseIsLast == \A c \in Conns : \A i \in 1..Len(handled[c]) :
  sent[c][handled[c][i]].close => i = Len(handled[c])

(* A connection that ended without an error left nothing unanswered: each  *)
(* request up to the one that closed it, or all, has its response written. *)
GracefulEnd == \A c \in Conns : server[c] = "closed" =>
  LET n == Len(written[c])
  IN  /\ Len(handled[c]) = n
      /\ n = Len(sent[c]) \/ (n > 0 /\ sent[c][n].close)

(* While the listener listens, a client in the backlog gets its session or *)
(* the process ends: each session ends by its timer at the latest, and an  *)
(* accept that failed for want of a descriptor is tried again.             *)
BacklogServed == \A c \in Conns :
  c \in Range(backlog) ~> c \notin Range(backlog)

(* What a client sends on a live session does not wait for ever behind a   *)
(* response that is not collected.                                         *)
RequestSettled == \A c \in Conns :
  (server[c] = "writing") ~> (server[c] # "writing")
=============================================================================
