---------------------------- MODULE VerifyServer ----------------------------
(***************************************************************************)
(* The TCP side of the frame service (main.cpp): one thread accepts one    *)
(* client on port 8090 and sends it an answer every round; when a send     *)
(* fails it closes both sockets and accepts anew.  readAndCompress, which  *)
(* makes the answer, is FrameRelay's.                                      *)
(*                                                                         *)
(* The sockets are the kernel's: a descriptor is the lowest free number, a *)
(* reset leaves an error that getsockopt(SO_ERROR) takes away even if it   *)
(* is given no room to return it, and a send to a connection that is over  *)
(* and has no error left raises SIGPIPE, which main.cpp does not ignore.   *)
(***************************************************************************)
EXTENDS Integers, FiniteSets, SequencesExt

CONSTANTS
  Clients,
  MaxFd,    \* descriptors the process may have for sockets
  Backlog   \* connections a listening socket keeps, 5 in the code

ASSUME VerifyAssumption == /\ MaxFd \in Nat \ {0}
                           /\ Backlog \in Nat \ {0}
                           /\ Clients \cap {"free", "socket", "listener", "none"} = {}

VARIABLES
  up,           \* whether the frame service runs
  pc,           \* where thrVerifyServer is
  sct_vrf,      \* the variables of the code, not the sockets
  sct_vrf_new,
  fd,           \* what each descriptor is
  client,       \* what the kernel knows of each client's connection
  queue,        \* the listening socket's connections, not yet accepted
  late,         \* clients that connected to a listener already used
  lingers,      \* a connection of an earlier process still holds the port
  httpUp        \* whether http_server, on port 8082, runs

sockets == <<sct_vrf, sct_vrf_new, fd>>
network == <<client, queue, late>>
vars == <<up, pc, sockets, network, lingers, httpUp>>

Fds == 1..MaxFd
Served == {"alive", "stalled", "left"}
Ended == {"reset", "broken"}

(* Every variable has its type, and what binds, listens and accepts is a   *)
(* socket.                                                                 *)
TypeOK ==
  /\ up \in BOOLEAN /\ lingers \in BOOLEAN /\ httpUp \in BOOLEAN
  /\ pc \in {"socket", "bind", "listen", "accept", "compress", "check",
             "send", "sending", "reaccept"}
  /\ sct_vrf \in Fds \cup {-1, 0} /\ sct_vrf_new \in Fds \cup {-1, 0}
  /\ fd \in [Fds -> {"free", "socket", "listener"} \cup Clients]
  /\ client \in [Clients -> {"away", "queued"} \cup Served \cup Ended]
  /\ queue \in Seq(Clients) /\ Len(queue) <= Backlog
  /\ late \subseteq Clients
  /\ pc \in {"bind", "listen", "accept"} => sct_vrf \in Fds

Fresh ==
  /\ pc = "socket"
  /\ sct_vrf = 0 /\ sct_vrf_new = 0
  /\ fd = [f \in Fds |-> "free"]
  /\ client = [c \in Clients |-> "away"]
  /\ queue = << >> /\ late = {}

Init == Fresh /\ up = TRUE /\ lingers \in BOOLEAN /\ httpUp = TRUE

-----------------------------------------------------------------------------
Goto(label) == pc' = label
At(label) == up /\ pc = label

Listening == \E f \in Fds : fd[f] = "listener"

Free == {f \in Fds : fd[f] = "free"}
Lowest == CHOOSE f \in Free : \A g \in Free : f <= g

(* accept_connectionVerify: socket.                                        *)
Socket ==
  /\ At("socket") /\ Free # {}
  /\ sct_vrf' = Lowest
  /\ fd' = [fd EXCEPT ![Lowest] = "socket"]
  /\ Goto("bind")
  /\ UNCHANGED <<up, sct_vrf_new, network, lingers, httpUp>>

(* Faulty variant: a socket that could not be made is bound all the same.  *)
SocketFailsUnchecked ==
  /\ At("socket")
  /\ sct_vrf' = -1
  /\ Goto("bind")
  /\ UNCHANGED <<up, sct_vrf_new, fd, network, lingers, httpUp>>

SocketFails ==
  /\ At("socket")
  /\ sct_vrf' = -1
  /\ Goto("compress")  \* the result is ignored
  /\ UNCHANGED <<up, sct_vrf_new, fd, network, lingers, httpUp>>

PortBusy == lingers \/ \E f \in Fds \ {sct_vrf} : fd[f] # "free"

Bind ==
  /\ At("bind") /\ ~PortBusy
  /\ Goto("listen")
  /\ UNCHANGED <<up, sockets, network, lingers, httpUp>>

(* Whatever made bind fail, `fuser -k 8082/tcp` is run, though the port    *)
(* wanted is 8090.                                                         *)
BindFails ==
  /\ At("bind")
  /\ httpUp' = FALSE
  /\ Goto("compress")
  /\ UNCHANGED <<up, sockets, network, lingers>>

Listen ==
  /\ At("listen")
  /\ fd' = [fd EXCEPT ![sct_vrf] = "listener"]
  /\ Goto("accept")
  /\ UNCHANGED <<up, sct_vrf, sct_vrf_new, network, lingers, httpUp>>

ListenFails ==
  /\ At("listen")
  /\ Goto("compress")
  /\ UNCHANGED <<up, sockets, network, lingers, httpUp>>

Accept ==
  /\ At("accept") /\ queue # << >> /\ Free # {}
  /\ LET c == Head(queue)
     IN  /\ fd' = [fd EXCEPT ![Lowest] = c]
         /\ sct_vrf_new' = Lowest
         /\ client' = [client EXCEPT ![c] = IF @ = "queued" THEN "alive" ELSE @]
         /\ late' = late \cup (Range(Tail(queue)))
  /\ queue' = Tail(queue)
  /\ Goto("compress")
  /\ UNCHANGED <<up, sct_vrf, lingers, httpUp>>

AcceptFails ==
  /\ At("accept")
  /\ sct_vrf_new' = -1
  /\ late' = late \cup Range(queue)
  /\ Goto("compress")
  /\ UNCHANGED <<up, sct_vrf, fd, client, queue, lingers, httpUp>>

-----------------------------------------------------------------------------
(* A round of thrVerifyServer.                                             *)

Compress ==
  /\ At("compress")
  /\ Goto("check")
  /\ UNCHANGED <<up, sockets, network, lingers, httpUp>>

(* What sct_vrf_new names: a client, or something no answer is sent to.    *)
Peer == IF sct_vrf_new \in Fds THEN fd[sct_vrf_new] ELSE "none"

(* getsockopt with err_code_sz = 0: err_code stays 0, and a pending error  *)
(* is gone.                                                                *)
Check ==
  /\ At("check")
  /\ client' = IF Peer \in Clients /\ client[Peer] = "reset"
               THEN [client EXCEPT ![Peer] = "broken"] ELSE client
  /\ Goto("send")
  /\ UNCHANGED <<up, sockets, queue, late, lingers, httpUp>>

(* send takes a part of the answer and waits for room for the rest.        *)
SendPart ==
  /\ At("send") /\ Peer \in Clients /\ client[Peer] \in Served
  /\ Goto("sending")
  /\ UNCHANGED <<up, sockets, network, lingers, httpUp>>

(* send has taken it all: it waits while the client's window is closed.    *)
Send ==
  /\ At("send") \/ At("sending")
  /\ Peer \in Clients /\ client[Peer] \in {"alive", "left"}
  /\ Goto("compress")
  /\ UNCHANGED <<up, sockets, network, lingers, httpUp>>

(* The connection ends while send waits: it returns the length of the part *)
(* it took, the second getsockopt takes the error away as the first does,  *)
(* and nothing has failed.                                                 *)
SendCut ==
  /\ At("sending") /\ Peer \in Clients /\ client[Peer] \in Ended
  /\ client' = [client EXCEPT ![Peer] = "broken"]
  /\ Goto("compress")
  /\ UNCHANGED <<up, sockets, queue, late, lingers, httpUp>>

(* Faulty variant: the result of the send is not looked at.                *)
SendFailsUnseen ==
  /\ At("send")
  /\ Peer \in Clients => client[Peer] = "reset"
  /\ Goto("compress")
  /\ UNCHANGED <<up, sockets, network, lingers, httpUp>>

(* ECONNRESET, or EBADF and ENOTSOCK for what is no connection.            *)
SendFails ==
  /\ At("send")
  /\ \/ Peer \notin Clients /\ UNCHANGED client
     \/ /\ Peer \in Clients /\ client[Peer] = "reset"
        /\ client' = [client EXCEPT ![Peer] = "broken"]
  /\ Goto("reaccept")
  /\ UNCHANGED <<up, sockets, queue, late, lingers, httpUp>>

(* The kernel ends a process's connections: those in the listener's queue  *)
(* are reset.                                                              *)
Dropped(cs) == /\ client' = [c \in Clients |->
                               IF c \in cs THEN "away" ELSE client[c]]
               /\ late' = late \ cs

(* Faulty variant: the listening socket is left open.                      *)
ReacceptLeaky ==
  /\ At("reaccept")
  /\ fd' = [f \in Fds |-> IF f = sct_vrf_new THEN "free" ELSE fd[f]]
  /\ Dropped({Peer} \cap Clients)
  /\ UNCHANGED queue
  /\ Goto("socket")
  /\ UNCHANGED <<up, sct_vrf, sct_vrf_new, lingers, httpUp>>

(* Faulty variant: the listening socket is kept and accepted from again.   *)
ReacceptSame ==
  /\ At("reaccept")
  /\ fd' = [f \in Fds |-> IF f = sct_vrf_new THEN "free" ELSE fd[f]]
  /\ Dropped({Peer} \cap Clients)
  /\ UNCHANGED queue
  /\ Goto(IF Listening THEN "accept" ELSE "socket")
  /\ UNCHANGED <<up, sct_vrf, sct_vrf_new, lingers, httpUp>>

(* reacceptVerify: both sockets are closed, the variables keep their       *)
(* numbers; accept_connectionVerify follows.                               *)
Reaccept ==
  /\ At("reaccept")
  /\ fd' = [f \in Fds |-> IF f \in {sct_vrf, sct_vrf_new} THEN "free" ELSE fd[f]]
  /\ Dropped(({Peer} \cap Clients) \cup Range(queue))
  /\ queue' = << >>
  /\ Goto("socket")
  /\ UNCHANGED <<up, sct_vrf, sct_vrf_new, lingers, httpUp>>

-----------------------------------------------------------------------------
(* The kernel ends what is left of a process.  Of a connection that was    *)
(* not over, something may hold the port for a while.                      *)
Exit ==
  /\ up /\ up' = FALSE
  /\ lingers' \in IF \E c \in Clients : Peer = c /\ client[c] \in Served
                  THEN BOOLEAN ELSE {lingers}
  /\ pc' = "socket" /\ sct_vrf' = 0 /\ sct_vrf_new' = 0
  /\ fd' = [f \in Fds |-> "free"]
  /\ client' = [c \in Clients |-> "away"]
  /\ queue' = << >> /\ late' = {}
  /\ UNCHANGED httpUp

(* EPIPE: SIGPIPE comes first.                                             *)
SendKills ==
  /\ At("send") /\ Peer \in Clients /\ client[Peer] = "broken"
  /\ Exit

Kill == Exit

Start ==
  /\ ~up /\ up' = TRUE
  /\ UNCHANGED <<pc, sockets, network, lingers, httpUp>>

LingerEnds ==
  /\ lingers /\ lingers' = FALSE
  /\ UNCHANGED <<up, pc, sockets, network, httpUp>>

-----------------------------------------------------------------------------
(* Clients.                                                                *)

(* A listener that was accepted from, or failed to be, is not accepted     *)
(* from again.                                                             *)
Connect(c) ==
  /\ up /\ Listening /\ client[c] = "away" /\ Len(queue) < Backlog
  /\ client' = [client EXCEPT ![c] = "queued"]
  /\ queue' = Append(queue, c)
  /\ late' = IF pc = "accept" THEN late ELSE late \cup {c}
  /\ UNCHANGED <<up, pc, sockets, lingers, httpUp>>

Turn(c, from, to) ==
  /\ client[c] \in from
  /\ client' = [client EXCEPT ![c] = to]
  /\ UNCHANGED <<up, pc, sockets, queue, late, lingers, httpUp>>

(* A client that stops or resumes reading, closes, is gone without a word; *)
(* the last makes of its closed socket an error.                           *)
StopReading(c) == Turn(c, {"alive"}, "stalled")
Resume(c) == Turn(c, {"stalled"}, "alive")
Leave(c) == Turn(c, {"queued", "alive", "stalled"}, "left")
ResetBy(c) == Turn(c, {"queued", "alive", "stalled"}, "reset")
ResetAfterLeaving(c) == Turn(c, {"left"}, "broken")

Customer(c) == \/ Connect(c) \/ StopReading(c) \/ Resume(c) \/ Leave(c)
               \/ ResetBy(c) \/ ResetAfterLeaving(c)

OpenSocket == Socket \/ SocketFails
BindPort == Bind \/ BindFails
ListenOn == Listen \/ ListenFails
AcceptClient == Accept \/ AcceptFails
Answer == \/ Check \/ SendPart \/ Send \/ SendCut
          \/ SendFails \/ SendKills

Thread == \/ OpenSocket \/ BindPort \/ ListenOn \/ AcceptClient
          \/ Compress \/ Answer \/ Reaccept

Next == \/ Thread \/ Kill \/ Start \/ LingerEnds
        \/ \E c \in Clients : Customer(c)

Spec == Init /\ [][Next]_vars

(* The thread runs, no port is held for ever and no system call fails for  *)
(* ever.  Nobody need connect, read or start the service again.            *)
FairSpec ==
  /\ Spec
  /\ WF_vars(OpenSocket \/ BindPort \/ ListenOn) /\ WF_vars(Compress \/ Answer)
  /\ WF_vars(Reaccept) /\ WF_vars(LingerEnds)
  /\ SF_vars(Socket) /\ SF_vars(Bind) /\ SF_vars(Listen)

-----------------------------------------------------------------------------
(* Properties.                                                             *)

(* Every descriptor in use is one that the code's two variables name, and  *)
(* a number left in sct_vrf_new by a connection that was closed is never   *)
(* that of the socket opened since: no answer goes into the listener, and  *)
(* reacceptVerify closes neither too little nor a stranger.                *)
DescriptorsOwned ==
  /\ \A f \in Fds : fd[f] # "free" => f \in {sct_vrf, sct_vrf_new}
  /\ sct_vrf_new \in Fds => fd[sct_vrf_new] \notin {"socket", "listener"}
  /\ sct_vrf \in Fds => fd[sct_vrf] \notin Clients

(* Each listener serves one client.  Those that connect to it behind the   *)
(* one it accepted are never sent an answer: they are dropped when it is   *)
(* closed, and have to connect again at the right time.                    *)
LateNeverServed == Peer \notin late

(* However its client went, and whatever calls failed, the service comes   *)
(* back to serving or waiting for a client, unless it is dead: a failed    *)
(* send is noticed, and closing what it leaves frees the port.             *)
NeverStuck ==
  []<>(pc = "accept" \/ (Peer \in Clients /\ client[Peer] \in Served) \/ ~up)

(* run.sh starts `./http_server 8082 . 1` beside this service, and nothing *)
(* here is meant to end it (run.sh:6, main.cpp:707).                       *)
HttpServerKept == httpUp
=============================================================================
