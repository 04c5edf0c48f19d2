------------------------- MODULE VerifyServerProofs -------------------------
(***************************************************************************)
(* Theorems about VerifyServer: for any number of clients, of descriptors  *)
(* and of places in the listener's queue, no descriptor is lost or taken   *)
(* for another, and a client that came late is never sent an answer.       *)
(***************************************************************************)
EXTENDS VerifyServer, SequenceTheorems, TLAPS

-----------------------------------------------------------------------------
(* The inductive invariant.                                                *)

(* The thread is inside accept_connectionVerify.                           *)
Opening == pc \in {"socket", "bind", "listen", "accept"}

(* It is the kernel's choice of the lowest free number that keeps the two  *)
(* variables apart: reacceptVerify leaves nothing open, so the next socket *)
(* is 1 again, and a connection, accepted while 1 is in use, never is.     *)
OneIsTheSocket ==
  /\ sct_vrf \in {-1, 0, 1} /\ sct_vrf_new # 1
  /\ fd[1] \in {"free", "socket", "listener"}
  /\ fd[1] # "free" => sct_vrf = 1
  /\ \A f \in Fds \ {1} : fd[f] # "free" => fd[f] \in Clients /\ f = sct_vrf_new
  /\ Opening => \A f \in Fds \ {1} : fd[f] = "free"
  /\ pc = "socket" => fd[1] = "free"
  /\ pc \in {"bind", "listen", "accept"} => sct_vrf = 1
  /\ pc \in {"bind", "listen"} => fd[1] = "socket"
  /\ pc = "accept" => fd[1] = "listener"

(* Who is late waits in the queue, the one that is served does not, and    *)
(* until the listener has been accepted from nobody is late.               *)
LateWait ==
  /\ late \subseteq Range(queue)
  /\ Opening => late = {}
  /\ pc \in {"socket", "bind", "listen"} => queue = << >>
  /\ \A i, j \in 1..Len(queue) : i # j => queue[i] # queue[j]
  /\ \A c \in Range(queue) : client[c] # "away"
  /\ \A f \in Fds : fd[f] \in Clients => client[fd[f]] # "away" /\ fd[f] \notin Range(queue)

InductiveInv == TypeOK /\ OneIsTheSocket /\ LateWait

-----------------------------------------------------------------------------
(* Sequences.                                                              *)

(* What a queue has in it when one is put in, and when one is taken out.   *)
LEMMA QueueAppend ==
  ASSUME NEW S, NEW s \in Seq(S), NEW e \in S
  PROVE  /\ Append(s, e) \in Seq(S) /\ Len(Append(s, e)) = Len(s) + 1
         /\ Len(s) \in Nat
         /\ \A i \in 1..Len(s) : Append(s, e)[i] = s[i] /\ s[i] \in Range(s)
         /\ Append(s, e)[Len(s) + 1] = e
         /\ Range(Append(s, e)) = Range(s) \cup {e}
<1>1. /\ Append(s, e) \in Seq(S) /\ Len(Append(s, e)) = Len(s) + 1
      /\ \A i \in 1..Len(s) : Append(s, e)[i] = s[i]
      /\ Append(s, e)[Len(s) + 1] = e
  BY AppendProperties
<1>2. Len(s) \in Nat /\ DOMAIN s = 1..Len(s)
  BY LenProperties
<1>3. \A i \in 1..Len(s) : s[i] \in Range(s)
  BY <1>2 DEF Range
<1>4. Append(s, e) = s \o <<e>> /\ <<e>> \in Seq(S)
  BY AppendIsConcat
<1>5. Range(<<e>>) = {e}
  BY DEF Range
<1>6. Range(s \o <<e>>) = Range(s) \cup Range(<<e>>)
  BY ONLY <1>4, RangeConcatenation, s \in Seq(S)
<1>7. Range(Append(s, e)) = Range(s) \cup {e}
  BY <1>4, <1>5, <1>6
<1> QED
  BY <1>1, <1>2, <1>3, <1>7

LEMMA QueueTail ==
  ASSUME NEW S, NEW s \in Seq(S), s # << >>
  PROVE  /\ Head(s) \in S /\ Head(s) \in Range(s) /\ Head(s) = s[1]
         /\ Tail(s) \in Seq(S) /\ Range(Tail(s)) \subseteq Range(s)
         /\ Len(s) \in Nat \ {0} /\ Len(Tail(s)) = Len(s) - 1
         /\ \A i \in 1..Len(Tail(s)) : Tail(s)[i] = s[i + 1]
<1>1. Len(s) \in Nat \ {0} /\ DOMAIN s = 1..Len(s)
  BY LenProperties, EmptySeq
<1>2. /\ Head(s) \in S /\ Head(s) = s[1] /\ Tail(s) \in Seq(S)
      /\ Len(Tail(s)) = Len(s) - 1
      /\ \A i \in 1..Len(Tail(s)) : Tail(s)[i] = s[i + 1]
  BY <1>1, HeadTailProperties
<1>3. DOMAIN Tail(s) = 1..Len(Tail(s))
  BY <1>2, LenProperties
<1>4. 1 \in DOMAIN s
  BY <1>1
<1>5. Head(s) \in Range(s)
  BY <1>2, <1>4 DEF Range
<1>6. ASSUME NEW x \in Range(Tail(s))
      PROVE  x \in Range(s)
  <2>1. PICK i \in 1..Len(Tail(s)) : x = Tail(s)[i]
    BY <1>3 DEF Range
  <2>2. x = s[i + 1] /\ i + 1 \in DOMAIN s
    BY <1>1, <1>2, <2>1
  <2> QED
    BY <2>2 DEF Range
<1> QED
  BY <1>1, <1>2, <1>5, <1>6

(* A queue without repetitions: who is at its head is not behind it, and   *)
(* behind it there are none either.                                        *)
LEMMA DistinctTail ==
  ASSUME NEW S, NEW s \in Seq(S), s # << >>,
         \A i, j \in 1..Len(s) : i # j => s[i] # s[j]
  PROVE  /\ Head(s) \notin Range(Tail(s))
         /\ \A i, j \in 1..Len(Tail(s)) : i # j => Tail(s)[i] # Tail(s)[j]
<1>1. /\ Len(s) \in Nat \ {0} /\ Len(Tail(s)) = Len(s) - 1 /\ Head(s) = s[1]
      /\ Tail(s) \in Seq(S)
      /\ \A i \in 1..Len(Tail(s)) : Tail(s)[i] = s[i + 1]
  BY QueueTail
<1>2. \A i \in 1..Len(Tail(s)) : i + 1 \in 1..Len(s) /\ i + 1 # 1
  BY <1>1
<1>3. 1 \in 1..Len(s)
  BY <1>1
<1>4. \A i \in 1..Len(Tail(s)) : Tail(s)[i] # Head(s)
  BY <1>1, <1>2, <1>3
<1>5. DOMAIN Tail(s) = 1..Len(Tail(s))
  BY <1>1, LenProperties
<1>6. Head(s) \notin Range(Tail(s))
  BY <1>4, <1>5 DEF Range
<1>7. ASSUME NEW i \in 1..Len(Tail(s)), NEW j \in 1..Len(Tail(s)), i # j
      PROVE  Tail(s)[i] # Tail(s)[j]
  <2>1. i + 1 # j + 1
    BY <1>7, <1>1
  <2>2. s[i + 1] # s[j + 1]
    BY <1>2, <2>1
  <2> QED
    BY <1>1, <2>2
<1> QED
  BY <1>6, <1>7

LEMMA EmptyRange == Range(<< >>) = {} /\ Len(<< >>) = 0
  BY DEF Range

-----------------------------------------------------------------------------
(* Descriptors.                                                            *)

LEMMA Numbers == 1 \in Fds /\ Fds \subseteq Nat \ {0}
  BY VerifyAssumption DEF Fds

(* The socket is made when every number is free, and gets the first.       *)
LEMMA LowestOfAll ==
  ASSUME Free = Fds
  PROVE  Lowest = 1
<1>1. 1 \in Free /\ \A g \in Free : 1 <= g
  BY Numbers, VerifyAssumption DEF Fds
<1>2. \A f \in Free : f <= 1 => f = 1
  BY Numbers
<1> QED
  BY <1>1, <1>2 DEF Lowest

(* A connection is accepted when the first is in use, and gets the second. *)
LEMMA LowestOfRest ==
  ASSUME Free = Fds \ {1}, Free # {}
  PROVE  Lowest = 2 /\ 2 \in Fds \ {1}
<1>1. 2 \in Free /\ \A g \in Free : 2 <= g
  BY VerifyAssumption DEF Fds
<1>2. \A f \in Free : f <= 2 => f = 2
  BY <1>1, VerifyAssumption DEF Fds
<1> QED
  BY <1>1, <1>2 DEF Lowest

(* Who is served is neither late nor away.                                 *)
LEMMA PeerServed ==
  ASSUME InductiveInv
  PROVE  /\ Peer \in Clients => sct_vrf_new \in Fds /\ fd[sct_vrf_new] = Peer
         /\ Peer \in Clients => Peer \notin Range(queue) /\ client[Peer] # "away"
  BY VerifyAssumption DEF InductiveInv, LateWait, Peer

-----------------------------------------------------------------------------
(* The initial states, and each action.                                    *)

LEMMA InitInductive == Init => InductiveInv
<1> SUFFICES ASSUME Init PROVE InductiveInv
  OBVIOUS
<1>1. TypeOK
  BY EmptySeq, VerifyAssumption DEF Init, Fresh, TypeOK, Served, Ended
<1>2. OneIsTheSocket
  BY Numbers DEF Init, Fresh, OneIsTheSocket, Opening
<1>3. LateWait
  BY EmptyRange, VerifyAssumption DEF Init, Fresh, LateWait, Opening
<1> QED
  BY <1>1, <1>2, <1>3 DEF InductiveInv

LEMMA StepSocket ==
  ASSUME InductiveInv, Socket
  PROVE  InductiveInv'
<1> USE DEF InductiveInv
<1>1. pc = "socket" /\ Opening
  BY DEF Socket, At, Opening
<1>2. \A f \in Fds : fd[f] = "free"
  BY <1>1 DEF OneIsTheSocket
<1>3. Lowest = 1
  BY <1>2, LowestOfAll DEF Free
<1>4. /\ sct_vrf' = 1 /\ fd' = [fd EXCEPT ![1] = "socket"] /\ pc' = "bind"
      /\ UNCHANGED <<up, sct_vrf_new, network, lingers, httpUp>>
  BY <1>3 DEF Socket, Goto
<1>5. TypeOK'
  BY <1>4, Numbers DEF network, TypeOK
<1>6. OneIsTheSocket'
  BY <1>2, <1>4, Numbers DEF TypeOK, OneIsTheSocket, Opening
<1>7. LateWait'
  BY <1>1, <1>2, <1>4, Numbers, VerifyAssumption DEF network, TypeOK, LateWait, Opening
<1> QED
  BY <1>5, <1>6, <1>7

(* The steps that move the thread on, or stop a wait, and open, close and  *)
(* accept nothing.                                                         *)
LEMMA StepOnward ==
  ASSUME InductiveInv,
         Bind \/ BindFails \/ ListenFails \/ Compress
           \/ SendPart \/ Send \/ Start \/ LingerEnds
  PROVE  InductiveInv'
<1> USE DEF InductiveInv, Bind, BindFails, ListenFails, Compress, SendPart, Send, Start,
            LingerEnds, At, Goto, sockets, network
<1>1. TypeOK'
  BY DEF TypeOK
<1>2. OneIsTheSocket'
  BY DEF OneIsTheSocket, Opening
<1>3. LateWait'
  BY DEF LateWait, Opening
<1> QED
  BY <1>1, <1>2, <1>3

LEMMA StepSocketFails ==
  ASSUME InductiveInv, SocketFails
  PROVE  InductiveInv'
<1> USE DEF InductiveInv, SocketFails, At, Goto, network
<1>1. TypeOK'
  BY DEF TypeOK
<1>2. OneIsTheSocket'
  BY DEF OneIsTheSocket, Opening
<1>3. LateWait'
  BY DEF LateWait, Opening
<1> QED
  BY <1>1, <1>2, <1>3

LEMMA StepListen ==
  ASSUME InductiveInv, Listen
  PROVE  InductiveInv'
<1> USE DEF InductiveInv
<1>1. /\ pc = "listen" /\ sct_vrf = 1
      /\ fd' = [fd EXCEPT ![1] = "listener"] /\ pc' = "accept"
      /\ UNCHANGED <<up, sct_vrf, sct_vrf_new, network, lingers, httpUp>>
  BY DEF Listen, At, Goto, OneIsTheSocket
<1>2. TypeOK'
  BY <1>1, Numbers DEF network, TypeOK
<1>3. OneIsTheSocket'
  BY <1>1, Numbers DEF TypeOK, OneIsTheSocket, Opening
<1>4. LateWait'
  BY <1>1, Numbers, VerifyAssumption DEF network, TypeOK, LateWait, Opening
<1> QED
  BY <1>2, <1>3, <1>4

(* The accepted client is not among those behind it.                       *)
LEMMA StepAccept ==
  ASSUME InductiveInv, Accept
  PROVE  InductiveInv'
<1> USE DEF InductiveInv
<1> DEFINE c == Head(queue)
<1>1. /\ pc = "accept" /\ queue # << >> /\ queue \in Seq(Clients)
      /\ fd' = [fd EXCEPT ![Lowest] = c] /\ sct_vrf_new' = Lowest
      /\ client' = [client EXCEPT ![c] = IF client[c] = "queued" THEN "alive" ELSE client[c]]
      /\ late' = late \cup Range(Tail(queue)) /\ queue' = Tail(queue)
      /\ pc' = "compress" /\ Free # {}
      /\ UNCHANGED <<up, sct_vrf, lingers, httpUp>>
  BY DEF Accept, At, Goto, TypeOK
<1>2. /\ c \in Clients /\ c \in Range(queue)
      /\ queue' \in Seq(Clients) /\ Range(queue') \subseteq Range(queue)
      /\ Len(queue) \in Nat \ {0} /\ Len(queue') = Len(queue) - 1
  BY <1>1, QueueTail
<1>3. c \notin Range(queue') /\ \A i, j \in 1..Len(queue') : i # j => queue'[i] # queue'[j]
  BY <1>1, DistinctTail DEF LateWait
<1> HIDE DEF c
<1>4. sct_vrf = 1 /\ late = {} /\ fd[1] # "free" /\ \A f \in Fds \ {1} : fd[f] = "free"
  BY <1>1 DEF OneIsTheSocket, LateWait, Opening
<1>5. Lowest = 2 /\ 2 \in Fds \ {1}
  <2>1. Free = Fds \ {1}
    BY <1>4 DEF Free
  <2> QED
    BY <1>1, <2>1, LowestOfRest
<1>6. fd' = [fd EXCEPT ![2] = c] /\ sct_vrf_new' = 2
  BY <1>1, <1>5
<1>7. TypeOK'
  <2>1. client' \in [Clients -> {"away", "queued"} \cup Served \cup Ended]
    BY <1>1, <1>2 DEF TypeOK, Served
  <2>2. fd' \in [Fds -> {"free", "socket", "listener"} \cup Clients]
    BY <1>2, <1>5, <1>6 DEF TypeOK
  <2>3. Len(queue') <= Backlog /\ late' \subseteq Clients
    BY <1>1, <1>2, RangeOfSeq, VerifyAssumption DEF TypeOK
  <2> QED
    BY <1>1, <1>2, <1>5, <1>6, <2>1, <2>2, <2>3 DEF TypeOK
<1>8. OneIsTheSocket'
  BY <1>1, <1>2, <1>4, <1>5, <1>6, Numbers DEF TypeOK, OneIsTheSocket, Opening
<1>9. LateWait'
  <2>1. \A d \in Clients : client[d] # "away" => client'[d] # "away"
    BY <1>1, <1>2 DEF TypeOK
  <2>2. client[c] # "away" /\ \A d \in Range(queue') : client'[d] # "away"
    BY <1>1, <1>2, <2>1, RangeOfSeq DEF LateWait
  <2>3. \A f \in Fds : fd'[f] \in Clients => fd'[f] = c
    BY <1>4, <1>6, Numbers, VerifyAssumption DEF TypeOK, OneIsTheSocket
  <2> QED
    BY <1>1, <1>2, <1>3, <1>4, <2>1, <2>2, <2>3 DEF LateWait, Opening
<1> QED
  BY <1>7, <1>8, <1>9

LEMMA StepAcceptFails ==
  ASSUME InductiveInv, AcceptFails
  PROVE  InductiveInv'
<1> USE DEF InductiveInv
<1>1. /\ pc = "accept" /\ pc' = "compress" /\ sct_vrf_new' = -1
      /\ late' = late \cup Range(queue)
      /\ UNCHANGED <<up, sct_vrf, fd, client, queue, lingers, httpUp>>
  BY DEF AcceptFails, At, Goto
<1>2. \A f \in Fds \ {1} : fd[f] = "free"
  BY <1>1 DEF OneIsTheSocket, Opening
<1>3. TypeOK'
  BY <1>1, RangeOfSeq DEF TypeOK
<1>4. OneIsTheSocket'
  BY <1>1, <1>2 DEF OneIsTheSocket, Opening
<1>5. LateWait'
  BY <1>1 DEF LateWait, Opening
<1> QED
  BY <1>3, <1>4, <1>5

(* What only changes what is known of connections that are not away.       *)
LEMMA StepOfClient ==
  ASSUME InductiveInv, NEW c \in Clients, NEW state \in Served \cup Ended,
         client[c] # "away",
         client' = client \/ client' = [client EXCEPT ![c] = state],
         pc' = pc \/ (~Opening /\ pc' \in {"compress", "send", "reaccept"}),
         UNCHANGED <<up, sockets, queue, late, lingers, httpUp>>
  PROVE  InductiveInv'
<1> USE DEF InductiveInv, sockets
<1>1. \A d \in Clients : client[d] # "away" => client'[d] # "away"
  BY DEF TypeOK, Served, Ended
<1>2. TypeOK'
  BY DEF TypeOK, Opening
<1>3. OneIsTheSocket'
  BY DEF OneIsTheSocket, Opening
<1>4. LateWait'
  BY <1>1, RangeOfSeq DEF TypeOK, LateWait, Opening
<1> QED
  BY <1>2, <1>3, <1>4

LEMMA StepTurn ==
  ASSUME InductiveInv, NEW c \in Clients,
         \/ StopReading(c) \/ Resume(c) \/ Leave(c) \/ ResetBy(c)
         \/ ResetAfterLeaving(c)
  PROVE  InductiveInv'
<1>1. PICK from \in SUBSET {"queued", "alive", "stalled", "left"},
            to \in Served \cup Ended : Turn(c, from, to)
  BY DEF StopReading, Resume, Leave, ResetBy, ResetAfterLeaving, Served, Ended
<1>2. client[c] # "away"
  BY <1>1 DEF Turn
<1> QED
  BY <1>1, <1>2, StepOfClient DEF Turn

(* What takes the error away that a connection ended with.                 *)
LEMMA StepOfError ==
  ASSUME InductiveInv, Check \/ SendCut \/ SendFails
  PROVE  InductiveInv'
<1>1. ~Opening /\ pc' \in {"compress", "send", "reaccept"}
  BY DEF Check, SendCut, SendFails, At, Goto, Opening
<1>2. UNCHANGED <<up, sockets, queue, late, lingers, httpUp>>
  BY DEF Check, SendCut, SendFails
<1>3. CASE client' = client
  <2>1. TypeOK'
    BY <1>1, <1>2, <1>3 DEF InductiveInv, TypeOK, sockets
  <2>2. OneIsTheSocket' /\ LateWait'
    BY <1>1, <1>2, <1>3 DEF InductiveInv, OneIsTheSocket, LateWait, sockets, Opening
  <2> QED
    BY <2>1, <2>2 DEF InductiveInv
<1>4. CASE Peer \in Clients /\ client' = [client EXCEPT ![Peer] = "broken"]
  <2>1. client[Peer] # "away" /\ "broken" \in Served \cup Ended
    BY <1>4, PeerServed DEF Ended
  <2> QED
    BY <1>1, <1>2, <1>4, <2>1, StepOfClient
<1> QED
  BY <1>3, <1>4 DEF Check, SendCut, SendFails

(* Both sockets are closed, and nobody is left who came late.              *)
LEMMA StepReaccept ==
  ASSUME InductiveInv, Reaccept
  PROVE  InductiveInv'
<1> USE DEF InductiveInv
<1>1. /\ pc = "reaccept" /\ pc' = "socket" /\ queue' = << >>
      /\ fd' = [f \in Fds |-> IF f \in {sct_vrf, sct_vrf_new} THEN "free" ELSE fd[f]]
      /\ late' \subseteq late \ Range(queue)
      /\ client' \in [Clients -> {"away", "queued"} \cup Served \cup Ended]
      /\ UNCHANGED <<up, sct_vrf, sct_vrf_new, lingers, httpUp>>
  BY DEF Reaccept, At, Goto, Dropped, TypeOK
<1>2. late' = {}
  BY <1>1 DEF LateWait
<1>3. \A f \in Fds : fd'[f] = "free"
  BY <1>1 DEF OneIsTheSocket
<1>4. TypeOK'
  BY <1>1, <1>2, EmptySeq, EmptyRange, VerifyAssumption DEF TypeOK
<1>5. OneIsTheSocket'
  BY <1>1, <1>3, Numbers DEF OneIsTheSocket, Opening
<1>6. LateWait'
  BY <1>1, <1>2, <1>3, EmptyRange, VerifyAssumption DEF LateWait, Opening
<1> QED
  BY <1>4, <1>5, <1>6

LEMMA StepExit ==
  ASSUME InductiveInv, Exit
  PROVE  InductiveInv'
<1> USE DEF InductiveInv, Exit
<1>1. TypeOK'
  <2>1. lingers' \in BOOLEAN /\ up' \in BOOLEAN /\ httpUp' \in BOOLEAN
    BY DEF TypeOK
  <2>2. /\ << >> \in Seq(Clients) /\ Len(<< >>) = 0
        /\ 0 <= Backlog
    BY EmptySeq, EmptyRange, VerifyAssumption
  <2>3. queue' \in Seq(Clients) /\ Len(queue') <= Backlog
    BY <2>2
  <2> QED
    BY <2>1, <2>3 DEF TypeOK
<1>2. OneIsTheSocket'
  BY Numbers DEF OneIsTheSocket, Opening
<1>3. LateWait'
  BY EmptyRange, VerifyAssumption DEF LateWait, Opening
<1> QED
  BY <1>1, <1>2, <1>3

(* A client that connects is not served yet, and is late unless the thread *)
(* is at accept.                                                           *)
LEMMA StepConnect ==
  ASSUME InductiveInv, NEW c \in Clients, Connect(c)
  PROVE  InductiveInv'
<1> USE DEF InductiveInv
<1>1. /\ client[c] = "away" /\ client' = [client EXCEPT ![c] = "queued"]
      /\ queue' = Append(queue, c) /\ queue \in Seq(Clients) /\ Len(queue) < Backlog
      /\ late' = (IF pc = "accept" THEN late ELSE late \cup {c})
      /\ UNCHANGED <<up, pc, sockets, lingers, httpUp>>
  BY DEF Connect, TypeOK
<1>2. /\ queue' \in Seq(Clients) /\ Len(queue') = Len(queue) + 1 /\ Len(queue) \in Nat
      /\ \A i \in 1..Len(queue) : queue'[i] = queue[i] /\ queue[i] \in Range(queue)
      /\ queue'[Len(queue) + 1] = c
      /\ Range(queue') = Range(queue) \cup {c}
  BY <1>1, QueueAppend
<1>3. pc \notin {"socket", "bind", "listen"}
  <2>1. PICK f \in Fds : fd[f] = "listener"
    BY DEF Connect, Listening
  <2> QED
    BY <2>1, VerifyAssumption DEF OneIsTheSocket, Opening
<1>4. TypeOK'
  BY <1>1, <1>2, VerifyAssumption DEF TypeOK, sockets
<1>5. OneIsTheSocket'
  BY <1>1 DEF OneIsTheSocket, Opening, sockets
<1>6. LateWait'
  <2>1. c \notin Range(queue) /\ \A f \in Fds : fd[f] # c
    BY <1>1 DEF LateWait
  <2>2. \A d \in Clients : client'[d] = "away" => client[d] = "away" /\ d # c
    BY <1>1 DEF TypeOK
  <2>3. \A i, j \in 1..Len(queue') : i # j => queue'[i] # queue'[j]
    BY <1>2, <2>1 DEF LateWait
  <2>4. Range(queue) \subseteq Clients
    BY <1>1, RangeOfSeq
  <2> QED
    BY <1>1, <1>2, <1>3, <2>1, <2>2, <2>3, <2>4 DEF LateWait, Opening, sockets
<1> QED
  BY <1>4, <1>5, <1>6

LEMMA Stutter ==
  ASSUME InductiveInv, UNCHANGED vars
  PROVE  InductiveInv'
  BY DEF InductiveInv, TypeOK, OneIsTheSocket, LateWait, Opening, vars, sockets, network

LEMMA NextInductive == InductiveInv /\ [Next]_vars => InductiveInv'
<1> SUFFICES ASSUME InductiveInv, Next
             PROVE  InductiveInv'
  BY Stutter
<1>1. ASSUME OpenSocket \/ BindPort \/ ListenOn PROVE InductiveInv'
  BY <1>1, StepSocket, StepSocketFails, StepOnward, StepListen
  DEF OpenSocket, BindPort, ListenOn
<1>2. ASSUME AcceptClient PROVE InductiveInv'
  BY <1>2, StepAccept, StepAcceptFails DEF AcceptClient
<1>3. ASSUME Compress \/ Answer PROVE InductiveInv'
  BY <1>3, StepOnward, StepOfError, StepExit DEF Answer, SendKills
<1>4. ASSUME Reaccept \/ Kill \/ Start \/ LingerEnds PROVE InductiveInv'
  BY <1>4, StepReaccept, StepExit, StepOnward DEF Kill
<1>5. ASSUME NEW c \in Clients, Customer(c) PROVE InductiveInv'
  BY <1>5, StepConnect, StepTurn DEF Customer
<1> QED
  BY <1>1, <1>2, <1>3, <1>4, <1>5 DEF Next, Thread

THEOREM Inductive == Spec => []InductiveInv
  BY InitInductive, NextInductive, PTL DEF Spec

-----------------------------------------------------------------------------
(* What follows for every run of the service.                              *)

(* Every variable has its type, and what binds, listens and accepts is a   *)
(* socket.                                                                 *)
THEOREM TypeCorrect == Spec => []TypeOK
<1>1. InductiveInv => TypeOK
  BY DEF InductiveInv
<1> QED
  BY <1>1, Inductive, PTL

(* The two variables of the code name every descriptor in use, and the     *)
(* number a closed connection left behind is never that of the next        *)
(* socket: reacceptVerify closes what it should and no answer goes into    *)
(* the listener, whatever calls fail in whatever order.                    *)
THEOREM NoDescriptorLost == Spec => []DescriptorsOwned
<1>1. InductiveInv => DescriptorsOwned
  <2> SUFFICES ASSUME InductiveInv
               PROVE  DescriptorsOwned
    OBVIOUS
  <2>1. \A f \in Fds : fd[f] # "free" => f \in {sct_vrf, sct_vrf_new}
    BY DEF InductiveInv, OneIsTheSocket
  <2>2. sct_vrf_new \in Fds => fd[sct_vrf_new] \notin {"socket", "listener"}
    BY VerifyAssumption DEF InductiveInv, OneIsTheSocket
  <2>3. sct_vrf \in Fds => fd[sct_vrf] \notin Clients
    BY VerifyAssumption, Numbers DEF InductiveInv, OneIsTheSocket
  <2> QED
    BY <2>1, <2>2, <2>3 DEF DescriptorsOwned
<1> QED
  BY <1>1, Inductive, PTL

(* Whoever connects behind the client that a listener accepted is never    *)
(* sent an answer before it connects again.                                *)
THEOREM OneClientAListener == Spec => []LateNeverServed
<1>1. InductiveInv => LateNeverServed
  <2> SUFFICES ASSUME InductiveInv, Peer \in late
               PROVE  FALSE
    BY DEF LateNeverServed
  <2>1. Peer \in Clients /\ Peer \in Range(queue)
    BY DEF InductiveInv, TypeOK, LateWait
  <2> QED
    BY <2>1, PeerServed
<1> QED
  BY <1>1, Inductive, PTL
=============================================================================
