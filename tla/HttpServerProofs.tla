-------------------------- MODULE HttpServerProofs --------------------------
(***************************************************************************)
(* Theorems about HttpServer: for any number of connections, of threads,   *)
(* of descriptors and of requests over one connection, requests are        *)
(* handled and answered in their order, a close is the last, a connection  *)
(* that ended without an error was answered in full, and every step is one *)
(* of ConnectionService, as a client sees it, or none.                     *)
(***************************************************************************)
EXTENDS HttpServer, SequenceTheorems, TLAPS

-----------------------------------------------------------------------------
(* The inductive invariant.                                                *)

(* A connection is in the backlog once, and has no session then.           *)
BacklogFresh ==
  /\ \A c \in Conns : client[c] = "idle" \/ c \in Range(backlog) => server[c] = "none"
  /\ \A c \in Conns : client[c] = "idle" => c \notin Range(backlog)
  /\ \A i, j \in 1..Len(backlog) : i # j => backlog[i] # backlog[j]

(* How far the request that is read, the one that is handled and the       *)
(* response that is written may be apart, by what the session does: the    *)
(* three counts are one only between two requests.                         *)
InStage(c) ==
  LET t == taken[c]
      h == Len(handled[c])
      w == Len(written[c])
  IN  /\ server[c] \in {"none", "created"} => t = 0 /\ req[c] = 0 /\ h = 0 /\ w = 0
      /\ server[c] = "reading" => req[c] = 0 /\ h = t /\ w = t
      /\ server[c] = "handling" => t > 0 /\ req[c] = t /\ h = t - 1 /\ w = t - 1
      /\ server[c] = "writing" => t > 0 /\ req[c] = t /\ h = t /\ w = t - 1
      /\ server[c] = "closed" => h = t /\ w = t
      /\ w <= h /\ h <= w + 1 /\ h <= t

(* What was read was sent, the client has got no more than was written,    *)
(* and there are at most MaxRequests of each.                              *)
InBounds(c) ==
  /\ taken[c] <= Len(sent[c]) /\ Len(sent[c]) <= MaxRequests
  /\ received[c] <= Len(written[c])

(* Requests are handled and answered by their numbers.                     *)
ByNumber(c) ==
  /\ \A i \in 1..Len(handled[c]) : handled[c][i] = i
  /\ \A i \in 1..Len(written[c]) : written[c][i] = i

(* A request to close that was read is the last that was, and the session  *)
(* does not read behind it; one that closed was such a request, or the     *)
(* client had ended and every request was read.                            *)
CloseEnds(c) ==
  /\ \A i \in 1..taken[c] : sent[c][i].close => i = taken[c] /\ server[c] # "reading"
  /\ server[c] = "closed" =>
       taken[c] = Len(sent[c]) \/ (taken[c] > 0 /\ sent[c][taken[c]].close)

Connection(c) == InStage(c) /\ InBounds(c) /\ ByNumber(c) /\ CloseEnds(c)

InductiveInv ==
  /\ TypeOK /\ sent \in [Conns -> Seq(Request)]
  /\ BacklogFresh
  /\ \A c \in Conns : Connection(c)

-----------------------------------------------------------------------------
(* What the answers of HttpResponse have in common.                        *)

(* A response keeps the connection exactly when the request did not ask to *)
(* close it, whatever the answer is.                                       *)
LEMMA ResponsesFollowRequest ==
  ASSUME NEW r \in Request
  PROVE  /\ handle_request(r) # {}
         /\ \A res \in handle_request(r) : need_eof(res) <=> r.close
<1>1. \A st : Reply(r, st).keep_alive = ~r.close
  BY DEF Reply
<1>2. /\ \A st : Refusal(r, st).keep_alive = ~r.close
      /\ FileReply(r).keep_alive = ~r.close
      /\ OptionsReply(r).keep_alive = ~r.close
      /\ \A res \in ApiReplies(r) : res.keep_alive = ~r.close
  BY <1>1 DEF Refusal, FileReply, OptionsReply, ApiReplies
<1>3. OpenFile(r).keep_alive = ~r.close
  BY <1>2 DEF OpenFile
<1>4. \A res \in handle_request(r) : res.keep_alive = ~r.close
  BY <1>2, <1>3 DEF handle_request
<1>5. Refusal(r, 400) \in ApiReplies(r)
  BY DEF ApiReplies
<1>6. handle_request(r) # {}
  BY <1>5 DEF handle_request
<1>7. r.close \in BOOLEAN
  BY DEF Request
<1> QED
  BY <1>4, <1>6, <1>7 DEF need_eof

-----------------------------------------------------------------------------
(* What the steps of the proof have in common.                             *)

(* A number appended to the numbers before it.                             *)
LEMMA AppendNumber ==
  ASSUME NEW S, NEW s \in Seq(S), \A i \in 1..Len(s) : s[i] = i, NEW n \in S,
         n = Len(s) + 1
  PROVE  /\ Append(s, n) \in Seq(S)
         /\ Len(Append(s, n)) = Len(s) + 1
         /\ \A i \in 1..Len(Append(s, n)) : Append(s, n)[i] = i
<1>1. /\ Append(s, n) \in Seq(S)
      /\ Len(Append(s, n)) = Len(s) + 1
      /\ \A i \in 1..Len(s) : Append(s, n)[i] = s[i]
      /\ Append(s, n)[Len(s) + 1] = n
  BY AppendProperties
<1>2. Len(s) \in Nat
  BY LenProperties
<1> QED
  BY <1>1, <1>2

(* What a queue has in it when one is put in, and when one is taken out.   *)
LEMMA RangeAppend ==
  ASSUME NEW S, NEW s \in Seq(S), NEW e \in S
  PROVE  Range(Append(s, e)) = Range(s) \cup {e}
<1>1. /\ Append(s, e) \in Seq(S) /\ Len(Append(s, e)) = Len(s) + 1
      /\ \A i \in 1..Len(s) : Append(s, e)[i] = s[i]
      /\ Append(s, e)[Len(s) + 1] = e
  BY AppendProperties
<1>2. /\ Len(s) \in Nat /\ DOMAIN s = 1..Len(s)
      /\ DOMAIN Append(s, e) = 1..(Len(s) + 1)
  BY <1>1, LenProperties
<1>3. ASSUME NEW x \in Range(Append(s, e))
      PROVE  x \in Range(s) \cup {e}
  <2>1. PICK i \in 1..(Len(s) + 1) : x = Append(s, e)[i]
    BY <1>2 DEF Range
  <2>2. i \in 1..Len(s) \/ i = Len(s) + 1
    BY <1>2
  <2> QED
    BY <1>1, <1>2, <2>1, <2>2 DEF Range
<1>4. ASSUME NEW x \in Range(s) \cup {e}
      PROVE  x \in Range(Append(s, e))
  <2>1. CASE x = e
    <3>1. Len(s) + 1 \in DOMAIN Append(s, e)
      BY <1>2
    <3> QED
      BY <1>1, <2>1, <3>1 DEF Range
  <2>2. CASE x \in Range(s)
    <3>1. PICK i \in 1..Len(s) : x = s[i]
      BY <1>2, <2>2 DEF Range
    <3>2. i \in DOMAIN Append(s, e)
      BY <1>2
    <3> QED
      BY <1>1, <3>1, <3>2 DEF Range
  <2> QED
    BY <2>1, <2>2
<1> QED
  BY <1>3, <1>4

LEMMA QueueTail ==
  ASSUME NEW S, NEW s \in Seq(S), s # << >>
  PROVE  /\ Head(s) \in S /\ Head(s) \in Range(s) /\ Head(s) = s[1]
         /\ Tail(s) \in Seq(S) /\ Range(Tail(s)) \subseteq Range(s)
         /\ Len(s) \in Nat \ {0} /\ Len(Tail(s)) = Len(s) - 1
         /\ \A i \in 1..Len(Tail(s)) : Tail(s)[i] = s[i + 1]
<1>1. /\ Len(s) \in Nat \ {0} /\ DOMAIN s = 1..Len(s)
  BY LenProperties, EmptySeq
<1>2. /\ Head(s) \in S /\ Head(s) = s[1] /\ Tail(s) \in Seq(S)
      /\ Len(Tail(s)) = Len(s) - 1
      /\ \A i \in 1..Len(Tail(s)) : Tail(s)[i] = s[i + 1]
  BY <1>1, HeadTailProperties
<1>3. DOMAIN Tail(s) = 1..Len(Tail(s))
  BY <1>2, LenProperties
<1>4. Head(s) \in Range(s)
  <2>1. 1 \in DOMAIN s
    BY <1>1
  <2> QED
    BY <1>2, <2>1 DEF Range
<1>5. ASSUME NEW x \in Range(Tail(s))
      PROVE  x \in Range(s)
  <2>1. PICK i \in 1..Len(Tail(s)) : x = Tail(s)[i]
    BY <1>3 DEF Range
  <2>2. x = s[i + 1] /\ i + 1 \in DOMAIN s
    BY <1>1, <1>2, <2>1
  <2> QED
    BY <2>2 DEF Range
<1> QED
  BY <1>1, <1>2, <1>4, <1>5

(* The counts of a connection are numbers.                                 *)
LEMMA Counts ==
  ASSUME TypeOK, sent \in [Conns -> Seq(Request)], NEW c \in Conns
  PROVE  /\ taken[c] \in Nat /\ req[c] \in Nat /\ received[c] \in Nat
         /\ Len(handled[c]) \in Nat /\ Len(written[c]) \in Nat
         /\ Len(sent[c]) \in Nat
  BY LenProperties, ServerAssumption DEF TypeOK

(* What a step does not touch of a connection stays as it was.             *)
LEMMA Untouched ==
  ASSUME NEW d \in Conns, Connection(d),
         server'[d] = server[d], taken'[d] = taken[d], req'[d] = req[d],
         sent'[d] = sent[d], handled'[d] = handled[d],
         written'[d] = written[d], received'[d] = received[d]
  PROVE  Connection(d)'
  BY DEF Connection, InStage, InBounds, ByNumber, CloseEnds

(* Neither a step that leaves the backlog alone.                           *)
LEMMA BacklogKept ==
  ASSUME BacklogFresh, backlog' = backlog,
         \A c \in Conns : client'[c] = "idle" => client[c] = "idle",
         \A c \in Conns : server[c] = "none" => server'[c] = "none"
  PROVE  BacklogFresh'
  BY DEF BacklogFresh

-----------------------------------------------------------------------------
(* The initial states, and each action.                                    *)

LEMMA InitInductive == Init => InductiveInv
<1> SUFFICES ASSUME Init PROVE InductiveInv
  OBVIOUS
<1>1. \A S : << >> \in Seq(S) /\ Len(<< >>) = 0
  BY EmptySeq
<1>2. TypeOK /\ sent \in [Conns -> Seq(Request)]
  BY <1>1, ServerAssumption DEF Init, TypeOK, Live, Over
<1>3. BacklogFresh
  BY DEF Init, BacklogFresh, Range
<1>4. \A c \in Conns : Connection(c)
  BY ServerAssumption DEF Init, Connection, InStage, InBounds, ByNumber, CloseEnds
<1> QED
  BY <1>2, <1>3, <1>4 DEF InductiveInv

LEMMA StepConnect ==
  ASSUME InductiveInv, NEW c \in Conns, Connect(c)
  PROVE  InductiveInv'
<1> USE DEF InductiveInv
<1>1. TypeOK' /\ (sent \in [Conns -> Seq(Request)])'
  BY DEF Connect, streams, TypeOK
<1>2. \A d \in Conns : Connection(d)'
  BY Untouched DEF Connect, streams
<1>3. BacklogFresh'
  <2>1. /\ server[c] = "none" /\ c \notin Range(backlog) /\ server' = server
        /\ backlog' = Append(backlog, c) /\ client' = [client EXCEPT ![c] = "open"]
    BY DEF Connect, BacklogFresh
  <2>2. /\ Len(backlog') = Len(backlog) + 1 /\ Len(backlog) \in Nat
        /\ \A i \in 1..Len(backlog) : backlog'[i] = backlog[i]
        /\ backlog'[Len(backlog) + 1] = c
    BY <2>1, AppendProperties, LenProperties DEF TypeOK
  <2>3. /\ backlog \in Seq(Conns) /\ backlog' \in Seq(Conns)
        /\ DOMAIN backlog = 1..Len(backlog)
        /\ DOMAIN backlog' = 1..(Len(backlog) + 1)
    BY <1>1, <2>2, LenProperties DEF TypeOK
  <2>4. Range(backlog') = Range(backlog) \cup {c}
    BY <2>1, RangeAppend DEF TypeOK
  <2>5. \A i \in 1..Len(backlog) : backlog[i] # c
    BY <2>1, <2>3 DEF Range
  <2>6. \A d \in Conns : /\ server'[d] = server[d]
                         /\ client'[d] = "idle" => client[d] = "idle" /\ d # c
    BY <2>1 DEF TypeOK
  <2>7. \A i, j \in 1..Len(backlog') : i # j => backlog'[i] # backlog'[j]
    BY <2>2, <2>5 DEF BacklogFresh
  <2> QED
    BY <2>1, <2>4, <2>6, <2>7 DEF BacklogFresh
<1> QED
  BY <1>1, <1>2, <1>3

LEMMA StepSendRequest ==
  ASSUME InductiveInv, NEW c \in Conns, NEW r \in Requests[c], SendRequest(c, r)
  PROVE  InductiveInv'
<1> USE DEF InductiveInv
<1>0. r \in Request
  BY ServerAssumption
<1>1. /\ sent' = [sent EXCEPT ![c] = Append(sent[c], r)]
      /\ sent[c] \in Seq(Request) /\ sent[c] \in Seq(Requests[c])
      /\ Append(sent[c], r) \in Seq(Request) /\ Append(sent[c], r) \in Seq(Requests[c])
      /\ Len(Append(sent[c], r)) = Len(sent[c]) + 1
      /\ \A i \in 1..Len(sent[c]) : Append(sent[c], r)[i] = sent[c][i]
  BY <1>0, AppendProperties DEF SendRequest, TypeOK
<1>2. TypeOK' /\ (sent \in [Conns -> Seq(Request)])'
  BY <1>1 DEF SendRequest, links, TypeOK
<1>3. BacklogFresh'
  BY BacklogKept DEF SendRequest, links
<1>4. ASSUME NEW d \in Conns
      PROVE  Connection(d)'
  <2>1. CASE d # c
    BY <1>1, <2>1, Untouched DEF SendRequest, TypeOK
  <2>2. CASE d = c
    <3>1. sent'[c] = Append(sent[c], r)
      BY <1>1
    <3>2. Connection(c) /\ server[c] # "closed" /\ Len(sent[c]) < MaxRequests
      BY DEF SendRequest, Over
    <3> QED
      BY <1>1, <2>2, <3>1, <3>2, Counts, ServerAssumption
      DEF SendRequest, Connection, InStage, InBounds, ByNumber, CloseEnds
  <2> QED
    BY <2>1, <2>2
<1> QED
  BY <1>2, <1>3, <1>4

LEMMA StepReceiveResponse ==
  ASSUME InductiveInv, NEW c \in Conns, ReceiveResponse(c)
  PROVE  InductiveInv'
<1> USE DEF InductiveInv
<1>1. Len(written[c]) <= MaxRequests
  <2>1. /\ Len(written[c]) <= Len(handled[c]) /\ Len(handled[c]) <= taken[c]
        /\ taken[c] <= Len(sent[c]) /\ Len(sent[c]) <= MaxRequests
    BY DEF Connection, InStage, InBounds
  <2> QED
    BY <2>1, Counts, ServerAssumption
<1>2. /\ received' = [received EXCEPT ![c] = received[c] + 1]
      /\ received[c] < Len(written[c])
      /\ received[c] + 1 \in 0..MaxRequests
  BY <1>1, Counts, ServerAssumption DEF ReceiveResponse
<1>3. TypeOK' /\ (sent \in [Conns -> Seq(Request)])'
  BY <1>2 DEF ReceiveResponse, links, TypeOK
<1>4. BacklogFresh'
  BY BacklogKept DEF ReceiveResponse, links
<1>5. ASSUME NEW d \in Conns
      PROVE  Connection(d)'
  <2>1. CASE d # c
    BY <1>2, <2>1, Untouched DEF ReceiveResponse, TypeOK
  <2>2. CASE d = c
    BY <1>2, <2>2, Counts
    DEF ReceiveResponse, TypeOK, Connection, InStage, InBounds, ByNumber, CloseEnds
  <2> QED
    BY <2>1, <2>2
<1> QED
  BY <1>3, <1>4, <1>5

(* A client that finishes, is reset, or whose timer expires: no stream of  *)
(* the connection changes.                                                 *)
LEMMA StepTurn ==
  ASSUME InductiveInv, NEW c \in Conns,
         FinishSending(c) \/ Reset(c) \/ Expire(c)
  PROVE  InductiveInv'
<1> USE DEF InductiveInv, FinishSending, Reset, Expire
<1>1. TypeOK' /\ (sent \in [Conns -> Seq(Request)])'
  BY DEF links, streams, TypeOK, Live
<1>2. BacklogFresh'
  BY BacklogKept DEF links, TypeOK
<1>3. \A d \in Conns : Connection(d)'
  BY Untouched DEF streams
<1> QED
  BY <1>1, <1>2, <1>3

LEMMA StepAccept ==
  ASSUME InductiveInv, Accept
  PROVE  InductiveInv'
<1> USE DEF InductiveInv
<1> DEFINE c == Head(backlog)
<1>1. /\ backlog \in Seq(Conns) /\ backlog # << >>
      /\ server' = [server EXCEPT ![c] = "created"]
      /\ backlog' = Tail(backlog)
      /\ client' = client /\ timer' = timer /\ UNCHANGED streams
      /\ up' = up /\ listening' = listening /\ acceptor' = acceptor
  BY DEF Accept, TypeOK
<1>2. /\ c \in Conns /\ c \in Range(backlog) /\ c = backlog[1]
      /\ backlog' \in Seq(Conns) /\ Range(backlog') \subseteq Range(backlog)
      /\ Len(backlog) \in Nat \ {0} /\ Len(backlog') = Len(backlog) - 1
      /\ \A i \in 1..Len(backlog') : backlog'[i] = backlog[i + 1]
  BY <1>1, QueueTail
<1> HIDE DEF c
<1>3. server[c] = "none"
  BY <1>2 DEF BacklogFresh
<1>4. TypeOK' /\ (sent \in [Conns -> Seq(Request)])'
  BY <1>1, <1>2 DEF streams, TypeOK, Live
<1>5. BacklogFresh'
  <2>0. /\ \A i \in 1..Len(backlog') : i + 1 \in 1..Len(backlog) /\ i + 1 # 1
        /\ 1 \in 1..Len(backlog)
        /\ \A i, j \in 1..Len(backlog') : i # j => i + 1 # j + 1
    BY <1>2
  <2>1. ASSUME NEW i \in 1..Len(backlog')
        PROVE  backlog'[i] # c
    <3>1. i + 1 \in 1..Len(backlog) /\ 1 \in 1..Len(backlog) /\ i + 1 # 1
      BY ONLY <2>0, <2>1
    <3>2. backlog[i + 1] # backlog[1]
      BY ONLY <3>1, BacklogFresh, Zenon DEF BacklogFresh
    <3>3. backlog'[i] = backlog[i + 1]
      BY ONLY <1>2, <2>1
    <3> QED
      BY ONLY <1>2, <3>2, <3>3
  <2>2. c \notin Range(backlog')
    BY <1>2, <2>1, LenProperties DEF Range
  <2>3. \A i, j \in 1..Len(backlog') : i # j => backlog'[i] # backlog'[j]
    <3> SUFFICES ASSUME NEW i \in 1..Len(backlog'), NEW j \in 1..Len(backlog'), i # j
                 PROVE  backlog'[i] # backlog'[j]
      OBVIOUS
    <3>1. i + 1 \in 1..Len(backlog) /\ j + 1 \in 1..Len(backlog) /\ i + 1 # j + 1
      BY <2>0
    <3>2. backlog[i + 1] # backlog[j + 1]
      BY <3>1 DEF BacklogFresh
    <3> QED
      BY <1>2, <3>2
  <2>4. \A d \in Conns \ {c} : server'[d] = server[d]
    BY <1>1, <1>2 DEF TypeOK
  <2>5. client[c] # "idle"
    BY <1>2 DEF BacklogFresh
  <2> QED
    BY <1>1, <1>2, <2>2, <2>3, <2>4, <2>5 DEF BacklogFresh
<1>6. ASSUME NEW d \in Conns
      PROVE  Connection(d)'
  <2>1. CASE d # c
    BY <1>1, <1>2, <2>1, Untouched DEF streams, TypeOK
  <2>2. CASE d = c
    <3>1. server'[c] = "created"
      BY <1>1, <1>2 DEF TypeOK
    <3> QED
      BY <1>1, <1>2, <1>3, <2>2, <3>1
      DEF streams, Connection, InStage, InBounds, ByNumber, CloseEnds
  <2> QED
    BY <2>1, <2>2
<1> QED
  BY <1>4, <1>5, <1>6

(* The listener's error, its next try, and the start of the process.       *)
LEMMA StepAside ==
  ASSUME InductiveInv, AcceptFails \/ AcceptAgain \/ Start
  PROVE  InductiveInv'
<1> USE DEF InductiveInv, AcceptFails, AcceptAgain, Start
<1>1. TypeOK' /\ (sent \in [Conns -> Seq(Request)])'
  BY DEF streams, TypeOK
<1>2. BacklogFresh'
  BY BacklogKept
<1>3. \A d \in Conns : Connection(d)'
  BY Untouched DEF streams
<1> QED
  BY <1>1, <1>2, <1>3

(* A step of one session: its connection has to be looked at, and nothing  *)
(* else.                                                                   *)
LEMMA OneSession ==
  ASSUME InductiveInv, NEW c \in Conns, NEW state \in Live \cup Over,
         server[c] \in Live, server' = [server EXCEPT ![c] = state],
         UNCHANGED links,
         \A d \in Conns : client'[d] = "idle" => client[d] = "idle",
         TypeOK', (sent \in [Conns -> Seq(Request)])',
         \A d \in Conns \ {c} :
            /\ taken'[d] = taken[d] /\ req'[d] = req[d] /\ sent'[d] = sent[d]
            /\ handled'[d] = handled[d] /\ written'[d] = written[d]
            /\ received'[d] = received[d],
         Connection(c)'
  PROVE  InductiveInv'
<1> USE DEF InductiveInv
<1>1. server[c] # "none" /\ \A d \in Conns \ {c} : server'[d] = server[d]
  BY DEF TypeOK, Live
<1>2. BacklogFresh'
  BY <1>1, BacklogKept DEF links
<1>3. \A d \in Conns : Connection(d)'
  BY <1>1, Untouched
<1> QED
  BY <1>2, <1>3

LEMMA StepRun ==
  ASSUME InductiveInv, NEW c \in Conns, Run(c)
  PROVE  InductiveInv'
<1> USE DEF InductiveInv
<1>1. /\ server[c] = "created" /\ server' = [server EXCEPT ![c] = "reading"]
      /\ req' = [req EXCEPT ![c] = 0] /\ timer' = [timer EXCEPT ![c] = "running"]
      /\ UNCHANGED <<links, client, sent, taken, handled, written, received>>
  BY DEF Run, DoRead, Become
<1>2. TypeOK' /\ (sent \in [Conns -> Seq(Request)])'
  BY <1>1, ServerAssumption DEF TypeOK, Live, links
<1>3. server'[c] = "reading" /\ req'[c] = 0
  BY <1>1 DEF TypeOK
<1>4. Connection(c)'
  BY <1>1, <1>3, Counts DEF Connection, InStage, InBounds, ByNumber, CloseEnds
<1> QED
  BY <1>1, <1>2, <1>4, OneSession DEF TypeOK, Live

LEMMA StepOnRead ==
  ASSUME InductiveInv, NEW c \in Conns, OnRead(c)
  PROVE  InductiveInv'
<1> USE DEF InductiveInv
<1>1. /\ server[c] = "reading" /\ server' = [server EXCEPT ![c] = "handling"]
      /\ taken[c] < Len(sent[c])
      /\ taken' = [taken EXCEPT ![c] = taken[c] + 1]
      /\ req' = [req EXCEPT ![c] = taken[c] + 1]
      /\ UNCHANGED <<links, client, timer, sent, handled, written, received>>
  BY DEF OnRead, Take, HasNext, Become
<1>2. taken[c] + 1 \in 1..MaxRequests
  BY <1>1, Counts, ServerAssumption DEF Connection, InBounds
<1>3. TypeOK' /\ (sent \in [Conns -> Seq(Request)])'
  BY <1>1, <1>2 DEF TypeOK, Live, links
<1>4. /\ server'[c] = "handling"
      /\ taken'[c] = taken[c] + 1 /\ req'[c] = taken[c] + 1
  BY <1>1 DEF TypeOK
<1>5. Connection(c)'
  BY <1>1, <1>4, Counts DEF Connection, InStage, InBounds, ByNumber, CloseEnds
<1> QED
  BY <1>1, <1>3, <1>5, OneSession DEF TypeOK, Live

LEMMA StepHandle ==
  ASSUME InductiveInv, NEW c \in Conns, Handle(c)
  PROVE  InductiveInv'
<1> USE DEF InductiveInv
<1>1. /\ server[c] = "handling" /\ server' = [server EXCEPT ![c] = "writing"]
      /\ handled' = [handled EXCEPT ![c] = Append(handled[c], req[c])]
      /\ UNCHANGED <<links, client, timer, sent, taken, req, written, received>>
  BY DEF Handle, Become
<1>2. /\ handled[c] \in Seq(1..MaxRequests)
      /\ \A i \in 1..Len(handled[c]) : handled[c][i] = i
      /\ req[c] = Len(handled[c]) + 1 /\ req[c] \in 1..MaxRequests
  BY <1>1, Counts, ServerAssumption DEF TypeOK, Connection, InStage, ByNumber
<1>3. /\ Append(handled[c], req[c]) \in Seq(1..MaxRequests)
      /\ Len(Append(handled[c], req[c])) = Len(handled[c]) + 1
      /\ \A i \in 1..Len(Append(handled[c], req[c])) : Append(handled[c], req[c])[i] = i
  BY <1>2, AppendNumber
<1>4. TypeOK' /\ (sent \in [Conns -> Seq(Request)])'
  BY <1>1, <1>3 DEF TypeOK, Live, links
<1>5. server'[c] = "writing" /\ handled'[c] = Append(handled[c], req[c])
  BY <1>1 DEF TypeOK
<1>6. Connection(c)'
  BY <1>1, <1>3, <1>5, Counts DEF Connection, InStage, InBounds, ByNumber, CloseEnds
<1> QED
  BY <1>1, <1>4, <1>6, OneSession DEF TypeOK, Live

(* The end of a reading session leaves every request it read answered.     *)
LEMMA StepEndReading ==
  ASSUME InductiveInv, NEW c \in Conns, OnReadEnd(c) \/ OnReadError(c)
  PROVE  InductiveInv'
<1> USE DEF InductiveInv
<1>1. PICK state \in {"closed", "failed"} :
        /\ server[c] = "reading" /\ End(c, state) /\ UNCHANGED <<links, streams>>
        /\ state = "closed" => ~HasNext(c)
  BY DEF OnReadEnd, OnReadError
<1>2. /\ server' = [server EXCEPT ![c] = state]
      /\ timer' = [timer EXCEPT ![c] = "off"]
      /\ client' = client \/ client' = [client EXCEPT ![c] = "reset"]
  BY <1>1 DEF End, Become
<1>3. TypeOK' /\ (sent \in [Conns -> Seq(Request)])'
  BY <1>1, <1>2 DEF TypeOK, Live, Over, links, streams
<1>4. server'[c] = state
  BY <1>2 DEF TypeOK
<1>5. Connection(c)'
  BY <1>1, <1>4, Counts
  DEF HasNext, streams, Connection, InStage, InBounds, ByNumber, CloseEnds
<1>6. \A d \in Conns : client'[d] = "idle" => client[d] = "idle"
  BY <1>2 DEF TypeOK
<1>7. server[c] \in Live /\ state \in Live \cup Over
  BY <1>1 DEF Live, Over
<1> QED
  BY <1>1, <1>2, <1>3, <1>5, <1>6, <1>7, OneSession DEF streams

(* A request that asked to close ends the session when its response is     *)
(* written; after any other the session reads on.                          *)
LEMMA StepOnWrite ==
  ASSUME InductiveInv, NEW c \in Conns, OnWrite(c)
  PROVE  InductiveInv'
<1> USE DEF InductiveInv
<1>1. /\ server[c] = "writing"
      /\ written' = [written EXCEPT ![c] = Append(written[c], req[c])]
      /\ UNCHANGED <<links, sent, taken, handled, received>>
      /\ AfterWrite(c)
  BY DEF OnWrite, Write
<1>2. /\ written[c] \in Seq(1..MaxRequests)
      /\ \A i \in 1..Len(written[c]) : written[c][i] = i
      /\ req[c] = Len(written[c]) + 1 /\ req[c] \in 1..MaxRequests
      /\ req[c] = taken[c] /\ req[c] \in 1..Len(sent[c])
  BY <1>1, Counts, ServerAssumption DEF TypeOK, Connection, InStage, InBounds, ByNumber
<1>3. /\ Append(written[c], req[c]) \in Seq(1..MaxRequests)
      /\ Len(Append(written[c], req[c])) = Len(written[c]) + 1
      /\ \A i \in 1..Len(Append(written[c], req[c])) : Append(written[c], req[c])[i] = i
  BY <1>2, AppendNumber
<1>4. Asked(c) \in Request /\ Asked(c) = sent[c][taken[c]]
  BY <1>2, ElementOfSeq DEF Asked
<1>5. (\A res \in handle_request(Asked(c)) : need_eof(res)) <=> sent[c][taken[c]].close
  BY <1>4, ResponsesFollowRequest
<1>6. written'[c] = Append(written[c], req[c])
  BY <1>1 DEF TypeOK
<1>7. CASE sent[c][taken[c]].close
  <2>1. End(c, "closed") /\ req' = req
    BY <1>1, <1>5, <1>7 DEF AfterWrite
  <2>2. /\ server' = [server EXCEPT ![c] = "closed"]
        /\ timer' = [timer EXCEPT ![c] = "off"]
        /\ client' = client \/ client' = [client EXCEPT ![c] = "reset"]
    BY <2>1 DEF End, Become
  <2>3. TypeOK' /\ (sent \in [Conns -> Seq(Request)])'
    BY <1>1, <1>3, <2>1, <2>2 DEF TypeOK, Live, Over, links
  <2>4. server'[c] = "closed"
    BY <2>2 DEF TypeOK
  <2>5. Connection(c)'
    BY <1>1, <1>2, <1>3, <1>6, <1>7, <2>1, <2>4, Counts
    DEF Connection, InStage, InBounds, ByNumber, CloseEnds
  <2>6. \A d \in Conns : client'[d] = "idle" => client[d] = "idle"
    BY <2>2 DEF TypeOK
  <2> QED
    BY <1>1, <2>1, <2>2, <2>3, <2>5, <2>6, OneSession DEF TypeOK, Live, Over
<1>8. CASE ~sent[c][taken[c]].close
  <2>1. DoRead(c) /\ client' = client
    BY <1>1, <1>5, <1>8 DEF AfterWrite
  <2>2. /\ server' = [server EXCEPT ![c] = "reading"]
        /\ timer' = [timer EXCEPT ![c] = "running"]
        /\ req' = [req EXCEPT ![c] = 0]
    BY <2>1 DEF DoRead, Become
  <2>3. TypeOK' /\ (sent \in [Conns -> Seq(Request)])'
    BY <1>1, <1>3, <2>1, <2>2, ServerAssumption DEF TypeOK, Live, Over, links
  <2>4. server'[c] = "reading" /\ req'[c] = 0
    BY <2>2 DEF TypeOK
  <2>5. Connection(c) /\ Len(written'[c]) = Len(written[c]) + 1
    BY <1>3, <1>6
  <2>6. InStage(c)'
    BY <1>1, <1>2, <2>5, <2>4, Counts DEF Connection, InStage
  <2>7. InBounds(c)'
    BY <1>1, <2>5, Counts DEF Connection, InBounds
  <2>8. ByNumber(c)'
    BY <1>1, <1>3, <1>6, <2>5 DEF Connection, ByNumber
  <2>9. CloseEnds(c)'
    BY <1>1, <1>2, <1>8, <2>5, <2>4 DEF Connection, CloseEnds
  <2>10. Connection(c)'
    BY <2>6, <2>7, <2>8, <2>9 DEF Connection
  <2> QED
    BY <1>1, <2>1, <2>2, <2>3, <2>10, OneSession DEF TypeOK, Live, Over
<1> QED
  BY <1>7, <1>8

(* A write that failed may have been made all the same, but only of the    *)
(* response that was next.                                                 *)
LEMMA StepOnWriteError ==
  ASSUME InductiveInv, NEW c \in Conns, OnWriteError(c)
  PROVE  InductiveInv'
<1> USE DEF InductiveInv
<1>1. /\ server[c] = "writing"
      /\ \/ written' = [written EXCEPT ![c] = Append(written[c], req[c])]
         \/ written' = written
      /\ UNCHANGED <<links, sent, taken, req, handled, received>>
      /\ server' = [server EXCEPT ![c] = "failed"]
      /\ timer' = [timer EXCEPT ![c] = "off"]
      /\ client' = client \/ client' = [client EXCEPT ![c] = "reset"]
  BY DEF OnWriteError, Write, End, Become
<1>2. /\ written[c] \in Seq(1..MaxRequests)
      /\ \A i \in 1..Len(written[c]) : written[c][i] = i
      /\ req[c] = Len(written[c]) + 1 /\ req[c] \in 1..MaxRequests
  BY <1>1, Counts, ServerAssumption DEF TypeOK, Connection, InStage, InBounds, ByNumber
<1>3. /\ Append(written[c], req[c]) \in Seq(1..MaxRequests)
      /\ Len(Append(written[c], req[c])) = Len(written[c]) + 1
      /\ \A i \in 1..Len(Append(written[c], req[c])) : Append(written[c], req[c])[i] = i
  BY <1>2, AppendNumber
<1>4. TypeOK' /\ (sent \in [Conns -> Seq(Request)])'
  <2>1. written' \in [Conns -> Seq(1..MaxRequests)]
    BY <1>1, <1>3 DEF TypeOK
  <2> QED
    BY <1>1, <2>1 DEF TypeOK, Live, Over, links
<1>5. /\ server'[c] = "failed"
      /\ \/ written'[c] = written[c]
         \/ written'[c] = Append(written[c], req[c])
      /\ \A d \in Conns \ {c} : written'[d] = written[d]
      /\ \A d \in Conns : client'[d] = "idle" => client[d] = "idle"
  BY <1>1 DEF TypeOK
<1>6. Connection(c)'
  <2>1. CASE written'[c] = written[c]
    BY <1>1, <1>5, <2>1, Counts DEF Connection, InStage, InBounds, ByNumber, CloseEnds
  <2>2. CASE written'[c] = Append(written[c], req[c])
    BY <1>1, <1>2, <1>3, <1>5, <2>2, Counts
    DEF Connection, InStage, InBounds, ByNumber, CloseEnds
  <2> QED
    BY <1>5, <2>1, <2>2
<1> QED
  BY <1>1, <1>4, <1>5, <1>6, OneSession DEF Live, Over

(* The end of the process fails every session, at whatever stage, and      *)
(* every connection that had none yet.                                     *)
LEMMA StepDown ==
  ASSUME InductiveInv, Down, UNCHANGED <<listening, handled>>
  PROVE  InductiveInv'
<1> USE DEF InductiveInv
<1>1. TypeOK' /\ (sent \in [Conns -> Seq(Request)])'
  BY EmptySeq DEF Down, TypeOK, Live, Over
<1>2. BacklogFresh'
  <2>1. backlog' = << >> /\ client' = client
    BY DEF Down
  <2>2. Range(backlog') = {} /\ Len(backlog') = 0
    BY <2>1, EmptySeq DEF Range
  <2>3. \A c \in Conns : client[c] = "idle" => server'[c] = "none"
    BY DEF Down, BacklogFresh, Live
  <2> QED
    BY <2>1, <2>2, <2>3 DEF BacklogFresh
<1>3. ASSUME NEW c \in Conns
      PROVE  Connection(c)'
  <2>1. /\ server'[c] = server[c] \/ server'[c] = "failed"
        /\ UNCHANGED <<sent, taken, req, handled, written, received>>
    BY DEF Down
  <2>2. CASE server'[c] = "failed"
    BY <2>1, <2>2, Counts DEF Connection, InStage, InBounds, ByNumber, CloseEnds
  <2> QED
    BY <2>1, <2>2, Untouched
<1> QED
  BY <1>1, <1>2, <1>3

LEMMA Stutter ==
  ASSUME InductiveInv, UNCHANGED vars
  PROVE  InductiveInv'
<1> USE DEF InductiveInv, vars, links, streams
<1>1. TypeOK' /\ (sent \in [Conns -> Seq(Request)])' /\ BacklogFresh'
  BY DEF TypeOK, BacklogFresh
<1>2. \A d \in Conns : Connection(d)'
  BY Untouched
<1> QED
  BY <1>1, <1>2

LEMMA NextInductive == InductiveInv /\ [Next]_vars => InductiveInv'
<1> SUFFICES ASSUME InductiveInv, Next
             PROVE  InductiveInv'
  BY Stutter
<1>1. ASSUME Clients PROVE InductiveInv'
  BY <1>1, StepConnect, StepReceiveResponse, StepTurn, StepSendRequest DEF Clients
<1>2. ASSUME Listener PROVE InductiveInv'
  BY <1>2, StepAccept, StepAside DEF Listener
<1>3. ASSUME NEW c \in Conns, Session(c) PROVE InductiveInv'
  BY <1>3, StepRun, StepOnRead, StepEndReading, StepHandle, StepOnWrite,
     StepOnWriteError DEF Session, Reading, Writing
<1>4. ASSUME NEW c \in Conns, Expire(c) PROVE InductiveInv'
  BY <1>4, StepTurn
<1>5. ASSUME NEW c \in Conns, HandleThrows(c) PROVE InductiveInv'
  BY <1>5, StepDown DEF HandleThrows
<1>6. ASSUME Stop PROVE InductiveInv'
  BY <1>6, StepDown DEF Stop
<1>7. ASSUME Start PROVE InductiveInv'
  BY <1>7, StepAside
<1> QED
  BY <1>1, <1>2, <1>3, <1>4, <1>5, <1>6, <1>7 DEF Next

THEOREM Inductive == Spec => []InductiveInv
  BY InitInductive, NextInductive, PTL DEF Spec

-----------------------------------------------------------------------------
(* What follows for every run of the server.                               *)

(* Every variable has its type, and a session that waits for its client    *)
(* does so with do_read's timer set.                                       *)
THEOREM TypeCorrect == Spec => []TypeOK
<1>1. InductiveInv => TypeOK
  BY DEF InductiveInv
<1> QED
  BY <1>1, Inductive, PTL

(* Requests are handled in the order they came, each at most once, and     *)
(* answered in that order, however many a client sends without waiting.    *)
THEOREM AnsweredInOrder == Spec => []InOrder
<1>1. ASSUME InductiveInv, NEW c \in Conns
      PROVE  /\ handled[c] = Ordinals(Len(handled[c]))
             /\ written[c] = Ordinals(Len(written[c]))
             /\ Len(handled[c]) - Len(written[c]) \in {0, 1}
             /\ server[c] = "reading" => Len(handled[c]) = Len(written[c])
  <2>1. /\ handled[c] \in Seq(1..MaxRequests) /\ written[c] \in Seq(1..MaxRequests)
        /\ InStage(c) /\ ByNumber(c)
        /\ TypeOK /\ sent \in [Conns -> Seq(Request)]
    BY <1>1 DEF InductiveInv, TypeOK, Connection
  <2>2. /\ DOMAIN handled[c] = 1..Len(handled[c]) /\ DOMAIN written[c] = 1..Len(written[c])
        /\ handled[c] \in [1..Len(handled[c]) -> 1..MaxRequests]
        /\ written[c] \in [1..Len(written[c]) -> 1..MaxRequests]
    BY <2>1, LenProperties
  <2>3. handled[c] = Ordinals(Len(handled[c])) /\ written[c] = Ordinals(Len(written[c]))
    BY <2>1, <2>2 DEF ByNumber, Ordinals
  <2> QED
    BY <2>1, <2>3, Counts DEF InStage
<1>2. InductiveInv => InOrder
  BY <1>1 DEF InOrder
<1> QED
  BY <1>2, Inductive, PTL

(* Nothing is handled on a connection after a request with Connection:     *)
(* close, though it may have been sent and have arrived before.            *)
THEOREM NothingAfterClose == Spec => []CloseIsLast
<1>1. ASSUME InductiveInv, NEW c \in Conns, NEW i \in 1..Len(handled[c]),
             sent[c][handled[c][i]].close
      PROVE  i = Len(handled[c])
  <2>1. /\ InStage(c) /\ ByNumber(c) /\ CloseEnds(c)
        /\ TypeOK /\ sent \in [Conns -> Seq(Request)]
    BY <1>1 DEF InductiveInv, Connection
  <2>2. handled[c][i] = i /\ i \in 1..taken[c]
    BY <2>1, Counts DEF InStage, ByNumber
  <2>3. i = taken[c]
    BY <1>1, <2>1, <2>2 DEF CloseEnds
  <2> QED
    BY <2>1, <2>3, Counts DEF InStage
<1>2. InductiveInv => CloseIsLast
  BY <1>1 DEF CloseIsLast
<1> QED
  BY <1>2, Inductive, PTL

(* A connection that ended without an error has a response to every        *)
(* request up to the one that closed it, or to all that were sent.         *)
THEOREM EndedInFull == Spec => []GracefulEnd
<1>1. ASSUME InductiveInv, NEW c \in Conns, server[c] = "closed"
      PROVE  LET n == Len(written[c])
             IN  /\ Len(handled[c]) = n
                 /\ n = Len(sent[c]) \/ (n > 0 /\ sent[c][n].close)
  BY <1>1 DEF InductiveInv, Connection, InStage, CloseEnds
<1>2. InductiveInv => GracefulEnd
  BY <1>1 DEF GracefulEnd
<1> QED
  BY <1>2, Inductive, PTL

-----------------------------------------------------------------------------
(* The refinement of ConnectionService.                                    *)

(* Nothing but requests is read: bytes that are none stay where they are.  *)
ReadsRequests == \A c \in Conns : \A i \in 1..taken[c] : sent[c][i].method # "garbled"

LEMMA ReadsKept ==
  ASSUME InductiveInv, ReadsRequests, [Next]_vars
  PROVE  ReadsRequests'
<1>1. CASE UNCHANGED <<sent, taken>>
  BY <1>1 DEF ReadsRequests
<1>2. ASSUME NEW c \in Conns, NEW r \in Requests[c], SendRequest(c, r)
      PROVE  ReadsRequests'
  <2>1. /\ sent' = [sent EXCEPT ![c] = Append(sent[c], r)] /\ taken' = taken
        /\ r \in Request /\ sent[c] \in Seq(Request)
    BY <1>2, ServerAssumption DEF SendRequest, InductiveInv
  <2>2. \A i \in 1..Len(sent[c]) : Append(sent[c], r)[i] = sent[c][i]
    BY <2>1, AppendProperties
  <2>3. taken[c] <= Len(sent[c]) /\ taken[c] \in Nat /\ Len(sent[c]) \in Nat
    BY Counts DEF InductiveInv, Connection, InBounds
  <2>4. \A i \in 1..taken[c] : sent'[c][i] = sent[c][i]
    BY <2>1, <2>2, <2>3 DEF InductiveInv
  <2>5. \A d \in Conns \ {c} : sent'[d] = sent[d]
    BY <2>1 DEF InductiveInv
  <2>6. ASSUME NEW d \in Conns, NEW i \in 1..taken[d]
        PROVE  sent'[d][i].method # "garbled"
    <3>1. sent'[d][i] = sent[d][i]
      BY <2>4, <2>5
    <3> QED
      BY <3>1 DEF ReadsRequests
  <2> QED
    BY <2>1, <2>6 DEF ReadsRequests
<1>3. ASSUME NEW c \in Conns, OnRead(c)
      PROVE  ReadsRequests'
  <2>1. /\ taken' = [taken EXCEPT ![c] = taken[c] + 1] /\ sent' = sent
        /\ sent[c][taken[c] + 1].method # "garbled"
    BY <1>3 DEF OnRead, Take, Upcoming
  <2>2. taken[c] \in Nat /\ taken'[c] = taken[c] + 1
    BY <2>1, Counts DEF InductiveInv, TypeOK
  <2>3. \A i \in 1..(taken[c] + 1) : i \in 1..taken[c] \/ i = taken[c] + 1
    BY <2>2
  <2>4. \A d \in Conns \ {c} : taken'[d] = taken[d]
    BY <2>1 DEF InductiveInv, TypeOK
  <2> QED
    BY <2>1, <2>2, <2>3, <2>4 DEF ReadsRequests
<1>4. CASE UNCHANGED vars
  BY <1>1, <1>4 DEF vars, streams
<1>5. CASE Next
  <2>1. \/ UNCHANGED <<sent, taken>>
        \/ \E c \in Conns : OnRead(c) \/ \E r \in Requests[c] : SendRequest(c, r)
    BY <1>5
    DEF Next, Clients, Listener, Session, Reading, Writing, streams, Connect,
        ReceiveResponse, FinishSending, Reset, Accept, AcceptFails, AcceptAgain, Run,
        OnReadEnd, OnReadError, Handle, OnWrite, OnWriteError, Expire, HandleThrows, Stop,
        Start, Down
  <2> QED
    BY <1>1, <1>2, <1>3, <2>1
<1> QED
  BY <1>4, <1>5

(* What was handled and what was written are the same numbers, or the last *)
(* one that was handled is still to be written.                            *)
LEMMA SameNumbers ==
  ASSUME InductiveInv, NEW c \in Conns
  PROVE  /\ Len(handled[c]) = Len(written[c]) => written[c] = handled[c]
         /\ Len(handled[c]) = Len(written[c]) + 1 =>
              Append(written[c], Len(handled[c])) = handled[c]
<1>1. /\ handled[c] \in Seq(Nat) /\ written[c] \in Seq(Nat)
      /\ \A i \in 1..Len(handled[c]) : handled[c][i] = i
      /\ \A i \in 1..Len(written[c]) : written[c][i] = i
  <2>1. /\ handled[c] \in Seq(1..MaxRequests) /\ written[c] \in Seq(1..MaxRequests)
    BY DEF InductiveInv, TypeOK
  <2>2. 1..MaxRequests \subseteq Nat
    BY ServerAssumption
  <2> QED
    BY <2>1, <2>2, SeqMonotonic DEF InductiveInv, Connection, ByNumber
<1>2. PICK h, w : h = handled[c] /\ w = written[c]
  OBVIOUS
<1>3. h \in Seq(Nat) /\ w \in Seq(Nat) /\ Len(h) \in Nat /\ Len(w) \in Nat
  BY <1>1, <1>2, LenProperties
<1>4. ASSUME Len(h) = Len(w) PROVE w = h
  BY <1>1, <1>2, <1>3, <1>4, SeqEqual
<1>5. ASSUME Len(h) = Len(w) + 1 PROVE Append(w, Len(h)) = h
  <2>1. PICK v : v = Append(w, Len(h))
    OBVIOUS
  <2>2. /\ v \in Seq(Nat) /\ Len(v) = Len(h)
        /\ \A i \in 1..Len(v) : v[i] = i
    BY <1>1, <1>2, <1>3, <1>5, <2>1, AppendNumber
  <2>3. v = h
    BY <1>1, <1>2, <1>3, <2>2, SeqEqual
  <2> QED
    BY <2>1, <2>3
<1> QED
  BY <1>2, <1>4, <1>5

(* How a connection stands, by what its session does.                      *)
LEMMA StandingOf ==
  ASSUME TypeOK, NEW c \in Conns
  PROVE  /\ Standing[c] = StateOf(server[c])
         /\ server[c] \notin Over <=> Standing[c] = "open"
         /\ Standing[c] = "ended" <=> server[c] = "closed"
         /\ Standing[c] = "lost" <=> server[c] = "failed"
  BY DEF Standing, StateOf, Over, Live, TypeOK

LEMMA StandingBecomes ==
  ASSUME TypeOK, NEW c \in Conns, NEW s, Become(c, s)
  PROVE  Standing' = [Standing EXCEPT ![c] = StateOf(s)]
<1>1. server' = [server EXCEPT ![c] = s] /\ DOMAIN server = Conns
  BY DEF Become, TypeOK
<1> QED
  BY <1>1 DEF Standing

(* Steps of a session that its client cannot tell.                         *)
LEMMA StandingKept ==
  ASSUME TypeOK, NEW c \in Conns, NEW s, Become(c, s),
         server[c] \notin Over, s \notin Over
  PROVE  Standing' = Standing
<1>1. StateOf(s) = "open"
  BY DEF StateOf, Over
<1>2. Standing' = [Standing EXCEPT ![c] = "open"] /\ Standing[c] = "open"
  BY <1>1, StandingBecomes, StandingOf
<1> QED
  BY <1>2 DEF Standing

Unseen == UNCHANGED <<client, sent, handled, written, Standing>>

LEMMA UnseenSteps ==
  ASSUME InductiveInv,
         \/ Listener \/ Start
         \/ \E c \in Conns : Run(c) \/ OnRead(c) \/ Expire(c) \/ ReceiveResponse(c)
  PROVE  Unseen
<1>1. CASE AcceptFails \/ AcceptAgain \/ Start
  BY <1>1 DEF AcceptFails, AcceptAgain, Start, streams, Unseen, Standing
<1>2. CASE \E c \in Conns : Expire(c) \/ ReceiveResponse(c)
  BY <1>2 DEF Expire, ReceiveResponse, streams, links, Unseen, Standing
<1>3. CASE Accept
  <2>1. backlog # << >> /\ backlog \in Seq(Conns)
    BY <1>3 DEF Accept, InductiveInv, TypeOK
  <2>2. Head(backlog) \in Conns /\ Head(backlog) \in Range(backlog)
    BY <2>1, QueueTail
  <2>3. server[Head(backlog)] = "none"
    BY <2>2 DEF InductiveInv, BacklogFresh
  <2>4. Become(Head(backlog), "created")
    BY <1>3 DEF Accept, Become
  <2>5. Standing' = Standing
    BY <2>2, <2>3, <2>4, StandingKept DEF InductiveInv, Over
  <2> QED
    BY <1>3, <2>5 DEF Accept, streams, Unseen
<1>4. ASSUME NEW c \in Conns, Run(c) \/ OnRead(c)
      PROVE  Unseen
  <2>1. \E s \in {"reading", "handling"} : Become(c, s)
    BY <1>4 DEF Run, DoRead, OnRead, Take
  <2>2. server[c] \notin Over
    BY <1>4 DEF Run, OnRead, Over
  <2>3. Standing' = Standing
    BY <2>1, <2>2, StandingKept DEF InductiveInv, Over
  <2> QED
    BY <1>4, <2>3 DEF Run, OnRead, Take, Unseen
<1> QED
  BY <1>1, <1>2, <1>3, <1>4 DEF Listener

(* Steps of the client.                                                    *)
LEMMA ClientSteps ==
  ASSUME InductiveInv, NEW c \in Conns,
         \/ Connect(c) \/ FinishSending(c) \/ Reset(c)
         \/ \E r \in Requests[c] : SendRequest(c, r)
  PROVE  Service!Next
<1>1. CASE Connect(c) \/ FinishSending(c) \/ Reset(c)
  <2>1. PICK to \in {"open", "finished", "reset"} :
          /\ <<client[c], to>> \in Service!Turns
          /\ client' = [client EXCEPT ![c] = to]
    BY <1>1 DEF Connect, FinishSending, Reset, Service!Turns
  <2>2. UNCHANGED <<sent, handled, written, Standing>>
    BY <1>1 DEF Connect, FinishSending, Reset, streams, Standing
  <2>3. Service!Turn(c, to)
    BY <2>1, <2>2 DEF Service!Turn
  <2> QED
    BY <2>3 DEF Service!Next
<1>2. ASSUME NEW r \in Requests[c], SendRequest(c, r)
      PROVE  Service!Next
  <2>1. r \in Request
    BY ServerAssumption
  <2>2. /\ client[c] = "open" /\ server[c] \notin Over
        /\ sent' = [sent EXCEPT ![c] = Append(@, r)]
        /\ UNCHANGED <<client, handled, written, Standing>>
    BY <1>2 DEF SendRequest, Standing
  <2>3. Standing[c] = "open"
    BY <2>2, StandingOf DEF InductiveInv
  <2>4. Service!Ask(c, r)
    BY <2>2, <2>3 DEF Service!Ask
  <2> QED
    BY <2>1, <2>4 DEF Service!Next
<1> QED
  BY <1>1, <1>2

(* Handling a request is the moment it is done.                            *)
LEMMA HandleDoes ==
  ASSUME InductiveInv, ReadsRequests, NEW c \in Conns, Handle(c)
  PROVE  Service!Next
<1>1. /\ server[c] = "handling" /\ Become(c, "writing")
      /\ handled' = [handled EXCEPT ![c] = Append(@, req[c])]
      /\ UNCHANGED <<client, sent, written>>
  BY DEF Handle
<1>2. /\ taken[c] \in Nat /\ taken[c] > 0 /\ req[c] = taken[c]
      /\ Len(handled[c]) = taken[c] - 1 /\ Len(written[c]) = taken[c] - 1
      /\ taken[c] <= Len(sent[c])
      /\ \A i \in 1..taken[c] : sent[c][i].close => i = taken[c]
  BY <1>1, Counts DEF InductiveInv, Connection, InStage, InBounds, CloseEnds
<1>3. Standing' = Standing /\ Standing[c] = "open"
  BY <1>1, StandingKept, StandingOf DEF InductiveInv, Over
<1>4. written[c] = handled[c] /\ Len(handled[c]) + 1 = taken[c]
  BY <1>2, SameNumbers
<1>5. taken[c] \in 1..taken[c] /\ \A i \in 1..Len(handled[c]) : i \in 1..taken[c] /\ i # taken[c]
  BY <1>2
<1>6. sent[c][taken[c]].method # "garbled" /\ \A i \in 1..Len(handled[c]) : ~sent[c][i].close
  BY <1>2, <1>5 DEF ReadsRequests
<1>7. Service!Do(c)
  BY <1>1, <1>2, <1>3, <1>4, <1>6 DEF Service!Do
<1> QED
  BY <1>7 DEF Service!Next

(* A response that is written is the answer, with or without an error.     *)
LEMMA WrittenAnswers ==
  ASSUME InductiveInv, NEW c \in Conns, server[c] = "writing",
         written' = [written EXCEPT ![c] = Append(@, req[c])]
  PROVE  written' = [written EXCEPT ![c] = handled[c]]
<1>1. /\ req[c] = Len(handled[c]) /\ Len(handled[c]) = Len(written[c]) + 1
  BY Counts DEF InductiveInv, Connection, InStage
<1>2. Append(written[c], req[c]) = handled[c]
  BY <1>1, SameNumbers
<1> QED
  BY <1>2

(* The end of a session leaves its client, or resets it.                   *)
LEMMA EndLeaves ==
  ASSUME InductiveInv, NEW c \in Conns, NEW s, End(c, s),
         server[c] \in {"reading", "writing"}
  PROVE  Service!Gone(c)
<1>1. Len(handled[c]) = taken[c]
  BY Counts DEF InductiveInv, Connection, InStage
<1> QED
  BY <1>1 DEF End, Service!Gone

LEMMA WriteAnswers ==
  ASSUME InductiveInv, NEW c \in Conns, OnWrite(c)
  PROVE  Service!Next
<1>1. /\ server[c] = "writing" /\ UNCHANGED <<sent, handled>>
      /\ written' = [written EXCEPT ![c] = Append(@, req[c])]
      /\ AfterWrite(c)
  BY DEF OnWrite, Write
<1>2. written' = [written EXCEPT ![c] = handled[c]]
  BY <1>1, WrittenAnswers
<1>3. /\ taken[c] \in Nat /\ taken[c] > 0 /\ req[c] = taken[c] /\ Len(handled[c]) = taken[c]
      /\ Len(written[c]) = taken[c] - 1 /\ taken[c] <= Len(sent[c]) /\ Len(sent[c]) \in Nat
  BY <1>1, Counts DEF InductiveInv, Connection, InStage, InBounds
<1>4. Asked(c) = sent[c][Len(handled[c])] /\ Asked(c) \in Request
  <2>1. taken[c] \in 1..Len(sent[c])
    BY <1>3
  <2>2. sent[c] \in Seq(Request)
    BY DEF InductiveInv
  <2>3. sent[c][taken[c]] \in Request
    BY <2>1, <2>2, ElementOfSeq
  <2> QED
    BY <1>3, <2>3 DEF Asked
<1>5. (\A res \in handle_request(Asked(c)) : need_eof(res)) <=> Asked(c).close
  BY <1>4, ResponsesFollowRequest
<1>6. Standing[c] = "open" /\ Len(written[c]) < Len(handled[c])
  BY <1>1, <1>3, StandingOf DEF InductiveInv, Over
<1>7. CASE Asked(c).close
  <2>1. End(c, "closed")
    BY <1>1, <1>5, <1>7 DEF AfterWrite
  <2>2. Standing' = [Standing EXCEPT ![c] = "ended"]
    BY <2>1, StandingBecomes DEF End, StateOf, InductiveInv
  <2>3. Service!Gone(c)
    BY <1>1, <2>1, EndLeaves
  <2>4. Service!Answer(c)
    BY <1>1, <1>2, <1>4, <1>6, <1>7, <2>2, <2>3 DEF Service!Answer
  <2> QED
    BY <2>4 DEF Service!Next
<1>8. CASE ~Asked(c).close
  <2>1. DoRead(c) /\ client' = client
    BY <1>1, <1>5, <1>8 DEF AfterWrite
  <2>2. Standing' = Standing
    BY <1>1, <2>1, StandingKept DEF DoRead, InductiveInv, Over
  <2>3. Service!Answer(c)
    BY <1>1, <1>2, <1>4, <1>6, <1>8, <2>1, <2>2 DEF Service!Answer
  <2> QED
    BY <2>3 DEF Service!Next
<1> QED
  BY <1>7, <1>8

(* The ends of a session.                                                  *)
LEMMA EndFinishes ==
  ASSUME InductiveInv, NEW c \in Conns, OnReadEnd(c)
  PROVE  Service!Next
<1>1. /\ server[c] = "reading" /\ client[c] = "finished" /\ End(c, "closed")
      /\ ~(taken[c] < Len(sent[c])) /\ UNCHANGED <<sent, handled, written>>
  BY DEF OnReadEnd, HasNext, streams
<1>2. /\ Len(handled[c]) = taken[c] /\ Len(written[c]) = taken[c]
      /\ taken[c] = Len(sent[c])
  BY <1>1, Counts DEF InductiveInv, Connection, InStage, InBounds
<1>3. written[c] = handled[c] /\ client' = client
  BY <1>1, <1>2, SameNumbers DEF End
<1>4. Standing[c] = "open" /\ Standing' = [Standing EXCEPT ![c] = "ended"]
  BY <1>1, StandingOf, StandingBecomes DEF End, StateOf, InductiveInv, Over
<1>5. Service!Finish(c)
  BY <1>1, <1>2, <1>3, <1>4 DEF Service!Finish
<1> QED
  BY <1>5 DEF Service!Next

LEMMA ErrorLoses ==
  ASSUME InductiveInv, NEW c \in Conns, OnReadError(c) \/ OnWriteError(c)
  PROVE  Service!Next
<1>1. /\ server[c] \in {"reading", "writing"} /\ End(c, "failed")
      /\ UNCHANGED <<sent, handled>>
      /\ \/ written' = written
         \/ server[c] = "writing" /\ written' = [written EXCEPT ![c] = Append(@, req[c])]
  BY DEF OnReadError, OnWriteError, Write, streams
<1>2. written' \in {written, [written EXCEPT ![c] = handled[c]]}
  BY <1>1, WrittenAnswers
<1>3. Standing[c] = "open" /\ Standing' = [Standing EXCEPT ![c] = "lost"]
  BY <1>1, StandingOf, StandingBecomes DEF End, StateOf, InductiveInv, Over
<1>4. Service!Gone(c)
  BY <1>1, EndLeaves
<1>5. Service!Lose(c)
  BY <1>1, <1>2, <1>3, <1>4 DEF Service!Lose
<1> QED
  BY <1>5 DEF Service!Next

LEMMA DownLosesAll ==
  ASSUME InductiveInv, Down, UNCHANGED handled
  PROVE  Service!Next
<1> DEFINE S == {c \in Conns : server[c] \in Live \/ c \in Range(backlog)}
<1>1. ASSUME NEW c \in Conns
      PROVE  Standing'[c] = IF c \in S /\ Standing[c] = "open" THEN "lost" ELSE Standing[c]
  <2>1. server'[c] = IF c \in S THEN "failed" ELSE server[c]
    BY DEF Down
  <2>2. Standing'[c] = StateOf(server'[c]) /\ Standing[c] = StateOf(server[c])
    BY DEF Standing
  <2>3. CASE c \in S
    <3>1. server[c] \notin Over
      BY <2>3 DEF Live, Over, InductiveInv, BacklogFresh
    <3>2. Standing[c] = "open" /\ StateOf("failed") = "lost"
      BY <3>1, StandingOf DEF StateOf, InductiveInv
    <3> QED
      BY <2>1, <2>2, <2>3, <3>2
  <2>4. CASE c \notin S
    BY <2>1, <2>2, <2>4
  <2> QED
    BY <2>3, <2>4
<1>2. Standing' = [c \in Conns |-> IF c \in S /\ Standing[c] = "open" THEN "lost"
                                   ELSE Standing[c]]
  <2>1. Standing' = [c \in Conns |-> Standing'[c]]
    BY DEF Standing
  <2> HIDE DEF S
  <2> QED
    BY <1>1, <2>1
<1>3. UNCHANGED <<client, sent, written>>
  BY DEF Down
<1>4. Service!LoseAll(S) /\ S \in SUBSET Conns
  <2>1. S \in SUBSET Conns
    OBVIOUS
  <2> HIDE DEF S
  <2> QED
    BY <1>2, <1>3, <2>1 DEF Service!LoseAll
<1> QED
  <2> HIDE DEF S
  <2> QED
    BY <1>4 DEF Service!Next

LEMMA StepServed ==
  ASSUME InductiveInv, ReadsRequests, Next
  PROVE  Service!Next \/ Unseen
<1>1. ASSUME NEW c \in Conns, Session(c)
      PROVE  Service!Next \/ Unseen
  BY <1>1, UnseenSteps, HandleDoes, WriteAnswers, EndFinishes, ErrorLoses
  DEF Session, Reading, Writing
<1>2. CASE Clients
  BY <1>2, UnseenSteps, ClientSteps DEF Clients
<1>3. CASE Listener \/ Start \/ \E c \in Conns : Expire(c)
  BY <1>3, UnseenSteps
<1>4. CASE Stop \/ \E c \in Conns : HandleThrows(c)
  BY <1>4, DownLosesAll DEF Stop, HandleThrows
<1> QED
  BY <1>1, <1>2, <1>3, <1>4 DEF Next

(* Every run of the server is a run of ConnectionService: handlers of many *)
(* connections, a timer, full buffers, clients that go and a process that  *)
(* ends do to a connection what a service does that reads a request, does  *)
(* it, answers it, and only then looks at the next.                        *)
THEOREM Implementation == Spec => ServedInTurn
<1>1. Init => Service!Init
  <2> SUFFICES ASSUME Init PROVE Service!Init
    OBVIOUS
  <2>1. Standing = [c \in Conns |-> "open"]
    BY DEF Init, Standing, StateOf
  <2> QED
    BY <2>1 DEF Init, Service!Init
<1>2. Init => ReadsRequests
  BY DEF Init, ReadsRequests
<1>3. InductiveInv /\ ReadsRequests /\ [Next]_vars => [Service!Next]_(Service!vars)
  <2> SUFFICES ASSUME InductiveInv, ReadsRequests, [Next]_vars
               PROVE  Service!Next \/ Unseen
    BY DEF Unseen, Service!vars
  <2>1. CASE UNCHANGED vars
    BY <2>1 DEF vars, streams, Unseen, Standing
  <2> QED
    BY <2>1, StepServed
<1> QED
  BY <1>1, <1>2, <1>3, ReadsKept, Inductive, PTL DEF Spec, ServedInTurn, Service!Spec
=============================================================================
