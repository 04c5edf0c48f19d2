--------------------------- MODULE UiClientProofs ---------------------------
(***************************************************************************)
(* Theorems about WebSocketServer and UiClient: for any number of          *)
(* connections and of messages, what is echoed is what was sent, whatever  *)
(* timeouts, resets and failed reads come between; and a press of wxUI's   *)
(* button that meets no timeout ends with the echo.                        *)
(***************************************************************************)
EXTENDS UiClient, SequenceTheorems, TLAPS

-----------------------------------------------------------------------------
(* The inductive invariant.                                                *)

(* buffer_ is empty between two messages and holds the one that is echoed; *)
(* only when the stream has failed, so that nothing is written any more,   *)
(* may it hold anything else.                                              *)
InStage(c) ==
  LET t == taken[c]
      e == Len(echoed[c])
  IN  /\ client[c] = "idle" => session[c] = "none"
      /\ session[c] \in {"none", "accepting"} => t = 0 /\ e = 0
      /\ session[c] \in {"none", "accepting", "reading"} => buffer[c] = << >>
      /\ session[c] = "reading" => e = t
      /\ session[c] = "writing" /\ stream[c] # "failed" => buffer[c] = <<t>> /\ t = e + 1
      /\ session[c] = "writing" => e <= t /\ Len(buffer[c]) <= 1
      /\ e <= t /\ t <= Len(sent[c]) /\ Len(sent[c]) <= MaxMessages
      /\ received[c] <= e

Echoed(c) == \A i \in 1..Len(echoed[c]) :
  echoed[c][i] = [body |-> <<i>>, text |-> sent[c][i]]

(* A press of the button uses a connection of its own: its client sends    *)
(* one message, reads one echo, and is cut off only by a timeout of its    *)
(* own or where the server's stream has failed.                            *)
OwnConnection(c) ==
  /\ client[c] \in {"idle", "connected", "open", "closing", "reset"}
  /\ outcome[c] = "none" /\ ~(c = current /\ step \in {"read", "close"})
       => Len(sent[c]) = 0
  /\ outcome[c] = "none" /\ ~(c = current /\ step = "close") => received[c] = 0
  /\ c = current /\ step = "close" => received[c] = 1
  /\ outcome[c] = "echo" => received[c] = 1
  /\ client[c] = "reset" => stream[c] = "failed" \/ outcome[c] = "timeout"
  /\ outcome[c] = "error" => stream[c] = "failed" \/ ~Reachable

ServerInv == TypeOK /\ \A c \in Conns : InStage(c) /\ Echoed(c)

UiInv ==
  /\ port \in SrvPorts
  /\ step \in Waiting \cup {"idle", "exited"}
  /\ current \in UiConns
  /\ outcome \in [UiConns -> {"none", "echo", "timeout", "error"}]
  /\ step \in Waiting => outcome[current] = "none"
  /\ step \in {"read", "close"} => Len(sent[current]) = 1
  /\ \A c \in UiConns : OwnConnection(c)

InductiveInv == ServerInv /\ UiInv

-----------------------------------------------------------------------------
(* The server's part, step by step.                                        *)

LEMMA Counts ==
  ASSUME TypeOK, NEW c \in Conns
  PROVE  /\ taken[c] \in Nat /\ received[c] \in Nat
         /\ Len(sent[c]) \in Nat /\ Len(echoed[c]) \in Nat /\ Len(buffer[c]) \in Nat
         /\ MaxMessages \in Nat
  BY LenProperties, EchoAssumption DEF TypeOK

LEMMA Untouched ==
  ASSUME NEW d \in Conns, InStage(d), Echoed(d),
         client'[d] = "idle" => client[d] = "idle",
         session'[d] = session[d], stream'[d] = stream[d], sent'[d] = sent[d],
         taken'[d] = taken[d], buffer'[d] = buffer[d], echoed'[d] = echoed[d],
         received'[d] = received[d]
  PROVE  InStage(d)' /\ Echoed(d)'
  BY DEF InStage, Echoed

(* A client turns to something else, or is turned to it.                   *)
LEMMA ClientTurns ==
  ASSUME ServerInv, UNCHANGED <<listening, session, stream, timed, traffic>>,
         client' \in [Conns -> {"idle", "connected", "invalid", "open", "closing",
                                "reset", "silent"}],
         \A d \in Conns : client'[d] = "idle" => client[d] = "idle"
  PROVE  ServerInv'
<1>1. TypeOK'
  BY DEF ServerInv, TypeOK, traffic
<1>2. \A d \in Conns : InStage(d)' /\ Echoed(d)'
  BY Untouched DEF ServerInv, traffic
<1> QED
  BY <1>1, <1>2 DEF ServerInv

LEMMA Sends ==
  ASSUME ServerInv, NEW c \in Conns, NEW text \in BOOLEAN, SendMessage(c, text),
         UNCHANGED listening
  PROVE  /\ ServerInv'
         /\ Len(sent'[c]) = Len(sent[c]) + 1
<1> USE DEF ServerInv
<1>1. /\ sent' = [sent EXCEPT ![c] = Append(sent[c], text)]
      /\ Append(sent[c], text) \in Seq(BOOLEAN)
      /\ Len(Append(sent[c], text)) = Len(sent[c]) + 1
      /\ \A i \in 1..Len(sent[c]) : Append(sent[c], text)[i] = sent[c][i]
      /\ Len(sent[c]) < MaxMessages
      /\ UNCHANGED <<client, session, stream, timed, taken, buffer, echoed, received>>
  BY AppendProperties DEF SendMessage, TypeOK
<1>2. TypeOK'
  BY <1>1 DEF TypeOK
<1>3. sent'[c] = Append(sent[c], text)
  BY <1>1 DEF TypeOK
<1>4. ASSUME NEW d \in Conns
      PROVE  InStage(d)' /\ Echoed(d)'
  <2>1. CASE d # c
    BY <1>1, <2>1, Untouched DEF TypeOK
  <2>2. CASE d = c
    <3>1. InStage(c) /\ Echoed(c)
      OBVIOUS
    <3>2. InStage(c)'
      BY <1>1, <1>3, <3>1, Counts DEF InStage
    <3>3. \A i \in 1..Len(echoed[c]) : i \in 1..Len(sent[c])
      BY <3>1, Counts DEF InStage
    <3>4. Echoed(c)'
      BY <1>1, <1>3, <3>1, <3>3 DEF Echoed
    <3> QED
      BY <2>2, <3>2, <3>4
  <2> QED
    BY <2>1, <2>2
<1> QED
  BY <1>1, <1>2, <1>3, <1>4

(* A client gets an echo, and may begin to close then.                     *)
LEMMA Receives ==
  ASSUME ServerInv, NEW c \in Conns, received[c] < Len(echoed[c]),
         received' = [received EXCEPT ![c] = received[c] + 1],
         client' = client \/ client' = [client EXCEPT ![c] = "closing"],
         UNCHANGED <<listening, session, stream, timed, sent, taken, buffer, echoed>>
  PROVE  ServerInv'
<1> USE DEF ServerInv
<1>1. received[c] + 1 \in 0..MaxMessages
  <2>1. /\ Len(echoed[c]) <= taken[c] /\ taken[c] <= Len(sent[c])
        /\ Len(sent[c]) <= MaxMessages
    BY DEF InStage
  <2> QED
    BY <2>1, Counts
<1>2. TypeOK'
  BY <1>1 DEF TypeOK
<1>3. ASSUME NEW d \in Conns
      PROVE  InStage(d)' /\ Echoed(d)'
  <2>1. CASE d # c
    BY <2>1, Untouched DEF TypeOK
  <2>2. CASE d = c
    <3>1. received'[c] = received[c] + 1
      BY DEF TypeOK
    <3>2. client'[c] = "idle" => client[c] = "idle"
      BY DEF TypeOK
    <3>3. InStage(c) /\ Echoed(c)
      OBVIOUS
    <3>4. InStage(c)'
      BY <3>1, <3>2, <3>3, Counts DEF InStage
    <3>5. Echoed(c)'
      BY <3>3 DEF Echoed
    <3> QED
      BY <2>2, <3>4, <3>5
  <2> QED
    BY <2>1, <2>2
<1> QED
  BY <1>2, <1>3

(* A step of a session: its connection has to be looked at.                *)
LEMMA OneSession ==
  ASSUME ServerInv, NEW c \in Conns, TypeOK', UNCHANGED <<sent, received>>,
         InStage(c)', Echoed(c)',
         \A d \in Conns \ {c} :
            /\ client'[d] = client[d] /\ session'[d] = session[d]
            /\ stream'[d] = stream[d] /\ taken'[d] = taken[d]
            /\ buffer'[d] = buffer[d] /\ echoed'[d] = echoed[d]
  PROVE  ServerInv'
<1>1. \A d \in Conns : InStage(d)' /\ Echoed(d)'
  BY Untouched DEF ServerInv
<1> QED
  BY <1>1 DEF ServerInv

(* The steps that read nothing and write nothing.                          *)
LEMMA SessionTurns ==
  ASSUME ServerInv, NEW c \in Conns,
         \/ Run(c) \/ OnAccept(c) \/ OnAcceptError(c) \/ OnReadClosed(c)
         \/ OnWriteError(c) \/ Timeout(c),
         UNCHANGED listening
  PROVE  ServerInv'
<1> USE DEF ServerInv
<1>1. /\ UNCHANGED <<sent, taken, buffer, echoed, received>>
      /\ client' \in {client, [client EXCEPT ![c] = "open"], [client EXCEPT ![c] = "reset"]}
      /\ stream' \in {stream, [stream EXCEPT ![c] = "open"], [stream EXCEPT ![c] = "failed"]}
      /\ stream'[c] = "open" => stream[c] = "open" \/ session'[c] = "reading"
      /\ timed' \in {timed, [timed EXCEPT ![c] = TRUE]}
      /\ \/ session' = session /\ client' = client /\ stream'[c] = "failed"
         \/ /\ session[c] = "none" /\ client[c] # "idle"
            /\ session' = [session EXCEPT ![c] = "accepting"]
         \/ session[c] = "accepting" /\ session' = [session EXCEPT ![c] = "reading"]
         \/ session[c] # "none" /\ session' = [session EXCEPT ![c] = "over"]
  BY DEF Run, OnAccept, OnAcceptError, OnReadClosed, OnWriteError, Timeout, Become,
         traffic, TypeOK
<1>3. /\ client'[c] = "idle" => client[c] = "idle"
      /\ \/ session'[c] = session[c] /\ stream'[c] = "failed"
         \/ session[c] = "none" /\ client[c] # "idle" /\ session'[c] = "accepting"
         \/ session[c] = "accepting" /\ session'[c] = "reading"
         \/ session[c] # "none" /\ session'[c] = "over"
  BY <1>1 DEF TypeOK
<1>4. InStage(c)' /\ Echoed(c)'
  <2>1. InStage(c) /\ Echoed(c)
    OBVIOUS
  <2>2. InStage(c)'
    BY <1>1, <1>3, <2>1, Counts DEF InStage
  <2>3. Echoed(c)'
    BY <1>1, <2>1 DEF Echoed
  <2> QED
    BY <2>2, <2>3
<1>5. \A d \in Conns \ {c} : /\ client'[d] = client[d] /\ session'[d] = session[d]
                             /\ stream'[d] = stream[d]
  BY <1>1 DEF TypeOK
<1>2. TypeOK'
  <2>1. client' \in [Conns -> {"idle", "connected", "invalid", "open", "closing",
                               "reset", "silent"}]
    BY <1>1 DEF TypeOK
  <2>2. session' \in [Conns -> Live \cup {"none", "over"}]
    <3>1. session' \in {session, [session EXCEPT ![c] = "accepting"],
                        [session EXCEPT ![c] = "reading"],
                        [session EXCEPT ![c] = "over"]}
      BY <1>1
    <3> QED
      BY <3>1 DEF TypeOK, Live
  <2>3. stream' \in [Conns -> {"new", "open", "failed"}] /\ timed' \in [Conns -> BOOLEAN]
    BY <1>1 DEF TypeOK
  <2>4. \A d \in Conns : session'[d] \in {"accepting", "reading"} => buffer'[d] = << >>
    BY <1>1, <1>4, <1>5 DEF TypeOK, InStage
  <2> QED
    BY <1>1, <2>1, <2>2, <2>3, <2>4 DEF TypeOK
<1> QED
  BY <1>1, <1>2, <1>4, <1>5, OneSession

(* on_read with a message: it goes into the empty buffer_.                 *)
LEMMA Reads ==
  ASSUME ServerInv, NEW c \in Conns, OnRead(c), UNCHANGED listening
  PROVE  ServerInv'
<1> USE DEF ServerInv
<1>1. /\ session[c] = "reading" /\ stream[c] = "open" /\ taken[c] < Len(sent[c])
      /\ taken' = [taken EXCEPT ![c] = taken[c] + 1]
      /\ buffer' = [buffer EXCEPT ![c] = Append(buffer[c], taken[c] + 1)]
      /\ session' = [session EXCEPT ![c] = "writing"]
      /\ UNCHANGED <<client, stream, timed, sent, echoed, received>>
  BY DEF OnRead, HasNext, Become
<1>2. /\ InStage(c) /\ Echoed(c)
      /\ buffer[c] = << >> /\ Len(echoed[c]) = taken[c]
      /\ Len(sent[c]) <= MaxMessages
  BY <1>1 DEF InStage
<1>3. taken[c] + 1 \in 0..MaxMessages
  BY <1>1, <1>2, Counts
<1>4. /\ session'[c] = "writing" /\ taken'[c] = taken[c] + 1
      /\ buffer'[c] = <<taken[c] + 1>> /\ Len(buffer'[c]) = 1
  BY <1>1, <1>2, <1>3 DEF TypeOK
<1>5. InStage(c)'
  BY <1>1, <1>2, <1>4, Counts DEF InStage
<1>6. Echoed(c)'
  BY <1>1, <1>2 DEF Echoed
<1>7. TypeOK'
  <2>1. taken' \in [Conns -> 0..MaxMessages] /\ session' \in [Conns -> Live \cup {"none", "over"}]
    BY <1>1, <1>3 DEF TypeOK, Live
  <2>2. buffer' \in [Conns -> Seq(0..MaxMessages)]
    BY <1>1, <1>2, <1>3, <1>4 DEF TypeOK
  <2>3. \A d \in Conns : session'[d] \in {"accepting", "reading"} => buffer'[d] = << >>
    BY <1>1 DEF TypeOK
  <2> QED
    BY <1>1, <2>1, <2>2, <2>3 DEF TypeOK
<1> QED
  BY <1>1, <1>5, <1>6, <1>7, OneSession DEF TypeOK

(* on_read with an error: buffer_ may hold a fragment, and the stream has  *)
(* failed.                                                                 *)
LEMMA ReadFails ==
  ASSUME ServerInv, NEW c \in Conns, OnReadError(c), UNCHANGED listening
  PROVE  ServerInv'
<1> USE DEF ServerInv
<1>1. /\ session[c] = "reading"
      /\ stream' = [stream EXCEPT ![c] = "failed"]
      /\ buffer' \in {buffer, [buffer EXCEPT ![c] = Append(buffer[c], 0)]}
      /\ session' = [session EXCEPT ![c] = "writing"]
      /\ UNCHANGED <<client, timed, sent, taken, echoed, received>>
  BY DEF OnReadError, Fragment, Become
<1>2. /\ InStage(c) /\ Echoed(c)
      /\ buffer[c] = << >> /\ Len(echoed[c]) = taken[c]
  BY <1>1 DEF InStage
<1>3. 0 \in 0..MaxMessages
  BY EchoAssumption
<1>4. /\ session'[c] = "writing" /\ stream'[c] = "failed"
      /\ buffer'[c] = << >> \/ buffer'[c] = <<0>>
  BY <1>1, <1>2 DEF TypeOK
<1>5. InStage(c)'
  <2>1. Len(buffer'[c]) <= 1
    <3>1. CASE buffer'[c] = << >>
      BY ONLY <3>1
    <3>2. CASE buffer'[c] = <<0>>
      BY ONLY <3>2
    <3> QED
      BY ONLY <1>4, <3>1, <3>2
  <2> QED
    BY <1>1, <1>2, <1>4, <2>1, Counts DEF InStage
<1>6. Echoed(c)'
  BY <1>1, <1>2 DEF Echoed
<1>7. TypeOK'
  <2>1. stream' \in [Conns -> {"new", "open", "failed"}]
        /\ session' \in [Conns -> Live \cup {"none", "over"}]
    BY <1>1 DEF TypeOK, Live
  <2>2. buffer' \in [Conns -> Seq(0..MaxMessages)]
    <3>1. CASE buffer' = buffer
      BY <3>1 DEF TypeOK
    <3>2. CASE buffer' = [buffer EXCEPT ![c] = Append(buffer[c], 0)]
      <4>1. Append(buffer[c], 0) \in Seq(0..MaxMessages)
        BY <1>3, AppendProperties DEF TypeOK
      <4> QED
        BY <3>2, <4>1 DEF TypeOK
    <3> QED
      BY <1>1, <3>1, <3>2
  <2>3. \A d \in Conns : session'[d] \in {"accepting", "reading"} => buffer'[d] = << >>
    BY <1>1 DEF TypeOK
  <2> QED
    BY <1>1, <2>1, <2>2, <2>3 DEF TypeOK
<1> QED
  BY <1>1, <1>5, <1>6, <1>7, OneSession DEF TypeOK

(* on_write: the message in buffer_ is the next echo.                      *)
LEMMA Writes ==
  ASSUME ServerInv, NEW c \in Conns, OnWrite(c), UNCHANGED listening
  PROVE  ServerInv'
<1> USE DEF ServerInv
<1> DEFINE echo == [body |-> buffer[c], text |-> sent[c][taken[c]]]
<1>1. /\ session[c] = "writing" /\ stream[c] = "open"
      /\ echoed' = [echoed EXCEPT ![c] = Append(echoed[c], echo)]
      /\ buffer' = [buffer EXCEPT ![c] = << >>]
      /\ session' = [session EXCEPT ![c] = "reading"]
      /\ UNCHANGED <<client, stream, timed, sent, taken, received>>
  BY DEF OnWrite, Written, Echo, Become
<1>2. /\ InStage(c) /\ Echoed(c)
      /\ buffer[c] = <<taken[c]>> /\ taken[c] = Len(echoed[c]) + 1
      /\ taken[c] <= Len(sent[c])
  BY <1>1 DEF InStage
<1>3. echo \in [body: Seq(0..MaxMessages), text: BOOLEAN]
  <2>1. taken[c] \in 1..Len(sent[c]) /\ sent[c] \in Seq(BOOLEAN)
    BY <1>2, Counts DEF TypeOK
  <2>2. sent[c][taken[c]] \in BOOLEAN /\ buffer[c] \in Seq(0..MaxMessages)
    BY <2>1, ElementOfSeq DEF TypeOK
  <2> QED
    BY <2>2
<1>4. /\ session'[c] = "reading" /\ buffer'[c] = << >>
      /\ echoed'[c] = Append(echoed[c], echo)
      /\ echoed'[c] \in Seq([body: Seq(0..MaxMessages), text: BOOLEAN])
      /\ Len(echoed'[c]) = Len(echoed[c]) + 1
      /\ \A i \in 1..Len(echoed[c]) : echoed'[c][i] = echoed[c][i]
      /\ echoed'[c][Len(echoed[c]) + 1] = echo
  <2> HIDE DEF echo
  <2>1. echoed[c] \in Seq([body: Seq(0..MaxMessages), text: BOOLEAN])
    BY DEF TypeOK
  <2>2. session'[c] = "reading" /\ buffer'[c] = << >> /\ echoed'[c] = Append(echoed[c], echo)
    BY <1>1 DEF TypeOK
  <2> QED
    BY <1>3, <2>1, <2>2, AppendProperties
<1>5. InStage(c)'
  BY <1>1, <1>2, <1>4, Counts DEF InStage
<1>6. Echoed(c)'
  <2> SUFFICES ASSUME NEW i \in 1..Len(echoed'[c])
               PROVE  echoed'[c][i] = [body |-> <<i>>, text |-> sent[c][i]]
    BY <1>1 DEF Echoed
  <2>1. CASE i \in 1..Len(echoed[c])
    BY <1>2, <1>4, <2>1 DEF Echoed
  <2>2. CASE i = Len(echoed[c]) + 1
    BY <1>2, <1>4, <2>2
  <2> QED
    BY <1>4, <2>1, <2>2, Counts
<1>7. TypeOK'
  <2>1. buffer' \in [Conns -> Seq(0..MaxMessages)]
        /\ session' \in [Conns -> Live \cup {"none", "over"}]
    BY <1>1 DEF TypeOK, Live
  <2>2. echoed' \in [Conns -> Seq([body: Seq(0..MaxMessages), text: BOOLEAN])]
    <3> HIDE DEF echo
    <3> QED
      BY <1>1, <1>4 DEF TypeOK
  <2>3. \A d \in Conns : session'[d] \in {"accepting", "reading"} => buffer'[d] = << >>
    BY <1>1 DEF TypeOK
  <2> QED
    BY <1>1, <2>1, <2>2, <2>3 DEF TypeOK
<1> QED
  <2> HIDE DEF echo
  <2> QED
    BY <1>1, <1>5, <1>6, <1>7, OneSession DEF TypeOK

-----------------------------------------------------------------------------
(* What the steps of the server and of other clients leave of wxUI's.      *)

(* The server cuts off a client that has shaken hands only when its stream *)
(* has failed, and it sends nothing and takes nothing for a client.        *)
LEMMA CutsOff ==
  ASSUME TypeOK, NEW c \in Conns, Session(c) \/ Timeout(c), NEW d \in Conns
  PROVE  /\ UNCHANGED <<sent, received>>
         /\ stream[d] = "failed" => stream'[d] = "failed"
         /\ IF client'[d] = "reset"
            THEN client[d] \in {"invalid", "reset"} \/ stream'[d] = "failed"
            ELSE client'[d] \in {client[d], "open"}
<1>1. CASE Accepting(c)
  BY <1>1 DEF Accepting, Run, OnAccept, OnAcceptError, Become, traffic, TypeOK
<1>2. CASE Reading(c)
  BY <1>2 DEF Reading, OnRead, OnReadClosed, OnReadError, Become, traffic, TypeOK
<1>3. CASE Writing(c)
  BY <1>3 DEF Writing, OnWrite, Written, OnWriteError, Become, traffic, TypeOK
<1>4. CASE Timeout(c)
  BY <1>4 DEF Timeout, traffic, TypeOK
<1> QED
  BY <1>1, <1>2, <1>3, <1>4 DEF Session

LEMMA PressKept ==
  ASSUME UiInv, UNCHANGED <<uiVars, port, listening>>,
         \A d \in UiConns :
            /\ sent'[d] = sent[d] /\ received'[d] = received[d]
            /\ stream[d] = "failed" => stream'[d] = "failed"
            /\ IF client'[d] = "reset"
               THEN client[d] \in {"invalid", "reset"} \/ stream'[d] = "failed"
               ELSE client'[d] \in {client[d], "open"}
  PROVE  UiInv'
<1>1. \A d \in UiConns : OwnConnection(d)'
  BY DEF UiInv, OwnConnection, Reachable, uiVars
<1> QED
  BY <1>1 DEF UiInv, uiVars

(* A step of wxUI's session: its connection has to be looked at.           *)
LEMMA OnePress ==
  ASSUME UiInv, UNCHANGED <<current, port, listening>>,
         NEW how \in {"none", "echo", "timeout", "error"},
         outcome' = [outcome EXCEPT ![current] = how],
         step' \in Waiting \cup {"idle"},
         step' \in Waiting => how = "none",
         step' \in {"read", "close"} => Len(sent'[current]) = 1,
         \A d \in UiConns \ {current} :
            /\ client'[d] = client[d] /\ stream'[d] = stream[d]
            /\ sent'[d] = sent[d] /\ received'[d] = received[d],
         OwnConnection(current)'
  PROVE  UiInv'
<1>1. ASSUME NEW d \in UiConns
      PROVE  OwnConnection(d)'
  <2>1. CASE d = current
    BY <2>1
  <2>2. CASE d # current
    <3>1. outcome'[d] = outcome[d]
      BY <2>2 DEF UiInv
    <3> QED
      BY <2>2, <3>1 DEF UiInv, OwnConnection, Reachable
  <2> QED
    BY <2>1, <2>2
<1>2. outcome'[current] = how /\ current \in UiConns
  BY DEF UiInv
<1>3. outcome' \in [UiConns -> {"none", "echo", "timeout", "error"}]
  BY DEF UiInv
<1> QED
  BY <1>1, <1>2, <1>3 DEF UiInv

-----------------------------------------------------------------------------
(* Every step keeps the inductive invariant.                               *)

LEMMA InitInductive == Init => InductiveInv
<1> SUFFICES ASSUME Init
             PROVE  InductiveInv
  OBVIOUS
<1> USE EchoAssumption, UiAssumption DEF Init, ServerInit, ListenerInit
<1>1. TypeOK
  BY EmptySeq DEF TypeOK
<1>2. ASSUME NEW c \in Conns
      PROVE  InStage(c) /\ Echoed(c)
  <2>1. /\ client[c] = "idle" /\ session[c] = "none" /\ taken[c] = 0 /\ received[c] = 0
        /\ buffer[c] = << >> /\ Len(echoed[c]) = 0 /\ Len(sent[c]) = 0
    OBVIOUS
  <2>2. InStage(c)
    BY <2>1 DEF InStage
  <2>3. Echoed(c)
    BY <2>1 DEF Echoed
  <2> QED
    BY <2>2, <2>3
<1>3. \A c \in UiConns : OwnConnection(c)
  BY DEF OwnConnection
<1>4. UiInv
  BY <1>3 DEF UiInv, Waiting
<1> QED
  BY <1>1, <1>2, <1>4 DEF InductiveInv, ServerInv

LEMMA ServerKeeps ==
  ASSUME InductiveInv, Server, UNCHANGED <<port, listening>>
  PROVE  InductiveInv'
<1> USE DEF InductiveInv
<1> PICK c \in Conns : (Session(c) \/ Timeout(c)) /\ UNCHANGED uiVars
  BY DEF Server
<1>1. ServerInv'
  BY SessionTurns, Reads, ReadFails, Writes DEF Session, Accepting, Reading, Writing
<1>2. UiInv'
  <2>1. \A d \in UiConns :
          /\ sent'[d] = sent[d] /\ received'[d] = received[d]
          /\ stream[d] = "failed" => stream'[d] = "failed"
          /\ IF client'[d] = "reset"
             THEN client[d] \in {"invalid", "reset"} \/ stream'[d] = "failed"
             ELSE client'[d] \in {client[d], "open"}
    BY CutsOff, UiAssumption DEF ServerInv
  <2> QED
    BY <2>1, PressKept
<1> QED
  BY <1>1, <1>2

LEMMA OthersKeep ==
  ASSUME InductiveInv, Others, UNCHANGED <<port, listening>>
  PROVE  InductiveInv'
<1> USE DEF InductiveInv
<1> PICK c \in Conns \ UiConns : Client(c) /\ UNCHANGED uiVars
  BY DEF Others
<1>1. CASE \E text \in BOOLEAN : SendMessage(c, text)
  <2>1. ServerInv'
    BY <1>1, Sends
  <2>2. \A d \in UiConns : /\ sent'[d] = sent[d] /\ received'[d] = received[d]
                           /\ client'[d] = client[d] /\ stream'[d] = stream[d]
    BY <1>1, UiAssumption DEF SendMessage, ServerInv, TypeOK
  <2> QED
    BY <2>1, <2>2, PressKept
<1>2. CASE ReceiveEcho(c)
  <2>1. ServerInv'
    BY <1>2, Receives DEF ReceiveEcho
  <2>2. \A d \in UiConns : /\ sent'[d] = sent[d] /\ received'[d] = received[d]
                           /\ client'[d] = client[d] /\ stream'[d] = stream[d]
    BY <1>2, UiAssumption DEF ReceiveEcho, ServerInv, TypeOK
  <2> QED
    BY <2>1, <2>2, PressKept
<1>3. CASE \/ Connect(c) \/ BadHandshake(c) \/ CloseHandshake(c) \/ Reset(c)
           \/ Vanish(c)
  <2>1. /\ UNCHANGED <<session, stream, timed, traffic>>
        /\ \E to \in {"connected", "invalid", "closing", "reset", "silent"} :
              client' = [client EXCEPT ![c] = to]
    BY <1>3 DEF Connect, BadHandshake, CloseHandshake, Reset, Vanish, Turn
  <2>2. ServerInv'
    <3>1. client' \in [Conns -> {"idle", "connected", "invalid", "open", "closing",
                                 "reset", "silent"}]
      BY <2>1 DEF ServerInv, TypeOK
    <3>2. \A d \in Conns : client'[d] = "idle" => client[d] = "idle"
      BY <2>1 DEF ServerInv, TypeOK
    <3> QED
      BY <2>1, <3>1, <3>2, ClientTurns
  <2>3. \A d \in UiConns : /\ sent'[d] = sent[d] /\ received'[d] = received[d]
                           /\ client'[d] = client[d] /\ stream'[d] = stream[d]
    BY <2>1, UiAssumption DEF ServerInv, TypeOK, traffic
  <2> QED
    BY <2>2, <2>3, PressKept
<1> QED
  BY <1>1, <1>2, <1>3 DEF Client

(* wxUI itself.                                                            *)
LEMMA Pressed ==
  ASSUME InductiveInv, OnSend \/ OnExit, UNCHANGED <<port, listening>>
  PROVE  InductiveInv'
<1> USE DEF InductiveInv
<1>1. /\ step = "idle" /\ UNCHANGED <<outcome, serverVars>>
      /\ IF step' = "exited" THEN current' = current
         ELSE step' = "connect" /\ current' \in UiConns /\ outcome[current'] = "none"
  BY DEF OnSend, OnExit, Start, Await
<1>2. ServerInv'
  <2>1. ServerInv /\ client \in [Conns -> {"idle", "connected", "invalid", "open",
                                           "closing", "reset", "silent"}]
    BY DEF ServerInv, TypeOK
  <2> QED
    BY <1>1, <2>1, ClientTurns DEF serverVars
<1>3. \A d \in UiConns : OwnConnection(d)'
  BY <1>1 DEF UiInv, OwnConnection, Reachable, serverVars, traffic
<1> QED
  BY <1>1, <1>2, <1>3 DEF UiInv, Waiting

LEMMA Connects ==
  ASSUME InductiveInv, OnConnect \/ OnConnectElsewhere \/ OnHandshakeDeclined,
         UNCHANGED <<port, listening>>
  PROVE  InductiveInv'
<1> USE DEF InductiveInv
<1> DEFINE state == {"idle", "connected", "invalid", "open", "closing", "reset", "silent"}
<1>1. /\ ServerInv /\ client \in [Conns -> state]
      /\ current \in UiConns /\ current \in Conns /\ OwnConnection(current)
      /\ outcome \in [UiConns -> {"none", "echo", "timeout", "error"}]
      /\ step \in Waiting => outcome[current] = "none"
  BY UiAssumption DEF ServerInv, TypeOK, UiInv
<1>2. CASE OnConnect
  <2>1. /\ step = "connect" /\ step' = "handshake" /\ UNCHANGED <<current, outcome>>
        /\ client' = [client EXCEPT ![current] = "connected"]
        /\ UNCHANGED <<session, stream, timed, traffic>>
    BY <1>2 DEF OnConnect, Connect, Turn, Await
  <2>2. ServerInv'
    <3>1. client' \in [Conns -> state]
      BY <1>1, <2>1
    <3>2. \A d \in Conns : client'[d] = "idle" => client[d] = "idle"
      BY <1>1, <2>1
    <3> QED
      BY <2>1, <3>1, <3>2, ClientTurns
  <2>3. /\ outcome' = [outcome EXCEPT ![current] = "none"] /\ outcome'[current] = "none"
        /\ outcome[current] = "none" /\ client'[current] = "connected"
    BY <1>1, <2>1 DEF Waiting
  <2>4. OwnConnection(current)'
    BY <1>1, <2>1, <2>3 DEF OwnConnection, traffic
  <2>5. \A d \in UiConns \ {current} : /\ client'[d] = client[d] /\ stream'[d] = stream[d]
                                      /\ sent'[d] = sent[d] /\ received'[d] = received[d]
    BY <1>1, <2>1, UiAssumption DEF traffic
  <2>6. UiInv'
    BY <2>1, <2>3, <2>4, <2>5, OnePress DEF Waiting
  <2> QED
    BY <2>2, <2>6
<1>3. CASE OnConnectElsewhere \/ OnHandshakeDeclined
  <2>1. /\ ~Reachable /\ step \in {"connect", "handshake"}
        /\ UNCHANGED serverVars /\ current' = current
        /\ \/ step' = "handshake" /\ outcome' = outcome
           \/ step' = "idle" /\ outcome' = [outcome EXCEPT ![current] = "error"]
    BY <1>3 DEF OnConnectElsewhere, OnHandshakeDeclined, Await, Return
  <2>2. ServerInv'
    BY <1>1, <2>1, ClientTurns DEF serverVars
  <2>3. PICK how \in {"none", "error"} :
          /\ outcome' = [outcome EXCEPT ![current] = how] /\ outcome'[current] = how
          /\ IF how = "none" THEN step' = "handshake" ELSE step' = "idle"
    BY <1>1, <2>1 DEF Waiting
  <2>4. OwnConnection(current)'
    BY <1>1, <2>1, <2>3 DEF OwnConnection, Reachable, serverVars, traffic, Waiting
  <2>5. UiInv'
    BY <2>1, <2>3, <2>4, OnePress DEF Waiting, serverVars, traffic
  <2> QED
    BY <2>2, <2>5
<1> QED
  BY <1>2, <1>3

(* on_handshake sends the one message of the press.                        *)
LEMMA ShakesHands ==
  ASSUME InductiveInv, OnHandshake, UNCHANGED <<port, listening>>
  PROVE  InductiveInv'
<1> USE DEF InductiveInv
<1>1. /\ ServerInv /\ current \in UiConns /\ current \in Conns /\ OwnConnection(current)
      /\ outcome \in [UiConns -> {"none", "echo", "timeout", "error"}]
      /\ step = "handshake" /\ step' = "read" /\ UNCHANGED <<current, outcome>>
      /\ outcome[current] = "none"
      /\ SendMessage(current, TRUE)
  BY UiAssumption DEF UiInv, Waiting, OnHandshake, Await
<1>2. ServerInv' /\ Len(sent'[current]) = Len(sent[current]) + 1
  BY <1>1, Sends
<1>3. /\ UNCHANGED <<client, stream, received>>
      /\ \A d \in UiConns \ {current} : sent'[d] = sent[d]
  BY <1>1, UiAssumption DEF SendMessage, ServerInv, TypeOK
<1>4. Len(sent'[current]) = 1
  BY <1>1, <1>2 DEF OwnConnection
<1>5. OwnConnection(current)'
  BY <1>1, <1>3, <1>4 DEF OwnConnection, Reachable
<1>6. outcome' = [outcome EXCEPT ![current] = "none"]
  BY <1>1
<1>7. UiInv'
  BY <1>1, <1>3, <1>4, <1>5, <1>6, OnePress DEF Waiting
<1> QED
  BY <1>2, <1>7

(* The one echo of the press is in the client's buffer_.                   *)
LEMMA GetsEcho ==
  ASSUME InductiveInv, OnEcho, UNCHANGED <<port, listening>>
  PROVE  InductiveInv'
<1> USE DEF InductiveInv
<1>1. /\ ServerInv /\ current \in UiConns /\ current \in Conns /\ OwnConnection(current)
      /\ outcome \in [UiConns -> {"none", "echo", "timeout", "error"}]
      /\ step = "read" /\ step' = "close" /\ UNCHANGED <<current, outcome>>
      /\ outcome[current] = "none" /\ Len(sent[current]) = 1
      /\ received[current] < Len(echoed[current])
      /\ received' = [received EXCEPT ![current] = received[current] + 1]
      /\ client' = [client EXCEPT ![current] = "closing"]
      /\ UNCHANGED <<session, stream, timed, sent, taken, buffer, echoed>>
  BY UiAssumption DEF UiInv, Waiting, OnEcho, Await
<1>2. ServerInv'
  BY <1>1, Receives
<1>3. received'[current] = 1 /\ client'[current] = "closing"
  BY <1>1 DEF OwnConnection, ServerInv, TypeOK
<1>4. \A d \in UiConns \ {current} : client'[d] = client[d] /\ received'[d] = received[d]
  BY <1>1, UiAssumption DEF ServerInv, TypeOK
<1>5. OwnConnection(current)'
  BY <1>1, <1>3 DEF OwnConnection, Reachable
<1>6. outcome' = [outcome EXCEPT ![current] = "none"]
  BY <1>1
<1>7. UiInv'
  BY <1>1, <1>4, <1>5, <1>6, OnePress DEF Waiting
<1> QED
  BY <1>2, <1>7

(* The press ends: with its echo, with an error, or with a timeout.        *)
LEMMA Returns ==
  ASSUME InductiveInv, OnClose \/ OnUiError \/ OnUiTimeout, UNCHANGED <<port, listening>>
  PROVE  InductiveInv'
<1> USE DEF InductiveInv
<1> DEFINE state == {"idle", "connected", "invalid", "open", "closing", "reset", "silent"}
<1>1. /\ ServerInv /\ client \in [Conns -> state]
      /\ current \in UiConns /\ current \in Conns /\ OwnConnection(current)
      /\ outcome \in [UiConns -> {"none", "echo", "timeout", "error"}]
      /\ step \in Waiting /\ outcome[current] = "none"
  BY UiAssumption DEF ServerInv, TypeOK, UiInv, OnClose, OnUiError, OnUiTimeout, Waiting
<1>2. /\ step' = "idle" /\ current' = current
      /\ UNCHANGED <<session, stream, timed, traffic>>
      /\ client' \in {client, [client EXCEPT ![current] = "reset"]}
  <2>1. CASE OnClose \/ OnUiError
    BY <2>1 DEF OnClose, OnUiError, Return, serverVars
  <2>2. CASE OnUiTimeout
    <3>1. CASE client[current] = "idle"
      BY <1>1, <2>2, <3>1 DEF OnUiTimeout, Return
    <3>2. CASE client[current] # "idle"
      BY <1>1, <2>2, <3>2 DEF OnUiTimeout, Return
    <3> QED
      BY <3>1, <3>2
  <2> QED
    BY <2>1, <2>2
<1>3. PICK how \in {"echo", "error", "timeout"} :
        /\ outcome' = [outcome EXCEPT ![current] = how] /\ outcome'[current] = how
        /\ how = "echo" => step = "close" /\ client' = client
        /\ how = "error" => client[current] = "reset" /\ client' = client
  BY <1>1 DEF OnClose, OnUiError, OnUiTimeout, Return, serverVars
<1>4. ServerInv'
  <2>1. client' \in [Conns -> state]
    BY <1>1, <1>2
  <2>2. \A d \in Conns : client'[d] = "idle" => client[d] = "idle"
    BY <1>1, <1>2
  <2> QED
    BY <1>1, <1>2, <2>1, <2>2, ClientTurns
<1>5. OwnConnection(current)'
  <2>1. client'[current] = client[current] \/ client'[current] = "reset"
    BY <1>1, <1>2
  <2> QED
    BY <1>1, <1>2, <1>3, <2>1 DEF OwnConnection, Reachable, traffic
<1>6. \A d \in UiConns \ {current} : /\ client'[d] = client[d] /\ stream'[d] = stream[d]
                                    /\ sent'[d] = sent[d] /\ received'[d] = received[d]
  BY <1>1, <1>2, UiAssumption DEF traffic
<1>7. UiInv'
  BY <1>2, <1>3, <1>5, <1>6, OnePress DEF Waiting
<1> QED
  BY <1>4, <1>7

LEMMA Stutters ==
  ASSUME InductiveInv, UNCHANGED vars
  PROVE  InductiveInv'
<1> USE DEF InductiveInv
<1>1. ServerInv'
  <2>1. ServerInv /\ client \in [Conns -> {"idle", "connected", "invalid", "open",
                                           "closing", "reset", "silent"}]
    BY DEF ServerInv, TypeOK
  <2> QED
    BY <2>1, ClientTurns DEF vars, serverVars
<1>2. UiInv'
  BY PressKept DEF vars, serverVars, uiVars, traffic, UiInv, OwnConnection
<1> QED
  BY <1>1, <1>2

(* The inductive invariant holds in every reachable state, for every       *)
(* number of connections, of presses and of messages: what the session,    *)
(* its stream and its buffer hold together, and what a press leaves.       *)
THEOREM Inductive == Spec => []InductiveInv
<1>1. Init => InductiveInv
  BY InitInductive
<1>2. InductiveInv /\ [Next]_vars => InductiveInv'
  <2> SUFFICES ASSUME InductiveInv, [Next]_vars
               PROVE  InductiveInv'
    OBVIOUS
  <2>1. CASE UNCHANGED vars
    BY <2>1, Stutters
  <2>2. CASE Next
    <3>1. UNCHANGED <<port, listening>>
      BY <2>2 DEF Next
    <3>2. CASE OnSend \/ OnExit
      BY <3>1, <3>2, Pressed
    <3>3. CASE Ui
      BY <3>1, <3>3, Connects, ShakesHands, GetsEcho, Returns
         DEF Ui, Connecting, Finishing
    <3>4. CASE Others
      BY <3>1, <3>4, OthersKeep
    <3>5. CASE Server
      BY <3>1, <3>5, ServerKeeps
    <3> QED
      BY <2>2, <3>2, <3>3, <3>4, <3>5 DEF Next
  <2> QED
    BY <2>1, <2>2
<1> QED
  BY <1>1, <1>2, PTL DEF Spec

(* The state is always of the form TypeUi says: a session that waits for a *)
(* handshake or for a message holds nothing in buffer_, and a press that   *)
(* has not ended waits with at most its one message sent.                  *)
THEOREM TypeCorrect == Spec => []TypeUi
<1>1. InductiveInv => TypeUi
  BY DEF InductiveInv, ServerInv, UiInv, TypeUi
<1> QED
  BY <1>1, Inductive, PTL

(* Each echo of on_write is one whole message of its connection, with its  *)
(* type, in the order of sending, whatever failed reads, timeouts and      *)
(* resets come between.                                                    *)
THEOREM EchoesFaithful == Spec => []EchoFaithful
<1>1. InductiveInv => EchoFaithful
  BY DEF InductiveInv, ServerInv, Echoed, EchoFaithful
<1> QED
  BY <1>1, Inductive, PTL

(* Where websocket_srv listens on the port that OnSend names, a press of   *)
(* the button that meets no timeout ends with the echo of its message.     *)
THEOREM EchoIsShown == Spec => []EchoShown
<1>1. ASSUME InductiveInv
      PROVE  EchoShown
  <2>1. \A c \in UiConns : /\ outcome[c] = "echo" => received[c] = 1
                           /\ outcome[c] = "error" => stream[c] = "failed" \/ ~Reachable
    BY <1>1 DEF InductiveInv, UiInv, OwnConnection
  <2>2. ASSUME NEW c \in UiConns, outcome[c] = "echo"
        PROVE  echoed[c][1].body = <<1>>
    <3>1. c \in Conns /\ InStage(c) /\ Echoed(c) /\ TypeOK
      BY <1>1, UiAssumption DEF InductiveInv, ServerInv
    <3>2. received[c] = 1 /\ received[c] <= Len(echoed[c])
      BY <2>1, <2>2, <3>1 DEF InStage
    <3>3. 1 \in 1..Len(echoed[c])
      BY <3>1, <3>2, Counts
    <3>4. echoed[c][1] = [body |-> <<1>>, text |-> sent[c][1]]
      BY <3>1, <3>3 DEF Echoed
    <3> QED
      BY <3>4
  <2> QED
    BY <2>1, <2>2 DEF EchoShown, PressAnswered
<1> QED
  BY <1>1, Inductive, PTL
=============================================================================
