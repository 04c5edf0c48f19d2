------------------------- MODULE ConnectionService -------------------------
(***************************************************************************)
(* What a client may count on from http_server, whatever threads, buffers, *)
(* timers and the process do: over one connection the requests it has      *)
(* asked are done one at a time, in their order, and each is answered      *)
(* before the next is done.  None is done behind one that asked to close.  *)
(* The connection has ended when that one was answered, or everything was  *)
(* that a client asked who has finished; or it is lost, with the answer to *)
(* at most one request that was done.                                      *)
(***************************************************************************)
EXTENDS Naturals, Sequences

CONSTANTS
  Conns,  \* connections that clients ever open
  Wanted  \* what can be asked

VARIABLES
  client,    \* what each client has done
  asked,     \* the requests it sent
  done,      \* the numbers of those that took effect
  answered,  \* the numbers of those whose response was written
  state      \* "open", "ended" or "lost"

vars == <<client, asked, done, answered, state>>

Init ==
  /\ client = [c \in Conns |-> "idle"]
  /\ asked = [c \in Conns |-> << >>]
  /\ done = [c \in Conns |-> << >>]
  /\ answered = [c \in Conns |-> << >>]
  /\ state = [c \in Conns |-> "open"]

-----------------------------------------------------------------------------

Turns == {<<"idle", "open">>, <<"open", "finished">>, <<"open", "reset">>,
          <<"finished", "reset">>}

Turn(c, to) ==
  /\ <<client[c], to>> \in Turns
  /\ client' = [client EXCEPT ![c] = to]
  /\ UNCHANGED <<asked, done, answered, state>>

Ask(c, r) ==
  /\ client[c] = "open" /\ state[c] = "open"
  /\ asked' = [asked EXCEPT ![c] = Append(@, r)]
  /\ UNCHANGED <<client, done, answered, state>>

Do(c) ==
  LET n == Len(done[c]) + 1
  IN  /\ state[c] = "open" /\ answered[c] = done[c]
      /\ n <= Len(asked[c]) /\ asked[c][n].method # "garbled"
      /\ \A i \in 1..Len(done[c]) : ~asked[c][i].close
      /\ done' = [done EXCEPT ![c] = Append(@, n)]
      /\ UNCHANGED <<client, asked, answered, state>>

(* The client of a connection that goes while it has requests unread may   *)
(* be told by a reset.                                                     *)
Gone(c) ==
  \/ UNCHANGED client
  \/ Len(done[c]) < Len(asked[c]) /\ client' = [client EXCEPT ![c] = "reset"]

Answer(c) ==
  /\ state[c] = "open" /\ Len(answered[c]) < Len(done[c])
  /\ answered' = [answered EXCEPT ![c] = done[c]]
  /\ IF asked[c][Len(done[c])].close
     THEN state' = [state EXCEPT ![c] = "ended"] /\ Gone(c)
     ELSE UNCHANGED <<state, client>>
  /\ UNCHANGED <<asked, done>>

Finish(c) ==
  /\ state[c] = "open" /\ client[c] = "finished"
  /\ answered[c] = done[c] /\ Len(done[c]) = Len(asked[c])
  /\ state' = [state EXCEPT ![c] = "ended"]
  /\ UNCHANGED <<client, asked, done, answered>>

(* By an error on the way, or because it took too long.                    *)
Lose(c) ==
  /\ state[c] = "open" /\ state' = [state EXCEPT ![c] = "lost"]
  /\ answered' \in {answered, [answered EXCEPT ![c] = done[c]]}
  /\ Gone(c)
  /\ UNCHANGED <<asked, done>>

(* The process ends, and with it whatever connections it had.              *)
LoseAll(S) ==
  /\ state' = [c \in Conns |-> IF c \in S /\ state[c] = "open" THEN "lost" ELSE state[c]]
  /\ UNCHANGED <<client, asked, done, answered>>

Next ==
  \/ \E c \in Conns :
       \/ \E to \in {"open", "finished", "reset"} : Turn(c, to)
       \/ \E r \in Wanted : Ask(c, r)
       \/ Do(c) \/ Answer(c) \/ Finish(c) \/ Lose(c)
  \/ \E S \in SUBSET Conns : LoseAll(S)

Spec == Init /\ [][Next]_vars
=============================================================================
