--------------------------- MODULE SessionService ---------------------------
(***************************************************************************)
(* What the HTTP API promises its clients, free of threads, locks and the  *)
(* order of calls: each request takes effect at one instant between its    *)
(* submission and its reply, against the tokens stored and the time at     *)
(* that instant.                                                           *)
(***************************************************************************)
EXTENDS ApiTypes

CONSTANT Workers  \* requests in progress at a time, by the thread serving it

VARIABLES
  up,       \* whether the service runs
  now,      \* the wall clock
  tokens,   \* copies of each token that are good for requests
  request,  \* the request in progress, or NoRequest
  verdict   \* its reply once it has taken effect, or NoReply

serviceVars == <<up, now, tokens, request, verdict>>

Quiet == /\ request = [w \in Workers |-> NoRequest]
         /\ verdict = [w \in Workers |-> NoReply]

ServiceInit ==
  /\ up = TRUE
  /\ now = [sec |-> 0, late |-> FALSE]
  /\ tokens = EmptyStore
  /\ Quiet

Submit(w) ==
  /\ up /\ request[w] = NoRequest
  /\ request'[w] \in Request
  /\ request' = [request EXCEPT ![w] = request'[w]]
  /\ UNCHANGED <<up, now, tokens, verdict>>

EndsToken(path, t, time) ==
  \/ ~Valid(t, time)
  \/ path = "logout" /\ path \in UserRoutes[t.user]

DecideLogin(w, body) ==
  \/ body = BadJson /\ verdict' = [verdict EXCEPT ![w] = Refusal("badRequest")]
     /\ UNCHANGED tokens
  \/ body = WrongCreds
     /\ verdict' = [verdict EXCEPT ![w] = Refusal("unauthorized")]
     /\ UNCHANGED tokens
  \/ \E t \in Token :
       /\ body = Creds(t.user)
       /\ t.exp = now.sec + TokenLifetime
       /\ tokens' = PushToken(tokens, t)
       /\ verdict' = [verdict EXCEPT ![w] = Grant(t)]

DecideToken(w, path, t) ==
  IF tokens[t] = 0
  THEN /\ verdict' = [verdict EXCEPT ![w] = Refusal("unauthorized")]
       /\ UNCHANGED tokens
  ELSE /\ tokens' = IF EndsToken(path, t, now) THEN EraseOne(tokens, t)
                                               ELSE tokens
       /\ verdict' = [verdict EXCEPT ![w] =
                        IF Valid(t, now) THEN ServedReply(path, t)
                                         ELSE Refusal("unauthorized")]

Decide(w) ==
  /\ up /\ request[w] # NoRequest /\ verdict[w] = NoReply
  /\ \/ IsLogin(request[w]) /\ DecideLogin(w, request[w].body)
     \/ /\ ~IsLogin(request[w]) /\ request[w].header.form = "whole"
        /\ DecideToken(w, request[w].path, request[w].header.token)
     \/ /\ ~IsLogin(request[w]) /\ request[w].header.form # "whole"
        /\ verdict' = [verdict EXCEPT ![w] = Refusal("unauthorized")]
        /\ UNCHANGED tokens
  /\ UNCHANGED <<up, now, request>>

Answer(w) ==
  /\ up /\ verdict[w] # NoReply
  /\ request' = [request EXCEPT ![w] = NoRequest]
  /\ verdict' = [verdict EXCEPT ![w] = NoReply]
  /\ UNCHANGED <<up, now, tokens>>

TimePasses ==
  /\ Later(now, now') \/ SetBack(now, now')
  /\ UNCHANGED <<up, tokens, request, verdict>>

(* Nothing survives the process: neither tokens nor requests.              *)
Fail ==
  /\ up /\ up' = FALSE
  /\ tokens' = EmptyStore
  /\ Quiet'
  /\ UNCHANGED now

Recover ==
  /\ ~up /\ up' = TRUE
  /\ UNCHANGED <<now, tokens, request, verdict>>

ServiceNext ==
  \/ \E w \in Workers : Submit(w) \/ Decide(w) \/ Answer(w)
  \/ TimePasses \/ Fail \/ Recover

ServiceSpec == ServiceInit /\ [][ServiceNext]_serviceVars
=============================================================================
