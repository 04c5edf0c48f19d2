------------------------ MODULE ApiHandlerRefinement ------------------------
(***************************************************************************)
(* ApiHandler implements SessionService: the two mutexes, the shared       *)
(* request context and the separate storage calls add up to requests that  *)
(* take effect one at a time.                                              *)
(*                                                                         *)
(* A login takes effect when its token joins the user's, a request with a  *)
(* token when TokenExist misses the token or Verify looks at the clock.    *)
(* From there on its reply and the copy it will erase are settled, though  *)
(* the code computes the one and erases the other only later.              *)
(***************************************************************************)
EXTENDS ApiHandler

(* The settled reply of a request whose handler has not returned yet.      *)
Settled(w) ==
  CASE pc[w] \in {"return", "answered"} -> reply[w]
    [] pc[w] = "disprove" -> Refusal("unauthorized")
    [] pc[w] \in Admitted ->
         ServedReply(req[w].path, req[w].header.token)
    [] OTHER -> NoReply

Verdicts == [w \in Workers |-> Settled(w)]

(* The request is going to erase the copy of the token it presents.        *)
WillErase(w) ==
  /\ req[w].header.form = "whole"
  /\ \/ pc[w] = "disprove"
     \/ /\ pc[w] \in Admitted
        /\ req[w].path = "logout"
        /\ "logout" \in UserRoutes[req[w].header.token.user]

GoodTokens ==
  [t \in Token |->
     tokens[t] - (IF \E w \in Workers : WillErase(w) /\ req[w].header.token = t
                  THEN 1 ELSE 0)]

Service == INSTANCE SessionService
             WITH request <- req, verdict <- Verdicts, tokens <- GoodTokens

(* Every request takes effect at one instant, as SessionService says.      *)
ServiceImplemented == Service!ServiceSpec
=============================================================================
