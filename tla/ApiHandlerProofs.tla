-------------------------- MODULE ApiHandlerProofs --------------------------
(***************************************************************************)
(* Theorems about ApiHandler: for any number of threads, any lifetime of a *)
(* token and any requests, each request passes the checks it needs and     *)
(* acts on its own behalf, whatever the others do.                         *)
(***************************************************************************)
EXTENDS ApiHandlerRefinement, FiniteSetTheorems, TLAPS

(* A header of the form "whole" carries a token.                           *)
LEMMA WholeHeader ==
  ASSUME NEW h \in Header, h.form = "whole"
  PROVE  h.token \in Token /\ h = Whole(h.token)
  BY DEF Header, Whole, Absent, Foreign, Piece

(* The user of a token is a registered one.                                *)
LEMMA TokenUser == \A t \in Token : t.user \in Users
  BY DEF Token

(* A body of the form "creds" names a user.                                *)
LEMMA CredsBody ==
  ASSUME NEW b \in Body, b.kind = "creds"
  PROVE  b.user \in Users /\ b = Creds(b.user)
  BY DEF Body, Creds, BadJson, IllTyped, WrongCreds

(* What clients send are requests.                                         *)
LEMMA ClientsSendRequests ==
  ASSUME NEW given \in SUBSET Token, NEW r \in ClientRequests(given)
  PROVE  r \in Request
<1>1. CASE r \in [verb: {"post"}, path: {"login"}, header: {Absent},
                   body: Bodies]
  <2>1. Absent \in Header /\ Bodies \subseteq Body /\ "login" \in Target
    BY BoundsAssumption DEF Header, Target
  <2> QED
    BY <1>1, <2>1 DEF Request
<1>2. CASE r \in [verb: {"get"}, path: Paths,
                   header: LooseHeaders \cup {Whole(t) : t \in given},
                   body: {BadJson}]
  <2>1. LooseHeaders \cup {Whole(t) : t \in given} \subseteq Header
    BY BoundsAssumption DEF Header
  <2>2. BadJson \in Body /\ Paths \subseteq Target
    BY DEF Body, Target
  <2> QED
    BY <1>2, <2>1, <2>2 DEF Request
<1> QED
  BY <1>1, <1>2 DEF ClientRequests

LEMMA EmptyValues == /\ NoRequest \in Request
                     /\ NoReply \in Reply
                     /\ NoContext \in Context
                     /\ EmptyStore \in Store
<1>1. Absent \in Header /\ BadJson \in Body
  BY DEF Header, Body
<1>2. NoRequest \in Request /\ NoContext \in Context
  BY <1>1 DEF NoRequest, Request, NoContext, Context, Target
<1>3. NoReply \in Reply
  BY DEF NoReply, Refusal, Reply, Statuses
<1>4. EmptyStore \in Store
  BY DEF EmptyStore, Store
<1> QED
  BY <1>2, <1>3, <1>4

(* The replies the handler gives, and what they carry.                     *)
LEMMA Refusals ==
  \A s \in Statuses : Refusal(s) \in Reply /\ Refusal(s).status = s
  BY DEF Refusal, Reply, Statuses

LEMMA Replies ==
  /\ Refusal("badRequest") \in Reply /\ Refusal("badRequest").status = "badRequest"
  /\ Refusal("unauthorized") \in Reply /\ Refusal("unauthorized").status = "unauthorized"
  /\ Refusal("forbidden") \in Reply /\ Refusal("forbidden").status = "forbidden"
  /\ Done \in Reply /\ Done.status = "ok"
  /\ \A t \in Token : Grant(t) \in Reply /\ Grant(t).status = "ok"
  /\ \A u \in Users \cup {"nobody"} :
       Info(u) \in Reply /\ Info(u).name = u /\ Info(u).status = "ok"
  BY Refusals DEF Statuses, Done, Grant, Info, Reply

(* Adding and erasing a copy keep a store a store, and touch one token.    *)
LEMMA StoreOps ==
  ASSUME NEW s \in Store, NEW t \in Token
  PROVE  /\ PushToken(s, t) \in Store
         /\ EraseOne(s, t) \in Store
         /\ PushToken(s, t)[t] = s[t] + 1
         /\ s[t] > 0 => EraseOne(s, t)[t] = s[t] - 1
         /\ \A u \in Token \ {t} : /\ PushToken(s, t)[u] = s[u]
                                   /\ EraseOne(s, t)[u] = s[u]
  BY DEF Store, PushToken, EraseOne

(* Taking the mutex moves one request inside; no other is there.           *)
LEMMA StepLockApi ==
  ASSUME InductiveInv, NEW w \in Workers, LockApi(w)
  PROVE  InductiveInv'
<1> USE HandlerAssumption DEF LockApi, Dispatch, Finish, At, Goto, Outside, Client, Inside, Storage, Admitted
<1>0. TypeOK /\ LocksNest /\ Stages /\ OwnContext /\ AdmittedStillStored /\ AnswersJustified
  BY DEF InductiveInv
<1>1. TypeOK'
  BY <1>0, Replies DEF TypeOK, Labels, Context
<1>2. LocksNest'
  BY <1>0 DEF TypeOK, LocksNest
<1>3. Stages'
  BY <1>0, Replies DEF TypeOK, LocksNest, Stages
<1>4. OwnContext'
  BY <1>0 DEF TypeOK, LocksNest, OwnContext
<1>5. AdmittedStillStored'
  BY <1>0 DEF TypeOK, LocksNest, Stages, AdmittedStillStored
<1>6. AnswersJustified'
  BY <1>0, Replies DEF TypeOK, LocksNest, Stages, OwnContext, AdmittedStillStored, AnswersJustified
<1> QED
  BY <1>1, <1>2, <1>3, <1>4, <1>5, <1>6 DEF InductiveInv

(* Parsing a login's body changes that login alone.                        *)
LEMMA StepParseLogin ==
  ASSUME InductiveInv, NEW w \in Workers, ParseLogin(w)
  PROVE  InductiveInv'
<1> USE HandlerAssumption DEF ParseLogin, Finish, At, Goto, Outside, Client, Inside, Storage, Admitted
<1>0. TypeOK /\ LocksNest /\ Stages /\ OwnContext /\ AdmittedStillStored /\ AnswersJustified
  BY DEF InductiveInv
<1>1. TypeOK'
  BY <1>0, Replies DEF TypeOK, Labels, Context
<1>2. LocksNest'
  BY <1>0 DEF TypeOK, LocksNest
<1>3. Stages'
  BY <1>0, Replies DEF TypeOK, LocksNest, Stages
<1>4. OwnContext'
  BY <1>0 DEF TypeOK, LocksNest, OwnContext
<1>5. AdmittedStillStored'
  BY <1>0 DEF TypeOK, LocksNest, Stages, AdmittedStillStored
<1>6. AnswersJustified'
  BY <1>0, Replies DEF TypeOK, LocksNest, Stages, OwnContext, AdmittedStillStored, AnswersJustified
<1> QED
  BY <1>1, <1>2, <1>3, <1>4, <1>5, <1>6 DEF InductiveInv

(* The users' mutex goes to the thread at a storage method.                *)
LEMMA StepLockUsers ==
  ASSUME InductiveInv, NEW w \in Workers, LockUsers(w)
  PROVE  InductiveInv'
<1> USE HandlerAssumption DEF LockUsers, At, Goto, Outside, Client, Inside, Storage, Admitted
<1>0. TypeOK /\ LocksNest /\ Stages /\ OwnContext /\ AdmittedStillStored /\ AnswersJustified
  BY DEF InductiveInv
<1>1. TypeOK'
  BY <1>0 DEF TypeOK, Labels, Context
<1>2. LocksNest'
  BY <1>0 DEF TypeOK, LocksNest
<1>3. Stages'
  BY <1>0 DEF TypeOK, LocksNest, Stages
<1>4. OwnContext'
  BY <1>0 DEF TypeOK, LocksNest, OwnContext
<1>5. AdmittedStillStored'
  BY <1>0 DEF TypeOK, LocksNest, Stages, AdmittedStillStored
<1>6. AnswersJustified'
  BY <1>0 DEF TypeOK, LocksNest, Stages, OwnContext, AdmittedStillStored, AnswersJustified
<1> QED
  BY <1>1, <1>2, <1>3, <1>4, <1>5, <1>6 DEF InductiveInv

(* AuthenticateUser starts a token for the user of the credentials.        *)
LEMMA StepAuthenticate ==
  ASSUME InductiveInv, NEW w \in Workers, Authenticate(w)
  PROVE  InductiveInv'
<1> USE HandlerAssumption DEF Authenticate, Finish, AtStorage, ReleaseUsers, At, Goto, Outside, Client, Inside, Storage, Admitted
<1>0. TypeOK /\ LocksNest /\ Stages /\ OwnContext /\ AdmittedStillStored /\ AnswersJustified
  BY DEF InductiveInv
<1>1. TypeOK'
  <2>1. CASE req[w].body.kind = "creds"
    <3>1. req[w].body.user \in Users
      BY <1>0, <2>1, CredsBody DEF TypeOK, Request
    <3>2. now.sec \in Seconds /\ 0 \in 0..(MaxSecond + TokenLifetime)
      BY <1>0, ApiAssumption DEF TypeOK, Clock
    <3>3. [user |-> req[w].body.user, iat |-> now.sec, exp |-> 0] \in Token
      BY <3>1, <3>2 DEF Token
    <3>4. reply' \in [Workers -> Reply]
      BY <1>0, <2>1, <3>3 DEF TypeOK, Reply
    <3> QED
      BY <1>0, <2>1, <3>4 DEF TypeOK, Labels
  <2>2. CASE req[w].body.kind # "creds"
    BY <1>0, <2>2, Replies DEF TypeOK, Labels
  <2> QED
    BY <2>1, <2>2
<1>2. LocksNest'
  BY <1>0 DEF TypeOK, LocksNest
<1>3. Stages'
  <2>1. pc[w] = "authenticate" /\ req[w] # NoRequest /\ IsLogin(req[w])
    BY <1>0 DEF Stages
  <2>2. CASE req[w].body.kind = "creds"
    <3>1. /\ req[w].body.user \in Users
          /\ req[w].body = Creds(req[w].body.user)
          /\ now.sec \in Seconds
          /\ 0 \in 0..(MaxSecond + TokenLifetime)
      BY <1>0, <2>2, CredsBody, ApiAssumption DEF TypeOK, Request, Clock
    <3>2. reply'[w].token = [user |-> req[w].body.user, iat |-> now.sec, exp |-> 0]
      BY <1>0, <2>2 DEF TypeOK, Reply
    <3>3. reply'[w].token \in Token /\ req[w].body = Creds(reply'[w].token.user)
      BY <3>1, <3>2 DEF Token
    <3>4. \A v \in Workers \ {w} : reply'[v] = reply[v] /\ pc'[v] = pc[v]
      BY <1>0 DEF TypeOK
    <3> QED
      BY <1>0, <2>1, <2>2, <3>3, <3>4 DEF TypeOK, Stages
  <2>3. CASE req[w].body.kind # "creds"
    BY <1>0, <2>1, <2>3, Replies DEF TypeOK, Stages
  <2> QED
    BY <2>2, <2>3
<1>4. OwnContext'
  BY <1>0 DEF TypeOK, LocksNest, OwnContext
<1>5. AdmittedStillStored'
  BY <1>0 DEF TypeOK, LocksNest, Stages, AdmittedStillStored
<1>6. AnswersJustified'
  BY <1>0 DEF TypeOK, LocksNest, Stages, OwnContext, AdmittedStillStored, AnswersJustified
<1> QED
  BY <1>1, <1>2, <1>3, <1>4, <1>5, <1>6 DEF InductiveInv

(* A new copy takes nothing from requests in progress.                     *)
LEMMA StepCreateToken ==
  ASSUME InductiveInv, NEW w \in Workers, CreateToken(w)
  PROVE  InductiveInv'
<1> USE HandlerAssumption DEF CreateToken, Finish, AtStorage, ReleaseUsers, At, Goto, Outside, Client, Inside, Storage, Admitted
<1>0. TypeOK /\ LocksNest /\ Stages /\ OwnContext /\ AdmittedStillStored /\ AnswersJustified
  BY DEF InductiveInv
<1>1. TypeOK'
  <2> DEFINE t == [reply[w].token EXCEPT !.exp = Expiry(now.sec)]
  <2>1. reply[w].token \in Token
    BY <1>0 DEF Stages
  <2>2. Expiry(now.sec) \in 0..(MaxSecond + TokenLifetime)
    BY <1>0, ApiAssumption DEF TypeOK, Clock, Seconds, Expiry
  <2>3. t \in Token
    BY <2>1, <2>2 DEF Token
  <2> QED
    BY <1>0, <2>3, Replies, StoreOps DEF TypeOK, Labels
<1>2. LocksNest'
  BY <1>0 DEF TypeOK, LocksNest
<1>3. Stages'
  <2> DEFINE t == [reply[w].token EXCEPT !.exp = Expiry(now.sec)]
  <2>1. t \in Token
    <3>1. reply[w].token \in Token
      BY <1>0 DEF Stages
    <3>2. Expiry(now.sec) \in 0..(MaxSecond + TokenLifetime)
      BY <1>0, ApiAssumption DEF TypeOK, Clock, Seconds, Expiry
    <3> QED
      BY <3>1, <3>2 DEF Token
  <2>2. pc[w] = "createToken" /\ req[w] # NoRequest
    BY <1>0 DEF Stages
  <2>3. \A v \in Workers \ {w} : pc'[v] = pc[v] /\ reply'[v] = reply[v]
    BY <1>0 DEF TypeOK
  <2>4. pc'[w] = "return" /\ reply'[w] = Grant(t)
    BY <1>0 DEF TypeOK
  <2>5. \A v \in Workers \ {w} : pc[v] \notin Inside
    BY <1>0, <2>2 DEF LocksNest
  <2> QED
    BY <1>0, <2>1, <2>2, <2>3, <2>4, <2>5, Replies DEF Stages
<1>4. OwnContext'
  BY <1>0 DEF TypeOK, LocksNest, OwnContext
<1>5. AdmittedStillStored'
  BY <1>0 DEF TypeOK, LocksNest, Stages, AdmittedStillStored
<1>6. AnswersJustified'
  BY <1>0 DEF TypeOK, LocksNest, Stages, OwnContext, AdmittedStillStored, AnswersJustified
<1> QED
  BY <1>1, <1>2, <1>3, <1>4, <1>5, <1>6 DEF InductiveInv

(* TokenExist lets a whole token pass only if it is stored.                *)
LEMMA StepTokenExist ==
  ASSUME InductiveInv, NEW w \in Workers, TokenExist(w)
  PROVE  InductiveInv'
<1> USE HandlerAssumption DEF TokenExist, Finish, AtStorage, ReleaseUsers, At, Goto, Outside, Client, Inside, Storage, Admitted
<1>0. TypeOK /\ LocksNest /\ Stages /\ OwnContext /\ AdmittedStillStored /\ AnswersJustified
  BY DEF InductiveInv
<1>1. TypeOK'
  BY <1>0, Replies DEF TypeOK, Labels, Context
<1>2. LocksNest'
  BY <1>0 DEF TypeOK, LocksNest
<1>3. Stages'
  BY <1>0, Replies DEF TypeOK, LocksNest, Stages
<1>4. OwnContext'
  BY <1>0 DEF TypeOK, LocksNest, OwnContext
<1>5. AdmittedStillStored'
  BY <1>0 DEF TypeOK, LocksNest, Stages, AdmittedStillStored
<1>6. AnswersJustified'
  BY <1>0, Replies DEF TypeOK, LocksNest, Stages, OwnContext, AdmittedStillStored, AnswersJustified
<1> QED
  BY <1>1, <1>2, <1>3, <1>4, <1>5, <1>6 DEF InductiveInv

(* Only a whole, stored and valid token is admitted.                       *)
LEMMA StepVerify ==
  ASSUME InductiveInv, NEW w \in Workers, Verify(w)
  PROVE  InductiveInv'
<1> USE HandlerAssumption DEF Verify, At, Goto, Outside, Client, Inside, Storage, Admitted
<1>0. TypeOK /\ LocksNest /\ Stages /\ OwnContext /\ AdmittedStillStored /\ AnswersJustified
  BY DEF InductiveInv
<1>1. TypeOK'
  BY <1>0 DEF TypeOK, Labels, Context
<1>2. LocksNest'
  BY <1>0 DEF TypeOK, LocksNest
<1>3. Stages'
  BY <1>0 DEF TypeOK, LocksNest, Stages
<1>4. OwnContext'
  BY <1>0 DEF TypeOK, LocksNest, OwnContext
<1>5. AdmittedStillStored'
  BY <1>0 DEF TypeOK, LocksNest, Stages, AdmittedStillStored
<1>6. AnswersJustified'
  BY <1>0 DEF TypeOK, LocksNest, Stages, OwnContext, AdmittedStillStored, AnswersJustified
<1> QED
  BY <1>1, <1>2, <1>3, <1>4, <1>5, <1>6 DEF InductiveInv

(* The copy erased for an invalid token is missed by no other request.     *)
LEMMA StepDisprove ==
  ASSUME InductiveInv, NEW w \in Workers, Disprove(w)
  PROVE  InductiveInv'
<1> USE HandlerAssumption DEF Disprove, Finish, AtStorage, ReleaseUsers, At, Goto, Outside, Client, Inside, Storage, Admitted
<1>0. TypeOK /\ LocksNest /\ Stages /\ OwnContext /\ AdmittedStillStored /\ AnswersJustified
  BY DEF InductiveInv
<1>1. TypeOK'
  BY <1>0, Replies, StoreOps, WholeHeader DEF TypeOK, Labels, Context, Request
<1>2. LocksNest'
  BY <1>0 DEF TypeOK, LocksNest
<1>3. Stages'
  BY <1>0, Replies DEF TypeOK, LocksNest, Stages
<1>4. OwnContext'
  BY <1>0 DEF TypeOK, LocksNest, OwnContext
<1>5. AdmittedStillStored'
  BY <1>0 DEF TypeOK, LocksNest, Stages, AdmittedStillStored
<1>6. AnswersJustified'
  BY <1>0, Replies DEF TypeOK, LocksNest, Stages, OwnContext, AdmittedStillStored, AnswersJustified
<1> QED
  BY <1>1, <1>2, <1>3, <1>4, <1>5, <1>6 DEF InductiveInv

(* A path that passes has a method.                                        *)
LEMMA StepCheckRoute ==
  ASSUME InductiveInv, NEW w \in Workers, CheckRoute(w)
  PROVE  InductiveInv'
<1> USE HandlerAssumption DEF CheckRoute, Finish, At, Goto, Outside, Client, Inside, Storage, Admitted
<1>0. TypeOK /\ LocksNest /\ Stages /\ OwnContext /\ AdmittedStillStored /\ AnswersJustified
  BY DEF InductiveInv
<1>1. TypeOK'
  BY <1>0, Replies DEF TypeOK, Labels, Context
<1>2. LocksNest'
  BY <1>0 DEF TypeOK, LocksNest
<1>3. Stages'
  BY <1>0, Replies DEF TypeOK, LocksNest, Stages
<1>4. OwnContext'
  BY <1>0 DEF TypeOK, LocksNest, OwnContext
<1>5. AdmittedStillStored'
  BY <1>0 DEF TypeOK, LocksNest, Stages, AdmittedStillStored
<1>6. AnswersJustified'
  BY <1>0, Replies DEF TypeOK, LocksNest, Stages, OwnContext, AdmittedStillStored, AnswersJustified
<1> QED
  BY <1>1, <1>2, <1>3, <1>4, <1>5, <1>6 DEF InductiveInv

(* A path that passes is one of the token's owner.                         *)
LEMMA StepCheckAccess ==
  ASSUME InductiveInv, NEW w \in Workers, CheckAccess(w)
  PROVE  InductiveInv'
<1> USE HandlerAssumption DEF CheckAccess, Finish, AtStorage, ReleaseUsers, At, Goto, Outside, Client, Inside, Storage, Admitted
<1>0. TypeOK /\ LocksNest /\ Stages /\ OwnContext /\ AdmittedStillStored /\ AnswersJustified
  BY DEF InductiveInv
<1>1. TypeOK'
  BY <1>0, Replies DEF TypeOK, Labels, Context
<1>2. LocksNest'
  BY <1>0 DEF TypeOK, LocksNest
<1>3. Stages'
  <2>1. pc[w] = "checkAccess" /\ req[w].header.token.user \in Users
    BY <1>0, WholeHeader, TokenUser DEF TypeOK, Request, AdmittedStillStored
  <2>2. RoutesOf(UserName(req[w].header))
          = UserRoutes[req[w].header.token.user]
    BY <1>0, <2>1 DEF AdmittedStillStored, UserName, RoutesOf
  <2> QED
    BY <1>0, Replies, <2>1, <2>2 DEF TypeOK, LocksNest, Stages
<1>4. OwnContext'
  BY <1>0 DEF TypeOK, LocksNest, OwnContext
<1>5. AdmittedStillStored'
  BY <1>0 DEF TypeOK, LocksNest, Stages, AdmittedStillStored
<1>6. AnswersJustified'
  BY <1>0, Replies DEF TypeOK, LocksNest, Stages, OwnContext, AdmittedStillStored, AnswersJustified
<1> QED
  BY <1>1, <1>2, <1>3, <1>4, <1>5, <1>6 DEF InductiveInv

(* The context becomes that of the thread that holds the mutex.            *)
LEMMA StepSetContext ==
  ASSUME InductiveInv, NEW w \in Workers, SetContext(w)
  PROVE  InductiveInv'
<1> USE HandlerAssumption DEF SetContext, At, Goto, Outside, Client, Inside, Storage, Admitted
<1>0. TypeOK /\ LocksNest /\ Stages /\ OwnContext /\ AdmittedStillStored /\ AnswersJustified
  BY DEF InductiveInv
<1>1. TypeOK'
  BY <1>0 DEF TypeOK, Labels, Context, Request, Context
<1>2. LocksNest'
  BY <1>0 DEF TypeOK, LocksNest
<1>3. Stages'
  BY <1>0 DEF TypeOK, LocksNest, Stages
<1>4. OwnContext'
  BY <1>0 DEF TypeOK, LocksNest, OwnContext
<1>5. AdmittedStillStored'
  BY <1>0 DEF TypeOK, LocksNest, Stages, AdmittedStillStored
<1>6. AnswersJustified'
  BY <1>0 DEF TypeOK, LocksNest, Stages, OwnContext, AdmittedStillStored, AnswersJustified
<1> QED
  BY <1>1, <1>2, <1>3, <1>4, <1>5, <1>6 DEF InductiveInv

(* The method that runs is the one the request asked for.                  *)
LEMMA StepExecute ==
  ASSUME InductiveInv, NEW w \in Workers, Execute(w)
  PROVE  InductiveInv'
<1> USE HandlerAssumption DEF Execute, Finish, At, Goto, Outside, Client, Inside, Storage, Admitted
<1>0. TypeOK /\ LocksNest /\ Stages /\ OwnContext /\ AdmittedStillStored /\ AnswersJustified
  BY DEF InductiveInv
<1>1. TypeOK'
  BY <1>0, Replies DEF TypeOK, Labels, Context
<1>2. LocksNest'
  BY <1>0 DEF TypeOK, LocksNest
<1>3. Stages'
  BY <1>0, Replies DEF TypeOK, LocksNest, Stages
<1>4. OwnContext'
  BY <1>0 DEF TypeOK, LocksNest, OwnContext
<1>5. AdmittedStillStored'
  BY <1>0 DEF TypeOK, LocksNest, Stages, AdmittedStillStored
<1>6. AnswersJustified'
  BY <1>0 DEF TypeOK, LocksNest, Stages, OwnContext, AdmittedStillStored, AnswersJustified
<1> QED
  BY <1>1, <1>2, <1>3, <1>4, <1>5, <1>6 DEF InductiveInv

(* A logout erases a copy while no other request relies on it.             *)
LEMMA StepLogoutUser ==
  ASSUME InductiveInv, NEW w \in Workers, LogoutUser(w)
  PROVE  InductiveInv'
<1> USE HandlerAssumption DEF LogoutUser, Finish, AtStorage, ReleaseUsers, At, Goto, Outside, Client, Inside, Storage, Admitted
<1>0. TypeOK /\ LocksNest /\ Stages /\ OwnContext /\ AdmittedStillStored /\ AnswersJustified
  BY DEF InductiveInv
<1>1. TypeOK'
  BY <1>0, Replies, StoreOps, WholeHeader DEF TypeOK, Labels, Context
<1>2. LocksNest'
  BY <1>0 DEF TypeOK, LocksNest
<1>3. Stages'
  BY <1>0, Replies DEF TypeOK, LocksNest, Stages
<1>4. OwnContext'
  BY <1>0 DEF TypeOK, LocksNest, OwnContext
<1>5. AdmittedStillStored'
  BY <1>0 DEF TypeOK, LocksNest, Stages, AdmittedStillStored
<1>6. AnswersJustified'
  BY <1>0 DEF TypeOK, LocksNest, Stages, OwnContext, AdmittedStillStored, AnswersJustified
<1> QED
  BY <1>1, <1>2, <1>3, <1>4, <1>5, <1>6 DEF InductiveInv

(* An info reply is about the owner of the request's token.                *)
LEMMA StepInfoUser ==
  ASSUME InductiveInv, NEW w \in Workers, InfoUser(w)
  PROVE  InductiveInv'
<1> USE HandlerAssumption DEF InfoUser, Finish, AtStorage, ReleaseUsers, At, Goto, Outside, Client, Inside, Storage, Admitted
<1>0. TypeOK /\ LocksNest /\ Stages /\ OwnContext /\ AdmittedStillStored /\ AnswersJustified
  BY DEF InductiveInv
<1>1. TypeOK'
  <2>1. UserName(context.token) \in Users \cup {"nobody"}
    BY <1>0, TokenUser, WholeHeader DEF TypeOK, Context, UserName
  <2> QED
    BY <1>0, <2>1, Replies DEF TypeOK, Labels
<1>2. LocksNest'
  BY <1>0 DEF TypeOK, LocksNest
<1>3. Stages'
  BY <1>0, Replies, WholeHeader, TokenUser DEF TypeOK, LocksNest, Stages, UserName, Context
<1>4. OwnContext'
  BY <1>0 DEF TypeOK, LocksNest, OwnContext
<1>5. AdmittedStillStored'
  BY <1>0 DEF TypeOK, LocksNest, Stages, AdmittedStillStored
<1>6. AnswersJustified'
  BY <1>0, Replies, TokenUser, WholeHeader DEF TypeOK, LocksNest, Stages, OwnContext, AdmittedStillStored, AnswersJustified, Context, UserName
<1> QED
  BY <1>1, <1>2, <1>3, <1>4, <1>5, <1>6 DEF InductiveInv

(* Releasing the mutex leaves nobody inside.                               *)
LEMMA StepUnlockApi ==
  ASSUME InductiveInv, NEW w \in Workers, UnlockApi(w)
  PROVE  InductiveInv'
<1> USE HandlerAssumption DEF UnlockApi, At, Goto, Outside, Client, Inside, Storage, Admitted
<1>0. TypeOK /\ LocksNest /\ Stages /\ OwnContext /\ AdmittedStillStored /\ AnswersJustified
  BY DEF InductiveInv
<1>1. TypeOK'
  BY <1>0 DEF TypeOK, Labels, Context
<1>2. LocksNest'
  BY <1>0 DEF TypeOK, LocksNest
<1>3. Stages'
  BY <1>0 DEF TypeOK, LocksNest, Stages
<1>4. OwnContext'
  BY <1>0 DEF TypeOK, LocksNest, OwnContext
<1>5. AdmittedStillStored'
  BY <1>0 DEF TypeOK, LocksNest, Stages, AdmittedStillStored
<1>6. AnswersJustified'
  BY <1>0 DEF TypeOK, LocksNest, Stages, OwnContext, AdmittedStillStored, AnswersJustified
<1> QED
  BY <1>1, <1>2, <1>3, <1>4, <1>5, <1>6 DEF InductiveInv

(* Sending a reply makes the thread idle.                                  *)
LEMMA StepSend ==
  ASSUME InductiveInv, NEW w \in Workers, Send(w)
  PROVE  InductiveInv'
<1> USE HandlerAssumption DEF Send, At, Goto, Outside, Client, Inside, Storage, Admitted
<1>0. TypeOK /\ LocksNest /\ Stages /\ OwnContext /\ AdmittedStillStored /\ AnswersJustified
  BY DEF InductiveInv
<1>1. TypeOK'
  BY <1>0, EmptyValues DEF TypeOK, Labels, Context, Reply
<1>2. LocksNest'
  BY <1>0 DEF TypeOK, LocksNest
<1>3. Stages'
  BY <1>0 DEF TypeOK, LocksNest, Stages
<1>4. OwnContext'
  BY <1>0 DEF TypeOK, LocksNest, OwnContext
<1>5. AdmittedStillStored'
  BY <1>0 DEF TypeOK, LocksNest, Stages, AdmittedStillStored
<1>6. AnswersJustified'
  BY <1>0 DEF TypeOK, LocksNest, Stages, OwnContext, AdmittedStillStored, AnswersJustified
<1> QED
  BY <1>1, <1>2, <1>3, <1>4, <1>5, <1>6 DEF InductiveInv

(* A request that arrives waits outside.                                   *)
LEMMA StepReceive ==
  ASSUME InductiveInv, NEW w \in Workers, NEW r \in ClientRequests(held),
         Receive(w, r)
  PROVE  InductiveInv'
<1> USE DEF Receive, At, Goto, Inside, Storage, Admitted
<1>0. TypeOK /\ LocksNest /\ Stages /\ OwnContext /\ AdmittedStillStored /\ AnswersJustified
  BY DEF InductiveInv
<1>1. TypeOK'
  <2>1. r \in Request
    BY <1>0, ClientsSendRequests DEF TypeOK
  <2>2. logins' \in 0..MaxLogins
    BY <1>0, HandlerAssumption DEF TypeOK
  <2> QED
    BY <1>0, <2>1, <2>2 DEF TypeOK, Labels
<1>2. LocksNest'
  BY <1>0, HandlerAssumption DEF TypeOK, LocksNest
<1>3. Stages'
  <2>1. r # NoRequest
    BY BoundsAssumption DEF ClientRequests, NoRequest
  <2> QED
    BY <1>0, <2>1 DEF TypeOK, Stages
<1>4. OwnContext'
  BY <1>0 DEF TypeOK, OwnContext
<1>5. AdmittedStillStored'
  BY <1>0 DEF TypeOK, AdmittedStillStored
<1>6. AnswersJustified'
  BY <1>0 DEF TypeOK, AnswersJustified
<1> QED
  BY <1>1, <1>2, <1>3, <1>4, <1>5, <1>6 DEF InductiveInv

(* With every thread idle and both mutexes free, the invariant holds.      *)
LEMMA AllIdle ==
  ASSUME TypeOK,
         pc = [w \in Workers |-> "idle"],
         req = [w \in Workers |-> NoRequest],
         apiMutex = NoWorker, usersMutex = NoWorker
  PROVE  InductiveInv
<1> USE HandlerAssumption DEF Inside, Storage, Admitted
<1>1. LocksNest
  BY DEF LocksNest
<1>2. Stages /\ OwnContext /\ AdmittedStillStored /\ AnswersJustified
  BY DEF Stages, OwnContext, AdmittedStillStored, AnswersJustified
<1> QED
  BY <1>1, <1>2 DEF InductiveInv

LEMMA InitInductive == Init => InductiveInv
<1> SUFFICES ASSUME Init PROVE InductiveInv
  OBVIOUS
<1>1. now \in Clock
  BY ApiAssumption DEF Init, Clock, Seconds
<1>2. TypeOK
  BY <1>1, EmptyValues, HandlerAssumption DEF Init, TypeOK, Labels
<1> QED
  BY <1>2, AllIdle DEF Init

(* The end of the process leaves nothing in progress.                      *)
LEMMA StepDie ==
  ASSUME InductiveInv, Die
  PROVE  InductiveInv'
<1>1. TypeOK'
  BY EmptyValues DEF InductiveInv, TypeOK, Die, Labels
<1>2. /\ pc' = [w \in Workers |-> "idle"]
      /\ req' = [w \in Workers |-> NoRequest]
      /\ apiMutex' = NoWorker /\ usersMutex' = NoWorker
  BY DEF Die
<1>3. LocksNest'
  BY <1>2, HandlerAssumption DEF LocksNest, Inside, Storage
<1>4. Stages' /\ OwnContext' /\ AdmittedStillStored' /\ AnswersJustified'
  BY <1>2 DEF Stages, OwnContext, AdmittedStillStored, AnswersJustified, Admitted
<1> QED
  BY <1>1, <1>3, <1>4 DEF InductiveInv

(* The clock and the process state are read by no conjunct but their types. *)
LEMMA StepEnvironment ==
  ASSUME InductiveInv, Tick \/ StepBack \/ Start \/ UNCHANGED vars
  PROVE  InductiveInv'
<1>1. now' \in Clock /\ up' \in BOOLEAN
  BY DEF InductiveInv, TypeOK, Tick, StepBack, Start, vars
<1>2. UNCHANGED <<apiMutex, usersMutex, context, tokens, pc, req, reply, held, logins>>
  BY DEF Tick, StepBack, Start, vars
<1>3. TypeOK'
  BY <1>1, <1>2 DEF InductiveInv, TypeOK
<1>4. LocksNest' /\ Stages' /\ OwnContext'
  BY <1>2 DEF InductiveInv, LocksNest, Stages, OwnContext
<1>5. AdmittedStillStored' /\ AnswersJustified'
  BY <1>2 DEF InductiveInv, AdmittedStillStored, AnswersJustified
<1> QED
  BY <1>3, <1>4, <1>5 DEF InductiveInv

LEMMA NextInductive == InductiveInv /\ [Next]_vars => InductiveInv'
<1> SUFFICES ASSUME InductiveInv, [Next]_vars PROVE InductiveInv'
  OBVIOUS
<1>1. CASE \E w \in Workers : Handle(w)
  <2>1. PICK w \in Workers : Handle(w)
    BY <1>1
  <2>2. CASE LockApi(w) \/ ParseLogin(w) \/ LockUsers(w) \/ Authenticate(w)
             \/ CreateToken(w) \/ TokenExist(w) \/ Verify(w) \/ Disprove(w)
    BY <2>2, StepLockApi, StepParseLogin, StepLockUsers, StepAuthenticate,
       StepCreateToken, StepTokenExist, StepVerify, StepDisprove
  <2>3. CASE CheckRoute(w) \/ CheckAccess(w) \/ SetContext(w) \/ Execute(w)
             \/ LogoutUser(w) \/ InfoUser(w) \/ UnlockApi(w) \/ Send(w)
    BY <2>3, StepCheckRoute, StepCheckAccess, StepSetContext, StepExecute,
       StepLogoutUser, StepInfoUser, StepUnlockApi, StepSend
  <2>4. CASE ParseThrows(w) \/ VerifyThrows(w)
    BY <2>4, StepDie DEF ParseThrows, VerifyThrows
  <2> QED
    BY <2>1, <2>2, <2>3, <2>4 DEF Handle
<1>2. CASE \E w \in Workers : \E r \in ClientRequests(held) : Receive(w, r)
  BY <1>2, StepReceive
<1>3. CASE Stop
  BY <1>3, StepDie DEF Stop
<1>4. CASE Tick \/ StepBack \/ Start \/ UNCHANGED vars
  BY <1>4, StepEnvironment
<1> QED
  BY <1>1, <1>2, <1>3, <1>4 DEF Next

-----------------------------------------------------------------------------
(* The invariant holds in every state of every behaviour.                  *)
THEOREM Invariance == Spec => []InductiveInv
  BY InitInductive, NextInductive, PTL DEF Spec

(* Every variable keeps its type.                                          *)
THEOREM TypeCorrect == Spec => []TypeOK
<1>1. InductiveInv => TypeOK
  BY DEF InductiveInv
<1> QED
  BY <1>1, Invariance, PTL

(* One request at a time is inside the handler, and the users' mutex is    *)
(* only taken there: the two locks are always taken in the same order.     *)
THEOREM LockOrder == Spec => []LocksNest
<1>1. InductiveInv => LocksNest
  BY DEF InductiveInv
<1> QED
  BY <1>1, Invariance, PTL

(* No route method ever runs with another request's context.               *)
THEOREM ContextIsOwn == Spec => []OwnContext
<1>1. InductiveInv => OwnContext
  BY DEF InductiveInv
<1> QED
  BY <1>1, Invariance, PTL

(* A token checked once is good until the request ends, across the gaps    *)
(* between the storage calls.                                              *)
THEOREM CheckedTokenStays == Spec => []AdmittedStillStored
<1>1. InductiveInv => AdmittedStillStored
  BY DEF InductiveInv
<1> QED
  BY <1>1, Invariance, PTL

(* No request is served that the presented token does not entitle to.      *)
THEOREM OnlyEntitledServed == Spec => []AnswersJustified
<1>1. InductiveInv => AnswersJustified
  BY DEF InductiveInv
<1> QED
  BY <1>1, Invariance, PTL

(* A step that erases a copy of a token is one of its holder's.            *)
LEMMA EraseIsHolders ==
  ASSUME InductiveInv, NEW w \in Workers, NEW h \in Header,
         pc[w] \in {"disprove", "logout"}, h = req[w].header,
         tokens' = IF h.form = "whole" THEN EraseOne(tokens, h.token) ELSE tokens
  PROVE  HolderRevokes
<1>1. SUFFICES ASSUME NEW t \in Token, tokens'[t] < tokens[t]
               PROVE  /\ tokens'[t] = tokens[t] - 1
                      /\ Presents(req[w], t)
  BY DEF HolderRevokes
<1>2. tokens \in Store /\ ~IsLogin(req[w])
  BY DEF InductiveInv, TypeOK, Stages, Admitted
<1>3. h.form = "whole"
  BY <1>1, <1>2 DEF Store
<1>4. h.token \in Token /\ h = Whole(h.token)
  BY <1>3, WholeHeader
<1>5. t = h.token
  BY <1>1, <1>2, <1>3, <1>4, StoreOps DEF Store
<1>6. tokens'[t] = tokens[t] - 1
  BY <1>1, <1>2, <1>3, <1>5 DEF Store, EraseOne
<1> QED
  BY <1>2, <1>4, <1>5, <1>6 DEF Presents

LEMMA NextRevokes == InductiveInv /\ [Next]_vars => HolderRevokes
<1> SUFFICES ASSUME InductiveInv, [Next]_vars PROVE HolderRevokes
  OBVIOUS
<1>0. tokens \in Store /\ tokens' \in Store
  BY NextInductive DEF InductiveInv, TypeOK
<1>1. CASE UNCHANGED tokens
  BY <1>0, <1>1 DEF HolderRevokes, Store
<1>2. ASSUME NEW w \in Workers, CreateToken(w) PROVE HolderRevokes
  <2> DEFINE t == [reply[w].token EXCEPT !.exp = Expiry(now.sec)]
  <2>1. tokens' = PushToken(tokens, t)
    BY <1>2 DEF CreateToken
  <2>2. \A u \in Token : tokens'[u] >= tokens[u]
    BY <1>0, <2>1 DEF PushToken, Store
  <2> QED
    BY <1>0, <2>2 DEF HolderRevokes, Store
<1>3. ASSUME NEW w \in Workers, Disprove(w) PROVE HolderRevokes
  <2>1. req[w].header \in Header
    BY DEF InductiveInv, TypeOK, Request
  <2> QED
    BY <1>3, <2>1, EraseIsHolders DEF Disprove, AtStorage, At
<1>4. ASSUME NEW w \in Workers, LogoutUser(w) PROVE HolderRevokes
  <2>1. req[w].header \in Header
    BY DEF InductiveInv, TypeOK, Request
  <2>2. pc[w] = "logout" /\ context.token = req[w].header
    BY <1>4 DEF LogoutUser, AtStorage, At, InductiveInv, OwnContext
  <2> QED
    BY <1>4, <2>1, <2>2, EraseIsHolders DEF LogoutUser
<1>5. CASE Die
  BY <1>5 DEF Die, HolderRevokes
<1>6. \/ UNCHANGED tokens \/ Die
      \/ \E w \in Workers : CreateToken(w) \/ Disprove(w) \/ LogoutUser(w)
  <2>1. CASE \E w \in Workers : Handle(w)
    BY <2>1 DEF Handle, LockApi, Dispatch, ParseLogin, ParseThrows, LockUsers,
       Authenticate, TokenExist, Verify, VerifyThrows, CheckRoute, CheckAccess,
       SetContext, Execute, InfoUser, UnlockApi, Send
  <2>2. CASE \E w \in Workers : \E r \in ClientRequests(held) : Receive(w, r)
    BY <2>2 DEF Receive
  <2>3. CASE Tick \/ StepBack \/ Stop \/ Start \/ UNCHANGED vars
    BY <2>3 DEF Tick, StepBack, Stop, Start, vars
  <2> QED
    BY <2>1, <2>2, <2>3 DEF Next
<1> QED
  BY <1>1, <1>2, <1>3, <1>4, <1>5, <1>6

(* A stored token is only ever lost, copy by copy, to requests presenting  *)
(* it, or with the whole process.                                          *)
THEOREM OnlyHolderRevokes == Spec => RevokedByHolder
  BY Invariance, NextRevokes, PTL DEF Spec, RevokedByHolder

-----------------------------------------------------------------------------
(* The copies of a token that no client has yet.                           *)

(* A client presents what it received: a token that nobody holds is in no  *)
(* request, so that no request takes a copy of it away.                    *)
PresentedHeld ==
  \A w \in Workers : req[w].header.form = "whole" => req[w].header.token \in held

CarriedCopies ==
  \A t \in Token \ held : /\ IsFiniteSet(Carriers(t))
                          /\ tokens[t] = Cardinality(Carriers(t))

CopiesInv == PresentedHeld /\ CarriedCopies

(* A step that moves no reply and no copy of a token without a holder.     *)
LEMMA CopiesStay ==
  ASSUME CarriedCopies, held \subseteq held',
         \A t \in Token \ held' : Carriers(t)' = Carriers(t) /\ tokens'[t] = tokens[t]
  PROVE  CarriedCopies'
  BY DEF CarriedCopies

(* A step that completes no reply with a token and adds no copy.           *)
LEMMA NothingAdded ==
  ASSUME \A t \in Token : /\ Carriers(t)' \subseteq Carriers(t)
                          /\ ~(tokens'[t] > tokens[t])
  PROVE  LoginAdds
  BY DEF LoginAdds

(* A copy taken away is not one added.                                     *)
LEMMA EraseAddsNone ==
  ASSUME NEW s \in Store, NEW t \in Token, NEW u \in Token
  PROVE  ~(EraseOne(s, t)[u] > s[u]) /\ ~(s[u] > s[u])
  BY DEF EraseOne, Store

(* A thread that takes a step is no carrier, before it or after it, unless *)
(* the step returns a reply with a token.                                  *)
LEMMA CarriersStay ==
  ASSUME TypeOK, NEW w \in Workers, NEW label, NEW r,
         pc[w] \notin {"return", "answered"},
         pc' = [pc EXCEPT ![w] = label],
         reply' = [reply EXCEPT ![w] = r],
         label \in {"return", "answered"} => r.token = NoToken,
         NEW t \in Token
  PROVE  Carriers(t)' = Carriers(t)
<1>1. t # NoToken
  BY DEF Token, NoToken, Users
<1>2. \A v \in Workers \ {w} : pc'[v] = pc[v] /\ reply'[v] = reply[v]
  BY DEF TypeOK
<1>3. pc'[w] = label /\ reply'[w] = r
  BY DEF TypeOK
<1> QED
  BY <1>1, <1>2, <1>3 DEF Carriers

(* A login's reply starts on its way when its token is added to the store. *)
LEMMA LoginAddsCarrier ==
  ASSUME InductiveInv, CarriedCopies, NEW w \in Workers, CreateToken(w)
  PROVE  CarriedCopies' /\ LoginAdds
<1>1. /\ [reply[w].token EXCEPT !.exp = Expiry(now.sec)] \in Token
      /\ tokens \in Store
  <2>1. reply[w].token \in Token /\ now \in Clock /\ tokens \in Store
    BY DEF InductiveInv, TypeOK, Stages, CreateToken, AtStorage, At
  <2> QED
    BY <2>1, ApiAssumption DEF Token, Clock, Seconds, Expiry
<1>2. PICK t \in Token :
        /\ tokens' = PushToken(tokens, t)
        /\ pc[w] = "createToken" /\ pc' = [pc EXCEPT ![w] = "return"]
        /\ reply' = [reply EXCEPT ![w] = Grant(t)]
        /\ held' = held
  BY <1>1 DEF CreateToken, AtStorage, At, Finish, Goto, Outside, Client
<1>3. Grant(t).token = t
  BY DEF Grant
<1>4. /\ \A v \in Workers \ {w} : pc'[v] = pc[v] /\ reply'[v] = reply[v]
      /\ pc'[w] = "return" /\ reply'[w] = Grant(t)
  BY <1>2 DEF InductiveInv, TypeOK
<1>5. \A u \in Token \ {t} : Carriers(u)' = Carriers(u) /\ tokens'[u] = tokens[u]
  <2>1. \A u \in Token \ {t} : tokens'[u] = tokens[u]
    BY <1>1, <1>2, StoreOps
  <2>2. \A u \in Token \ {t} : Carriers(u)' = Carriers(u)
    BY <1>2, <1>3, <1>4 DEF Carriers
  <2> QED
    BY <2>1, <2>2
<1>6. Carriers(t)' = Carriers(t) \cup {w} /\ w \notin Carriers(t)
  BY <1>2, <1>3, <1>4 DEF Carriers
<1>7. ASSUME t \notin held
      PROVE  IsFiniteSet(Carriers(t)') /\ tokens'[t] = Cardinality(Carriers(t)')
  <2>1. IsFiniteSet(Carriers(t)) /\ tokens[t] = Cardinality(Carriers(t))
    BY <1>1, <1>7 DEF CarriedCopies
  <2>2. tokens'[t] = tokens[t] + 1
    BY <1>1, <1>2, StoreOps
  <2> QED
    BY <1>6, <2>1, <2>2, FS_AddElement
<1>8. ASSUME NEW u \in Token \ held
      PROVE  IsFiniteSet(Carriers(u)') /\ tokens'[u] = Cardinality(Carriers(u)')
  <2>1. CASE u = t
    BY <1>7, <1>8, <2>1
  <2>2. CASE u # t
    BY <1>5, <1>8, <2>2 DEF CarriedCopies
  <2> QED
    BY <2>1, <2>2
<1>9. LoginAdds
  <2>1. tokens'[t] = tokens[t] + 1
    BY <1>1, <1>2, StoreOps
  <2>2. \A u \in Token \ {t} : Carriers(u)' \ Carriers(u) = {} /\ ~(tokens'[u] > tokens[u])
    BY <1>1, <1>5, EraseAddsNone
  <2>3. Carriers(t)' \ Carriers(t) # {}
    BY <1>6
  <2> QED
    BY <2>1, <2>2, <2>3 DEF LoginAdds
<1> QED
  BY <1>2, <1>8, <1>9 DEF CarriedCopies

(* A step that erases a copy erases one of the token presented.            *)
LEMMA EraseSparesCarried ==
  ASSUME InductiveInv, CopiesInv, NEW w \in Workers, Disprove(w) \/ LogoutUser(w)
  PROVE  CarriedCopies' /\ LoginAdds
<1>1. PICK r \in {Refusal("unauthorized"), Done} :
        /\ reply' = [reply EXCEPT ![w] = r]
        /\ pc' = [pc EXCEPT ![w] = "return"]
        /\ pc[w] \in {"disprove", "logout"}
        /\ held' = held
  BY DEF Disprove, LogoutUser, AtStorage, At, Finish, Goto, Outside, Client
<1>2. r.token = NoToken
  BY <1>1 DEF Refusal, Done
<1>3. \A t \in Token : Carriers(t)' = Carriers(t)
  BY <1>1, <1>2, CarriersStay DEF InductiveInv
<1>4. tokens' = IF req[w].header.form = "whole"
                THEN EraseOne(tokens, req[w].header.token)
                ELSE tokens
  BY DEF Disprove, LogoutUser, AtStorage, At, InductiveInv, OwnContext
<1>5. /\ req[w].header \in Header /\ tokens \in Store
      /\ req[w].header.form = "whole" => req[w].header.token \in held \cap Token
  BY WholeHeader DEF InductiveInv, TypeOK, Request, CopiesInv, PresentedHeld
<1>6. \A t \in Token \ held : tokens'[t] = tokens[t]
  BY <1>4, <1>5, StoreOps
<1>7. \A t \in Token : ~(tokens'[t] > tokens[t])
  BY <1>4, <1>5, EraseAddsNone
<1> QED
  BY <1>1, <1>3, <1>6, <1>7, CopiesStay, NothingAdded DEF CopiesInv

LEMMA GotoSparesCarried ==
  ASSUME TypeOK, NEW w \in Workers, pc[w] \notin {"return", "answered"},
         NEW label, label \notin {"return", "answered"}, Goto(w, label),
         \A v \in Workers \ {w} : reply'[v] = reply[v]
  PROVE  \A t \in Token : Carriers(t)' = Carriers(t)
<1>1. /\ \A v \in Workers \ {w} : pc'[v] = pc[v] /\ reply'[v] = reply[v]
      /\ pc'[w] = label
  BY DEF Goto, TypeOK
<1> QED
  BY <1>1 DEF Carriers

LEMMA FinishSparesCarried ==
  ASSUME TypeOK, NEW w \in Workers, pc[w] \notin {"return", "answered"},
         NEW r, r.token = NoToken, Finish(w, r)
  PROVE  \A t \in Token : Carriers(t)' = Carriers(t)
  BY CarriersStay DEF Finish, Goto

(* The other steps of a thread: no copy comes or goes.                     *)
LEMMA ThreadSparesCarried ==
  ASSUME InductiveInv, CarriedCopies, NEW w \in Workers,
         \/ LockApi(w) \/ ParseLogin(w) \/ LockUsers(w) \/ Authenticate(w)
         \/ TokenExist(w) \/ Verify(w) \/ CheckRoute(w) \/ CheckAccess(w)
         \/ SetContext(w) \/ Execute(w) \/ InfoUser(w)
  PROVE  CarriedCopies' /\ LoginAdds
<1>1. TypeOK
  BY DEF InductiveInv
<1>2. tokens' = tokens /\ held' = held
  BY DEF LockApi, Dispatch, ParseLogin, LockUsers, Authenticate, TokenExist, Verify,
         CheckRoute, CheckAccess, SetContext, Execute, InfoUser, Outside, Client
<1>3. pc[w] \notin {"return", "answered"}
  BY DEF LockApi, ParseLogin, LockUsers, Storage, Authenticate, TokenExist, Verify,
         CheckRoute, CheckAccess, SetContext, Execute, InfoUser, At, AtStorage
<1>4. /\ \A s \in Statuses : Refusal(s).token = NoToken
      /\ Done.token = NoToken
      /\ \A u \in Users \cup {"nobody"} : Info(u).token = NoToken
  BY DEF Refusal, Done, Info
<1>5. ASSUME NEW r, r.token = NoToken, Finish(w, r)
      PROVE  \A t \in Token : Carriers(t)' = Carriers(t)
  BY <1>1, <1>3, <1>5, FinishSparesCarried
<1>6. ASSUME NEW label, label \notin {"return", "answered"}, Goto(w, label),
             UNCHANGED reply
      PROVE  \A t \in Token : Carriers(t)' = Carriers(t)
  BY <1>1, <1>3, <1>6, GotoSparesCarried
<1>7. \A t \in Token : Carriers(t)' = Carriers(t)
  <2>1. CASE LockApi(w)
    BY <1>4, <1>5, <1>6, <2>1 DEF LockApi, Dispatch, Statuses
  <2>2. CASE ParseLogin(w) \/ TokenExist(w)
    BY <1>4, <1>5, <1>6, <2>2 DEF ParseLogin, TokenExist, Statuses
  <2>3. CASE LockUsers(w)
    BY <2>3 DEF LockUsers, Carriers
  <2>4. CASE Authenticate(w)
    <3>1. CASE Finish(w, Refusal("unauthorized"))
      BY <1>4, <1>5, <3>1 DEF Statuses
    <3>2. CASE Goto(w, "createToken") /\ \E r : reply' = [reply EXCEPT ![w].token = r]
      <4>1. \A v \in Workers \ {w} : reply'[v] = reply[v]
        BY <1>1, <3>2 DEF TypeOK
      <4> QED
        BY <1>1, <1>3, <3>2, <4>1, GotoSparesCarried
    <3> QED
      BY <2>4, <3>1, <3>2 DEF Authenticate
  <2>5. CASE Verify(w) \/ SetContext(w)
    BY <1>6, <2>5 DEF Verify, SetContext
  <2>6. CASE CheckRoute(w) \/ CheckAccess(w)
    BY <1>4, <1>5, <1>6, <2>6 DEF CheckRoute, CheckAccess, Statuses
  <2>7. CASE Execute(w)
    BY <1>4, <1>5, <1>6, <2>7 DEF Execute
  <2>8. CASE InfoUser(w)
    <3>1. UserName(context.token) \in Users \cup {"nobody"}
      BY <1>1, WholeHeader, TokenUser DEF UserName, TypeOK, Context
    <3> QED
      BY <1>4, <1>5, <2>8, <3>1 DEF InfoUser
  <2> QED
    BY <2>1, <2>2, <2>3, <2>4, <2>5, <2>6, <2>7, <2>8
<1>8. \A t \in Token : ~(tokens'[t] > tokens[t])
  BY <1>1, <1>2, EraseAddsNone DEF TypeOK
<1> QED
  BY <1>2, <1>7, <1>8, CopiesStay, NothingAdded

(* A reply goes on its way, and arrives: its client holds the token then.  *)
LEMMA SendSparesCarried ==
  ASSUME InductiveInv, CarriedCopies, NEW w \in Workers, UnlockApi(w) \/ Send(w)
  PROVE  CarriedCopies' /\ LoginAdds
<1>0. \A t \in Token : ~(tokens[t] > tokens[t])
  BY EraseAddsNone DEF InductiveInv, TypeOK
<1>1. CASE UnlockApi(w)
  <2>1. /\ pc[w] = "return" /\ pc' = [pc EXCEPT ![w] = "answered"]
        /\ UNCHANGED <<reply, tokens, held>>
    BY <1>1 DEF UnlockApi, At, Goto, Outside, Client
  <2>2. \A v \in Workers : pc'[v] \in {"return", "answered"}
                              <=> pc[v] \in {"return", "answered"}
    BY <2>1 DEF InductiveInv, TypeOK
  <2>3. \A t \in Token : Carriers(t)' = Carriers(t)
    BY <2>1, <2>2 DEF Carriers
  <2> QED
    BY <1>0, <2>1, <2>3, CopiesStay, NothingAdded
<1>2. CASE Send(w)
  <2>1. /\ pc' = [pc EXCEPT ![w] = "idle"]
        /\ reply' = [reply EXCEPT ![w] = NoReply]
        /\ held' = held \cup ({reply[w].token} \ {NoToken})
        /\ tokens' = tokens
    BY <1>2 DEF Send, At, Goto
  <2>2. /\ \A v \in Workers \ {w} : pc'[v] = pc[v] /\ reply'[v] = reply[v]
        /\ pc'[w] = "idle"
    BY <2>1 DEF InductiveInv, TypeOK
  <2>3. ASSUME NEW t \in Token \ held'
        PROVE  Carriers(t)' = Carriers(t)
    <3>1. reply[w].token # t
      BY <2>1, <2>3 DEF Token, NoToken, Users
    <3> QED
      BY <2>2, <3>1 DEF Carriers
  <2>4. \A t \in Token : Carriers(t)' \subseteq Carriers(t)
    BY <2>2 DEF Carriers
  <2> QED
    BY <1>0, <2>1, <2>3, <2>4, CopiesStay, NothingAdded
<1> QED
  BY <1>1, <1>2

LEMMA DieSparesCarried ==
  ASSUME Die
  PROVE  CopiesInv' /\ LoginAdds
<1>1. ASSUME NEW t \in Token
      PROVE  IsFiniteSet(Carriers(t)') /\ tokens'[t] = Cardinality(Carriers(t)')
  <2>1. Carriers(t)' = {} /\ tokens'[t] = 0
    BY DEF Die, Carriers, EmptyStore
  <2> QED
    BY <2>1, FS_EmptySet
<1>2. PresentedHeld'
  BY DEF Die, PresentedHeld, NoRequest, Absent
<1>3. LoginAdds
  BY DEF Die, LoginAdds
<1> QED
  BY <1>1, <1>2, <1>3 DEF CopiesInv, CarriedCopies

(* A client has what it presents.                                          *)
LEMMA ReceiveSparesCarried ==
  ASSUME InductiveInv, CopiesInv, NEW w \in Workers, NEW r \in ClientRequests(held),
         Receive(w, r)
  PROVE  CopiesInv' /\ LoginAdds
<1>1. /\ pc[w] = "idle" /\ Goto(w, "start") /\ UNCHANGED <<tokens, reply, held>>
      /\ req' = [req EXCEPT ![w] = r]
  BY DEF Receive, At
<1>2. CarriedCopies' /\ LoginAdds
  <2>1. \A t \in Token : Carriers(t)' = Carriers(t)
    BY <1>1, GotoSparesCarried DEF InductiveInv
  <2>2. \A t \in Token : ~(tokens[t] > tokens[t])
    BY EraseAddsNone DEF InductiveInv, TypeOK
  <2> QED
    BY <1>1, <2>1, <2>2, CopiesStay, NothingAdded DEF CopiesInv
<1>3. r.header.form = "whole" => r.header.token \in held
  BY BoundsAssumption DEF ClientRequests, Absent, Foreign, Piece, Whole
<1>4. PresentedHeld'
  <2>1. \A v \in Workers : req'[v] = IF v = w THEN r ELSE req[v]
    BY <1>1 DEF InductiveInv, TypeOK
  <2> QED
    BY <1>1, <1>3, <2>1 DEF CopiesInv, PresentedHeld
<1> QED
  BY <1>2, <1>4 DEF CopiesInv

LEMMA InitCopies == Init => CopiesInv
<1> SUFFICES ASSUME Init
             PROVE  CopiesInv
  OBVIOUS
<1>1. \A t \in Token : Carriers(t) = {} /\ tokens[t] = 0
  BY DEF Init, Carriers, EmptyStore
<1>2. CarriedCopies
  BY <1>1, FS_EmptySet DEF CarriedCopies
<1> QED
  BY <1>2 DEF Init, CopiesInv, PresentedHeld, NoRequest, Absent

LEMMA NextCopies == InductiveInv /\ CopiesInv /\ [Next]_vars => CopiesInv' /\ LoginAdds
<1> SUFFICES ASSUME InductiveInv, CopiesInv, [Next]_vars
             PROVE  CopiesInv' /\ LoginAdds
  OBVIOUS
<1>1. ASSUME NEW w \in Workers, Handle(w), ~Die
      PROVE  CopiesInv' /\ LoginAdds
  <2>1. CarriedCopies' /\ LoginAdds
    BY <1>1, LoginAddsCarrier, EraseSparesCarried, ThreadSparesCarried, SendSparesCarried
       DEF Handle, CopiesInv, ParseThrows, VerifyThrows
  <2>2. held \subseteq held' /\ (req' = req \/ req' = [req EXCEPT ![w] = NoRequest])
    BY <1>1 DEF Handle, LockApi, Dispatch, ParseLogin, ParseThrows, LockUsers,
       Authenticate, CreateToken, TokenExist, Verify, VerifyThrows, Disprove,
       CheckRoute, CheckAccess, SetContext, Execute, LogoutUser, InfoUser, UnlockApi,
       Send, Outside, Client
  <2>3. PresentedHeld'
    <3>1. \A v \in Workers : req'[v] \in {req[v], NoRequest}
      BY <2>2 DEF InductiveInv, TypeOK
    <3> QED
      BY <2>2, <3>1 DEF CopiesInv, PresentedHeld, NoRequest, Absent
  <2> QED
    BY <2>1, <2>3 DEF CopiesInv
<1>2. CASE Die
  BY <1>2, DieSparesCarried
<1>3. CASE \E w \in Workers : \E r \in ClientRequests(held) : Receive(w, r)
  BY <1>3, ReceiveSparesCarried
<1>4. CASE Tick \/ StepBack \/ Start \/ UNCHANGED vars
  <2>1. UNCHANGED <<tokens, pc, reply, req, held>>
    BY <1>4 DEF Tick, StepBack, Start, vars
  <2>2. \A t \in Token : ~(tokens[t] > tokens[t])
    BY EraseAddsNone DEF InductiveInv, TypeOK
  <2>3. \A t \in Token : Carriers(t)' = Carriers(t)
    BY <2>1 DEF Carriers
  <2>4. LoginAdds
    BY <2>1, <2>2, <2>3, NothingAdded
  <2> QED
    BY <2>1, <2>3, <2>4 DEF CopiesInv, PresentedHeld, CarriedCopies
<1> QED
  BY <1>1, <1>2, <1>3, <1>4 DEF Next, Stop

(* Every login's token is stored once more than before, whether another    *)
(* reply carries the same text or a client holds it already; and until a   *)
(* client has the token, no request takes a copy away.                     *)
THEOREM LoginsAddCopies == Spec => GrantedCopies
<1>1. Spec => []CopiesInv
  BY InitCopies, NextCopies, Invariance, PTL DEF Spec
<1>2. CopiesInv => CopiesUnderWay
  BY DEF CopiesInv, CarriedCopies, CopiesUnderWay
<1>3. Spec => [][LoginAdds]_vars
  BY <1>1, NextCopies, Invariance, PTL DEF Spec
<1>4. CopiesUnderWay' /\ [LoginAdds]_vars => [LoginAdds /\ CopiesUnderWay']_vars
  OBVIOUS
<1> QED
  BY <1>1, <1>2, <1>3, <1>4, PTL DEF GrantedCopies

-----------------------------------------------------------------------------
(* What may end the process.                                               *)

(* A text that is verified is a stored token, or a piece found while some  *)
(* token is stored.                                                        *)
FoundTexts ==
  \A w \in Workers :
    pc[w] = "verify" /\ req[w].header.form # "whole" =>
      req[w].header = Piece /\ \E t \in Token : tokens[t] > 0

(* A step of a thread inside the handler: no other thread is at "verify".  *)
LEMMA VerifiedAlone ==
  ASSUME InductiveInv, NEW w \in Workers, pc[w] \in Inside, NEW label,
         Goto(w, label), label # "verify"
  PROVE  \A v \in Workers : pc'[v] # "verify"
  BY DEF InductiveInv, TypeOK, LocksNest, Inside, Goto

LEMMA FoundByTokenExist ==
  ASSUME InductiveInv, NEW w \in Workers, TokenExist(w)
  PROVE  FoundTexts'
<1>1. /\ pc[w] = "tokenExist" /\ UNCHANGED <<req, tokens>>
      /\ req[w].header \in Header \ {Absent}
  BY DEF TokenExist, AtStorage, At, InductiveInv, TypeOK, Stages, Request,
         Outside, Client
<1>2. CASE Finish(w, Refusal("unauthorized"))
  <2>1. \A v \in Workers : pc'[v] # "verify"
    BY <1>1, <1>2, VerifiedAlone DEF Finish, Inside, Storage
  <2> QED
    BY <2>1 DEF FoundTexts
<1>3. CASE /\ Goto(w, "verify")
           /\ req[w].header.form = "piece" => \E t \in Token : tokens[t] > 0
           /\ req[w].header.form # "foreign"
  <2>1. \A v \in Workers : pc'[v] = "verify" => v = w
    BY <1>1, <1>3 DEF InductiveInv, TypeOK, LocksNest, Inside, Storage, Goto
  <2>2. req[w].header.form # "whole" => req[w].header = Piece
    BY <1>1, <1>3 DEF Header, Absent, Foreign, Piece, Whole
  <2>3. req[w].header.form # "whole" => \E t \in Token : tokens[t] > 0
    BY <1>3, <2>2 DEF Piece
  <2> QED
    BY <1>1, <2>1, <2>2, <2>3 DEF FoundTexts
<1> QED
  BY <1>2, <1>3 DEF TokenExist

(* The other steps: a copy leaves only while nobody verifies a text.       *)
LEMMA FoundByThread ==
  ASSUME InductiveInv, FoundTexts, NEW w \in Workers, Handle(w), ~Die, ~TokenExist(w)
  PROVE  FoundTexts'
<1>1. CASE \/ CreateToken(w) \/ Disprove(w) \/ LogoutUser(w)
  <2>1. /\ pc[w] \in Inside
        /\ Goto(w, "return")
    BY <1>1 DEF CreateToken, Disprove, LogoutUser, AtStorage, At, Finish, Inside, Storage
  <2>2. \A v \in Workers : pc'[v] # "verify"
    BY <2>1, VerifiedAlone
  <2> QED
    BY <2>2 DEF FoundTexts
<1>2. CASE LockApi(w) \/ ParseLogin(w) \/ LockUsers(w) \/ Authenticate(w) \/ Verify(w)
           \/ CheckRoute(w) \/ CheckAccess(w) \/ SetContext(w) \/ Execute(w)
           \/ InfoUser(w) \/ UnlockApi(w)
  <2>1. UNCHANGED <<req, tokens>>
    BY <1>2 DEF LockApi, Dispatch, ParseLogin, LockUsers, Authenticate, Verify,
         CheckRoute, CheckAccess, SetContext, Execute, InfoUser, UnlockApi
  <2>2. \/ pc' = pc
        \/ \E label \in Labels \ {"verify"} : pc' = [pc EXCEPT ![w] = label]
    BY <1>2 DEF LockApi, Dispatch, ParseLogin, LockUsers, Authenticate, Verify,
         CheckRoute, CheckAccess, SetContext, Execute, InfoUser, UnlockApi,
         Finish, Goto, Labels, Inside, Storage
  <2>3. \A v \in Workers : pc'[v] = "verify" => pc[v] = "verify"
    BY <2>2 DEF InductiveInv, TypeOK
  <2> QED
    BY <2>1, <2>3 DEF FoundTexts
<1>3. CASE Send(w)
  <2>1. \A v \in Workers : pc'[v] = "verify" => pc[v] = "verify" /\ req'[v] = req[v]
    BY <1>3 DEF Send, Goto, InductiveInv, TypeOK
  <2>2. UNCHANGED tokens
    BY <1>3 DEF Send
  <2> QED
    BY <2>1, <2>2 DEF FoundTexts
<1> QED
  BY <1>1, <1>2, <1>3 DEF Handle, ParseThrows, VerifyThrows

LEMMA NextFound == InductiveInv /\ FoundTexts /\ [Next]_vars => FoundTexts'
<1> SUFFICES ASSUME InductiveInv, FoundTexts, [Next]_vars
             PROVE  FoundTexts'
  OBVIOUS
<1>1. ASSUME NEW w \in Workers, Handle(w), ~Die
      PROVE  FoundTexts'
  BY <1>1, FoundByTokenExist, FoundByThread
<1>2. CASE Die
  BY <1>2 DEF Die, FoundTexts
<1>3. ASSUME NEW w \in Workers, NEW r \in ClientRequests(held), Receive(w, r)
      PROVE  FoundTexts'
  <2>1. \A v \in Workers : pc'[v] = "verify" => pc[v] = "verify" /\ req'[v] = req[v]
    BY <1>3 DEF Receive, Goto, InductiveInv, TypeOK
  <2>2. UNCHANGED tokens
    BY <1>3 DEF Receive
  <2> QED
    BY <2>1, <2>2 DEF FoundTexts
<1>4. CASE Tick \/ StepBack \/ Start \/ UNCHANGED vars
  <2>1. UNCHANGED <<tokens, pc, req>>
    BY <1>4 DEF Tick, StepBack, Start, vars
  <2> QED
    BY <2>1 DEF FoundTexts
<1> QED
  BY <1>1, <1>2, <1>3, <1>4 DEF Next, Stop

(* The steps that leave the process up.                                    *)
LEMMA EndsInTwoPlaces == InductiveInv /\ FoundTexts /\ [Next]_vars => EndsByThrow
<1> SUFFICES ASSUME InductiveInv, FoundTexts, [Next]_vars, up, ~up', ~MayStop
             PROVE  \E w \in Workers :
                      \/ pc[w] = "login" /\ req[w].body = IllTyped
                      \/ /\ pc[w] = "verify" /\ req[w].header = Piece
                         /\ \E t \in Token : tokens[t] > 0
  BY DEF EndsByThrow
<1>1. PICK w \in Workers : Handle(w)
  BY DEF Next, Receive, Tick, StepBack, Stop, Start, vars
<1>2. CASE ParseThrows(w)
  BY <1>2 DEF ParseThrows, At
<1>3. CASE VerifyThrows(w)
  BY <1>3 DEF VerifyThrows, At, FoundTexts
<1>4. CASE ~ParseThrows(w) /\ ~VerifyThrows(w)
  BY <1>1, <1>4 DEF Handle, LockApi, Dispatch, ParseLogin, LockUsers, Authenticate,
     CreateToken, TokenExist, Verify, Disprove, CheckRoute, CheckAccess, SetContext,
     Execute, LogoutUser, InfoUser, UnlockApi, Send, Outside
<1> QED
  BY <1>2, <1>3, <1>4

(* No text a client makes up ends the process: only a login body of        *)
(* another shape does, or a piece that was found among the stored tokens   *)
(* and is decoded while they are still there.                              *)
THEOREM OnlyFoundTextsEnd == Spec => OnlyFoundTextsThrow
<1>1. Init => FoundTexts
  BY DEF Init, FoundTexts
<1>2. Spec => []FoundTexts
  BY <1>1, NextFound, Invariance, PTL DEF Spec
<1> QED
  BY <1>2, EndsInTwoPlaces, Invariance, PTL DEF Spec, OnlyFoundTextsThrow

-----------------------------------------------------------------------------
(* The handler with its two mutexes implements SessionService, for any     *)
(* number of threads.  Each step of the handler is one step of the service *)
(* or a stutter; the inductive invariant supplies what a thread knows of   *)
(* the store at each point.                                                *)

(* The service's copies of the shared definitions are the handler's.       *)
LEMMA SameValues ==
  /\ Service!NoRequest = NoRequest /\ Service!NoReply = NoReply
  /\ Service!BadJson = BadJson /\ Service!WrongCreds = WrongCreds
  /\ Service!EmptyStore = EmptyStore
  /\ Service!Token = Token /\ Service!Request = Request
  BY DEF Service!NoRequest, NoRequest, Service!NoReply, NoReply, Service!Refusal,
         Refusal, Service!BadJson, BadJson, Service!WrongCreds, WrongCreds,
         Service!EmptyStore, EmptyStore, Service!Token, Token, Service!Request,
         Request, Service!Header, Header, Service!Body, Body, Service!Target,
         Target, Service!Users, Users, Service!Seconds, Seconds, Service!Absent,
         Absent, Service!Foreign, Foreign, Service!Piece, Piece, Service!Whole,
         Whole, Service!IllTyped, IllTyped, Service!Creds, Creds,
         Service!NoToken, NoToken

LEMMA SameOperators ==
  /\ \A s : Service!Refusal(s) = Refusal(s)
  /\ \A t : Service!Grant(t) = Grant(t)
  /\ \A u : Service!Creds(u) = Creds(u)
  /\ \A r : Service!IsLogin(r) <=> IsLogin(r)
  /\ \A t, time : Service!Valid(t, time) <=> Valid(t, time)
  /\ \A time, next : Service!Later(time, next) <=> Later(time, next)
  /\ \A time, next : Service!SetBack(time, next) <=> SetBack(time, next)
  /\ \A st, t : Service!PushToken(st, t) = PushToken(st, t)
  /\ \A st, t : Service!EraseOne(st, t) = EraseOne(st, t)
  BY DEF Service!Refusal, Refusal, Service!Grant, Grant, Service!Creds, Creds,
         Service!IsLogin, IsLogin, Service!Valid, Valid, Service!Expired, Expired,
         Service!NotYetIssued, NotYetIssued, Service!Later, Later,
         Service!SetBack, SetBack, Service!Clock, Clock, Service!Seconds, Seconds,
         Service!PushToken, PushToken, Service!EraseOne, EraseOne,
         Service!NoToken, NoToken

LEMMA SameServedReply ==
  \A path, t : Service!ServedReply(path, t) = ServedReply(path, t)
  BY DEF Service!ServedReply, ServedReply, Service!RouteMethods, RouteMethods,
         Service!UserRoutes, UserRoutes, Service!Users, Users, Service!Info, Info,
         Service!Done, Done, Service!Refusal, Refusal, Service!NoToken, NoToken

(* Only the thread that owns the handler's mutex has a copy to erase.      *)
LEMMA OneEraser ==
  ASSUME InductiveInv, NEW w \in Workers, pc[w] \in Inside,
         NEW v \in Workers, WillErase(v)
  PROVE  v = w
  BY DEF InductiveInv, LocksNest, WillErase, Inside, Storage, Admitted

(* A step of one thread that changes neither its settled reply nor the     *)
(* copies settled to stay is invisible.                                    *)
LEMMA GoodTokensOf ==
  ASSUME InductiveInv, NEW w \in Workers, pc[w] \in Inside
  PROVE  GoodTokens = IF WillErase(w) THEN EraseOne(tokens, req[w].header.token)
                                      ELSE tokens
<1>1. tokens \in Store /\ req[w] \in Request
  BY DEF InductiveInv, TypeOK
<1>2. \A v \in Workers : WillErase(v) => v = w
  BY OneEraser
<1>3. CASE WillErase(w)
  <2>1. req[w].header.token \in Token /\ tokens[req[w].header.token] > 0
    BY <1>1, <1>3, WholeHeader
       DEF InductiveInv, AdmittedStillStored, Stages, WillErase, Request
  <2>2. GoodTokens = [t \in Token |-> IF t = req[w].header.token THEN tokens[t] - 1
                                                                 ELSE tokens[t]]
    BY <1>1, <1>2, <1>3, <2>1 DEF GoodTokens, Store
  <2>3. EraseOne(tokens, req[w].header.token)
          = [t \in Token |-> IF t = req[w].header.token THEN tokens[t] - 1
                                                        ELSE tokens[t]]
    BY <1>1, <2>1 DEF EraseOne, Store
  <2> QED
    BY <1>3, <2>2, <2>3
<1>4. CASE ~WillErase(w)
  BY <1>1, <1>2, <1>4 DEF GoodTokens, Store
<1> QED
  BY <1>3, <1>4

(* The copies that stay, by who is inside the handler.                     *)
StayingCopies ==
  /\ \A w \in Workers : pc[w] \in Inside =>
       GoodTokens = IF WillErase(w) THEN EraseOne(tokens, req[w].header.token)
                                    ELSE tokens
  /\ (\A w \in Workers : pc[w] \notin Inside) => GoodTokens = tokens

LEMMA Staying == InductiveInv => StayingCopies
<1> SUFFICES ASSUME InductiveInv PROVE StayingCopies
  OBVIOUS
<1>1. ASSUME \A w \in Workers : pc[w] \notin Inside PROVE GoodTokens = tokens
  <2>1. \A w \in Workers : ~WillErase(w)
    BY <1>1 DEF WillErase, Inside, Storage, Admitted
  <2> QED
    BY <2>1 DEF GoodTokens, InductiveInv, TypeOK, Store
<1> QED
  BY <1>1, GoodTokensOf DEF StayingCopies

LEMMA StayingNext == InductiveInv' => StayingCopies'
  BY Staying, PTL

(* A step of one thread changes no other thread's verdict.                 *)
OnlyThread(w) == \A v \in Workers \ {w} : /\ pc'[v] = pc[v]
                                          /\ req'[v] = req[v]
                                          /\ reply'[v] = reply[v]

LEMMA VerdictsStep ==
  ASSUME NEW w \in Workers, OnlyThread(w)
  PROVE  Verdicts' = [Verdicts EXCEPT ![w] = Settled(w)']
<1>1. \A v \in Workers \ {w} : Settled(v)' = Settled(v)
  BY DEF OnlyThread, Settled
<1> QED
  BY <1>1 DEF Verdicts

(* A step that settles nothing is a stutter of the service.                *)
LEMMA Invisible ==
  ASSUME NEW w \in Workers, OnlyThread(w), UNCHANGED <<up, now, req>>,
         Settled(w)' = Settled(w), GoodTokens' = GoodTokens
  PROVE  UNCHANGED Service!serviceVars
<1>1. \A v \in Workers : Settled(v)' = Settled(v)
  BY DEF OnlyThread, Settled
<1>2. Verdicts' = Verdicts
  BY <1>1 DEF Verdicts
<1> QED
  BY <1>2 DEF Service!serviceVars

(* A step that settles a request refused before any token was looked at.   *)
LEMMA SettlesRefusal ==
  ASSUME NEW w \in Workers, OnlyThread(w), up, UNCHANGED <<up, now, req>>,
         req[w] # NoRequest, Settled(w) = NoReply, GoodTokens' = GoodTokens,
         \/ /\ IsLogin(req[w]) /\ req[w].body = BadJson
            /\ Settled(w)' = Refusal("badRequest")
         \/ /\ IsLogin(req[w]) /\ req[w].body = WrongCreds
            /\ Settled(w)' = Refusal("unauthorized")
         \/ /\ ~IsLogin(req[w]) /\ req[w].header.form # "whole"
            /\ Settled(w)' = Refusal("unauthorized")
  PROVE  Service!Decide(w)
<1>1. Verdicts' = [Verdicts EXCEPT ![w] = Settled(w)'] /\ Verdicts[w] = NoReply
  BY VerdictsStep DEF Verdicts
<1> QED
  BY <1>1, SameValues, SameOperators DEF Service!Decide, Service!DecideLogin

(* A step that settles a request with a whole token.                       *)
LEMMA SettlesToken ==
  ASSUME NEW w \in Workers, OnlyThread(w), up, UNCHANGED <<up, now, req>>,
         req[w] # NoRequest, Settled(w) = NoReply,
         ~IsLogin(req[w]), req[w].header.form = "whole",
         Service!DecideToken(w, req[w].path, req[w].header.token)
  PROVE  Service!Decide(w)
<1>1. Verdicts[w] = NoReply
  BY DEF Verdicts
<1> QED
  BY <1>1, SameValues, SameOperators DEF Service!Decide

-----------------------------------------------------------------------------
(* The steps of the handler, one by one.                                   *)

Visible(w) == Service!Decide(w) \/ UNCHANGED Service!serviceVars

(* The users' mutex is not part of the service.                            *)
LEMMA SeeLockUsers ==
  ASSUME InductiveInv, InductiveInv', NEW w \in Workers, LockUsers(w)
  PROVE  UNCHANGED Service!serviceVars
<1> USE DEF LockUsers, At, Goto, Outside, Client
<1>1. pc[w] \in Inside /\ pc'[w] \in Inside
  BY DEF InductiveInv, TypeOK, Inside, Storage
<1>2. StayingCopies /\ StayingCopies'
  BY Staying, StayingNext
<1>3. OnlyThread(w)
  BY DEF OnlyThread, InductiveInv, TypeOK
<1>4. Settled(w)' = Settled(w)
  BY DEF Settled
<1>5. GoodTokens' = GoodTokens
  BY <1>1, <1>2 DEF StayingCopies, WillErase
<1> QED
  BY <1>3, <1>4, <1>5, Invisible

(* The copy was already counted as gone when the clock was read.           *)
LEMMA SeeDisprove ==
  ASSUME InductiveInv, InductiveInv', NEW w \in Workers, Disprove(w)
  PROVE  UNCHANGED Service!serviceVars
<1> USE DEF Disprove, AtStorage, ReleaseUsers, Finish, At, Goto, Outside, Client
<1>1. pc[w] \in Inside /\ pc'[w] \in Inside
  BY DEF InductiveInv, TypeOK, Inside, Storage
<1>2. StayingCopies /\ StayingCopies'
  BY Staying, StayingNext
<1>3. OnlyThread(w)
  BY DEF OnlyThread, InductiveInv, TypeOK
<1>4. Settled(w)' = Settled(w)
  BY DEF InductiveInv, TypeOK, Settled, Admitted
<1>5. GoodTokens' = GoodTokens
  BY <1>1, <1>2 DEF InductiveInv, TypeOK, StayingCopies, WillErase, Admitted
<1> QED
  BY <1>3, <1>4, <1>5, Invisible

(* The missing method was settled with the token.                          *)
LEMMA SeeCheckRoute ==
  ASSUME InductiveInv, InductiveInv', NEW w \in Workers, CheckRoute(w)
  PROVE  UNCHANGED Service!serviceVars
<1> USE DEF CheckRoute, Finish, At, Goto, Outside, Client
<1>1. pc[w] \in Inside /\ pc'[w] \in Inside
  BY DEF InductiveInv, TypeOK, Inside, Storage
<1>2. StayingCopies /\ StayingCopies'
  BY Staying, StayingNext
<1>3. OnlyThread(w)
  BY DEF OnlyThread, InductiveInv, TypeOK
<1>4. Settled(w)' = Settled(w)
  BY DEF InductiveInv, TypeOK, Settled, Admitted, ServedReply
<1>5. GoodTokens' = GoodTokens
  BY <1>1, <1>2 DEF InductiveInv, TypeOK, StayingCopies, WillErase, Admitted, RouteMethods
<1> QED
  BY <1>3, <1>4, <1>5, Invisible

(* So was the owner's right to the path.                                   *)
LEMMA SeeCheckAccess ==
  ASSUME InductiveInv, InductiveInv', NEW w \in Workers, CheckAccess(w)
  PROVE  UNCHANGED Service!serviceVars
<1> USE DEF CheckAccess, AtStorage, ReleaseUsers, Finish, At, Goto, Outside, Client
<1>1. pc[w] \in Inside /\ pc'[w] \in Inside
  BY DEF InductiveInv, TypeOK, Inside, Storage
<1>2. StayingCopies /\ StayingCopies'
  BY Staying, StayingNext
<1>3. UserRoutes[req[w].header.token.user] = RoutesOf(UserName(req[w].header))
  BY <1>1, WholeHeader, TokenUser
     DEF CheckAccess, AtStorage, At, InductiveInv, TypeOK, Request,
         AdmittedStillStored, Admitted, UserName, RoutesOf
<1>4. OnlyThread(w)
  BY DEF OnlyThread, InductiveInv, TypeOK
<1>5. Settled(w)' = Settled(w)
  BY <1>3 DEF InductiveInv, TypeOK, Stages, Settled, Admitted, ServedReply
<1>6. GoodTokens' = GoodTokens
  BY <1>1, <1>2, <1>3 DEF InductiveInv, TypeOK, StayingCopies, WillErase, Admitted
<1> QED
  BY <1>4, <1>5, <1>6, Invisible

(* The context is not part of the service.                                 *)
LEMMA SeeSetContext ==
  ASSUME InductiveInv, InductiveInv', NEW w \in Workers, SetContext(w)
  PROVE  UNCHANGED Service!serviceVars
<1> USE DEF SetContext, At, Goto, Outside, Client
<1>1. pc[w] \in Inside /\ pc'[w] \in Inside
  BY DEF InductiveInv, TypeOK, Inside, Storage
<1>2. StayingCopies /\ StayingCopies'
  BY Staying, StayingNext
<1>3. OnlyThread(w)
  BY DEF OnlyThread, InductiveInv, TypeOK
<1>4. Settled(w)' = Settled(w)
  BY DEF InductiveInv, TypeOK, Settled, Admitted
<1>5. GoodTokens' = GoodTokens
  BY <1>1, <1>2 DEF InductiveInv, TypeOK, StayingCopies, WillErase, Admitted
<1> QED
  BY <1>3, <1>4, <1>5, Invisible

(* The reply of the method was settled with the token.                     *)
LEMMA SeeExecute ==
  ASSUME InductiveInv, InductiveInv', NEW w \in Workers, Execute(w)
  PROVE  UNCHANGED Service!serviceVars
<1> USE DEF Execute, Finish, At, Goto, Outside, Client
<1>1. pc[w] \in Inside /\ pc'[w] \in Inside
  BY DEF InductiveInv, TypeOK, Inside, Storage
<1>2. StayingCopies /\ StayingCopies'
  BY Staying, StayingNext
<1>3. context.route = req[w].path /\ req[w].path \in UserRoutes[req[w].header.token.user]
  BY <1>1 DEF Execute, At, InductiveInv, OwnContext, Stages, Admitted
<1>4. OnlyThread(w)
  BY DEF OnlyThread, InductiveInv, TypeOK
<1>5. Settled(w)' = Settled(w)
  BY <1>3 DEF InductiveInv, TypeOK, Stages, Settled, Admitted, ServedReply
<1>6. GoodTokens' = GoodTokens
  BY <1>1, <1>2, <1>3 DEF InductiveInv, TypeOK, StayingCopies, WillErase, Admitted
<1> QED
  BY <1>4, <1>5, <1>6, Invisible

(* The copy was already counted as gone when the token was verified.       *)
LEMMA SeeLogoutUser ==
  ASSUME InductiveInv, InductiveInv', NEW w \in Workers, LogoutUser(w)
  PROVE  UNCHANGED Service!serviceVars
<1> USE DEF LogoutUser, AtStorage, ReleaseUsers, Finish, At, Goto, Outside, Client
<1>1. pc[w] \in Inside /\ pc'[w] \in Inside
  BY DEF InductiveInv, TypeOK, Inside, Storage
<1>2. StayingCopies /\ StayingCopies'
  BY Staying, StayingNext
<1>3. /\ context = [route |-> req[w].path, token |-> req[w].header]
      /\ req[w].path = "logout" /\ req[w].header.form = "whole"
      /\ req[w].path \in UserRoutes[req[w].header.token.user]
  BY <1>1 DEF LogoutUser, AtStorage, At, InductiveInv, OwnContext, Stages,
     AdmittedStillStored, Admitted
<1>4. OnlyThread(w)
  BY DEF OnlyThread, InductiveInv, TypeOK
<1>5. Settled(w)' = Settled(w)
  BY <1>3 DEF InductiveInv, TypeOK, Settled, Admitted, ServedReply, RouteMethods
<1>6. GoodTokens' = GoodTokens
  BY <1>1, <1>2, <1>3 DEF InductiveInv, TypeOK, StayingCopies, WillErase, Admitted
<1> QED
  BY <1>4, <1>5, <1>6, Invisible

(* The owner the reply names was settled with the token.                   *)
LEMMA SeeInfoUser ==
  ASSUME InductiveInv, InductiveInv', NEW w \in Workers, InfoUser(w)
  PROVE  UNCHANGED Service!serviceVars
<1> USE DEF InfoUser, AtStorage, ReleaseUsers, Finish, At, Goto, Outside, Client
<1>1. pc[w] \in Inside /\ pc'[w] \in Inside
  BY DEF InductiveInv, TypeOK, Inside, Storage
<1>2. StayingCopies /\ StayingCopies'
  BY Staying, StayingNext
<1>3. /\ context = [route |-> req[w].path, token |-> req[w].header]
      /\ req[w].path = "info"
      /\ req[w].path \in UserRoutes[req[w].header.token.user]
      /\ UserName(context.token) = req[w].header.token.user
  BY <1>1 DEF InfoUser, AtStorage, At, InductiveInv, OwnContext, Stages,
     AdmittedStillStored, Admitted, UserName
<1>4. OnlyThread(w)
  BY DEF OnlyThread, InductiveInv, TypeOK
<1>5. Settled(w)' = Settled(w)
  BY <1>3 DEF InductiveInv, TypeOK, Settled, Admitted, ServedReply, RouteMethods
<1>6. GoodTokens' = GoodTokens
  BY <1>1, <1>2, <1>3 DEF InductiveInv, TypeOK, StayingCopies, WillErase, Admitted
<1> QED
  BY <1>4, <1>5, <1>6, Invisible

(* Taking the mutex settles a request without a token, and no other.       *)
LEMMA SeeLockApi ==
  ASSUME InductiveInv, InductiveInv', NEW w \in Workers, LockApi(w)
  PROVE  Visible(w)
<1> USE DEF LockApi, Dispatch, At, Goto, Finish, Outside, Client
<1>1. /\ \A v \in Workers : pc[v] \notin Inside
      /\ pc'[w] \in {"login", "return", "tokenExist"}
  BY HandlerAssumption DEF InductiveInv, TypeOK, LocksNest
<1>2. GoodTokens' = GoodTokens
  BY <1>1, Staying, StayingNext
     DEF StayingCopies, WillErase, Inside, Storage, Admitted
<1>3. OnlyThread(w) /\ req[w] # NoRequest /\ Settled(w) = NoReply
  BY DEF OnlyThread, InductiveInv, TypeOK, Stages, Settled, Admitted
<1>4. CASE ~IsLogin(req[w]) /\ req[w].header = Absent
  <2>1. Settled(w)' = Refusal("unauthorized") /\ req[w].header.form # "whole"
    BY <1>4 DEF InductiveInv, TypeOK, Settled, Admitted, Absent
  <2> QED
    BY <1>2, <1>3, <1>4, <2>1, SettlesRefusal DEF Visible
<1>5. CASE IsLogin(req[w]) \/ req[w].header # Absent
  <2>1. Settled(w)' = Settled(w)
    BY <1>3, <1>5 DEF InductiveInv, TypeOK, Settled, Admitted
  <2> QED
    BY <1>2, <1>3, <2>1, Invisible DEF Visible
<1> QED
  BY <1>4, <1>5

(* The mutex is not part of the service, the reply is settled.             *)
LEMMA SeeUnlockApi ==
  ASSUME InductiveInv, InductiveInv', NEW w \in Workers, UnlockApi(w)
  PROVE  Visible(w)
<1> USE DEF UnlockApi, At, Goto, Outside, Client
<1>1. pc[w] = "return" /\ pc'[w] = "answered" /\ \A v \in Workers : pc'[v] \notin Inside
  BY HandlerAssumption DEF InductiveInv, TypeOK, LocksNest
<1>2. GoodTokens' = GoodTokens
  BY <1>1, Staying, StayingNext
     DEF StayingCopies, WillErase, Inside, Storage, Admitted
<1>3. OnlyThread(w)
  BY DEF OnlyThread, InductiveInv, TypeOK
<1>4. Settled(w)' = Settled(w)
  BY <1>1 DEF Settled, Admitted
<1> QED
  BY <1>2, <1>3, <1>4, Invisible DEF Visible

(* Steps of a thread that keeps the mutex and erases nothing.              *)
LEMMA KeepsCopies ==
  ASSUME InductiveInv, InductiveInv', NEW w \in Workers,
         pc[w] \in Inside, pc'[w] \in Inside,
         ~WillErase(w), ~WillErase(w)', tokens' = tokens
  PROVE  GoodTokens' = GoodTokens
  BY Staying, StayingNext DEF StayingCopies

(* A body that is no JSON is settled when it is parsed.                    *)
LEMMA SeeParseLogin ==
  ASSUME InductiveInv, InductiveInv', NEW w \in Workers, ParseLogin(w)
  PROVE  Visible(w)
<1> USE DEF ParseLogin, At, Goto, Finish, Outside, Client
<1>1. pc[w] = "login" /\ pc'[w] \in {"return", "authenticate"}
  BY DEF InductiveInv, TypeOK
<1>2. GoodTokens' = GoodTokens
  BY <1>1, KeepsCopies DEF WillErase, Inside, Storage, Admitted
<1>3. OnlyThread(w) /\ req[w] # NoRequest /\ Settled(w) = NoReply /\ IsLogin(req[w])
  BY <1>1 DEF OnlyThread, InductiveInv, TypeOK, Stages, Settled, Admitted
<1>4. CASE req[w].body = BadJson
  <2>1. Settled(w)' = Refusal("badRequest")
    BY <1>4 DEF InductiveInv, TypeOK, Settled, Admitted
  <2> QED
    BY <1>2, <1>3, <1>4, <2>1, SettlesRefusal DEF Visible
<1>5. CASE req[w].body # BadJson
  <2>1. Settled(w)' = Settled(w)
    BY <1>3, <1>5 DEF InductiveInv, TypeOK, Settled, Admitted
  <2> QED
    BY <1>2, <1>3, <2>1, Invisible DEF Visible
<1> QED
  BY <1>4, <1>5

(* Credentials of no user are settled by AuthenticateUser.                 *)
LEMMA SeeAuthenticate ==
  ASSUME InductiveInv, InductiveInv', NEW w \in Workers, Authenticate(w)
  PROVE  Visible(w)
<1> USE DEF Authenticate, AtStorage, At, Goto, Finish, Outside, Client, ReleaseUsers
<1>1. pc[w] = "authenticate" /\ pc'[w] \in {"return", "createToken"}
  BY DEF InductiveInv, TypeOK
<1>2. GoodTokens' = GoodTokens
  BY <1>1, KeepsCopies DEF WillErase, Inside, Storage, Admitted
<1>3. OnlyThread(w) /\ req[w] # NoRequest /\ Settled(w) = NoReply /\ IsLogin(req[w])
  BY <1>1 DEF OnlyThread, InductiveInv, TypeOK, Stages, Settled, Admitted
<1>4. CASE req[w].body.kind # "creds"
  <2>1. Settled(w)' = Refusal("unauthorized")
    BY <1>4 DEF InductiveInv, TypeOK, Settled, Admitted
  <2>2. req[w].body = WrongCreds
    <3>1. req[w].body \in Body /\ req[w].body \notin {BadJson, IllTyped}
      BY <1>1 DEF InductiveInv, TypeOK, Stages, Request
    <3> QED
      BY <1>4, <3>1 DEF Body, Creds
  <2> QED
    BY <1>2, <1>3, <2>1, <2>2, SettlesRefusal DEF Visible
<1>5. CASE req[w].body.kind = "creds"
  <2>1. Settled(w)' = Settled(w)
    BY <1>1, <1>5 DEF InductiveInv, TypeOK, Settled, Admitted
  <2> QED
    BY <1>2, <1>3, <2>1, Invisible DEF Visible
<1> QED
  BY <1>4, <1>5

(* A login is settled when its token is stored.                            *)
LEMMA SeeCreateToken ==
  ASSUME InductiveInv, InductiveInv', NEW w \in Workers, CreateToken(w)
  PROVE  Visible(w)
<1> USE DEF CreateToken, AtStorage, At, Goto, Finish, Outside, Client, ReleaseUsers
<1> DEFINE t == [reply[w].token EXCEPT !.exp = Expiry(now.sec)]
<1>1. pc[w] = "createToken" /\ pc'[w] = "return"
  BY DEF InductiveInv, TypeOK
<1>2. OnlyThread(w) /\ req[w] # NoRequest /\ Settled(w) = NoReply /\ IsLogin(req[w])
  BY <1>1 DEF OnlyThread, InductiveInv, TypeOK, Stages, Settled, Admitted
<1>3. GoodTokens = tokens /\ GoodTokens' = tokens'
  BY <1>1, Staying, StayingNext
     DEF StayingCopies, WillErase, Inside, Storage, Admitted
<1>4. tokens' = PushToken(tokens, t) /\ Settled(w)' = Grant(t)
  BY <1>1 DEF InductiveInv, TypeOK, Settled, Admitted
<1>5. t \in Token /\ req[w].body = Creds(t.user) /\ t.exp = now.sec + TokenLifetime
  <2>1. reply[w].token \in Token /\ req[w].body = Creds(reply[w].token.user)
    BY <1>1 DEF InductiveInv, Stages
  <2>2. Expiry(now.sec) \in 0..(MaxSecond + TokenLifetime)
    BY ApiAssumption DEF InductiveInv, TypeOK, Clock, Seconds, Expiry
  <2> QED
    BY <2>1, <2>2 DEF Token, Expiry
<1>6. Service!DecideLogin(w, req[w].body)
  <2>1. Verdicts' = [Verdicts EXCEPT ![w] = Grant(t)]
    BY <1>2, <1>4, VerdictsStep
  <2> QED
    BY <1>3, <1>4, <1>5, <2>1, SameValues, SameOperators DEF Service!DecideLogin
<1>7. Verdicts[w] = NoReply
  BY <1>2 DEF Verdicts
<1> QED
  BY <1>2, <1>6, <1>7, SameValues, SameOperators DEF Visible, Service!Decide

(* TokenExist settles the requests whose token it does not find.           *)
LEMMA SeeTokenExist ==
  ASSUME InductiveInv, InductiveInv', NEW w \in Workers, TokenExist(w)
  PROVE  Visible(w)
<1> USE DEF TokenExist, AtStorage, At, Goto, Finish, Outside, Client, ReleaseUsers
<1>1. pc[w] = "tokenExist" /\ pc'[w] \in {"return", "verify"}
  BY DEF InductiveInv, TypeOK
<1>2. GoodTokens = tokens /\ GoodTokens' = tokens /\ UNCHANGED <<up, now, req>> /\ up
  BY <1>1, Staying, StayingNext
     DEF StayingCopies, WillErase, Inside, Storage, Admitted
<1>3. OnlyThread(w) /\ req[w] # NoRequest /\ Settled(w) = NoReply /\ ~IsLogin(req[w])
  BY <1>1 DEF OnlyThread, InductiveInv, TypeOK, Stages, Settled, Admitted
<1>4. CASE pc'[w] = "verify"
  <2>1. Settled(w)' = Settled(w)
    BY <1>3, <1>4 DEF Settled, Admitted
  <2> QED
    BY <1>2, <1>3, <2>1, Invisible DEF Visible
<1>5. CASE pc'[w] = "return"
  <2>1. Settled(w)' = Refusal("unauthorized")
    BY <1>1, <1>5 DEF InductiveInv, TypeOK, Settled, Admitted
  <2>2. CASE req[w].header.form # "whole"
    BY <1>2, <1>3, <2>1, <2>2, SettlesRefusal DEF Visible
  <2>3. CASE req[w].header.form = "whole"
    <3>1. tokens[req[w].header.token] = 0
      <4>1. req[w].header.token \in Token
        BY <2>3, WholeHeader DEF InductiveInv, TypeOK, Request
      <4>2. ~(tokens[req[w].header.token] > 0)
        BY <1>5, <2>3 DEF InductiveInv, TypeOK
      <4> QED
        BY <4>1, <4>2 DEF InductiveInv, TypeOK, Store
    <3>2. Verdicts' = [Verdicts EXCEPT ![w] = Refusal("unauthorized")]
      BY <1>3, <2>1, VerdictsStep
    <3>3. Service!DecideToken(w, req[w].path, req[w].header.token)
      BY <1>2, <3>1, <3>2, SameOperators DEF Service!DecideToken
    <3> QED
      BY <1>2, <1>3, <2>3, <3>3, SettlesToken DEF Visible
  <2> QED
    BY <2>2, <2>3
<1> QED
  BY <1>1, <1>4, <1>5

(* The look at the clock settles every request whose token is stored.      *)
LEMMA SeeVerify ==
  ASSUME InductiveInv, InductiveInv', NEW w \in Workers, Verify(w)
  PROVE  Visible(w)
<1> USE DEF Verify, At, Goto, Outside, Client
<1>1. pc[w] = "verify" /\ pc'[w] \in {"route", "disprove"}
  BY DEF InductiveInv, TypeOK
<1>2. /\ OnlyThread(w) /\ req[w] # NoRequest /\ Settled(w) = NoReply
      /\ ~IsLogin(req[w]) /\ UNCHANGED <<up, now, req>> /\ up
  BY <1>1 DEF OnlyThread, InductiveInv, TypeOK, Stages, Settled, Admitted
<1>3. /\ GoodTokens = tokens
      /\ GoodTokens' = IF WillErase(w)' THEN EraseOne(tokens, req[w].header.token)
                                        ELSE tokens
  BY <1>1, Staying, StayingNext
     DEF StayingCopies, WillErase, Inside, Storage, Admitted
<1>4. CASE req[w].header.form # "whole"
  <2>1. Settled(w)' = Refusal("unauthorized") /\ ~WillErase(w)'
    BY <1>1, <1>4 DEF Settled, InductiveInv, TypeOK, Admitted, WillErase
  <2> QED
    BY <1>2, <1>3, <1>4, <2>1, SettlesRefusal DEF Visible
<1>5. CASE req[w].header.form = "whole"
  <2> DEFINE t == req[w].header.token
             path == req[w].path
  <2>1. tokens[t] # 0 /\ t \in Token
    <3>1. t \in Token
      BY <1>5, WholeHeader DEF InductiveInv, TypeOK, Request
    <3>2. tokens[t] > 0
      BY <1>1, <1>5 DEF InductiveInv, Stages
    <3> QED
      BY <3>1, <3>2 DEF InductiveInv, TypeOK, Store
  <2>2. Settled(w)' = IF Valid(t, now) THEN ServedReply(path, t)
                                       ELSE Refusal("unauthorized")
    BY <1>1, <1>5 DEF Settled, InductiveInv, TypeOK, Admitted
  <2>3. WillErase(w)' <=> Service!EndsToken(path, t, now)
    BY <1>1, <1>5, SameOperators
       DEF WillErase, InductiveInv, TypeOK, Admitted, Service!EndsToken,
           Service!UserRoutes, UserRoutes, Service!Users, Users
  <2>4. Verdicts' = [Verdicts EXCEPT ![w] =
                       IF Valid(t, now) THEN ServedReply(path, t)
                                        ELSE Refusal("unauthorized")]
    BY <1>2, <2>2, VerdictsStep
  <2>5. Service!DecideToken(w, path, t)
    BY <1>3, <2>1, <2>3, <2>4, SameOperators, SameServedReply
       DEF Service!DecideToken
  <2> QED
    BY <1>2, <1>5, <2>5, SettlesToken DEF Visible
<1> QED
  BY <1>4, <1>5

(* Sending the reply answers the request.                                  *)
LEMMA SeeSend ==
  ASSUME InductiveInv, InductiveInv', NEW w \in Workers, Send(w)
  PROVE  Service!Answer(w)
<1> USE DEF Send, At, Goto
<1>1. pc[w] = "answered" /\ pc'[w] = "idle" /\ up
  BY DEF InductiveInv, TypeOK
<1>2. OnlyThread(w) /\ Settled(w) = reply[w] /\ Settled(w)' = NoReply
  BY <1>1 DEF OnlyThread, InductiveInv, TypeOK, Settled, Admitted
<1>3. GoodTokens' = GoodTokens
  <2>1. \A v \in Workers : /\ WillErase(v)' <=> WillErase(v)
                           /\ WillErase(v) => req'[v] = req[v]
    BY <1>1 DEF WillErase, InductiveInv, TypeOK, Admitted
  <2> QED
    BY <2>1 DEF GoodTokens
<1>4. Verdicts[w] # NoReply
  <2>1. reply[w].status # "none"
    BY <1>1 DEF InductiveInv, Stages
  <2> QED
    BY <1>2, <2>1 DEF Verdicts, NoReply, Refusal
<1>5. Verdicts' = [Verdicts EXCEPT ![w] = NoReply]
  BY <1>2, VerdictsStep
<1> QED
  BY <1>1, <1>3, <1>4, <1>5, SameValues DEF Service!Answer

(* A request that arrives is submitted.                                    *)
LEMMA SeeReceive ==
  ASSUME InductiveInv, InductiveInv', NEW w \in Workers,
         NEW r \in ClientRequests(held), Receive(w, r)
  PROVE  Service!Submit(w)
<1> USE DEF Receive, At, Goto
<1>1. /\ pc[w] = "idle" /\ pc'[w] = "start" /\ up
      /\ req[w] = NoRequest /\ req'[w] = r
  BY DEF InductiveInv, TypeOK, Stages
<1>2. r \in Request
  BY ClientsSendRequests DEF InductiveInv, TypeOK
<1>3. Verdicts' = Verdicts
  <2>1. OnlyThread(w) /\ Settled(w)' = Settled(w)
    BY <1>1 DEF OnlyThread, InductiveInv, TypeOK, Settled, Admitted
  <2>2. \A v \in Workers : Settled(v)' = Settled(v)
    BY <2>1 DEF OnlyThread, Settled
  <2> QED
    BY <2>2 DEF Verdicts
<1>4. GoodTokens' = GoodTokens
  <2>1. \A v \in Workers : /\ WillErase(v)' <=> WillErase(v)
                           /\ WillErase(v) => req'[v] = req[v]
    BY <1>1 DEF WillErase, InductiveInv, TypeOK, Admitted
  <2> QED
    BY <2>1 DEF GoodTokens
<1>5. req' = [req EXCEPT ![w] = req'[w]] /\ UNCHANGED <<up, now>>
  BY <1>1
<1> QED
  BY <1>1, <1>2, <1>3, <1>4, <1>5, SameValues DEF Service!Submit

(* The end of the process ends the service.                                *)
LEMMA SeeDie ==
  ASSUME InductiveInv, up, Die
  PROVE  Service!Fail
<1>1. /\ pc' = [v \in Workers |-> "idle"]
      /\ req' = [v \in Workers |-> NoRequest]
      /\ tokens' = EmptyStore /\ now' = now /\ up' = FALSE
  BY DEF Die
<1>2. Verdicts' = [v \in Workers |-> NoReply]
  BY <1>1 DEF Verdicts, Settled, Admitted
<1>3. GoodTokens' = EmptyStore
  <2>1. \A v \in Workers : ~WillErase(v)'
    BY <1>1 DEF WillErase, Admitted
  <2> QED
    BY <1>1, <2>1 DEF GoodTokens, EmptyStore
<1> QED
  BY <1>1, <1>2, <1>3, SameValues DEF Service!Fail, Service!Quiet

(* Time and restarts are the service's own.                                *)
LEMMA SeeEnvironment ==
  ASSUME InductiveInv, Tick \/ StepBack \/ Start
  PROVE  Service!TimePasses \/ Service!Recover
<1>1. UNCHANGED <<req, Verdicts, GoodTokens>>
  BY DEF Tick, StepBack, Start, Verdicts, GoodTokens, Settled, WillErase
<1>2. CASE Tick \/ StepBack
  BY <1>1, <1>2, SameOperators DEF Tick, StepBack, Service!TimePasses
<1>3. CASE Start
  BY <1>1, <1>3 DEF Start, Service!Recover
<1> QED
  BY <1>2, <1>3

LEMMA InitSeen == Init => Service!ServiceInit
<1> SUFFICES ASSUME Init PROVE Service!ServiceInit
  OBVIOUS
<1>1. Verdicts = [w \in Workers |-> NoReply]
  BY DEF Init, Verdicts, Settled, Admitted
<1>2. GoodTokens = EmptyStore
  BY DEF Init, GoodTokens, WillErase, Admitted, EmptyStore
<1> QED
  BY <1>1, <1>2, SameValues DEF Init, Service!ServiceInit, Service!Quiet

LEMMA NextSeen ==
  InductiveInv /\ InductiveInv' /\ [Next]_vars
    => [Service!ServiceNext]_(Service!serviceVars)
<1> SUFFICES ASSUME InductiveInv, InductiveInv', [Next]_vars
             PROVE  Service!ServiceNext \/ UNCHANGED Service!serviceVars
  OBVIOUS
<1>1. CASE \E w \in Workers : Handle(w)
  <2>1. PICK w \in Workers : Handle(w)
    BY <1>1
  <2>2. Visible(w) => Service!ServiceNext \/ UNCHANGED Service!serviceVars
    BY DEF Visible, Service!ServiceNext
  <2>3. CASE LockApi(w) \/ ParseLogin(w) \/ Authenticate(w) \/ CreateToken(w)
             \/ TokenExist(w) \/ Verify(w) \/ UnlockApi(w)
    BY <2>2, <2>3, SeeLockApi, SeeParseLogin, SeeAuthenticate, SeeCreateToken,
       SeeTokenExist, SeeVerify, SeeUnlockApi
  <2>4. CASE LockUsers(w) \/ Disprove(w) \/ CheckRoute(w) \/ CheckAccess(w)
             \/ SetContext(w) \/ Execute(w) \/ LogoutUser(w) \/ InfoUser(w)
    BY <2>4, SeeLockUsers, SeeDisprove, SeeCheckRoute, SeeCheckAccess,
       SeeSetContext, SeeExecute, SeeLogoutUser, SeeInfoUser
  <2>5. CASE Send(w)
    BY <2>5, SeeSend DEF Service!ServiceNext
  <2>6. CASE ParseThrows(w) \/ VerifyThrows(w)
    BY <2>6, SeeDie DEF ParseThrows, VerifyThrows, At, Service!ServiceNext
  <2> QED
    BY <2>1, <2>3, <2>4, <2>5, <2>6 DEF Handle
<1>2. CASE \E w \in Workers : \E r \in ClientRequests(held) : Receive(w, r)
  BY <1>2, SeeReceive DEF Service!ServiceNext
<1>3. CASE Stop
  BY <1>3, SeeDie DEF Stop, Service!ServiceNext
<1>4. CASE Tick \/ StepBack \/ Start
  BY <1>4, SeeEnvironment DEF Service!ServiceNext
<1>5. CASE UNCHANGED vars
  BY <1>5 DEF vars, Service!serviceVars, Verdicts, GoodTokens, Settled, WillErase
<1> QED
  BY <1>1, <1>2, <1>3, <1>4, <1>5 DEF Next

(* Whatever the threads' interleaving, each request takes effect at one    *)
(* instant between its arrival and its reply, as SessionService says.      *)
THEOREM Implementation == Spec => ServiceImplemented
<1>1. ServiceImplemented <=> Service!ServiceInit
                             /\ [][Service!ServiceNext]_(Service!serviceVars)
  BY DEF ServiceImplemented, Service!ServiceSpec
<1> QED
  BY <1>1, InitSeen, NextSeen, Invariance, PTL DEF Spec
=============================================================================
