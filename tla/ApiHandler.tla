----------------------------- MODULE ApiHandler -----------------------------
(***************************************************************************)
(* CAPIHandler::HandleApiRequest of http_server, as the threads that run   *)
(* the io_context execute it, with the user storage it calls.              *)
(*                                                                         *)
(* A request runs under the handler's mutex_ from its first line to its    *)
(* last; the user storage has a second mutex_, taken and released by each  *)
(* of its methods.  Between two methods nothing but the first mutex keeps  *)
(* the tokens as the request found them.                                   *)
(***************************************************************************)
EXTENDS ApiTypes, FiniteSets

CONSTANTS
  Workers,    \* threads inside ioc.run()
  NoWorker,   \* a free mutex
  MaxLogins,  \* bound: logins with a user's credentials that are ever sent
  MayStop     \* bound: whether stop.sh is ever run

ASSUME HandlerAssumption == /\ NoWorker \notin Workers
                            /\ MaxLogins \in Nat
                            /\ MayStop \in BOOLEAN

VARIABLES
  up,          \* whether the process runs
  now,         \* the wall clock
  apiMutex,    \* owner of CAPIHandler::mutex_
  usersMutex,  \* owner of CUsersData::mutex_
  context,     \* CAPIHandler::request_context_
  tokens,      \* copies of each token in users_
  pc,          \* where each thread is in HandleApiRequest
  req,         \* the request each thread handles
  reply,       \* the response each thread builds
  held,        \* tokens that clients have received
  logins       \* logins with a user's credentials sent so far

vars == <<up, now, apiMutex, usersMutex, context, tokens, pc, req, reply,
          held, logins>>

(* The methods that begin with a lock_guard on the users' mutex.           *)
Storage == {"authenticate", "tokenExist", "disprove", "checkAccess",
            "logout", "info"}

(* Points reached with the handler's mutex held.                           *)
Inside == Storage \cup {"login", "createToken", "verify", "route",
                        "setContext", "execute", "return"}

(* Points reached only after the token was verified.                       *)
Admitted == {"route", "checkAccess", "setContext", "execute", "logout", "info"}

Labels == Inside \cup {"idle", "start", "answered"}

Context == [route: Target, token: Header]

TypeOK ==
  /\ up \in BOOLEAN
  /\ now \in Clock
  /\ apiMutex \in Workers \cup {NoWorker}
  /\ usersMutex \in Workers \cup {NoWorker}
  /\ context \in Context
  /\ tokens \in Store
  /\ pc \in [Workers -> Labels]
  /\ req \in [Workers -> Request]
  /\ reply \in [Workers -> Reply]
  /\ held \subseteq Token
  /\ logins \in 0..MaxLogins

NoContext == [route |-> "none", token |-> Absent]

Init ==
  /\ up = TRUE
  /\ now = [sec |-> 0, late |-> FALSE]
  /\ apiMutex = NoWorker
  /\ usersMutex = NoWorker
  /\ context = NoContext
  /\ tokens = EmptyStore
  /\ pc = [w \in Workers |-> "idle"]
  /\ req = [w \in Workers |-> NoRequest]
  /\ reply = [w \in Workers |-> NoReply]
  /\ held = {}
  /\ logins = 0

-----------------------------------------------------------------------------
(* Steps shared by the actions below.                                      *)

Goto(w, label) == pc' = [pc EXCEPT ![w] = label]

Finish(w, r) ==  \* `return` of a status: the lock_guard is still to unlock
  /\ reply' = [reply EXCEPT ![w] = r]
  /\ Goto(w, "return")

At(w, label) == up /\ pc[w] = label

AtStorage(w, label) == At(w, label) /\ usersMutex = w

ReleaseUsers == usersMutex' = NoWorker

(* The exception leaves the thread's function: the process is gone, and    *)
(* with it the tokens and every request in progress.                       *)
Die ==
  /\ up' = FALSE
  /\ apiMutex' = NoWorker
  /\ usersMutex' = NoWorker
  /\ context' = NoContext
  /\ tokens' = EmptyStore
  /\ pc' = [w \in Workers |-> "idle"]
  /\ req' = [w \in Workers |-> NoRequest]
  /\ reply' = [w \in Workers |-> NoReply]
  /\ UNCHANGED <<now, held, logins>>

Client == UNCHANGED <<held, logins>>
Outside == Client /\ UNCHANGED <<up, now>>

-----------------------------------------------------------------------------
(* A session passes a request it has read to the API handler.              *)
Receive(w, r) ==
  /\ At(w, "idle")
  /\ IsGrantable(r) => logins < MaxLogins
  /\ logins' = IF IsGrantable(r) THEN logins + 1 ELSE logins
  /\ req' = [req EXCEPT ![w] = r]
  /\ Goto(w, "start")
  /\ UNCHANGED <<up, now, apiMutex, usersMutex, context, tokens, reply, held>>

(* With the handler's mutex taken, a login is told from the other requests, *)
(* and these are refused when they carry no token.                         *)
Dispatch(w) ==
  /\ apiMutex' = w
  /\ \/ IsLogin(req[w]) /\ Goto(w, "login") /\ UNCHANGED reply
     \/ /\ ~IsLogin(req[w]) /\ req[w].header = Absent
        /\ Finish(w, Refusal("unauthorized"))
     \/ /\ ~IsLogin(req[w]) /\ req[w].header # Absent
        /\ Goto(w, "tokenExist") /\ UNCHANGED reply
  /\ UNCHANGED <<usersMutex, context, tokens, req>> /\ Outside

(* Faulty variant: the handler does not wait for its mutex.                *)
LockApiUnguarded(w) == At(w, "start") /\ Dispatch(w)

LockApi(w) == At(w, "start") /\ apiMutex = NoWorker /\ Dispatch(w)

(* LoginUser parses the body.  JSON of another shape makes as_object or    *)
(* value_to throw, which nothing catches.                                  *)
ParseLogin(w) ==
  /\ At(w, "login")
  /\ \/ req[w].body = BadJson /\ Finish(w, Refusal("badRequest"))
     \/ /\ req[w].body \notin {BadJson, IllTyped}
        /\ Goto(w, "authenticate") /\ UNCHANGED reply
  /\ UNCHANGED <<apiMutex, usersMutex, context, tokens, req>> /\ Outside

ParseThrows(w) == At(w, "login") /\ req[w].body = IllTyped /\ Die

(* The lock_guard at the head of a storage method.                         *)
LockUsers(w) ==
  /\ up /\ pc[w] \in Storage
  /\ usersMutex = NoWorker
  /\ usersMutex' = w
  /\ UNCHANGED <<apiMutex, context, tokens, pc, req, reply>> /\ Outside

(* AuthenticateUser up to CreateToken's first look at the clock.           *)
Authenticate(w) ==
  /\ AtStorage(w, "authenticate")
  /\ \/ /\ req[w].body.kind = "creds"
        /\ reply' = [reply EXCEPT ![w].token =
                       [user |-> req[w].body.user, iat |-> now.sec, exp |-> 0]]
        /\ Goto(w, "createToken")
        /\ UNCHANGED usersMutex
     \/ /\ req[w].body.kind # "creds"
        /\ Finish(w, Refusal("unauthorized"))
        /\ ReleaseUsers
  /\ UNCHANGED <<apiMutex, context, tokens, req>> /\ Outside

(* CreateToken's second look at the clock; the token joins its user's.     *)
CreateToken(w) ==
  /\ AtStorage(w, "createToken")
  /\ LET t == [reply[w].token EXCEPT !.exp = Expiry(now.sec)]
     IN  /\ tokens' = PushToken(tokens, t)
         /\ Finish(w, Grant(t))
  /\ ReleaseUsers
  /\ UNCHANGED <<apiMutex, context, req>> /\ Outside

(* TokenExist looks for the header inside the stored texts.  A piece may   *)
(* be part of one of them, if there are any.                               *)
TokenExist(w) ==
  /\ AtStorage(w, "tokenExist")
  /\ LET h == req[w].header
         stored == \E t \in Token : tokens[t] > 0
     IN  \E found \in BOOLEAN :
           /\ h.form = "whole" => found = (tokens[h.token] > 0)
           /\ h.form = "piece" /\ ~stored => ~found
           /\ h.form = "foreign" => ~found
           /\ \/ found /\ Goto(w, "verify") /\ UNCHANGED reply
              \/ ~found /\ Finish(w, Refusal("unauthorized"))
  /\ ReleaseUsers
  /\ UNCHANGED <<apiMutex, context, tokens, req>> /\ Outside

(* jwtoken::Verify.  A piece that decodes has no valid signature.          *)
Verify(w) ==
  /\ At(w, "verify")
  /\ \/ /\ req[w].header.form = "whole" /\ Valid(req[w].header.token, now)
        /\ Goto(w, "route")
     \/ /\ req[w].header.form = "whole" /\ ~Valid(req[w].header.token, now)
        /\ Goto(w, "disprove")
     \/ req[w].header.form # "whole" /\ Goto(w, "disprove")
  /\ UNCHANGED <<apiMutex, usersMutex, context, tokens, req, reply>> /\ Outside

(* A piece without the dots and fields of a token makes decode throw.      *)
VerifyThrows(w) ==
  At(w, "verify") /\ req[w].header.form # "whole" /\ Die

(* DisproveUser of a token found invalid.                                  *)
Disprove(w) ==
  /\ AtStorage(w, "disprove")
  /\ tokens' = IF req[w].header.form = "whole"
               THEN EraseOne(tokens, req[w].header.token)
               ELSE tokens
  /\ Finish(w, Refusal("unauthorized"))
  /\ ReleaseUsers
  /\ UNCHANGED <<apiMutex, context, req>> /\ Outside

CheckRoute(w) ==
  /\ At(w, "route")
  /\ \/ /\ req[w].path \notin RouteMethods
        /\ Finish(w, Refusal("badRequest"))
     \/ /\ req[w].path \in RouteMethods
        /\ Goto(w, "checkAccess") /\ UNCHANGED reply
  /\ UNCHANGED <<apiMutex, usersMutex, context, tokens, req>> /\ Outside

(* GetUserData: the user whose vector holds the token, or UserData{}.      *)
UserName(h) == IF h.form = "whole" /\ tokens[h.token] > 0
               THEN h.token.user
               ELSE "nobody"

(* Faulty variant: the routes of the first user are not cleared before     *)
(* those of the second are added.                                          *)
RoutesOfEveryone(name) == IF name \in Users THEN UserRoutes["admin"] ELSE {}

RoutesOf(name) == IF name \in Users THEN UserRoutes[name] ELSE {}

CheckAccess(w) ==
  /\ AtStorage(w, "checkAccess")
  /\ \/ /\ req[w].path \in RoutesOf(UserName(req[w].header))
        /\ Goto(w, "setContext") /\ UNCHANGED reply
     \/ /\ req[w].path \notin RoutesOf(UserName(req[w].header))
        /\ Finish(w, Refusal("forbidden"))
  /\ ReleaseUsers
  /\ UNCHANGED <<apiMutex, context, tokens, req>> /\ Outside

(* Faulty variant: the context keeps the token of an earlier request.      *)
SetContextWithoutToken(w) ==
  /\ At(w, "setContext")
  /\ context' = [context EXCEPT !.route = req[w].path]
  /\ Goto(w, "execute")
  /\ UNCHANGED <<apiMutex, usersMutex, tokens, req, reply>> /\ Outside

SetContext(w) ==
  /\ At(w, "setContext")
  /\ context' = [route |-> req[w].path, token |-> req[w].header]
  /\ Goto(w, "execute")
  /\ UNCHANGED <<apiMutex, usersMutex, tokens, req, reply>> /\ Outside

(* ExecuteRouteMethod: from here the request is read from the context.     *)
Execute(w) ==
  /\ At(w, "execute")
  /\ \/ context.route = "secret" /\ Finish(w, Done)
     \/ /\ context.route \in {"logout", "info"}
        /\ Goto(w, context.route) /\ UNCHANGED reply
  /\ UNCHANGED <<apiMutex, usersMutex, context, tokens, req>> /\ Outside

LogoutUser(w) ==
  /\ AtStorage(w, "logout")
  /\ tokens' = IF context.token.form = "whole"
               THEN EraseOne(tokens, context.token.token)
               ELSE tokens
  /\ Finish(w, Done)
  /\ ReleaseUsers
  /\ UNCHANGED <<apiMutex, context, req>> /\ Outside

InfoUser(w) ==
  /\ AtStorage(w, "info")
  /\ Finish(w, Info(UserName(context.token)))
  /\ ReleaseUsers
  /\ UNCHANGED <<apiMutex, context, tokens, req>> /\ Outside

(* Faulty variant: a return that leaves the mutex locked.                  *)
ReturnLocked(w) ==
  /\ At(w, "return")
  /\ Goto(w, "answered")
  /\ UNCHANGED <<apiMutex, usersMutex, context, tokens, req, reply>> /\ Outside

(* The lock_guard's destructor.                                            *)
UnlockApi(w) ==
  /\ At(w, "return")
  /\ apiMutex' = NoWorker
  /\ Goto(w, "answered")
  /\ UNCHANGED <<usersMutex, context, tokens, req, reply>> /\ Outside

(* handle_request sends the response; a client learns the token in it.     *)
Send(w) ==
  /\ At(w, "answered")
  /\ held' = held \cup ({reply[w].token} \ {NoToken})
  /\ req' = [req EXCEPT ![w] = NoRequest]
  /\ reply' = [reply EXCEPT ![w] = NoReply]
  /\ Goto(w, "idle")
  /\ UNCHANGED <<up, now, apiMutex, usersMutex, context, tokens, logins>>

-----------------------------------------------------------------------------
(* The environment: time passes, the clock is set back, the process is     *)
(* stopped (stop.sh) and started again (run.sh).                           *)
Tick ==
  /\ \E next \in Clock : Later(now, next) /\ now' = next
  /\ UNCHANGED <<up, apiMutex, usersMutex, context, tokens, pc, req, reply,
                 held, logins>>

StepBack ==
  /\ \E next \in Clock : SetBack(now, next) /\ now' = next
  /\ UNCHANGED <<up, apiMutex, usersMutex, context, tokens, pc, req, reply,
                 held, logins>>

Stop == MayStop /\ up /\ Die

Start ==
  /\ ~up
  /\ up' = TRUE
  /\ UNCHANGED <<now, apiMutex, usersMutex, context, tokens, pc, req, reply,
                 held, logins>>

-----------------------------------------------------------------------------
Handle(w) ==
  \/ LockApi(w) \/ ParseLogin(w) \/ ParseThrows(w)
  \/ LockUsers(w) \/ Authenticate(w) \/ CreateToken(w)
  \/ TokenExist(w) \/ Verify(w) \/ VerifyThrows(w) \/ Disprove(w)
  \/ CheckRoute(w) \/ CheckAccess(w) \/ SetContext(w)
  \/ Execute(w) \/ LogoutUser(w) \/ InfoUser(w)
  \/ UnlockApi(w) \/ Send(w)

Next ==
  \/ \E w \in Workers : Handle(w)
  \/ \E w \in Workers : \E r \in ClientRequests(held) : Receive(w, r)
  \/ Tick \/ StepBack \/ Stop \/ Start

Spec == Init /\ [][Next]_vars

(* A thread inside the handler keeps running.  std::mutex gives no order   *)
(* among waiting threads, so no thread is promised the lock itself.        *)
FairSpec == Spec /\ \A w \in Workers : WF_vars(Handle(w))

-----------------------------------------------------------------------------
(* Properties.                                                             *)

(* A thread inside HandleApiRequest owns the handler's mutex, and the users' *)
(* mutex is only ever owned by that thread, at a storage method: locks nest *)
(* in one order and no thread waits for one it owns.                       *)
LocksNest ==
  /\ \A w \in Workers : pc[w] \in Inside <=> apiMutex = w
  /\ \A w \in Workers : usersMutex = w => pc[w] \in Storage \cup {"createToken"}
  /\ \A w \in Workers : pc[w] = "createToken" => usersMutex = w

(* A route method reads the request from the shared request_context_: it is *)
(* the request of the thread that executes the method, not another one's.  *)
OwnContext ==
  \A w \in Workers :
    pc[w] \in {"execute", "logout", "info"} =>
      context = [route |-> req[w].path, token |-> req[w].header]

(* The token TokenExist found is a whole token and still stored at every   *)
(* later step of the request, though the users' mutex was released: a      *)
(* request admitted with a token never runs after that token was revoked.  *)
AdmittedStillStored ==
  \A w \in Workers :
    pc[w] \in Admitted =>
      /\ req[w].header.form = "whole"
      /\ tokens[req[w].header.token] > 0

(* A reply "ok" to any request but a login was given for a path that the   *)
(* token's owner may call and that has a method, and an info reply         *)
(* describes the owner of the token presented.                             *)
AnswersJustified ==
  \A w \in Workers :
    pc[w] \in {"return", "answered"} /\ reply[w].status = "ok" /\ ~IsLogin(req[w])
      => /\ req[w].header.form = "whole"
         /\ req[w].path \in RouteMethods
         /\ req[w].path \in UserRoutes[req[w].header.token.user]
         /\ req[w].path = "info" => reply[w].name = req[w].header.token.user

(* What each point of the handler knows of the request that reached it:    *)
(* which kind it is and which of the checks it has passed.                 *)
Stages ==
  \A w \in Workers :
    /\ pc[w] = "idle" <=> req[w] = NoRequest
    /\ pc[w] \in {"login", "authenticate", "createToken"} => IsLogin(req[w])
    /\ pc[w] \in {"authenticate", "createToken"} => req[w].body \notin {BadJson, IllTyped}
    /\ pc[w] \in {"tokenExist", "verify", "disprove"} \cup Admitted => ~IsLogin(req[w])
    /\ pc[w] = "createToken" => /\ reply[w].token \in Token
                                /\ req[w].body = Creds(reply[w].token.user)
    /\ pc[w] \in {"tokenExist", "verify"} => req[w].header # Absent
    /\ pc[w] \in {"verify", "disprove"} /\ req[w].header.form = "whole"
         => tokens[req[w].header.token] > 0
    /\ pc[w] \in Admitted \ {"route"} => req[w].path \in RouteMethods
    /\ pc[w] \in Admitted \ {"route", "checkAccess"}
         => req[w].path \in UserRoutes[req[w].header.token.user]
    /\ pc[w] \in {"logout", "info"} => context.route = pc[w]
    /\ pc[w] \in {"return", "answered"} => reply[w].status # "none"

(* The inductive invariant: each request is, at every point of its way, one *)
(* that passed all the checks before that point, whatever other requests   *)
(* the other threads have begun or finished meanwhile.                     *)
InductiveInv ==
  /\ TypeOK
  /\ LocksNest
  /\ Stages
  /\ OwnContext
  /\ AdmittedStillStored
  /\ AnswersJustified

(* The threads that have a reply with the token on its way.                *)
Carriers(t) == {w \in Workers : pc[w] \in {"return", "answered"}
                                  /\ reply[w].token = t}

(* Until a client has received a token, the store holds as many copies of  *)
(* it as there are replies on the way with it.                             *)
CopiesUnderWay == \A t \in Token \ held : tokens[t] = Cardinality(Carriers(t))

(* A reply with a token is made in the step that adds one copy of it, and  *)
(* copies are added in no other step.                                      *)
LoginAdds ==
  up' => \A t \in Token :
           LET granted == Carriers(t)' \ Carriers(t)
           IN  /\ granted # {} => tokens'[t] = tokens[t] + 1
               /\ tokens'[t] > tokens[t] => granted # {}

(* Every login adds a copy of its token, one only, even of a text that     *)
(* another login of the same second also got and that its client may hold  *)
(* already; and nothing takes that copy away before the client has it      *)
(* (AuthenticateUser pushes the text without a look at those there).       *)
GrantedCopies == [][LoginAdds /\ CopiesUnderWay']_vars

(* A stored token loses a copy only, one at a time, through a request that *)
(* presents it: nobody is logged out by another client's logout, and a     *)
(* refusal never removes a token other than the one refused.  A stop or an *)
(* exception ends the process and loses them all.                          *)
HolderRevokes ==
  up' => \A t \in Token :
           tokens'[t] < tokens[t] =>
             /\ tokens'[t] = tokens[t] - 1
             /\ \E w \in Workers : /\ Presents(req[w], t)
                                   /\ pc[w] \in {"disprove", "logout"}
RevokedByHolder == [][HolderRevokes]_vars

(* Unless it is stopped, the process ends in two places only: at the body  *)
(* of a login that is JSON of another shape, and at a piece of a token     *)
(* while a token is still stored.  A text TokenExist should not find never *)
(* reaches jwt::decode, whichever logout another thread begins meanwhile.  *)
EndsByThrow ==
  up /\ ~up' /\ ~MayStop =>
    \E w \in Workers :
      \/ pc[w] = "login" /\ req[w].body = IllTyped
      \/ /\ pc[w] = "verify" /\ req[w].header = Piece
         /\ \E t \in Token : tokens[t] > 0
OnlyFoundTextsThrow == [][EndsByThrow]_vars

(* While requests wait for the mutex, some request gets its reply, unless  *)
(* the process ends.                                                       *)
SomeRequestAnswered ==
  (\E w \in Workers : pc[w] = "start")
    ~> (\E w \in Workers : pc[w] = "answered") \/ ~up

(* api.txt describes GET api/settings among the requests of the API: a     *)
(* user who may call it would not be told that there is no such method.    *)
SettingsServed ==
  \A w \in Workers :
    pc[w] = "answered" /\ req[w].verb = "get" /\ req[w].path = "settings"
      => reply[w].status # "badRequest"
=============================================================================
