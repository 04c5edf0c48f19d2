------------------------------ MODULE ApiTypes ------------------------------
(***************************************************************************)
(* The data of the HTTP API of http_server: users and their routes, login  *)
(* tokens, requests and replies.  The detailed handler (ApiHandler) and    *)
(* the service it promises (SessionService) share these definitions.       *)
(***************************************************************************)
EXTENDS Integers

CONSTANTS
  TokenLifetime,  \* seconds between "iat" and "exp" (one minute in the code)
  MaxSecond,      \* bound: last second the wall clock shows
  Paths,          \* bound: the targets clients ask for, "login" with POST aside
  Bodies,         \* bound: the login bodies clients send
  LooseHeaders    \* bound: Authorization headers other than a granted token

ASSUME ApiAssumption == /\ TokenLifetime \in Nat
                        /\ MaxSecond \in Nat

-----------------------------------------------------------------------------
(* The two users the constructor of CUsersData registers, with the routes  *)
(* each may call, and the routes CAPIHandler has a method for.  A path is  *)
(* written without its "/api/" prefix; "other" is any path not named.      *)

Users == {"admin", "user"}

UserRoutes ==
  [u \in Users |-> CASE u = "admin" -> {"settings", "logout", "info", "secret"}
                     [] u = "user"  -> {"settings", "logout", "info"}]

RouteMethods == {"logout", "secret", "info"}

-----------------------------------------------------------------------------
(* A token is the signed text of its three claims: equal claims give the   *)
(* same text.  NoToken is the empty string, "nobody" an empty name.        *)

Seconds == 0..MaxSecond
Token == [user: Users, iat: Seconds, exp: 0..(MaxSecond + TokenLifetime)]
NoToken == [user |-> "nobody", iat |-> 0, exp |-> 0]

Expiry(sec) == sec + TokenLifetime

(* The wall clock: the second it shows, and whether part of that second    *)
(* has already passed.  jwt-cpp stores whole seconds and compares them     *)
(* with the exact time.                                                    *)
Clock == [sec: Seconds, late: BOOLEAN]

Expired(t, now) == now.sec > t.exp \/ (now.sec = t.exp /\ now.late)
NotYetIssued(t, now) == now.sec < t.iat
Valid(t, now) == ~Expired(t, now) /\ ~NotYetIssued(t, now)

(* The wall clock of the machine moves on, or is set back.                 *)
Later(now, next) == \/ ~now.late /\ next = [now EXCEPT !.late = TRUE]
                    \/ /\ now.late /\ now.sec < MaxSecond
                       /\ next = [sec |-> now.sec + 1, late |-> FALSE]
SetBack(now, next) == next \in Clock /\ next.sec < now.sec

-----------------------------------------------------------------------------
(* The Authorization header: missing or "undefined"; a text that is part   *)
(* of no token; a proper part of some token's text; or a whole token.      *)

Absent == [form |-> "absent"]
Foreign == [form |-> "foreign"]
Piece == [form |-> "piece"]
Whole(t) == [form |-> "whole", token |-> t]

Header == {Absent, Foreign, Piece} \cup {Whole(t) : t \in Token}

(* A login body: no JSON at all; JSON that is no object of two strings;    *)
(* credentials of no user (missing keys give empty ones); those of a user. *)
BadJson == [kind |-> "badJson"]
IllTyped == [kind |-> "illTyped"]
WrongCreds == [kind |-> "wrong"]
Creds(u) == [kind |-> "creds", user |-> u]

Body == {BadJson, IllTyped, WrongCreds} \cup {Creds(u) : u \in Users}

ASSUME BoundsAssumption == /\ "none" \notin Paths
                           /\ Bodies \subseteq Body
                           /\ LooseHeaders \subseteq {Absent, Foreign, Piece}

Target == Paths \cup {"login", "none"}

Request == [verb: {"get", "post"}, path: Target, header: Header, body: Body]
NoRequest == [verb |-> "get", path |-> "none", header |-> Absent,
              body |-> BadJson]

IsLogin(r) == r.verb = "post" /\ r.path = "login"
IsGrantable(r) == IsLogin(r) /\ r.body.kind = "creds"
Presents(r, t) == ~IsLogin(r) /\ r.header = Whole(t)

(* The requests of clients that hold the tokens of `held`.  A login sends  *)
(* no header; the body of any other request is never read.                 *)
ClientRequests(held) ==
  [verb: {"post"}, path: {"login"}, header: {Absent}, body: Bodies]
    \cup [verb: {"get"}, path: Paths,
          header: LooseHeaders \cup {Whole(t) : t \in held}, body: {BadJson}]

-----------------------------------------------------------------------------
(* A reply: its status, the user an info reply describes and the token a   *)
(* login reply carries.                                                    *)

Statuses == {"none", "ok", "badRequest", "unauthorized", "forbidden"}
Reply == [status: Statuses, name: Users \cup {"nobody"},
          token: Token \cup {NoToken}]

Refusal(s) == [status |-> s, name |-> "nobody", token |-> NoToken]
NoReply == Refusal("none")
Grant(t) == [status |-> "ok", name |-> "nobody", token |-> t]
Info(u) == [status |-> "ok", name |-> u, token |-> NoToken]
Done == Refusal("ok")

(* The reply to a request for `path` with a good token.                    *)
ServedReply(path, t) ==
  IF path \notin RouteMethods THEN Refusal("badRequest")
  ELSE IF path \notin UserRoutes[t.user] THEN Refusal("forbidden")
  ELSE IF path = "info" THEN Info(t.user)
  ELSE Done

(* How many copies of each token the users' token vectors hold.  Order is  *)
(* not kept: equal texts cannot be told apart, and only an owner's vector  *)
(* ever holds a token.                                                     *)
Store == [Token -> Nat]
EmptyStore == [t \in Token |-> 0]

(* Faulty variant: a text that is already there is not added again.        *)
PushOnce(s, t) == [s EXCEPT ![t] = 1]

PushToken(s, t) == [s EXCEPT ![t] = @ + 1]

(* Faulty variant: every equal text is erased, not the first.              *)
EraseEvery(s, t) == [s EXCEPT ![t] = 0]

EraseOne(s, t) == IF s[t] > 0 THEN [s EXCEPT ![t] = @ - 1] ELSE s
=============================================================================
