----------------------------- MODULE UrlObject -----------------------------
(***************************************************************************)
(* Objects of the Url class of http_server (url.hpp, url.cpp) under any    *)
(* sequence of calls.                                                      *)
(*                                                                         *)
(* An object holds a text and the parts it stands for, and two flags say   *)
(* which of them is good: m_parse that the parts are, m_built that the     *)
(* text is.  A text is taken apart when a part is first asked for, and put *)
(* together when str() is called.  A call may throw in the middle.         *)
(***************************************************************************)
EXTENDS UrlText

CONSTANTS
  Objects,
  Texts,      \* texts given to a Url
  Reading,    \* those that parse_url takes, each with its parts
  Calls,      \* calls of setters: their names with their arguments
  Queries,    \* what is written through a reference to the query
  MaxCalls    \* bound: calls made

Setters == {"scheme", "user", "host", "port", "path", "query", "add", "fragment"}
Entry == [key: Seq(Chars), val: Seq(Chars)]

ASSUME ObjectAssumption == /\ MaxCalls \in Nat
                           /\ << >> \in Texts /\ \A t \in Texts : Defined(t)
                           /\ Texts \subseteq Seq(Chars)
                           /\ Reading = {[text |-> t, parts |-> Parts(t)] :
                                          t \in {u \in Texts : Parses(u)}}
                           /\ \A c \in Calls :
                                /\ c.name \in Setters
                                /\ IF c.name \in {"query", "add"} THEN c.arg \in Seq(Entry)
                                   ELSE c.arg \in Seq(Chars)
                                /\ c.name = "host" => c.ip_v \in 0..127
                           /\ Queries \subseteq Seq(Entry)

VARIABLES
  url,   \* the objects
  refs,  \* objects whose set_query() reference somebody writes through
  last,  \* the last call: its name, its object, whether it returned, its text
  calls  \* how many there were

vars == <<url, refs, last, calls>>

TypeOK ==
  /\ \A o \in Objects :
       /\ url[o].text \in Seq(Chars)
       /\ url[o].parse \in BOOLEAN /\ url[o].built \in BOOLEAN
       /\ \A f \in DOMAIN NoParts \ {"ip_v", "query"} :
            url[o].parts[f] \in Seq(Chars)
       /\ url[o].parts.ip_v \in -1..127
       /\ url[o].parts.query \in Seq(Entry)
  /\ refs \subseteq Objects
  /\ calls \in 0..MaxCalls

Cleared == [text |-> << >>, parse |-> TRUE, built |-> TRUE, parts |-> NoParts]

Nothing == [call |-> "none", of |-> "none", from |-> "none", ok |-> TRUE, said |-> << >>]

Init ==
  /\ url = [o \in Objects |-> Cleared]
  /\ refs = {}
  /\ last = Nothing
  /\ calls = 0

-----------------------------------------------------------------------------
(* lazy_parse.                                                             *)

(* An object without parts has one of the texts it was given.              *)
PartsOf(t) == (CHOOSE r \in Reading : r.text = t).parts

Readable(u) == u.parse \/ \E r \in Reading : r.text = u.text

(* An empty text is cleared, flags and all; another is good no more when   *)
(* its parts are.                                                          *)
Lazy(u) ==
  CASE u.parse -> u
    [] ~u.parse /\ u.text = << >> -> Cleared
    [] OTHER -> [u EXCEPT !.parse = TRUE, !.built = FALSE, !.parts = PartsOf(u.text)]

(* The parts that the getters of an object show.                           *)
Seen(u) == Lazy(u).parts

Return(o, call, u) ==
  /\ calls < MaxCalls /\ calls' = calls + 1
  /\ url' = [url EXCEPT ![o] = u]
  /\ last' = [Nothing EXCEPT !.call = call, !.of = o]

Throw(o, call, u) ==
  /\ calls < MaxCalls /\ calls' = calls + 1
  /\ url' = [url EXCEPT ![o] = u]
  /\ last' = [Nothing EXCEPT !.call = call, !.of = o, !.ok = FALSE]

(* str(text), the constructor from a text and its assignment.              *)
SetText(o, t) ==
  /\ Return(o, "text", [url[o] EXCEPT !.text = t, !.parse = FALSE, !.built = FALSE])
  /\ refs' = refs \ {o}

(* A getter.                                                               *)
Get(o) ==
  /\ \/ Readable(url[o]) /\ Return(o, "get", Lazy(url[o]))
     \/ ~Readable(url[o]) /\ Throw(o, "get", url[o])
  /\ UNCHANGED refs

clear(o) == Return(o, "clear", Cleared) /\ refs' = refs \ {o}

-----------------------------------------------------------------------------
(* Setters.  The parts that a setter makes of those it finds, and whether  *)
(* it takes its argument.                                                  *)

SetScheme(p, s) ==
  IF to_lower(s) = p.scheme THEN p
  ELSE [p EXCEPT !.scheme = to_lower(s),
                 !.port = IF DefaultPort(to_lower(s), @) THEN << >> ELSE @]

SetPort(p, s) == [p EXCEPT !.port = IF DefaultPort(p.scheme, s) THEN << >> ELSE s]

SetPath(p, s) == [p EXCEPT !.path = normalize_path(s)]

(* A text with no letters but A to F counts as an IPv6 address.            *)
HostTaken(h, ip_v) ==
  CASE h = << >> -> TRUE
    [] is_ipv4(h) -> is_valid_ipv4(h)
    [] ~is_ipv4(h) /\ ip_v \notin {0, 4, 6} /\ h # << >> -> is_ipv6(h)
    [] ~is_ipv4(h) /\ ip_v \in {0, 4, 6} /\ is_ipv6(h) -> is_valid_ipv6(h)
    [] OTHER -> is_reg_name(h)

SetHost(p, h, ip_v) ==
  LET put(o, v) == [p EXCEPT !.host = o, !.ip_v = v]
  IN  CASE h = << >> -> put(h, -1)
        [] is_ipv4(h) -> put(h, 4)
        [] ~is_ipv4(h) /\ ip_v \notin {0, 4, 6} /\ h # << >> -> put(h, ip_v)
        [] ~is_ipv4(h) /\ ip_v \in {0, 4, 6} /\ is_ipv6(h) -> put(normalize_IPv6(h), 6)
        [] OTHER -> put(to_lower(h), 0)

Taken(c) == CASE c.name = "scheme" -> is_scheme(c.arg)
              [] c.name = "host" -> HostTaken(c.arg, c.ip_v)
              [] c.name = "port" -> is_port(c.arg)
              [] OTHER -> TRUE

Made(p, c) == CASE c.name = "scheme" -> SetScheme(p, c.arg)
                [] c.name = "user" -> [p EXCEPT !.user = c.arg]
                [] c.name = "host" -> SetHost(p, c.arg, c.ip_v)
                [] c.name = "port" -> SetPort(p, c.arg)
                [] c.name = "path" -> SetPath(p, c.arg)
                [] c.name = "query" -> [p EXCEPT !.query = c.arg]
                [] c.name = "add" -> [p EXCEPT !.query = @ \o c.arg]
                [] c.name = "fragment" -> [p EXCEPT !.fragment = c.arg]

(* An object whose parts change is to be built again; add_query, and a     *)
(* host without a version, say so without looking.                         *)
Changed(u, c) ==
  LET p == Made(u.parts, c)
  IN  [u EXCEPT !.parts = p,
                !.built = @ /\ p = u.parts /\ c.name # "add"
                            /\ ~(c.name = "host" /\ c.arg = << >>)]

(* Faulty variant: the object changes before the argument is looked at.    *)
SetEarly(o, c) ==
  /\ \/ Readable(url[o]) /\ Taken(c) /\ Return(o, c.name, Changed(Lazy(url[o]), c))
     \/ ~Readable(url[o]) /\ Throw(o, c.name, url[o])
     \/ Readable(url[o]) /\ ~Taken(c) /\ c.name = "host"
        /\ Throw(o, c.name, [Lazy(url[o]) EXCEPT !.parts.host = << >>])
     \/ Readable(url[o]) /\ ~Taken(c) /\ c.name # "host" /\ Throw(o, c.name, url[o])
  /\ UNCHANGED refs

(* host() parses the object before it looks at its argument, the others    *)
(* after.                                                                  *)
Set(o, c) ==
  /\ \/ Readable(url[o]) /\ Taken(c) /\ Return(o, c.name, Changed(Lazy(url[o]), c))
     \/ ~Readable(url[o]) /\ Throw(o, c.name, url[o])
     \/ Readable(url[o]) /\ ~Taken(c)
        /\ Throw(o, c.name, IF c.name = "host" THEN Lazy(url[o]) ELSE url[o])
  /\ UNCHANGED refs

(* set_query(i): an entry for writing, here written at once.               *)
SetEntry(o, i, e) ==
  /\ \/ /\ Readable(url[o]) /\ i \in DOMAIN Seen(url[o]).query
        /\ Return(o, "entry", [Lazy(url[o]) EXCEPT !.built = FALSE, !.parts.query[i] = e])
     \/ /\ Readable(url[o]) /\ i \notin DOMAIN Seen(url[o]).query
        /\ Throw(o, "entry", Lazy(url[o]))
     \/ ~Readable(url[o]) /\ Throw(o, "entry", url[o])
  /\ UNCHANGED refs

(* set_query(): a reference to the query that its holder may write through *)
(* at any later time, until the object becomes another URL: clear() and an *)
(* assignment may mark a text as good that the reference then belies.      *)
SetQuery(o) ==
  \/ /\ Readable(url[o])
     /\ Return(o, "reference", [Lazy(url[o]) EXCEPT !.built = FALSE])
     /\ refs' = refs \cup {o}
  \/ ~Readable(url[o]) /\ Throw(o, "reference", url[o]) /\ UNCHANGED refs

WriteThrough(o, q) ==
  /\ o \in refs
  /\ Return(o, "write", [url[o] EXCEPT !.parts.query = q])
  /\ UNCHANGED refs

-----------------------------------------------------------------------------
(* str() and output().                                                     *)

Say(o, call, u, text) ==
  /\ calls < MaxCalls /\ calls' = calls + 1
  /\ url' = [url EXCEPT ![o] = u]
  /\ last' = [Nothing EXCEPT !.call = call, !.of = o, !.said = text]

(* Faulty variant: the text is marked as good for as long as no setter is  *)
(* called.                                                                 *)
BuildUrlKept(o, call, u) ==
  \/ Builds(u.parts) /\ Say(o, call, [u EXCEPT !.built = TRUE, !.text = Build(u.parts)],
                             Build(u.parts))
  \/ ~Builds(u.parts) /\ Throw(o, call, u)

(* build_url leaves the text marked as not built, so the next str() builds *)
(* it again.                                                               *)
BuildUrl(o, call, u) ==
  \/ Builds(u.parts) /\ Say(o, call, [u EXCEPT !.built = FALSE, !.text = Build(u.parts)],
                             Build(u.parts))
  \/ ~Builds(u.parts) /\ Throw(o, call, u)

str(o) ==
  /\ \/ url[o].built /\ Say(o, "str", url[o], url[o].text)
     \/ ~url[o].built /\ Readable(url[o]) /\ BuildUrl(o, "str", Lazy(url[o]))
     \/ ~url[o].built /\ ~Readable(url[o]) /\ Throw(o, "str", url[o])
  /\ UNCHANGED refs

output(o) ==
  /\ \/ /\ Readable(url[o]) /\ Lazy(url[o]).built
        /\ Say(o, "output", Lazy(url[o]), Lazy(url[o]).text)
     \/ Readable(url[o]) /\ ~Lazy(url[o]).built /\ BuildUrl(o, "output", Lazy(url[o]))
     \/ ~Readable(url[o]) /\ Throw(o, "output", url[o])
  /\ UNCHANGED refs

-----------------------------------------------------------------------------
(* assign.                                                                 *)

(* Faulty variant: the text is taken along only when it was built.         *)
AssignedBuilt(x, y) ==
  [text |-> IF y.built THEN y.text ELSE x.text,
   parse |-> y.parse, built |-> y.built,
   parts |-> IF y.parse THEN y.parts ELSE x.parts]

(* Parts and text are taken along when they are good; what is not good is  *)
(* left as it was in the object assigned to.                               *)
Assigned(x, y) ==
  [text |-> IF ~y.parse \/ y.built THEN y.text ELSE x.text,
   parse |-> y.parse, built |-> y.built,
   parts |-> IF y.parse THEN y.parts ELSE x.parts]

(* An object moved from keeps its flags and its IP version.                *)
MovedFrom(y) ==
  [y EXCEPT !.text = IF ~y.parse \/ y.built THEN << >> ELSE @,
            !.parts = IF y.parse THEN [NoParts EXCEPT !.ip_v = y.parts.ip_v] ELSE @]

Transfer(x, y, call, left) ==
  /\ x # y
  /\ calls < MaxCalls /\ calls' = calls + 1
  /\ url' = [url EXCEPT ![x] = Assigned(url[x], url[y]), ![y] = left]
  /\ last' = [Nothing EXCEPT !.call = call, !.of = x, !.from = y]
  /\ refs' = refs \ {x}

Copy(x, y) == Transfer(x, y, "copy", url[y])
Move(x, y) == Transfer(x, y, "move", MovedFrom(url[y]))

Next ==
  \/ \E o \in Objects :
       \/ Get(o) \/ clear(o) \/ SetQuery(o) \/ str(o) \/ output(o)
       \/ \E t \in Texts : SetText(o, t)
       \/ \E c \in Calls : Set(o, c)
       \/ \E q \in Queries : WriteThrough(o, q)
       \/ \E q \in Queries : \E e \in Range(q), i \in 1..2 : SetEntry(o, i, e)
  \/ \E x, y \in Objects : Copy(x, y) \/ Move(x, y)

Spec == Init /\ [][Next]_vars

-----------------------------------------------------------------------------
(* Properties.                                                             *)

Told == last.call \in {"str", "output"} /\ last.ok

(* str() always answers from the parts as they are, whichever of the two   *)
(* forms was good before and whoever wrote to the query meanwhile through  *)
(* a reference taken before the last str(): an answer is never one built   *)
(* earlier.                                                                *)
StrIsCurrent ==
  Told => /\ Builds(Seen(url[last.of]))
          /\ last.said = Build(Seen(url[last.of]))

(* What a URL is once the parts that mean nothing are dropped.             *)
Meaning(p) ==
  [p EXCEPT !.port = IF DefaultPort(p.scheme, @) THEN << >> ELSE @,
            !.ip_v = IF p.host = << >> THEN -1 ELSE @]

(* The parts that the text of a URL can carry: no user that needs escapes, *)
(* which parse_url does not allow there, no version of two digits, which   *)
(* it does not take, no IPvFuture host that calls itself a name, version 4 *)
(* or 6, and not the address of zeros, which normalize_IPv6 writes as one  *)
(* colon.                                                                  *)
Carried(p) ==
  /\ is_chars(p.user, Mask05) /\ p.ip_v <= 15
  /\ p.ip_v = 0 => is_reg_name(p.host) /\ ~is_ipv4(p.host)
  /\ p.ip_v = 4 => is_ipv4(p.host)
  /\ p.ip_v = 6 => is_valid_ipv6(p.host)

(* The text of an object, read again, has the object's parts, whatever     *)
(* calls made them: what one end escapes, joins or leaves out the other    *)
(* end restores.                                                           *)
RoundTrip ==
  Told /\ Carried(Seen(url[last.of])) =>
    /\ Parses(last.said)
    /\ Meaning(Parts(last.said)) = Meaning(Seen(url[last.of]))

(* No dot segment is in it, and no empty segment but the last.             *)
Orderly(path) ==
  LET segments == Fields(IF Starts(path, "/") THEN Rest(path, 1) ELSE path, {"/"})
  IN  \A k \in DOMAIN segments :
        /\ segments[k] \notin {<<".">>, <<".", ".">>}
        /\ segments[k] = << >> => k = Len(segments)

(* However a path came in, by a text or by a call, whatever was escaped in *)
(* it, no dot segment and no empty segment but the last is left in it; and *)
(* a host that is a name has no capitals, so that equal URLs compare equal. *)
NormalForms ==
  \A o \in Objects : Readable(url[o]) =>
    LET p == Seen(url[o])
    IN  /\ Orderly(p.path)
        /\ p.ip_v = 0 => Range(p.host) \cap Upper = {}

(* A call that throws leaves every object with the parts it had: nothing   *)
(* is half parsed, half set or half built.                                 *)
ThrowKeeps ==
  ~last'.ok => \A o \in Objects :
                 /\ Readable(url'[o]) <=> Readable(url[o])
                 /\ Readable(url[o]) => Seen(url'[o]) = Seen(url[o])
FailedCallKeeps == [][ThrowKeeps]_vars

(* A copy, and an object moved to, stand for what the other one stood for, *)
(* though only one of the two forms is taken along and the other is left   *)
(* over from an earlier URL.                                               *)
TransferGives ==
  last'.from # "none" =>
    LET x == url'[last'.of]
        y == url[last'.from]
    IN  /\ Readable(x) <=> Readable(y)
        /\ Readable(y) => Seen(x) = Seen(y)
AssignedAlike == [][TransferGives]_vars

(* Version 6 means an IPv6 address ("Get host IP version: 0=name, 4=IPv4,  *)
(* 6=IPv6", url.hpp:74).                                                   *)
IPv6Kept ==
  \A o \in Objects :
    Readable(url[o]) /\ Seen(url[o]).ip_v = 6 => is_valid_ipv6(Seen(url[o]).host)
=============================================================================
