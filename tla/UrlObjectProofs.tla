-------------------------- MODULE UrlObjectProofs --------------------------
(***************************************************************************)
(* Theorems about UrlObject: for any objects, any texts and any calls, in  *)
(* any order, str() answers from the parts as they are, a call that throws *)
(* leaves every object what it was, and an object assigned to is what the  *)
(* other one was.                                                          *)
(*                                                                         *)
(* These need nothing of what a text means: what parse_url makes of a      *)
(* text and build_url of its parts is the same function at every call.     *)
(* The later theorems do: whatever text or call the parts of an object     *)
(* came from, they are in normal form, and sound, and so what is said of   *)
(* an object, read back, has the parts it was built from.  Before these    *)
(* comes what they need of hosts: an IPv6 address that normalize_IPv6 has  *)
(* written is left alone when it is read (AddressStays).                   *)
(***************************************************************************)
EXTENDS UrlTextProofs

-----------------------------------------------------------------------------
(* The inductive invariant.                                                *)

(* An object has a text, two flags and parts; and no text but the empty    *)
(* one of a URL without parts is ever marked as good, for build_url does   *)
(* not mark the one it makes.                                              *)
WellMade(u) ==
  /\ u = [text |-> u.text, parse |-> u.parse, built |-> u.built, parts |-> u.parts]
  /\ u.parse \in BOOLEAN /\ u.built \in BOOLEAN
  /\ u.built => u = Cleared

(* What a reference writes to is an object that has its parts and no text. *)
ReferredIsParsed == \A o \in refs : url[o].parse /\ ~url[o].built

ObjectInv ==
  /\ url = [o \in Objects |-> url[o]]
  /\ \A o \in Objects : WellMade(url[o])
  /\ refs \subseteq Objects
  /\ ReferredIsParsed

InductiveInv == ObjectInv /\ StrIsCurrent

-----------------------------------------------------------------------------
(* lazy_parse.                                                             *)

LEMMA ClearedWellMade == WellMade(Cleared) /\ Cleared.parse /\ Cleared.parts = NoParts
  BY DEF WellMade, Cleared

(* lazy_parse leaves an object with parts, and does nothing to such a one. *)
LEMMA LazyParses ==
  ASSUME NEW u, WellMade(u)
  PROVE  /\ WellMade(Lazy(u)) /\ Lazy(u).parse
         /\ u.parse => Lazy(u) = u
         /\ Readable(Lazy(u)) /\ Seen(Lazy(u)) = Seen(u)
         /\ Seen(u) = Lazy(u).parts
<1>1. CASE u.parse
  BY <1>1 DEF Lazy, Readable, Seen
<1>2. CASE ~u.parse /\ u.text = << >>
  <2>1. Lazy(u) = Cleared
    BY <1>2 DEF Lazy
  <2> QED
    BY <1>2, <2>1, ClearedWellMade DEF Lazy, Readable, Seen
<1>3. CASE ~u.parse /\ u.text # << >>
  <2>1. Lazy(u) = [u EXCEPT !.parse = TRUE, !.built = FALSE, !.parts = PartsOf(u.text)]
    BY <1>3 DEF Lazy
  <2>2. /\ Lazy(u) = [text |-> u.text, parse |-> TRUE, built |-> FALSE,
                      parts |-> PartsOf(u.text)]
    BY <2>1 DEF WellMade
  <2>3. WellMade(Lazy(u)) /\ Lazy(u).parse
    BY <2>2 DEF WellMade
  <2>4. Lazy(Lazy(u)) = Lazy(u)
    BY <2>3 DEF Lazy
  <2> QED
    BY <1>3, <2>3, <2>4 DEF Readable, Seen
<1> QED
  BY <1>1, <1>2, <1>3 DEF WellMade

(* An object whose text is not marked as good may have any text and parts. *)
LEMMA NewText ==
  ASSUME NEW u, WellMade(u), NEW t,
         NEW v, v = [u EXCEPT !.text = t, !.parse = FALSE, !.built = FALSE]
  PROVE  WellMade(v)
<1>1. v = [text |-> t, parse |-> FALSE, built |-> FALSE, parts |-> u.parts]
  BY DEF WellMade
<1> QED
  BY <1>1 DEF WellMade

LEMMA Unmarked ==
  ASSUME NEW u, WellMade(u), u.parse, NEW i, NEW e,
         NEW v, \/ v = [u EXCEPT !.built = FALSE]
                \/ v = [u EXCEPT !.built = FALSE, !.parts.query[i] = e]
                \/ ~u.built /\ v = [u EXCEPT !.parts.query = e]
  PROVE  WellMade(v) /\ v.parse /\ ~v.built
<1>1. ASSUME NEW p, v = [text |-> u.text, parse |-> TRUE, built |-> FALSE, parts |-> p]
      PROVE  WellMade(v) /\ v.parse /\ ~v.built
  BY <1>1 DEF WellMade
<1>2. CASE v = [u EXCEPT !.built = FALSE]
  <2>1. v = [text |-> u.text, parse |-> TRUE, built |-> FALSE, parts |-> u.parts]
    BY <1>2 DEF WellMade
  <2> QED
    BY <1>1, <2>1
<1>3. CASE v = [u EXCEPT !.built = FALSE, !.parts.query[i] = e]
  <2>1. PICK p : v = [u EXCEPT !.built = FALSE, !.parts = p]
    BY <1>3
  <2>2. v = [text |-> u.text, parse |-> TRUE, built |-> FALSE, parts |-> p]
    BY <2>1 DEF WellMade
  <2> QED
    BY <1>1, <2>2
<1>4. CASE ~u.built /\ v = [u EXCEPT !.parts.query = e]
  <2>1. PICK p : v = [u EXCEPT !.parts = p]
    BY <1>4
  <2>2. v = [text |-> u.text, parse |-> TRUE, built |-> FALSE, parts |-> p]
    BY <1>4, <2>1 DEF WellMade
  <2> QED
    BY <1>1, <2>2
<1> QED
  BY <1>2, <1>3, <1>4

(* A call that concerns one object.                                        *)
LEMMA OneObject ==
  ASSUME ObjectInv, NEW o \in Objects, NEW u, WellMade(u),
         url' = [url EXCEPT ![o] = u],
         refs' \subseteq refs \cup {o},
         o \in refs' => u.parse /\ ~u.built
  PROVE  ObjectInv' /\ url'[o] = u
<1>1. /\ url'[o] = u /\ \A x \in Objects \ {o} : url'[x] = url[x]
      /\ url' = [x \in Objects |-> url'[x]]
  BY DEF ObjectInv
<1>2. ReferredIsParsed'
  BY <1>1 DEF ObjectInv, ReferredIsParsed
<1>3. \A x \in Objects : WellMade(url'[x])
  BY <1>1 DEF ObjectInv
<1> QED
  BY <1>1, <1>2, <1>3 DEF ObjectInv

-----------------------------------------------------------------------------
(* Each call keeps the invariant.  One that throws leaves its object, or   *)
(* what lazy_parse makes of it where parse_url takes its text; only str()  *)
(* and output() say anything.                                              *)

Threw(o) ==
  /\ refs' = refs
  /\ \/ url' = [url EXCEPT ![o] = url[o]]
     \/ Readable(url[o]) /\ url' = [url EXCEPT ![o] = Lazy(url[o])]

Silent == ~Told' /\ last'.from = "none"

LEMMA Returned ==
  ASSUME NEW o, NEW call, NEW u, Return(o, call, u)
  PROVE  /\ url' = [url EXCEPT ![o] = u]
         /\ last'.ok /\ last'.from = "none"
         /\ call \notin {"str", "output"} => Silent
  BY DEF Return, Nothing, Told, Silent

LEMMA Thrown ==
  ASSUME NEW o, NEW call, NEW u, Throw(o, call, u)
  PROVE  url' = [url EXCEPT ![o] = u] /\ Silent
  BY DEF Throw, Nothing, Told, Silent

LEMMA ThrowInv ==
  ASSUME ObjectInv, NEW o \in Objects, Threw(o)
  PROVE  ObjectInv'
<1>1. PICK u \in {url[o], Lazy(url[o])} : url' = [url EXCEPT ![o] = u] /\ refs' = refs
  BY DEF Threw
<1>2. WellMade(url[o]) /\ (o \in refs => url[o].parse /\ ~url[o].built)
  BY DEF ObjectInv, ReferredIsParsed
<1>3. WellMade(u) /\ (o \in refs => u.parse /\ ~u.built)
  BY <1>1, <1>2, LazyParses
<1> QED
  BY <1>1, <1>3, OneObject

(* A new text: the object has no parts until somebody asks for them.       *)
LEMMA StepSetText ==
  ASSUME ObjectInv, NEW o \in Objects, NEW t, SetText(o, t)
  PROVE  ObjectInv' /\ Silent /\ last'.ok
<1>1. PICK u : u = [url[o] EXCEPT !.text = t, !.parse = FALSE, !.built = FALSE]
  OBVIOUS
<1>2. url' = [url EXCEPT ![o] = u] /\ refs' = refs \ {o} /\ Silent /\ last'.ok
  BY <1>1, Returned DEF SetText
<1>3. WellMade(u)
  BY <1>1, NewText DEF ObjectInv
<1> QED
  BY <1>2, <1>3, OneObject

LEMMA StepGet ==
  ASSUME ObjectInv, NEW o \in Objects, Get(o)
  PROVE  ObjectInv' /\ Silent /\ Threw(o)
<1>1. Threw(o) /\ Silent
  BY Returned, Thrown DEF Get, Threw
<1> QED
  BY <1>1, ThrowInv

LEMMA StepClear ==
  ASSUME ObjectInv, NEW o \in Objects, clear(o)
  PROVE  ObjectInv' /\ Silent /\ last'.ok
<1>1. url' = [url EXCEPT ![o] = Cleared] /\ refs' = refs \ {o} /\ Silent /\ last'.ok
  BY Returned DEF clear
<1> QED
  BY <1>1, ClearedWellMade, OneObject

(* A setter marks the text as good no longer, unless it changes nothing.   *)
LEMMA StepSet ==
  ASSUME ObjectInv, NEW o \in Objects, NEW c \in Calls, Set(o, c)
  PROVE  ObjectInv' /\ Silent /\ (last'.ok \/ Threw(o))
<1>1. c.name \notin {"str", "output"} /\ refs' = refs
  BY ObjectAssumption DEF Setters, Set
<1>2. WellMade(url[o]) /\ (o \in refs => url[o].parse /\ ~url[o].built)
  BY DEF ObjectInv, ReferredIsParsed
<1>3. CASE Return(o, c.name, Changed(Lazy(url[o]), c))
  <2> DEFINE l == Lazy(url[o])
             u == Changed(l, c)
  <2>1. WellMade(l) /\ l.parse /\ (o \in refs => ~l.built)
    BY <1>2, LazyParses
  <2>2. /\ u = [l EXCEPT !.parts = Made(l.parts, c), !.built = u.built]
        /\ u.built \in BOOLEAN
        /\ u.built => l.built /\ Made(l.parts, c) = l.parts
    BY <2>1 DEF Changed, WellMade
  <2> HIDE DEF l, u
  <2>3. u.parse = l.parse
    BY <2>1, <2>2 DEF WellMade
  <2>4. WellMade(u)
    <3>1. u = [text |-> l.text, parse |-> l.parse, built |-> u.built,
               parts |-> Made(l.parts, c)]
      BY <2>1, <2>2 DEF WellMade
    <3>2. u.built => u = l
      BY <2>1, <2>2, <3>1 DEF WellMade
    <3> QED
      BY <2>1, <2>2, <3>1, <3>2 DEF WellMade
  <2>5. url' = [url EXCEPT ![o] = u] /\ Silent /\ last'.ok
    BY <1>1, <1>3, Returned DEF u, l
  <2>6. o \in refs' => u.parse /\ ~u.built
    BY <1>1, <2>1, <2>2, <2>3
  <2> QED
    BY <1>1, <2>4, <2>5, <2>6, OneObject
<1>4. CASE \/ Throw(o, c.name, url[o])
           \/ Readable(url[o]) /\ Throw(o, c.name, Lazy(url[o]))
  <2>1. Threw(o) /\ Silent
    BY <1>1, <1>4, Thrown DEF Threw
  <2> QED
    BY <2>1, ThrowInv
<1> QED
  BY <1>3, <1>4 DEF Set

LEMMA StepSetEntry ==
  ASSUME ObjectInv, NEW o \in Objects, NEW i, NEW e, SetEntry(o, i, e)
  PROVE  ObjectInv' /\ Silent /\ (last'.ok \/ Threw(o))
<1>1. refs' = refs
  BY DEF SetEntry
<1>2. WellMade(url[o]) /\ (o \in refs => url[o].parse /\ ~url[o].built)
  BY DEF ObjectInv, ReferredIsParsed
<1>3. CASE Return(o, "entry", [Lazy(url[o]) EXCEPT !.built = FALSE, !.parts.query[i] = e])
  <2>1. WellMade(Lazy(url[o])) /\ Lazy(url[o]).parse
    BY <1>2, LazyParses
  <2>2. PICK u : u = [Lazy(url[o]) EXCEPT !.built = FALSE, !.parts.query[i] = e]
    OBVIOUS
  <2>3. url' = [url EXCEPT ![o] = u] /\ Silent /\ last'.ok
    BY <1>3, <2>2, Returned
  <2>4. WellMade(u) /\ u.parse /\ ~u.built
    BY <2>1, <2>2, Unmarked
  <2> QED
    BY <1>1, <2>3, <2>4, OneObject
<1>4. CASE \/ Throw(o, "entry", url[o])
           \/ Readable(url[o]) /\ Throw(o, "entry", Lazy(url[o]))
  <2>1. Threw(o) /\ Silent
    BY <1>1, <1>4, Thrown DEF Threw
  <2> QED
    BY <2>1, ThrowInv
<1> QED
  BY <1>3, <1>4 DEF SetEntry

(* A reference is given of an object with parts and no text.               *)
LEMMA StepSetQuery ==
  ASSUME ObjectInv, NEW o \in Objects, SetQuery(o)
  PROVE  ObjectInv' /\ Silent /\ (last'.ok \/ Threw(o))
<1>1. CASE /\ Return(o, "reference", [Lazy(url[o]) EXCEPT !.built = FALSE])
           /\ refs' = refs \cup {o}
  <2>1. WellMade(Lazy(url[o])) /\ Lazy(url[o]).parse
    BY LazyParses DEF ObjectInv
  <2>2. PICK u : u = [Lazy(url[o]) EXCEPT !.built = FALSE]
    OBVIOUS
  <2>3. url' = [url EXCEPT ![o] = u] /\ Silent /\ last'.ok
    BY <1>1, <2>2, Returned
  <2>4. WellMade(u) /\ u.parse /\ ~u.built
    BY <2>1, <2>2, Unmarked
  <2> QED
    BY <1>1, <2>3, <2>4, OneObject
<1>2. CASE Throw(o, "reference", url[o]) /\ refs' = refs
  <2>1. Threw(o) /\ Silent
    BY <1>2, Thrown DEF Threw
  <2> QED
    BY <2>1, ThrowInv
<1> QED
  BY <1>1, <1>2 DEF SetQuery

LEMMA StepWriteThrough ==
  ASSUME ObjectInv, NEW o \in Objects, NEW q, WriteThrough(o, q)
  PROVE  ObjectInv' /\ Silent /\ last'.ok
<1>1. WellMade(url[o]) /\ url[o].parse /\ ~url[o].built
  BY DEF WriteThrough, ObjectInv, ReferredIsParsed
<1>2. PICK u : u = [url[o] EXCEPT !.parts.query = q]
  OBVIOUS
<1>3. url' = [url EXCEPT ![o] = u] /\ refs' = refs /\ Silent /\ last'.ok
  BY <1>2, Returned DEF WriteThrough
<1>4. WellMade(u) /\ u.parse /\ ~u.built
  BY <1>1, <1>2, Unmarked
<1> QED
  BY <1>3, <1>4, OneObject

-----------------------------------------------------------------------------
(* str() and output() say the text of the parts.                           *)

LEMMA SaidOf ==
  ASSUME NEW o, NEW call, NEW u, NEW text, Say(o, call, u, text)
  PROVE  /\ url' = [url EXCEPT ![o] = u]
         /\ last'.of = o /\ last'.said = text
         /\ last'.ok /\ last'.from = "none"
  BY DEF Say, Nothing

(* What build_url makes of the parts is the text that is said.             *)
LEMMA StepBuild ==
  ASSUME ObjectInv, NEW o \in Objects, NEW call, refs' = refs,
         Readable(url[o]), BuildUrl(o, call, Lazy(url[o]))
  PROVE  /\ ObjectInv' /\ StrIsCurrent'
         /\ last'.from = "none" /\ (last'.ok \/ Threw(o))
<1>1. WellMade(Lazy(url[o])) /\ Lazy(url[o]).parse
  BY LazyParses DEF ObjectInv
<1>2. PICK l : l = Lazy(url[o])
  OBVIOUS
<1>3. CASE Throw(o, call, l)
  <2>1. Threw(o) /\ Silent
    BY <1>2, <1>3, Thrown DEF Threw
  <2> QED
    BY <2>1, ThrowInv DEF Silent, StrIsCurrent, Told
<1>4. CASE /\ Builds(l.parts)
           /\ Say(o, call, [l EXCEPT !.built = FALSE, !.text = Build(l.parts)],
                  Build(l.parts))
  <2>1. PICK u : u = [l EXCEPT !.built = FALSE, !.text = Build(l.parts)]
    OBVIOUS
  <2>2. /\ url' = [url EXCEPT ![o] = u]
        /\ last'.of = o /\ last'.said = Build(l.parts)
        /\ last'.ok /\ last'.from = "none"
    BY <1>4, <2>1, SaidOf
  <2>3. u = [text |-> Build(l.parts), parse |-> TRUE, built |-> FALSE, parts |-> l.parts]
    BY <1>1, <1>2, <2>1 DEF WellMade
  <2>4. WellMade(u) /\ u.parse /\ ~u.built /\ u.parts = l.parts
    BY <2>3 DEF WellMade
  <2>5. ObjectInv' /\ url'[o] = u
    BY <2>2, <2>4, OneObject
  <2>6. Seen(u) = l.parts
    BY <2>4 DEF Seen, Lazy
  <2> QED
    BY <1>4, <2>2, <2>5, <2>6 DEF StrIsCurrent
<1> QED
  BY <1>2, <1>3, <1>4 DEF BuildUrl

(* A text that is marked as good is the empty one.                         *)
LEMMA StepSaid ==
  ASSUME ObjectInv, NEW o \in Objects, NEW call, refs' = refs,
         NEW u \in {url[o], Lazy(url[o])}, u.built, Say(o, call, u, u.text)
  PROVE  ObjectInv' /\ StrIsCurrent' /\ last'.from = "none" /\ last'.ok
<1>1. WellMade(u) /\ u.parse /\ o \notin refs
  <2>1. WellMade(url[o]) /\ (o \in refs => url[o].parse /\ ~url[o].built)
    BY DEF ObjectInv, ReferredIsParsed
  <2>2. WellMade(u)
    BY <2>1, LazyParses
  <2>3. u = Cleared
    BY <2>2 DEF WellMade
  <2> QED
    BY <2>1, <2>2, <2>3, LazyParses, ClearedWellMade
<1>2. ObjectInv'
  BY <1>1, SaidOf, OneObject
<1>3. url'[o] = u
  BY SaidOf DEF ObjectInv
<1>4. u = Cleared
  BY <1>1 DEF WellMade
<1>5. Seen(u) = NoParts /\ u.text = << >>
  BY <1>4, ClearedWellMade DEF Seen, Lazy, Cleared
<1> QED
  BY <1>2, <1>3, <1>5, SaidOf, NoPartsBuild DEF StrIsCurrent

LEMMA StepStr ==
  ASSUME ObjectInv, NEW o \in Objects, str(o) \/ output(o)
  PROVE  /\ ObjectInv' /\ StrIsCurrent'
         /\ last'.from = "none" /\ (last'.ok \/ Threw(o))
<1>1. refs' = refs
  BY DEF str, output
<1>2. CASE \E call : Readable(url[o]) /\ BuildUrl(o, call, Lazy(url[o]))
  BY <1>1, <1>2, StepBuild
<1>3. CASE \E call : \E u \in {url[o], Lazy(url[o])} : u.built /\ Say(o, call, u, u.text)
  BY <1>1, <1>3, StepSaid
<1>4. CASE \E call : Throw(o, call, url[o])
  <2>1. Threw(o) /\ Silent
    BY <1>1, <1>4, Thrown DEF Threw
  <2> QED
    BY <2>1, ThrowInv DEF Silent, StrIsCurrent
<1> QED
  BY <1>2, <1>3, <1>4 DEF str, output

-----------------------------------------------------------------------------
(* assign.                                                                 *)

(* What is assigned stands for what the other object stands for.           *)
LEMMA AssignedSame ==
  ASSUME NEW x, NEW y, WellMade(x), WellMade(y)
  PROVE  /\ WellMade(Assigned(x, y))
         /\ Readable(Assigned(x, y)) <=> Readable(y)
         /\ Seen(Assigned(x, y)) = Seen(y)
<1>1. PICK z : z = Assigned(x, y)
  OBVIOUS
<1>2. /\ z = [text |-> z.text, parse |-> y.parse, built |-> y.built, parts |-> z.parts]
      /\ z.parse = y.parse /\ z.built = y.built
      /\ ~y.parse \/ y.built => z.text = y.text
      /\ y.parse => z.parts = y.parts
  BY <1>1 DEF Assigned
<1>3. y.built => y.parse
  BY DEF WellMade, Cleared
<1>4. y.built => z = y
  BY <1>2, <1>3 DEF WellMade
<1>5. WellMade(z)
  BY <1>2, <1>4 DEF WellMade
<1>6. CASE y.parse
  BY <1>1, <1>2, <1>5, <1>6 DEF Readable, Seen, Lazy
<1>7. CASE ~y.parse
  <2>1. z.text = y.text /\ ~z.parse
    BY <1>2, <1>7
  <2>2. Readable(z) <=> Readable(y)
    BY <1>7, <2>1 DEF Readable
  <2>3. CASE y.text = << >>
    BY <1>1, <1>5, <1>7, <2>1, <2>2, <2>3 DEF Seen, Lazy
  <2>4. CASE y.text # << >>
    <3>1. /\ Lazy(y) = [y EXCEPT !.parse = TRUE, !.built = FALSE, !.parts = PartsOf(y.text)]
          /\ Lazy(z) = [z EXCEPT !.parse = TRUE, !.built = FALSE, !.parts = PartsOf(y.text)]
      BY <1>7, <2>1, <2>4 DEF Lazy
    <3>2. Lazy(y).parts = PartsOf(y.text)
      BY <3>1 DEF WellMade
    <3>3. Lazy(z).parts = PartsOf(y.text)
      BY <1>5, <3>1 DEF WellMade
    <3> QED
      BY <1>1, <1>5, <2>2, <3>2, <3>3 DEF Seen
  <2> QED
    BY <2>3, <2>4
<1> QED
  BY <1>1, <1>5, <1>6, <1>7 DEF WellMade

(* An object moved from keeps its flags, and a good text only of no parts. *)
LEMMA MovedWellMade ==
  ASSUME NEW y, WellMade(y)
  PROVE  /\ WellMade(MovedFrom(y))
         /\ MovedFrom(y).parse = y.parse /\ MovedFrom(y).built = y.built
<1>1. PICK z : z = MovedFrom(y)
  OBVIOUS
<1>2. PICK t, p :
        /\ z = [y EXCEPT !.text = t, !.parts = p]
        /\ t = IF ~y.parse \/ y.built THEN << >> ELSE y.text
        /\ p = IF y.parse THEN [NoParts EXCEPT !.ip_v = y.parts.ip_v] ELSE y.parts
  BY <1>1 DEF MovedFrom
<1>3. z = [text |-> t, parse |-> y.parse, built |-> y.built, parts |-> p]
  BY <1>2 DEF WellMade
<1>4. ASSUME y.built
      PROVE  z = y
  <2>1. y = Cleared
    BY <1>4 DEF WellMade
  <2>2. t = << >> /\ p = [NoParts EXCEPT !.ip_v = NoParts.ip_v]
    BY <1>2, <2>1 DEF Cleared
  <2>3. p = NoParts
    BY <2>2 DEF NoParts
  <2> QED
    BY <1>3, <2>1, <2>2, <2>3 DEF Cleared
<1> QED
  BY <1>1, <1>3, <1>4 DEF WellMade

LEMMA StepTransfer ==
  ASSUME ObjectInv, NEW x \in Objects, NEW y \in Objects, Copy(x, y) \/ Move(x, y)
  PROVE  ObjectInv' /\ ~Told' /\ last'.ok /\ TransferGives
<1>1. WellMade(url[x]) /\ WellMade(url[y])
  BY DEF ObjectInv
<1>2. PICK left :
        /\ left = url[y] \/ left = MovedFrom(url[y])
        /\ x # y
        /\ url' = [url EXCEPT ![x] = Assigned(url[x], url[y]), ![y] = left]
        /\ refs' = refs \ {x}
        /\ last'.call \in {"copy", "move"} /\ last'.of = x /\ last'.from = y /\ last'.ok
  BY DEF Copy, Move, Transfer, Nothing
<1>3. WellMade(left) /\ left.parse = url[y].parse /\ left.built = url[y].built
  BY <1>1, <1>2, MovedWellMade
<1>4. /\ url'[x] = Assigned(url[x], url[y]) /\ url'[y] = left
      /\ \A o \in Objects \ {x, y} : url'[o] = url[o]
      /\ url' = [o \in Objects |-> url'[o]]
  BY <1>2 DEF ObjectInv
<1>5. \A o \in Objects : WellMade(url'[o])
  BY <1>1, <1>3, <1>4, AssignedSame DEF ObjectInv
<1>6. ReferredIsParsed'
  BY <1>2, <1>3, <1>4 DEF ObjectInv, ReferredIsParsed
<1>7. ObjectInv'
  BY <1>2, <1>4, <1>5, <1>6 DEF ObjectInv
<1>8. TransferGives
  <2>1. /\ Readable(url'[x]) <=> Readable(url[y])
        /\ Seen(url'[x]) = Seen(url[y])
    BY <1>1, <1>4, AssignedSame
  <2> QED
    BY <1>2, <2>1 DEF TransferGives
<1> QED
  BY <1>2, <1>7, <1>8 DEF Told

-----------------------------------------------------------------------------
(* Parts in normal form stay so, whoever changes them.                     *)

Normal(u) == u.parse => NormalParts(u.parts)

PartsInNormalForm == \A o \in Objects : Normal(url[o])

(* parse_url makes such parts of every text it takes.                      *)
LEMMA LazyNormal ==
  ASSUME NEW u, WellMade(u), Normal(u), Readable(u)
  PROVE  NormalParts(Lazy(u).parts)
<1>1. CASE u.parse
  BY <1>1 DEF Lazy, Normal
<1>2. CASE ~u.parse /\ u.text = << >>
  <2>1. Lazy(u) = Cleared
    BY <1>2 DEF Lazy
  <2> QED
    BY <2>1, ClearedWellMade, NoPartsNormal
<1>3. CASE ~u.parse /\ u.text # << >>
  <2>1. PICK p : p = PartsOf(u.text)
    OBVIOUS
  <2>2. Lazy(u) = [u EXCEPT !.parse = TRUE, !.built = FALSE, !.parts = p]
    BY <1>3, <2>1 DEF Lazy
  <2>3. Lazy(u).parts = p
    BY <2>2 DEF WellMade
  <2>4. PICK r \in Reading : r.text = u.text /\ p = r.parts
    <3>1. \E r \in Reading : r.text = u.text
      BY <1>3 DEF Readable
    <3> QED
      BY <2>1, <3>1, Zenon DEF PartsOf
  <2>5. r.text \in Seq(Chars) /\ r.parts = Parts(r.text)
    BY ObjectAssumption
  <2> QED
    BY <2>3, <2>4, <2>5, PartsNormal
<1> QED
  BY <1>1, <1>2, <1>3 DEF WellMade

(* Each setter gives parts in normal form of parts in normal form.         *)
LEMMA FieldNormal ==
  ASSUME NEW p, NormalParts(p), NEW v, NEW q,
         NEW f \in {"scheme", "user", "port", "query", "fragment"},
         q = [p EXCEPT ![f] = v]
  PROVE  NormalParts(q)
  BY DEF NormalParts, NoParts

LEMMA HostNormal ==
  ASSUME NEW p, NormalParts(p), NEW h, NEW ip_v, NEW q,
         q = [p EXCEPT !.host = h, !.ip_v = ip_v],
         ip_v = 0 => Range(h) \cap Upper = {}
  PROVE  NormalParts(q)
<1>1. q = [f \in DOMAIN NoParts |-> q[f]] /\ q.path = p.path /\ q.host = h /\ q.ip_v = ip_v
  BY DEF NormalParts, NoParts
<1> QED
  BY <1>1 DEF NormalParts

LEMMA MadeNormal ==
  ASSUME NEW p, NormalParts(p), NEW c \in Calls
  PROVE  NormalParts(Made(p, c))
<1>1. /\ c.name \in Setters
      /\ c.name \notin {"query", "add"} => c.arg \in Seq(Chars)
  BY ObjectAssumption
<1>2. CASE c.name = "scheme"
  <2>1. PICK s, port : /\ s = to_lower(c.arg)
                       /\ port = IF DefaultPort(s, p.port) THEN << >> ELSE p.port
    OBVIOUS
  <2>2. Made(p, c) = IF s = p.scheme THEN p ELSE [p EXCEPT !.scheme = s, !.port = port]
    BY <1>2, <2>1 DEF Made, SetScheme
  <2>3. PICK q : q = [p EXCEPT !.scheme = s]
    OBVIOUS
  <2>4. NormalParts(q)
    BY <2>3, FieldNormal
  <2>5. [p EXCEPT !.scheme = s, !.port = port] = [q EXCEPT !.port = port]
    BY <2>3
  <2>6. NormalParts([q EXCEPT !.port = port])
    BY <2>4, FieldNormal
  <2> QED
    BY <2>2, <2>5, <2>6
<1>3. CASE c.name = "host"
  <2>1. PICK h, ip_v : h = c.arg /\ ip_v = c.ip_v
    OBVIOUS
  <2>2. Made(p, c) = SetHost(p, h, ip_v)
    BY <1>3, <2>1 DEF Made
  <2>3. ASSUME NEW o, NEW v, Made(p, c) = [p EXCEPT !.host = o, !.ip_v = v],
               v = 0 => o = to_lower(h)
        PROVE  NormalParts(Made(p, c))
    <3>1. PICK q : q = [p EXCEPT !.host = o, !.ip_v = v]
      OBVIOUS
    <3>2. v = 0 => Range(o) \cap Upper = {}
      BY <2>3, NoCapitals
    <3>3. NormalParts(q)
      BY <3>1, <3>2, HostNormal
    <3> QED
      BY <2>3, <3>1, <3>3
  <2>4. \/ Made(p, c) = [p EXCEPT !.host = h, !.ip_v = -1]
        \/ Made(p, c) = [p EXCEPT !.host = h, !.ip_v = 4]
        \/ ip_v \notin {0, 4, 6} /\ Made(p, c) = [p EXCEPT !.host = h, !.ip_v = ip_v]
        \/ Made(p, c) = [p EXCEPT !.host = normalize_IPv6(h), !.ip_v = 6]
        \/ Made(p, c) = [p EXCEPT !.host = to_lower(h), !.ip_v = 0]
    BY <2>2 DEF SetHost
  <2>5. -1 # 0 /\ 4 # 0 /\ 6 # 0
    OBVIOUS
  <2> QED
    BY <2>3, <2>4, <2>5
<1>4. CASE c.name = "path"
  <2>1. PICK s : s = normalize_path(c.arg)
    OBVIOUS
  <2>2. Orderly(s)
    BY <1>1, <1>4, <2>1, PathNormal
  <2>3. PICK q : q = [p EXCEPT !.path = s]
    OBVIOUS
  <2>4. q = [f \in DOMAIN NoParts |-> q[f]] /\ q.path = s /\ q.host = p.host /\ q.ip_v = p.ip_v
    BY <2>3 DEF NormalParts, NoParts
  <2>5. Made(p, c) = q
    BY <1>4, <2>1, <2>3 DEF Made, SetPath
  <2> QED
    BY <2>2, <2>4, <2>5 DEF NormalParts
<1>5. CASE c.name \in {"user", "port", "query", "add", "fragment"}
  <2>1. ASSUME NEW f \in {"scheme", "user", "port", "query", "fragment"}, NEW v,
               Made(p, c) = [p EXCEPT ![f] = v]
        PROVE  NormalParts(Made(p, c))
    BY <2>1, FieldNormal
  <2>2. \/ Made(p, c) = [p EXCEPT !["user"] = c.arg]
        \/ Made(p, c) = [p EXCEPT !["port"] = IF DefaultPort(p.scheme, c.arg) THEN << >>
                                              ELSE c.arg]
        \/ Made(p, c) = [p EXCEPT !["query"] = c.arg]
        \/ Made(p, c) = [p EXCEPT !["query"] = @ \o c.arg]
        \/ Made(p, c) = [p EXCEPT !["fragment"] = c.arg]
    BY <1>5 DEF Made, SetPort
  <2> QED
    BY <2>1, <2>2
<1> QED
  BY <1>1, <1>2, <1>3, <1>4, <1>5 DEF Setters

LEMMA OneNormal ==
  ASSUME ObjectInv, PartsInNormalForm, NEW o \in Objects, NEW u, Normal(u),
         url' = [url EXCEPT ![o] = u]
  PROVE  PartsInNormalForm'
<1>1. url'[o] = u /\ \A x \in Objects \ {o} : url'[x] = url[x]
  BY DEF ObjectInv
<1> QED
  BY <1>1 DEF PartsInNormalForm, Normal

LEMMA LazyOf ==
  ASSUME ObjectInv, PartsInNormalForm, NEW o \in Objects, Readable(url[o])
  PROVE  /\ WellMade(Lazy(url[o])) /\ Lazy(url[o]).parse /\ NormalParts(Lazy(url[o]).parts)
         /\ Normal(Lazy(url[o]))
  BY LazyParses, LazyNormal DEF ObjectInv, PartsInNormalForm, Normal

LEMMA ThrewNormal ==
  ASSUME ObjectInv, PartsInNormalForm, NEW o \in Objects, Threw(o)
  PROVE  PartsInNormalForm'
<1>1. CASE url' = [url EXCEPT ![o] = url[o]]
  BY <1>1, OneNormal DEF PartsInNormalForm
<1>2. CASE Readable(url[o]) /\ url' = [url EXCEPT ![o] = Lazy(url[o])]
  BY <1>2, LazyOf, OneNormal
<1> QED
  BY <1>1, <1>2 DEF Threw

(* What the calls that return make of their object.                        *)
LEMMA NormalSetText ==
  ASSUME ObjectInv, PartsInNormalForm, NEW o \in Objects, NEW t, SetText(o, t)
  PROVE  PartsInNormalForm'
<1>1. PICK u : u = [url[o] EXCEPT !.text = t, !.parse = FALSE, !.built = FALSE]
  OBVIOUS
<1>2. url' = [url EXCEPT ![o] = u]
  BY <1>1, Returned DEF SetText
<1>3. ~u.parse
  BY <1>1 DEF ObjectInv, WellMade
<1> QED
  BY <1>2, <1>3, OneNormal DEF Normal

LEMMA NormalClear ==
  ASSUME ObjectInv, PartsInNormalForm, NEW o \in Objects, clear(o)
  PROVE  PartsInNormalForm'
<1>1. url' = [url EXCEPT ![o] = Cleared]
  BY Returned DEF clear
<1> QED
  BY <1>1, ClearedWellMade, NoPartsNormal, OneNormal DEF Normal

LEMMA NormalSet ==
  ASSUME ObjectInv, PartsInNormalForm, NEW o \in Objects, NEW c \in Calls,
         Readable(url[o]), Return(o, c.name, Changed(Lazy(url[o]), c))
  PROVE  PartsInNormalForm'
<1>1. PICK l : l = Lazy(url[o])
  OBVIOUS
<1>2. WellMade(l) /\ l.parse /\ NormalParts(l.parts)
  BY <1>1, LazyOf
<1>3. PICK u : u = Changed(l, c)
  OBVIOUS
<1>4. u = [l EXCEPT !.parts = Made(l.parts, c), !.built = u.built]
  BY <1>2, <1>3 DEF Changed, WellMade
<1>5. u.parts = Made(l.parts, c)
  BY <1>2, <1>4 DEF WellMade
<1>6. url' = [url EXCEPT ![o] = u]
  BY <1>1, <1>3, Returned
<1> QED
  BY <1>2, <1>5, <1>6, MadeNormal, OneNormal DEF Normal

LEMMA NormalReference ==
  ASSUME ObjectInv, PartsInNormalForm, NEW o \in Objects, Readable(url[o]),
         NEW call, Return(o, call, [Lazy(url[o]) EXCEPT !.built = FALSE])
  PROVE  PartsInNormalForm'
<1>1. PICK l : l = Lazy(url[o])
  OBVIOUS
<1>2. WellMade(l) /\ NormalParts(l.parts)
  BY <1>1, LazyOf
<1>3. PICK u : u = [l EXCEPT !.built = FALSE]
  OBVIOUS
<1>4. u.parts = l.parts
  BY <1>2, <1>3 DEF WellMade
<1>5. url' = [url EXCEPT ![o] = u]
  BY <1>1, <1>3, Returned
<1> QED
  BY <1>2, <1>4, <1>5, OneNormal DEF Normal

LEMMA NormalSetEntry ==
  ASSUME ObjectInv, PartsInNormalForm, NEW o \in Objects, NEW i, NEW e, Readable(url[o]),
         Return(o, "entry", [Lazy(url[o]) EXCEPT !.built = FALSE, !.parts.query[i] = e])
  PROVE  PartsInNormalForm'
<1>1. PICK l : l = Lazy(url[o])
  OBVIOUS
<1>2. WellMade(l) /\ NormalParts(l.parts)
  BY <1>1, LazyOf
<1>3. PICK q, p : /\ q = [l.parts.query EXCEPT ![i] = e]
                  /\ p = [l.parts EXCEPT !["query"] = q]
  OBVIOUS
<1>4. NormalParts(p)
  BY <1>2, <1>3, FieldNormal
<1>5. PICK u : u = [l EXCEPT !.built = FALSE, !.parts.query[i] = e]
  OBVIOUS
<1>6. u.parts = p
  BY <1>2, <1>3, <1>5 DEF WellMade
<1>7. url' = [url EXCEPT ![o] = u]
  BY <1>1, <1>5, Returned
<1> QED
  BY <1>4, <1>6, <1>7, OneNormal DEF Normal

LEMMA NormalWrite ==
  ASSUME ObjectInv, PartsInNormalForm, NEW o \in Objects, NEW q, WriteThrough(o, q)
  PROVE  PartsInNormalForm'
<1>1. WellMade(url[o]) /\ NormalParts(url[o].parts)
  BY DEF WriteThrough, ObjectInv, ReferredIsParsed, PartsInNormalForm, Normal
<1>2. PICK p : p = [url[o].parts EXCEPT !["query"] = q]
  OBVIOUS
<1>3. NormalParts(p)
  BY <1>1, <1>2, FieldNormal
<1>4. PICK u : u = [url[o] EXCEPT !.parts.query = q]
  OBVIOUS
<1>5. u.parts = p
  BY <1>1, <1>2, <1>4 DEF WellMade
<1>6. url' = [url EXCEPT ![o] = u]
  BY <1>4, Returned DEF WriteThrough
<1> QED
  BY <1>3, <1>5, <1>6, OneNormal DEF Normal

LEMMA NormalSaid ==
  ASSUME ObjectInv, PartsInNormalForm, NEW o \in Objects, NEW call,
         \/ Readable(url[o]) /\ BuildUrl(o, call, Lazy(url[o]))
         \/ Say(o, call, url[o], url[o].text)
         \/ Readable(url[o]) /\ Say(o, call, Lazy(url[o]), Lazy(url[o]).text)
         \/ Throw(o, call, url[o])
  PROVE  PartsInNormalForm'
<1>1. CASE \E u : Normal(u) /\ url' = [url EXCEPT ![o] = u]
  BY <1>1, OneNormal
<1>2. Normal(url[o]) /\ (Readable(url[o]) => Normal(Lazy(url[o])))
  BY LazyOf DEF PartsInNormalForm
<1>3. CASE Readable(url[o]) /\ BuildUrl(o, call, Lazy(url[o]))
  <2>1. PICK l : l = Lazy(url[o])
    OBVIOUS
  <2>2. WellMade(l) /\ NormalParts(l.parts) /\ Normal(l)
    BY <1>3, <2>1, LazyOf
  <2>3. PICK u : u = [l EXCEPT !.built = FALSE, !.text = Build(l.parts)]
    OBVIOUS
  <2>4. u.parts = l.parts
    BY <2>2, <2>3 DEF WellMade
  <2>5. url' = [url EXCEPT ![o] = u] \/ url' = [url EXCEPT ![o] = l]
    BY <1>3, <2>1, <2>3, SaidOf, Thrown DEF BuildUrl
  <2> QED
    BY <1>1, <2>2, <2>4, <2>5 DEF Normal
<1>4. CASE ~(Readable(url[o]) /\ BuildUrl(o, call, Lazy(url[o])))
  <2>1. \/ url' = [url EXCEPT ![o] = url[o]]
        \/ Readable(url[o]) /\ url' = [url EXCEPT ![o] = Lazy(url[o])]
    BY <1>4, SaidOf, Thrown
  <2> QED
    BY <1>1, <1>2, <2>1
<1> QED
  BY <1>3, <1>4

LEMMA NormalTransfer ==
  ASSUME ObjectInv, PartsInNormalForm, NEW x \in Objects, NEW y \in Objects,
         Copy(x, y) \/ Move(x, y)
  PROVE  PartsInNormalForm'
<1>1. WellMade(url[x]) /\ WellMade(url[y]) /\ Normal(url[y])
  BY DEF ObjectInv, PartsInNormalForm
<1>2. PICK left :
        /\ left = url[y] \/ left = MovedFrom(url[y])
        /\ url' = [url EXCEPT ![x] = Assigned(url[x], url[y]), ![y] = left]
        /\ x # y
  BY DEF Copy, Move, Transfer
<1>3. Normal(Assigned(url[x], url[y]))
  BY <1>1 DEF Assigned, Normal
<1>4. Normal(left)
  <2>1. CASE left = url[y]
    BY <1>1, <2>1
  <2>2. CASE left = MovedFrom(url[y])
    <3>1. PICK t, p :
            /\ left = [url[y] EXCEPT !.text = t, !.parts = p]
            /\ url[y].parse => p = [NoParts EXCEPT !.ip_v = url[y].parts.ip_v]
      BY <2>2 DEF MovedFrom
    <3>2. left.parts = p /\ left.parse = url[y].parse
      BY <1>1, <3>1 DEF WellMade
    <3>3. ASSUME url[y].parse PROVE NormalParts(p)
      <4>1. PICK v : p = [NoParts EXCEPT !.host = << >>, !.ip_v = v]
        BY <3>1, <3>3 DEF NoParts
      <4>2. Range(<< >>) \cap Upper = {}
        BY DEF Range
      <4> QED
        BY <4>1, <4>2, HostNormal, NoPartsNormal
    <3> QED
      BY <3>2, <3>3 DEF Normal
  <2> QED
    BY <1>2, <2>1, <2>2
<1>5. /\ url'[x] = Assigned(url[x], url[y]) /\ url'[y] = left
      /\ \A o \in Objects \ {x, y} : url'[o] = url[o]
  BY <1>2 DEF ObjectInv
<1> QED
  BY <1>3, <1>4, <1>5 DEF PartsInNormalForm, Normal

LEMMA NormalNext ==
  ASSUME ObjectInv, PartsInNormalForm, Next
  PROVE  PartsInNormalForm'
<1>1. ASSUME NEW o \in Objects, Get(o)
      PROVE  PartsInNormalForm'
  BY <1>1, StepGet, ThrewNormal
<1>2. ASSUME NEW o \in Objects, NEW c \in Calls, Set(o, c)
      PROVE  PartsInNormalForm'
  <2>1. CASE Readable(url[o]) /\ Return(o, c.name, Changed(Lazy(url[o]), c))
    BY <2>1, NormalSet
  <2>2. CASE ~(Readable(url[o]) /\ Return(o, c.name, Changed(Lazy(url[o]), c)))
    <3>1. Threw(o)
      BY <1>2, <2>2, Thrown DEF Set, Threw
    <3> QED
      BY <3>1, ThrewNormal
  <2> QED
    BY <2>1, <2>2
<1>3. ASSUME NEW o \in Objects, NEW i, NEW e, SetEntry(o, i, e)
      PROVE  PartsInNormalForm'
  <2>1. CASE /\ Readable(url[o])
             /\ Return(o, "entry", [Lazy(url[o]) EXCEPT !.built = FALSE,
                                                        !.parts.query[i] = e])
    BY <2>1, NormalSetEntry
  <2>2. CASE \/ Throw(o, "entry", url[o])
             \/ Readable(url[o]) /\ Throw(o, "entry", Lazy(url[o]))
    <3>1. Threw(o)
      BY <1>3, <2>2, Thrown DEF SetEntry, Threw
    <3> QED
      BY <3>1, ThrewNormal
  <2> QED
    BY <1>3, <2>1, <2>2 DEF SetEntry
<1>4. ASSUME NEW o \in Objects, SetQuery(o)
      PROVE  PartsInNormalForm'
  <2>1. CASE Readable(url[o]) /\ Return(o, "reference", [Lazy(url[o]) EXCEPT !.built = FALSE])
    BY <2>1, NormalReference
  <2>2. CASE Throw(o, "reference", url[o]) /\ refs' = refs
    BY <2>2, Thrown, ThrewNormal DEF Threw
  <2> QED
    BY <1>4, <2>1, <2>2 DEF SetQuery
<1>5. ASSUME NEW o \in Objects, str(o) \/ output(o)
      PROVE  PartsInNormalForm'
  BY <1>5, NormalSaid DEF str, output
<1>6. ASSUME NEW o \in Objects,
             \/ clear(o) \/ \E t \in Texts : SetText(o, t)
             \/ \E q \in Queries : WriteThrough(o, q)
      PROVE  PartsInNormalForm'
  BY <1>6, NormalClear, NormalSetText, NormalWrite
<1>7. ASSUME NEW x \in Objects, NEW y \in Objects, Copy(x, y) \/ Move(x, y)
      PROVE  PartsInNormalForm'
  BY <1>7, NormalTransfer
<1> QED
  BY <1>1, <1>2, <1>3, <1>4, <1>5, <1>6, <1>7 DEF Next

-----------------------------------------------------------------------------
(* All of it.                                                              *)

LEMMA InitInductive == Init => InductiveInv
<1> SUFFICES ASSUME Init
             PROVE  InductiveInv
  OBVIOUS
<1>1. url = [o \in Objects |-> url[o]] /\ \A o \in Objects : url[o] = Cleared
  BY DEF Init
<1>2. refs = {} /\ ~Told
  BY DEF Init, Told, Nothing
<1> QED
  BY <1>1, <1>2, ClearedWellMade
     DEF InductiveInv, ObjectInv, ReferredIsParsed, StrIsCurrent

LEMMA StepNext ==
  ASSUME ObjectInv, Next
  PROVE  /\ ObjectInv' /\ StrIsCurrent'
         /\ last'.ok \/ \E o \in Objects : Threw(o)
         /\ TransferGives
<1>1. ASSUME NEW o \in Objects, str(o) \/ output(o)
      PROVE  /\ ObjectInv' /\ StrIsCurrent' /\ last'.from = "none"
             /\ last'.ok \/ Threw(o)
  BY <1>1, StepStr
<1>2. ASSUME NEW o \in Objects,
             \/ Get(o) \/ clear(o) \/ SetQuery(o)
             \/ \E t \in Texts : SetText(o, t)
             \/ \E c \in Calls : Set(o, c)
             \/ \E q \in Queries : WriteThrough(o, q)
             \/ \E q \in Queries : \E e \in Range(q), i \in 1..2 : SetEntry(o, i, e)
      PROVE  ObjectInv' /\ Silent /\ (last'.ok \/ Threw(o))
  BY <1>2, StepGet, StepClear, StepSetQuery, StepSetText, StepSet, StepWriteThrough,
     StepSetEntry
<1>3. CASE \E x, y \in Objects : Copy(x, y) \/ Move(x, y)
  BY <1>3, StepTransfer DEF StrIsCurrent
<1>4. CASE ~\E x, y \in Objects : Copy(x, y) \/ Move(x, y)
  <2>1. PICK o \in Objects :
          /\ ObjectInv' /\ StrIsCurrent' /\ last'.from = "none"
          /\ last'.ok \/ Threw(o)
    BY <1>1, <1>2, <1>4 DEF Next, Silent, StrIsCurrent
  <2> QED
    BY <2>1 DEF TransferGives
<1> QED
  BY <1>3, <1>4

LEMMA StepStutter ==
  ASSUME InductiveInv, UNCHANGED vars
  PROVE  InductiveInv'
<1>1. UNCHANGED <<url, refs, last>>
  BY DEF vars
<1>2. ObjectInv' /\ StrIsCurrent'
  BY <1>1 DEF InductiveInv, ObjectInv, ReferredIsParsed, StrIsCurrent, Told
<1> QED
  BY <1>2 DEF InductiveInv

(* The inductive invariant holds in every reachable state: whatever was    *)
(* called, only the empty text of a URL without parts is marked as good.   *)
THEOREM Inductive == Spec => []InductiveInv
<1>1. InductiveInv /\ [Next]_vars => InductiveInv'
  BY StepNext, StepStutter DEF InductiveInv
<1> QED
  BY <1>1, InitInductive, PTL DEF Spec

(* str() and output() always answer from the parts as they are, whichever  *)
(* form was good before and whoever wrote to the query meanwhile.          *)
THEOREM AnswersFromParts == Spec => []StrIsCurrent
<1>1. InductiveInv => StrIsCurrent
  BY DEF InductiveInv
<1> QED
  BY <1>1, Inductive, PTL

(* A call that throws half way, a setter, a getter or str(), leaves every  *)
(* object with the parts it had.                                           *)
THEOREM ThrowingKeepsParts == Spec => FailedCallKeeps
<1>1. ASSUME ObjectInv, NEW o \in Objects, Threw(o)
      PROVE  ThrowKeeps
  <2>1. WellMade(url[o])
    BY <1>1 DEF ObjectInv
  <2>2. /\ url'[o] = url[o] \/ (Readable(url[o]) /\ url'[o] = Lazy(url[o]))
        /\ \A x \in Objects \ {o} : url'[x] = url[x]
    BY <1>1 DEF ObjectInv, Threw
  <2>3. Readable(url'[o]) <=> Readable(url[o])
    BY <2>1, <2>2, LazyParses
  <2>4. Seen(url'[o]) = Seen(url[o])
    BY <2>1, <2>2, LazyParses
  <2> QED
    BY <2>2, <2>3, <2>4 DEF ThrowKeeps
<1>2. ObjectInv /\ [Next]_vars => [ThrowKeeps]_vars
  BY <1>1, StepNext DEF ThrowKeeps
<1> QED
  BY <1>2, Inductive, PTL DEF Spec, FailedCallKeeps, InductiveInv

(* A copy, and an object moved to, stand for what the other one stood for. *)
THEOREM AssignedStandsFor == Spec => AssignedAlike
<1>1. ObjectInv /\ [Next]_vars => [TransferGives]_vars
  BY StepNext
<1> QED
  BY <1>1, Inductive, PTL DEF Spec, AssignedAlike, InductiveInv

(* The parts of every object are in normal form at every moment: no dot    *)
(* segment, no empty segment but the last, and no capitals in a name,      *)
(* whatever text or call they came from and whatever was escaped in it.    *)
THEOREM NormalFormsKept == Spec => []NormalForms
<1>1. Init => PartsInNormalForm
  BY ClearedWellMade, NoPartsNormal DEF Init, PartsInNormalForm, Normal
<1>2. ObjectInv /\ PartsInNormalForm /\ [Next]_vars => PartsInNormalForm'
  <2>1. ASSUME PartsInNormalForm, UNCHANGED vars
        PROVE  PartsInNormalForm'
    BY <2>1 DEF vars, PartsInNormalForm, Normal
  <2> QED
    BY <2>1, NormalNext
<1>3. ObjectInv /\ PartsInNormalForm => NormalForms
  BY LazyOf DEF NormalForms, Seen, NormalParts
<1> QED
  BY <1>1, <1>2, <1>3, Inductive, PTL DEF Spec, InductiveInv

-----------------------------------------------------------------------------
(* The number that hex digits stand for.                                   *)

Value(s) == FoldLeft(LAMBDA n, c : 16 * n + get_hex_digit(c), 0, s)

LEMMA ValueRun ==
  ASSUME NEW fs \in Seq(HexSet)
  PROVE  \E r \in [0..Len(fs) -> Nat] :
           /\ r[0] = 0
           /\ \A k \in 1..Len(fs) : r[k] = 16 * r[k - 1] + get_hex_digit(fs[k])
           /\ Value(fs) = r[Len(fs)]
<1> DEFINE X == Nat
           n == Len(fs)
           next(x, k) == 16 * x + get_hex_digit(fs[k])
           P(F) == F = [s \in SUBSET DOMAIN fs |->
                          IF s = {} THEN 0
                          ELSE next(F[s \ {Max(s)}], Max(s))]
           g == [p \in X \X Nat |-> IF p[2] \in 1..n THEN next(p[1], p[2]) ELSE p[1]]
<1>1. n \in Nat /\ DOMAIN fs = 1..n /\ \A k \in 1..n : get_hex_digit(fs[k]) \in 0..15
  BY LenProperties, ElementOfSeq, HexDigitsAre, HexDigitTyped
<1>2. 0 \in X
  OBVIOUS
<1>3. \A x \in X, k \in 1..n : next(x, k) \in X
  BY <1>1
<1> HIDE DEF next
<1>4. g \in [X \X Nat -> X]
  <2> HIDE DEF X
  <2> QED
    BY <1>3
<1>5. \A x \in X, k \in 1..n : g[<<x, k>>] = next(x, k)
  BY <1>1
<1>6. DOMAIN fs = 1..n
  BY <1>1
<1>7. \E F : P(F)
  <2> HIDE DEF g, X
  <2>1. PICK F \in [SUBSET (1..n) -> X] :
          \A s \in SUBSET (1..n) :
            F[s] = IF s = {} THEN 0 ELSE g[<<F[s \ {Max(s)}], Max(s)>>]
    <3>1. \E F : IsFold(F, X, 0, g, n)
      BY <1>1, <1>2, <1>4, FoldExists
    <3> QED
      BY <3>1 DEF IsFold
  <2>2. ASSUME NEW s \in SUBSET DOMAIN fs
        PROVE  F[s] = IF s = {} THEN 0 ELSE next(F[s \ {Max(s)}], Max(s))
    <3>1. CASE s # {}
      <4>1. Max(s) \in s
        <5>1. \E z \in s : \A y \in s : z >= y
          BY <1>1, <1>6, <3>1, FiniteMax
        <5> QED
          BY <5>1, Zenon DEF Max
      <4>2. Max(s) \in 1..n /\ s \ {Max(s)} \in SUBSET (1..n)
        BY <1>6, <4>1
      <4>3. F[s \ {Max(s)}] \in X
        BY <4>2
      <4> QED
        BY <1>5, <1>6, <2>1, <3>1, <4>2, <4>3
    <3>2. CASE s = {}
      BY <1>6, <2>1, <3>2
    <3> QED
      BY <3>1, <3>2
  <2>3. F = [s \in SUBSET DOMAIN fs |-> F[s]]
    BY <1>6
  <2>4. P(F)
    BY <2>2, <2>3
  <2> QED
    BY <2>4
<1> DEFINE H == CHOOSE F : P(F)
<1>8. P(H)
  <2> HIDE DEF P
  <2> QED
    BY <1>7, Zenon
<1>9. Value(fs) = H[DOMAIN fs]
  BY Zenon DEF Value, FoldLeft, MapThenFoldSet, next
<1> HIDE DEF H
<1> DEFINE r == [k \in 0..n |-> H[1..k]]
<1>10. r[0] = 0
  <2>1. 1..0 = {} /\ {} \in SUBSET DOMAIN fs
    OBVIOUS
  <2>2. H[{}] = 0
    BY <1>8, <2>1
  <2> QED
    BY <1>1, <2>1, <2>2
<1>11. ASSUME NEW k \in 1..n PROVE r[k] = next(r[k - 1], k)
  <2>1. k \in Nat /\ k # 0 /\ 1..k \in SUBSET DOMAIN fs /\ k \in 0..n /\ k - 1 \in 0..n
    BY <1>1, <1>6
  <2>2. Max(1..k) = k /\ (1..k) \ {k} = 1..(k - 1) /\ 1..k # {}
    BY <2>1, LastOfFirst
  <2>3. H[1..k] = next(H[1..(k - 1)], k)
    BY <1>8, <2>1, <2>2
  <2> QED
    BY <1>6, <2>1, <2>3
<1>12. r \in [0..n -> X]
  <2> DEFINE S == {k \in 0..n : r[k] \in X}
  <2>1. 0 \in S
    <3> HIDE DEF r, X
    <3> QED
      BY <1>1, <1>2, <1>10
  <2>2. ASSUME NEW k \in Nat, k < n, k \in S PROVE k + 1 \in S
    <3> DEFINE l == k + 1
    <3>1. l \in 1..n /\ l - 1 = k /\ l \in 0..n
      BY <1>1, <2>2
    <3>2. r[k] \in X
      BY <2>2
    <3> HIDE DEF l
    <3>3. r[l] = next(r[l - 1], l)
      BY <1>11, <3>1
    <3> HIDE DEF r, X
    <3>4. r[l] \in X
      BY <1>3, <3>1, <3>2, <3>3
    <3> QED
      BY <3>1, <3>4 DEF l
  <2>3. 0..n \subseteq S
    <3> HIDE DEF S
    <3> QED
      BY <1>1, <2>1, <2>2, Upwards
  <2> HIDE DEF X
  <2> QED
    BY <2>3
<1>13. Value(fs) = r[n]
  BY <1>1, <1>6, <1>9
<1> HIDE DEF r
<1> QED
  BY <1>10, <1>11, <1>12, <1>13 DEF next

-----------------------------------------------------------------------------
(* A field of an IPv6 address, written and read again.                     *)

(* A field of an address, as it is written.                                *)
Short == {s \in Seq(HexSet) : Len(s) <= 4}
Word == {n \in Nat : n <= 65535}

LEMMA ShortValue ==
  ASSUME NEW s \in Short
  PROVE  Value(s) \in Word
<1>1. s \in Seq(HexSet) /\ Len(s) \in Nat /\ Len(s) <= 4
  BY LenProperties DEF Short
<1>2. PICK m : m = Len(s)
  OBVIOUS
<1>3. PICK r \in [0..m -> Nat] :
        /\ r[0] = 0
        /\ \A k \in 1..m : r[k] = 16 * r[k - 1] + get_hex_digit(s[k])
        /\ Value(s) = r[m]
  BY <1>1, <1>2, ValueRun
<1>4. \A k \in 1..m : get_hex_digit(s[k]) \in 0..15
  BY <1>1, <1>2, ElementOfSeq, HexDigitsAre, HexDigitTyped
<1>5. m >= 1 => r[1] \in Nat /\ r[1] <= 15
  <2>1. SUFFICES ASSUME m >= 1 PROVE r[1] \in Nat /\ r[1] <= 15
    OBVIOUS
  <2>2. 1 \in 1..m /\ 1 - 1 = 0
    BY <1>1, <1>2, <2>1
  <2>3. r[1] = 16 * r[0] + get_hex_digit(s[1])
    BY <1>3, <2>2
  <2> QED
    BY <1>3, <1>4, <2>2, <2>3
<1>6. m >= 2 => r[2] \in Nat /\ r[2] <= 255
  <2>1. SUFFICES ASSUME m >= 2 PROVE r[2] \in Nat /\ r[2] <= 255
    OBVIOUS
  <2>2. 2 \in 1..m /\ 2 - 1 = 1 /\ m >= 1
    BY <1>1, <1>2, <2>1
  <2>3. r[2] = 16 * r[1] + get_hex_digit(s[2])
    BY <1>3, <2>2
  <2> QED
    BY <1>4, <1>5, <2>2, <2>3
<1>7. m >= 3 => r[3] \in Nat /\ r[3] <= 4095
  <2>1. SUFFICES ASSUME m >= 3 PROVE r[3] \in Nat /\ r[3] <= 4095
    OBVIOUS
  <2>2. 3 \in 1..m /\ 3 - 1 = 2 /\ m >= 2
    BY <1>1, <1>2, <2>1
  <2>3. r[3] = 16 * r[2] + get_hex_digit(s[3])
    BY <1>3, <2>2
  <2> QED
    BY <1>4, <1>6, <2>2, <2>3
<1>8. m >= 4 => r[4] \in Nat /\ r[4] <= 65535
  <2>1. SUFFICES ASSUME m >= 4 PROVE r[4] \in Nat /\ r[4] <= 65535
    OBVIOUS
  <2>2. 4 \in 1..m /\ 4 - 1 = 3 /\ m >= 3
    BY <1>1, <1>2, <2>1
  <2>3. r[4] = 16 * r[3] + get_hex_digit(s[4])
    BY <1>3, <2>2
  <2> QED
    BY <1>4, <1>7, <2>2, <2>3
<1>9. m = 0 \/ m = 1 \/ m = 2 \/ m = 3 \/ m = 4
  BY <1>1, <1>2
<1>10. r[m] \in Nat /\ r[m] <= 65535
  BY <1>3, <1>5, <1>6, <1>7, <1>8, <1>9
<1> QED
  BY <1>3, <1>10 DEF Word

(* Digits with nothing but zeros left out before them.                     *)
DigitsGood(s, z, n) == s \in Seq(HexSet) /\ Len(s) = 4 - z /\ Value(s) = n

LEMMA DigitsBack ==
  ASSUME NEW n, NEW a, NEW b, NEW c, NEW d, Four(n, a, b, c, d),
         NEW w, w = <<a, b, c, d>>, NEW z \in 0..3, \A k \in 1..3 : k <= z => w[k] = 0,
         NEW s, s = DigitsFrom(w, z)
  PROVE  DigitsGood(s, z, n)
<1>1. w[1] = a /\ w[2] = b /\ w[3] = c /\ w[4] = d
  BY TupleAt
<1>2. PICK m : m = 4 - z
  OBVIOUS
<1>3. m \in Nat /\ m \in 1..4 /\ z = 4 - m /\ \A i \in 1..m : z + i \in 1..4
  BY <1>2
<1>4. \A k \in 1..4 : w[k] \in 0..15
  <2>1. \A k \in 1..4 : k = 1 \/ k = 2 \/ k = 3 \/ k = 4
    OBVIOUS
  <2> QED
    BY <1>1, <2>1 DEF Four
<1>5. s = [i \in 1..m |-> LowerHex[w[z + i] + 1]]
  BY <1>2 DEF DigitsFrom
<1>6. ASSUME NEW i \in 1..m PROVE s[i] \in HexSet /\ get_hex_digit(s[i]) = w[z + i]
  <2>1. PICK x : x = w[z + i]
    OBVIOUS
  <2>2. x \in 0..15
    BY <1>3, <1>4, <2>1
  <2>3. s[i] = LowerHex[x + 1]
    BY <1>5, <2>1
  <2> QED
    BY <2>1, <2>2, <2>3, HexDigitsAre, HexDigitIs
<1>7. s \in [1..m -> HexSet]
  BY <1>5, <1>6
<1>8. s \in Seq(HexSet) /\ Len(s) = m
  BY <1>3, <1>7, FunctionIsSeq
<1>9. PICK r \in [0..m -> Nat] :
        /\ r[0] = 0
        /\ \A k \in 1..m : r[k] = 16 * r[k - 1] + get_hex_digit(s[k])
        /\ Value(s) = r[m]
  BY <1>8, ValueRun
<1>10. \A k \in 1..m : r[k] = 16 * r[k - 1] + w[z + k]
  BY <1>6, <1>9
<1>11. n = 4096 * a + 256 * b + 16 * c + d /\ a \in Nat /\ b \in Nat /\ c \in Nat /\ d \in Nat
  BY DEF Four
<1>12. CASE z = 0
  <2>1. m = 4 /\ 1 \in 1..m /\ 2 \in 1..m /\ 3 \in 1..m /\ 4 \in 1..m
    BY <1>2, <1>12
  <2>2. r[1] = a
    BY <1>1, <1>9, <1>10, <1>11, <1>12, <2>1
  <2>3. r[2] = 16 * r[1] + b
    BY <1>1, <1>10, <1>11, <1>12, <2>1
  <2>4. r[3] = 16 * r[2] + c
    BY <1>1, <1>10, <1>11, <1>12, <2>1
  <2>5. r[4] = 16 * r[3] + d
    BY <1>1, <1>10, <1>11, <1>12, <2>1
  <2> QED
    BY <1>2, <1>8, <1>9, <1>11, <2>1, <2>2, <2>3, <2>4, <2>5 DEF DigitsGood
<1>13. CASE z = 1
  <2>1. m = 3 /\ 1 \in 1..m /\ 2 \in 1..m /\ 3 \in 1..m /\ a = 0
    BY <1>1, <1>2, <1>13
  <2>2. r[1] = b
    BY <1>1, <1>9, <1>10, <1>11, <1>13, <2>1
  <2>3. r[2] = 16 * r[1] + c
    BY <1>1, <1>10, <1>11, <1>13, <2>1
  <2>4. r[3] = 16 * r[2] + d
    BY <1>1, <1>10, <1>11, <1>13, <2>1
  <2> QED
    BY <1>2, <1>8, <1>9, <1>11, <2>1, <2>2, <2>3, <2>4 DEF DigitsGood
<1>14. CASE z = 2
  <2>1. m = 2 /\ 1 \in 1..m /\ 2 \in 1..m /\ a = 0 /\ b = 0
    BY <1>1, <1>2, <1>14
  <2>2. r[1] = c
    BY <1>1, <1>9, <1>10, <1>11, <1>14, <2>1
  <2>3. r[2] = 16 * r[1] + d
    BY <1>1, <1>10, <1>11, <1>14, <2>1
  <2> QED
    BY <1>2, <1>8, <1>9, <1>11, <2>1, <2>2, <2>3 DEF DigitsGood
<1>15. CASE z = 3
  <2>1. m = 1 /\ 1 \in 1..m /\ a = 0 /\ b = 0 /\ c = 0
    BY <1>1, <1>2, <1>15
  <2>2. r[1] = d
    BY <1>1, <1>9, <1>10, <1>11, <1>15, <2>1
  <2> QED
    BY <1>2, <1>8, <1>9, <1>11, <2>1, <2>2 DEF DigitsGood
<1> QED
  BY <1>12, <1>13, <1>14, <1>15

(* A number is what its digits stand for.                                  *)
LEMMA HexBack ==
  ASSUME NEW n \in Word
  PROVE  Hex(n) \in Short /\ Hex(n) # << >> /\ Value(Hex(n)) = n
<1>1. PICK a, b, c, d : Four(n, a, b, c, d)
  <2>1. n \in Nat /\ n <= 65535
    BY DEF Word
  <2>2. Fourfold(n)
    BY <2>1, FourDigits
  <2> QED
    BY <2>2 DEF Fourfold
<1>2. PICK w : w = <<a, b, c, d>>
  OBVIOUS
<1>3. w[1] = a /\ w[2] = b /\ w[3] = c /\ w[4] = d
  BY <1>2, TupleAt
<1>4. PICK z \in 0..3 : (\A k \in 1..3 : k <= z => w[k] = 0) /\ (z < 3 => w[z + 1] # 0)
  <2>1. CASE a # 0
    <3>1. (\A k \in 1..3 : k <= 0 => w[k] = 0) /\ (0 < 3 => w[0 + 1] # 0) /\ 0 \in 0..3
      BY <1>3, <2>1
    <3> QED
      BY ONLY <3>1
  <2>2. CASE a = 0 /\ b # 0
    <3>1. (\A k \in 1..3 : k <= 1 => w[k] = 0) /\ (1 < 3 => w[1 + 1] # 0) /\ 1 \in 0..3
      BY <1>3, <2>2
    <3> QED
      BY ONLY <3>1
  <2>3. CASE a = 0 /\ b = 0 /\ c # 0
    <3>1. (\A k \in 1..3 : k <= 2 => w[k] = 0) /\ (2 < 3 => w[2 + 1] # 0) /\ 2 \in 0..3
      BY <1>3, <2>3
    <3> QED
      BY ONLY <3>1
  <2>4. CASE a = 0 /\ b = 0 /\ c = 0
    <3>1. (\A k \in 1..3 : k <= 3 => w[k] = 0) /\ (3 < 3 => w[3 + 1] # 0) /\ 3 \in 0..3
      BY <1>3, <2>4
    <3> QED
      BY ONLY <3>1
  <2> QED
    BY <2>1, <2>2, <2>3, <2>4
<1>5. PICK s : s = DigitsFrom(w, z)
  OBVIOUS
<1>6. Hex(n) = s
  BY <1>1, <1>2, <1>4, <1>5, HexZeros
<1>7. s \in Seq(HexSet) /\ Len(s) = 4 - z /\ Value(s) = n
  <2>1. z \in 0..3 /\ \A k \in 1..3 : k <= z => w[k] = 0
    BY <1>4
  <2>2. DigitsGood(s, z, n)
    BY ONLY <1>1, <1>2, <1>5, <2>1, DigitsBack
  <2> QED
    BY <2>2 DEF DigitsGood
<1>8. Len(s) <= 4 /\ Len(s) # 0
  BY <1>7
<1>9. s # << >>
  BY <1>8, None
<1> QED
  BY <1>6, <1>7, <1>8, <1>9 DEF Short

-----------------------------------------------------------------------------
(* Fields, each behind a colon.                                            *)

(* One more text at the end.                                               *)
FlatFurther(es, e) == FlattenSeq(Append(es, e)) = FlattenSeq(es) \o e

LEMMA FlattenFurther ==
  ASSUME NEW C, NEW es \in Seq(Seq(C)), NEW e \in Seq(C)
  PROVE  FlatFurther(es, e)
<1>1. PICK w, n : w = Append(es, e) /\ n = Len(es)
  OBVIOUS
<1>2. /\ n \in Nat /\ w \in Seq(Seq(C)) /\ Len(w) = n + 1 /\ w[n + 1] = e
      /\ \A i \in 1..n : w[i] = es[i]
  BY <1>1, AppendProperties, LenProperties
<1>3. PICK q \in [0..n -> Seq(C)] :
           /\ q[0] = << >>
           /\ \A k \in 1..n : q[k] = q[k - 1] \o es[k]
           /\ FlattenSeq(es) = q[n]
  BY <1>1, FlattenRun
<1>4. PICK r \in [0..(n + 1) -> Seq(C)] :
           /\ r[0] = << >>
           /\ \A k \in 1..(n + 1) : r[k] = r[k - 1] \o w[k]
           /\ FlattenSeq(w) = r[n + 1]
  <2>1. \E r \in [0..Len(w) -> Seq(C)] :
           /\ r[0] = << >>
           /\ \A k \in 1..Len(w) : r[k] = r[k - 1] \o w[k]
           /\ FlattenSeq(w) = r[Len(w)]
    BY <1>2, FlattenRun
  <2> QED
    BY <1>2, <2>1
<1>5. \A k \in 1..n : r[k - 1] = q[k - 1] => r[k] = q[k]
  <2>1. \A k \in 1..n : k \in 1..(n + 1)
    BY <1>2
  <2> QED
    BY <1>2, <1>3, <1>4, <2>1
<1>6. r[n] = q[n]
  <2>1. r[0] = q[0] /\ n \in Nat
    BY <1>2, <1>3, <1>4
  <2> QED
    BY <1>5, <2>1, RunsAgree
<1>7. n + 1 \in 1..(n + 1) /\ (n + 1) - 1 = n
  <2>1. n \in Nat
    BY <1>2
  <2> QED
    BY ONLY <2>1
<1>8. r[n + 1] = r[n] \o w[n + 1]
  BY <1>4, <1>7
<1> QED
  BY <1>1, <1>2, <1>3, <1>4, <1>6, <1>8 DEF FlatFurther

-----------------------------------------------------------------------------
(* Fields of an address.                                                   *)
HexOf(fs) == [k \in DOMAIN fs |-> Hex(fs[k])]
ColonedOf(fs) == [k \in DOMAIN fs |-> <<":">> \o Hex(fs[k])]

LEMMA HexTyped ==
  ASSUME NEW n \in Word
  PROVE  /\ Hex(n) \in Short /\ Hex(n) \in Seq(HexSet) /\ Hex(n) \in Seq(AddressChars)
         /\ <<":">> \o Hex(n) \in Seq(AddressChars)
         /\ Hex(n) \in Seq(AddressChars \ {":"}) /\ ":" \in AddressChars
<1>1. Hex(n) \in Short /\ Hex(n) \in Seq(HexSet)
  BY HexBack DEF Short
<1>2. HexSet \subseteq AddressChars \ {":"} /\ HexSet \subseteq AddressChars /\ ":" \in AddressChars
  BY DEF AddressChars, HexSet
<1>3. Hex(n) \in Seq(AddressChars) /\ Hex(n) \in Seq(AddressChars \ {":"})
  BY <1>1, <1>2, SeqMonotonic
<1>4. <<":">> \o Hex(n) \in Seq(AddressChars)
  BY <1>2, <1>3, StartsOne
<1> QED
  BY <1>1, <1>2, <1>3, <1>4

LEMMA HexOfTyped ==
  ASSUME NEW fs \in Seq(Word)
  PROVE  /\ HexOf(fs) \in Seq(Short) /\ Len(HexOf(fs)) = Len(fs)
         /\ \A k \in 1..Len(fs) : /\ HexOf(fs)[k] = Hex(fs[k]) /\ HexOf(fs)[k] # << >>
                                  /\ Value(HexOf(fs)[k]) = fs[k]
         /\ ColonedOf(fs) \in Seq(Seq(AddressChars)) /\ Len(ColonedOf(fs)) = Len(fs)
<1>1. PICK n : n = Len(fs)
  OBVIOUS
<1>2. n \in Nat /\ DOMAIN fs = 1..n /\ \A k \in 1..n : fs[k] \in Word
  BY <1>1, LenProperties, ElementOfSeq
<1>3. PICK h, c : h = HexOf(fs) /\ c = ColonedOf(fs)
  OBVIOUS
<1>4. h = [k \in 1..n |-> Hex(fs[k])] /\ c = [k \in 1..n |-> <<":">> \o Hex(fs[k])]
  BY <1>2, <1>3 DEF HexOf, ColonedOf
<1>5. h \in [1..n -> Short]
  BY <1>2, <1>4, HexTyped
<1>6. c \in [1..n -> Seq(AddressChars)]
  BY <1>2, <1>4, HexTyped
<1>7. h \in Seq(Short) /\ Len(h) = n /\ c \in Seq(Seq(AddressChars)) /\ Len(c) = n
  BY <1>2, <1>5, <1>6, FunctionIsSeq
<1>8. \A k \in 1..n : h[k] = Hex(fs[k]) /\ h[k] # << >> /\ Value(h[k]) = fs[k]
  BY <1>2, <1>4, HexBack
<1> QED
  BY <1>1, <1>3, <1>7, <1>8

LEMMA OfFurther ==
  ASSUME NEW fs \in Seq(Word), NEW n \in Word
  PROVE  /\ HexOf(Append(fs, n)) = Append(HexOf(fs), Hex(n))
         /\ ColonedOf(Append(fs, n)) = Append(ColonedOf(fs), <<":">> \o Hex(n))
<1>1. PICK m, gs : m = Len(fs) /\ gs = Append(fs, n)
  OBVIOUS
<1>2. /\ m \in Nat /\ gs \in Seq(Word) /\ Len(gs) = m + 1 /\ gs[m + 1] = n
      /\ \A i \in 1..m : gs[i] = fs[i]
  BY <1>1, AppendProperties, LenProperties
<1>3. DOMAIN gs = 1..(m + 1) /\ DOMAIN fs = 1..m
  BY <1>1, <1>2, LenProperties
<1>4. PICK S, g, f, x : /\ S = Seq(AddressChars) /\ g = ColonedOf(gs) /\ f = ColonedOf(fs)
                        /\ x = <<":">> \o Hex(n)
  OBVIOUS
<1>5. g \in Seq(S) /\ Len(g) = m + 1 /\ f \in Seq(S) /\ Len(f) = m /\ x \in S
  BY <1>1, <1>2, <1>4, HexOfTyped, HexTyped
<1>6. /\ g = [k \in 1..(m + 1) |-> <<":">> \o Hex(gs[k])]
      /\ f = [k \in 1..m |-> <<":">> \o Hex(fs[k])]
  BY <1>3, <1>4 DEF ColonedOf
<1>7. \A k \in 1..m : k \in 1..(m + 1)
  BY <1>2
<1>8. (\A k \in 1..m : g[k] = f[k]) /\ m + 1 \in 1..(m + 1)
  BY <1>2, <1>6, <1>7
<1>9. g[m + 1] = x
  <2>1. g[m + 1] = <<":">> \o Hex(gs[m + 1])
    BY <1>6, <1>8
  <2> QED
    BY <1>2, <1>4, <2>1
<1>10. g = Append(f, x)
  <2>1. /\ Append(f, x) \in Seq(S) /\ Len(Append(f, x)) = m + 1 /\ Append(f, x)[m + 1] = x
        /\ \A k \in 1..m : Append(f, x)[k] = f[k]
    BY <1>5, AppendProperties
  <2>2. \A k \in 1..(m + 1) : k \in 1..m \/ k = m + 1
    BY <1>2
  <2>3. \A k \in 1..(m + 1) : Append(f, x)[k] = g[k]
    BY <1>8, <1>9, <2>1, <2>2
  <2> QED
    BY <1>5, <2>1, <2>3, SeqEqual
<1>11. PICK hg, hf, y : hg = HexOf(gs) /\ hf = HexOf(fs) /\ y = Hex(n)
  OBVIOUS
<1>12. /\ hg \in Seq(Short) /\ Len(hg) = m + 1 /\ hf \in Seq(Short) /\ Len(hf) = m /\ y \in Short
       /\ \A k \in 1..(m + 1) : hg[k] = Hex(gs[k])
       /\ \A k \in 1..m : hf[k] = Hex(fs[k])
  BY <1>1, <1>2, <1>11, HexOfTyped, HexTyped
<1>13. hg = Append(hf, y)
  <2>1. /\ Append(hf, y) \in Seq(Short) /\ Len(Append(hf, y)) = m + 1 /\ Append(hf, y)[m + 1] = y
        /\ \A k \in 1..m : Append(hf, y)[k] = hf[k]
    BY <1>12, AppendProperties
  <2>2. \A k \in 1..(m + 1) : k \in 1..m \/ k = m + 1
    BY <1>2
  <2>3. \A k \in 1..(m + 1) : Append(hf, y)[k] = hg[k]
    BY <1>2, <1>7, <1>11, <1>12, <2>1, <2>2
  <2> QED
    BY <1>12, <2>1, <2>3, SeqEqual
<1> QED
  BY <1>1, <1>4, <1>10, <1>11, <1>13

LEMMA NothingColoned == Coloned(<< >>) = << >> /\ HexOf(<< >>) = << >>
<1>1. PICK fs : fs = << >>
  OBVIOUS
<1>2. fs \in Seq(Word) /\ Len(fs) = 0
  BY <1>1, None
<1>3. Len(HexOf(fs)) = 0 /\ HexOf(fs) \in Seq(Short)
  BY <1>2, HexOfTyped
<1>4. ColonedOf(fs) \in Seq(Seq(AddressChars)) /\ Len(ColonedOf(fs)) = 0
  BY <1>2, HexOfTyped
<1>5. PICK r \in [0..Len(ColonedOf(fs)) -> Seq(AddressChars)] :
        r[0] = << >> /\ FlattenSeq(ColonedOf(fs)) = r[Len(ColonedOf(fs))]
  BY <1>4, FlattenRun
<1>6. FlattenSeq(ColonedOf(fs)) = << >>
  BY <1>4, <1>5
<1> QED
  BY <1>1, <1>3, <1>6, EmptySeq DEF Coloned, ColonedOf

ColonedOn(fs, n) == Coloned(Append(fs, n)) = Coloned(fs) \o (<<":">> \o Hex(n))

LEMMA ColonedFurther ==
  ASSUME NEW fs \in Seq(Word), NEW n \in Word
  PROVE  ColonedOn(fs, n) /\ Coloned(fs) \in Seq(AddressChars)
<1>1. PICK es, e : es = ColonedOf(fs) /\ e = <<":">> \o Hex(n)
  OBVIOUS
<1>2. es \in Seq(Seq(AddressChars)) /\ e \in Seq(AddressChars)
  BY <1>1, HexOfTyped, HexTyped
<1>3. FlatFurther(es, e)
  BY <1>2, FlattenFurther
<1>4. ColonedOf(Append(fs, n)) = Append(es, e)
  BY <1>1, OfFurther
<1>5. FlattenSeq(es) \in Seq(AddressChars)
  BY <1>2, FlattenTyped
<1>6. Coloned(fs) = FlattenSeq(es) /\ Coloned(Append(fs, n)) = FlattenSeq(Append(es, e))
  BY <1>1, <1>4 DEF Coloned, ColonedOf
<1> QED
  BY <1>1, <1>3, <1>5, <1>6 DEF FlatFurther, ColonedOn

LEMMA ColonedTyped ==
  ASSUME NEW fs \in Seq(Word)
  PROVE  Coloned(fs) \in Seq(AddressChars)
<1>1. 0 \in Word
  BY DEF Word
<1> QED
  BY <1>1, ColonedFurther

-----------------------------------------------------------------------------
(* The fields of such a text.                                              *)

(* What an address has behind any text: a field for each number.           *)
FieldsColoned(u, fs) ==
  Fields(u \o Coloned(fs), {":"}) = Fields(u, {":"}) \o HexOf(fs)

LEMMA ColonedFields ==
  ASSUME NEW u \in Seq(AddressChars), NEW fs \in Seq(Word)
  PROVE  FieldsColoned(u, fs)
<1>1. PICK D, chars, f : D = AddressChars /\ chars = {":"} /\ f = Fields(u, chars)
  OBVIOUS
<1>2. u \in Seq(D) /\ ":" \in D /\ ":" \in chars
  BY <1>1 DEF AddressChars
<1>3. PICK E : E = Seq(D)
  OBVIOUS
<1>4. f \in Seq(E)
  <2>1. f \in Seq(Seq(D \ chars))
    BY <1>1, FieldsTyped DEF Pieces
  <2>2. Seq(D \ chars) \subseteq E
    BY <1>3, SeqMonotonic
  <2> QED
    BY <2>1, <2>2, SeqMonotonic
<1>5. PICK S : S = {gs \in Seq(Word) : FieldsColoned(u, gs)}
  OBVIOUS
<1>6. << >> \in S
  <2>1. PICK e : e = << >>
    OBVIOUS
  <2>2. e \in Seq(Word) /\ Coloned(e) = << >> /\ HexOf(e) = << >>
    BY <2>1, None, NothingColoned
  <2>3. u \o << >> = u /\ f \o << >> = f
    BY <1>2, <1>4, ConcatEmptySeq
  <2>4. FieldsColoned(u, e)
    BY <1>1, <2>2, <2>3 DEF FieldsColoned
  <2> QED
    BY <1>5, <2>1, <2>2, <2>4
<1>7. ASSUME NEW gs \in Seq(Word), NEW n \in Word, gs \in S PROVE Append(gs, n) \in S
  <2>1. PICK c, x, h, y, hs : /\ c = Coloned(gs) /\ x = Hex(n) /\ h = HexOf(gs)
                              /\ y = u \o c /\ hs = Append(gs, n)
    OBVIOUS
  <2>2. c \in Seq(D) /\ x \in Seq(D) /\ x \in Seq(D \ chars) /\ h \in Seq(E) /\ x \in E
    <3>1. c \in Seq(D) /\ x \in Seq(D) /\ x \in Seq(D \ chars)
      BY <1>1, <2>1, ColonedTyped, HexTyped
    <3>2. h \in Seq(Short)
      BY <2>1, HexOfTyped
    <3>3. Short \subseteq E
      <4>1. HexSet \subseteq D
        BY <1>1 DEF AddressChars
      <4>2. Seq(HexSet) \subseteq E
        BY <1>3, <4>1, SeqMonotonic
      <4> QED
        BY <4>2 DEF Short
    <3> QED
      BY <1>3, <3>1, <3>2, <3>3, SeqMonotonic
  <2>3. Fields(y, chars) = f \o h
    BY <1>1, <1>5, <1>7, <2>1 DEF FieldsColoned
  <2>4. Coloned(hs) = c \o (<<":">> \o x)
    BY <2>1, ColonedFurther DEF ColonedOn
  <2>5. y \in Seq(D)
    BY <1>2, <2>1, <2>2, ConcatProperties
  <2>6. u \o Coloned(hs) = y \o (<<":">> \o x)
    <3>1. PICK z : z = <<":">> \o x
      OBVIOUS
    <3>2. z \in Seq(D)
      BY <1>2, <2>2, <3>1, StartsOne
    <3>3. Regrouped(u, c, z)
      BY ONLY <1>2, <2>2, <3>2, Regroup
    <3> QED
      BY <2>1, <2>4, <3>1, <3>3 DEF Regrouped
  <2>7. Fields(y \o (<<":">> \o x), chars) = Fields(y, chars) \o Fields(x, chars)
    <3>1. FieldsApart(y, ":", x, chars)
      BY <1>2, <2>2, <2>5, FieldsConcat
    <3> QED
      BY <3>1 DEF FieldsApart
  <2>8. Fields(x, chars) = <<x>>
    BY <2>2, FieldsPlain
  <2>9. (f \o h) \o <<x>> = f \o Append(h, x)
    <3>1. Append(f \o h, x) = Longer(f, h, x)
      BY <1>4, <2>2, AppendLast
    <3>2. f \o h \in Seq(E)
      BY <1>4, <2>2, ConcatProperties
    <3>3. Append(f \o h, x) = (f \o h) \o <<x>>
      BY <2>2, <3>2, AppendIsConcat
    <3> QED
      BY <3>1, <3>3 DEF Longer
  <2>10. HexOf(hs) = Append(h, x)
    BY <2>1, OfFurther
  <2>11. FieldsColoned(u, hs)
    BY <1>1, <2>3, <2>6, <2>7, <2>8, <2>9, <2>10 DEF FieldsColoned
  <2>12. hs \in Seq(Word)
    BY <2>1, AppendProperties
  <2> QED
    BY <1>5, <2>1, <2>11, <2>12
<1>8. Seq(Word) \subseteq S
  BY <1>6, <1>7, Appendwise
<1> QED
  BY <1>5, <1>8

(* Two texts that begin alike and are alike go on alike.                   *)
LEMMA SameEnds ==
  ASSUME NEW C, NEW c \in C, NEW x \in Seq(C), NEW y \in Seq(C),
         NEW v, v = <<c>> \o x, NEW w, w = <<c>> \o y, v = w
  PROVE  x = y
<1>1. Rest(v, 1) = x /\ Rest(w, 1) = y
  BY StartsOne
<1> QED
  BY <1>1

(* The first field of an address has no colon before it.                   *)
FirstFields(fs) ==
  /\ Coloned(fs) # << >> /\ Coloned(fs)[1] = ":"
  /\ Rest(Coloned(fs), 1) \in Seq(AddressChars)
  /\ Coloned(fs) = <<":">> \o Rest(Coloned(fs), 1)
  /\ Fields(Rest(Coloned(fs), 1), {":"}) = HexOf(fs)

LEMMA ColonedFirst ==
  ASSUME NEW fs \in Seq(Word), fs # << >>
  PROVE  Coloned(fs) # << >> /\ Coloned(fs)[1] = ":"
<1>1. PICK S : S = {gs \in Seq(Word) : gs # << >> => /\ Coloned(gs) # << >>
                                                     /\ Coloned(gs)[1] = ":"}
  OBVIOUS
<1>2. << >> \in S
  BY <1>1, None
<1>3. ASSUME NEW gs \in Seq(Word), NEW n \in Word, gs \in S PROVE Append(gs, n) \in S
  <2>1. PICK c, x, d, z : c = Coloned(gs) /\ x = Hex(n) /\ d = Coloned(Append(gs, n)) /\ z = <<":">> \o x
    OBVIOUS
  <2>2. /\ c \in Seq(AddressChars) /\ z \in Seq(AddressChars) /\ d = c \o z
        /\ x \in Seq(AddressChars) /\ ":" \in AddressChars
    BY <2>1, ColonedTyped, HexTyped, ColonedFurther DEF ColonedOn
  <2>3. z # << >> /\ z[1] = ":"
    BY <2>1, <2>2, StartsOne
  <2>4. d # << >> /\ d[1] = ":"
    <3>1. CASE gs = << >>
      <4>1. c = << >>
        BY <2>1, <3>1, NothingColoned
      <4>2. d = z
        BY <2>2, <4>1, ConcatEmptySeq
      <4> QED
        BY <2>3, <4>2
    <3>2. CASE gs # << >>
      <4>1. c # << >> /\ c[1] = ":"
        BY <1>1, <1>3, <2>1, <3>2
      <4> QED
        BY <2>2, <4>1, FirstOfTwo
    <3> QED
      BY <3>1, <3>2
  <2>5. Append(gs, n) \in Seq(Word)
    BY AppendProperties
  <2> QED
    BY <1>1, <2>1, <2>4, <2>5
<1>4. Seq(Word) \subseteq S
  BY <1>2, <1>3, Appendwise
<1> QED
  BY <1>1, <1>4

LEMMA RestFields ==
  ASSUME NEW fs \in Seq(Word), fs # << >>
  PROVE  FirstFields(fs)
<1>1. PICK D, chars, c, r, E : /\ D = AddressChars /\ chars = {":"} /\ c = Coloned(fs)
                               /\ r = Rest(c, 1) /\ E = Seq(AddressChars)
  OBVIOUS
<1>2. c \in Seq(D) /\ c # << >> /\ c[1] = ":"
  BY <1>1, ColonedTyped, ColonedFirst
<1>3. ":" \in D /\ r \in Seq(D) /\ c = <<":">> \o r
  <2>1. Starts(c, ":")
    BY <1>2, StartsIs
  <2> QED
    BY <1>1, <1>2, <2>1, StartSplit
<1>4. PICK e, s : e = << >> /\ s = ":"
  OBVIOUS
<1>5. e \in Seq(D) /\ e \o c = c
  BY <1>2, <1>4, None, ConcatEmptySeq
<1>6. Fields(e, chars) = << << >> >>
  BY <1>4, FieldsOfNone
<1>7. Fields(c, chars) = << << >> >> \o HexOf(fs)
  <2>1. FieldsColoned(e, fs)
    BY <1>1, <1>5, ColonedFields
  <2> QED
    BY <1>1, <1>5, <1>6, <2>1 DEF FieldsColoned
<1>8. Fields(c, chars) = << << >> >> \o Fields(r, chars)
  <2>1. s \in D /\ s \in chars
    BY <1>1, <1>3, <1>4
  <2>2. FieldsApart(e, s, r, chars)
    BY <1>3, <1>5, <2>1, FieldsConcat
  <2>3. e \o (<<s>> \o r) = c
    BY <1>3, <1>4, <1>5
  <2> QED
    BY <1>6, <2>2, <2>3 DEF FieldsApart
<1>9. Fields(r, chars) = HexOf(fs)
  <2>1. PICK f, h, g : f = Fields(r, chars) /\ h = HexOf(fs) /\ g = << >>
    OBVIOUS
  <2>2. f \in Seq(E) /\ h \in Seq(E) /\ g \in E
    <3>1. f \in Seq(Seq(D \ chars))
      BY <1>3, <2>1, FieldsTyped DEF Pieces
    <3>2. Seq(D \ chars) \subseteq E
      BY <1>1, SeqMonotonic
    <3>3. h \in Seq(Short)
      BY <2>1, HexOfTyped
    <3>4. Short \subseteq E
      <4>1. HexSet \subseteq D
        BY <1>1 DEF AddressChars
      <4>2. Seq(HexSet) \subseteq E
        BY <1>1, <4>1, SeqMonotonic
      <4> QED
        BY <4>2 DEF Short
    <3> QED
      BY <1>1, <2>1, <3>1, <3>2, <3>3, <3>4, SeqMonotonic, None
  <2>3. PICK v, w : v = <<g>> \o f /\ w = <<g>> \o h
    OBVIOUS
  <2>4. v = w
    BY <1>7, <1>8, <2>1, <2>3
  <2>5. f = h
    BY ONLY <2>2, <2>3, <2>4, SameEnds
  <2> QED
    BY <2>1, <2>5
<1> QED
  BY <1>1, <1>2, <1>3, <1>9 DEF FirstFields

-----------------------------------------------------------------------------
(* The longest run of zero fields.                                         *)

(* A run of zero fields, or none.                                          *)
RunFrom(fs, i) == Min({j \in i..Len(fs) : fs[j] # 0} \cup {Len(fs) + 1}) - i
Longest(fs) == Max({RunFrom(fs, i) : i \in DOMAIN fs})

LEMMA RunIs ==
  ASSUME NEW fs \in Seq(Word), NEW i \in 1..Len(fs)
  PROVE  /\ RunFrom(fs, i) \in 0..Len(fs) /\ i + RunFrom(fs, i) <= Len(fs) + 1
         /\ \A j \in i..(i + RunFrom(fs, i) - 1) : fs[j] = 0
<1>1. PICK n, S, m : /\ n = Len(fs) /\ S = {j \in i..n : fs[j] # 0} \cup {n + 1}
                     /\ m = Min(S)
  OBVIOUS
<1>2. n \in Nat /\ i \in 1..n
  BY <1>1, LenProperties
<1>3. S \in SUBSET Nat /\ S # {} /\ n + 1 \in S
  BY <1>1, <1>2
<1>4. PICK k \in S : \A y \in S : k <= y
  BY ONLY <1>3, Least
<1>5. m = k
  <2>1. S \in SUBSET Int
    BY <1>3
  <2> QED
    BY <1>1, <1>4, <2>1, MinIs
<1>6. m \in S /\ m \in Nat /\ m <= n + 1
  BY <1>3, <1>4, <1>5
<1>7. m >= i
  BY <1>1, <1>2, <1>6
<1>8. RunFrom(fs, i) = m - i
  BY <1>1 DEF RunFrom
<1>9. PICK l : l = m - i
  OBVIOUS
<1>10. l \in 0..n /\ i + l = m
  BY <1>2, <1>6, <1>7, <1>9
<1>11. ASSUME NEW j \in i..(i + l - 1) PROVE fs[j] = 0
  <2>1. j \in i..n /\ j < m
    BY <1>2, <1>6, <1>10, <1>11
  <2>2. j \notin S
    BY <1>2, <1>4, <1>5, <1>6, <2>1
  <2> QED
    BY <1>1, <2>1, <2>2
<1> QED
  BY <1>1, <1>6, <1>8, <1>9, <1>10, <1>11

(* Where it is and how long, for the fields fs.                            *)
RunOf(fs, z) ==
  /\ z.at \in 1..(Len(fs) + 1) /\ z.len \in Nat
  /\ \/ z.at = Len(fs) + 1 /\ z.len <= 1
     \/ /\ z.len >= 2 /\ z.at + z.len <= Len(fs) + 1
        /\ \A j \in z.at..(z.at + z.len - 1) : fs[j] = 0

LEMMA ZeroRunIs ==
  ASSUME NEW fs \in Seq(Word), fs # << >>
  PROVE  RunOf(fs, ZeroRun(fs))
<1>1. PICK n, S, m : n = Len(fs) /\ S = {RunFrom(fs, i) : i \in 1..n} /\ m = Max(S)
  OBVIOUS
<1>2. n \in Nat /\ n # 0 /\ DOMAIN fs = 1..n
  BY <1>1, LenProperties, EmptySeq
<1>3. \A i \in 1..n : RunFrom(fs, i) \in 0..n
  BY <1>1, RunIs
<1>4. S \subseteq 0..n /\ S # {}
  <2>1. 1 \in 1..n
    BY <1>2
  <2> QED
    BY <1>1, <1>3, <2>1
<1>5. m \in S
  <2>1. PICK T : T = {n - x : x \in S}
    OBVIOUS
  <2>2. T \in SUBSET Nat /\ T # {}
    <3>1. \A x \in S : n - x \in Nat
      BY <1>2, <1>4
    <3> QED
      BY <1>4, <2>1, <3>1
  <2>3. PICK d \in T : \A y \in T : d <= y
    BY ONLY <2>2, Least
  <2>4. PICK x \in S : d = n - x
    BY <2>1, <2>3
  <2>5. \A y \in S : x >= y
    <3>1. ASSUME NEW y \in S PROVE x >= y
      <4>1. n - y \in T
        BY <2>1
      <4>2. n - x <= n - y
        BY <2>3, <2>4, <4>1
      <4> QED
        BY <1>2, <1>4, <4>2
    <3> QED
      BY <3>1
  <2>6. S \in SUBSET Int
    BY <1>4
  <2>7. Max(S) = x
    BY ONLY <2>4, <2>5, <2>6, MaxIs
  <2> QED
    BY <1>1, <2>4, <2>7
<1>6. m \in 0..n /\ Longest(fs) = m
  BY <1>1, <1>2, <1>4, <1>5 DEF Longest
<1>7. ZeroRun(fs) = IF m < 2 THEN [at |-> n + 1, len |-> m]
                    ELSE [at |-> Min({i \in 1..n : RunFrom(fs, i) = m}), len |-> m]
  <2>1. ZeroRun(fs) = IF Longest(fs) < 2 THEN [at |-> Len(fs) + 1, len |-> Longest(fs)]
                      ELSE [at |-> Min({i \in DOMAIN fs : RunFrom(fs, i) = Longest(fs)}),
                            len |-> Longest(fs)]
    BY DEF ZeroRun, Longest, RunFrom
  <2> QED
    BY <1>1, <1>2, <1>6, <2>1
<1>8. CASE m < 2
  <2>1. PICK z : z = ZeroRun(fs)
    OBVIOUS
  <2>2. z.at = n + 1 /\ z.len = m
    BY <1>7, <1>8, <2>1
  <2>3. z.len <= 1 /\ z.len \in Nat /\ z.at \in 1..(n + 1)
    BY <1>2, <1>6, <1>8, <2>2
  <2> QED
    BY <1>1, <2>1, <2>2, <2>3 DEF RunOf
<1>9. CASE m >= 2
  <2>1. PICK z, T : z = ZeroRun(fs) /\ T = {i \in 1..n : RunFrom(fs, i) = m}
    OBVIOUS
  <2>2. z.at = Min(T) /\ z.len = m
    BY <1>6, <1>7, <1>9, <2>1
  <2>3. T \in SUBSET Nat /\ T # {}
    <3>1. PICK i \in 1..n : m = RunFrom(fs, i)
      BY <1>1, <1>5
    <3>2. i \in T
      BY <2>1, <3>1
    <3> QED
      BY <2>1, <3>2
  <2>4. PICK k \in T : \A y \in T : k <= y
    BY ONLY <2>3, Least
  <2>5. Min(T) = k
    <3>1. T \in SUBSET Int
      BY <2>3
    <3> QED
      BY <2>4, <3>1, MinIs
  <2>6. k \in 1..n /\ RunFrom(fs, k) = m
    BY <2>1, <2>4
  <2>7. k + m <= n + 1 /\ \A j \in k..(k + m - 1) : fs[j] = 0
    BY <1>1, <2>6, RunIs
  <2>8. z.at = k /\ z.len = m /\ k \in 1..(n + 1) /\ m \in Nat
    BY <1>2, <1>6, <2>2, <2>5, <2>6
  <2>9. z.at \in 1..(n + 1) /\ z.len \in Nat /\ z.len >= 2 /\ z.at + z.len <= n + 1
        /\ \A j \in z.at..(z.at + z.len - 1) : fs[j] = 0
    BY <1>9, <2>7, <2>8
  <2> QED
    BY <1>1, <2>1, <2>9 DEF RunOf
<1> QED
  BY <1>6, <1>8, <1>9

-----------------------------------------------------------------------------
(* The numbers of an address, of whose tokens one stands for several.      *)

(* The numbers that the tokens of an address stand for.                    *)
Null(T) == {k \in DOMAIN T : T[k] = << >>}
Missing(T, total) == total - Len(T) + Cardinality(Null(T))
GapAt(T) == IF Null(T) = {} THEN Len(T) + 1 ELSE Min(Null(T))

FieldsRead(T, total) ==
  [i \in 1..total |->
     CASE i < GapAt(T) -> Value(T[i])
       [] i >= GapAt(T) + Missing(T, total) ->
            Value(T[i - Missing(T, total) + Cardinality(Null(T))])
       [] OTHER -> 0]

LEMMA FieldsReadTyped ==
  ASSUME NEW T \in Seq(Short), NEW total \in Nat
  PROVE  FieldsRead(T, total) \in Seq(Word) /\ Len(FieldsRead(T, total)) = total
<1>1. PICK n, N, d, m, a : /\ n = Len(T) /\ N = Null(T) /\ d = Cardinality(N)
                           /\ m = Missing(T, total) /\ a = GapAt(T)
  OBVIOUS
<1>2. n \in Nat /\ DOMAIN T = 1..n /\ \A k \in 1..n : T[k] \in Short
  BY <1>1, LenProperties, ElementOfSeq
<1>3. N \subseteq 1..n
  BY <1>1, <1>2 DEF Null
<1>4. IsFiniteSet(N) /\ d \in Nat
  <2>1. IsFiniteSet(1..n)
    BY <1>2, FS_Interval
  <2>2. IsFiniteSet(N)
    BY <1>3, <2>1, FS_Subset
  <2> QED
    BY <1>1, <2>2, FS_CardinalityType
<1>5. m = total - n + d
  BY <1>1 DEF Missing
<1>6. a \in 1..(n + 1)
  <2>1. CASE N = {}
    BY <1>1, <1>2, <2>1 DEF GapAt
  <2>2. CASE N # {}
    <3>1. N \in SUBSET Nat
      BY <1>3
    <3>2. PICK k \in N : \A y \in N : k <= y
      BY ONLY <2>2, <3>1, Least
    <3>3. N \in SUBSET Int
      BY <3>1
    <3>4. Min(N) = k
      BY ONLY <3>2, <3>3, MinIs
    <3> QED
      BY <1>1, <1>2, <1>3, <2>2, <3>2, <3>4 DEF GapAt
  <2> QED
    BY <2>1, <2>2
<1>7. \A x \in Short : Value(x) \in Word
  BY ShortValue
<1>8. 0 \in Word
  BY DEF Word
<1>9. PICK g : g = FieldsRead(T, total)
  OBVIOUS
<1>10. g = [i \in 1..total |-> CASE i < a -> Value(T[i])
                                [] i >= a + m -> Value(T[i - m + d])
                                [] OTHER -> 0]
  BY <1>1, <1>9 DEF FieldsRead
<1>11. ASSUME NEW i \in 1..total
       PROVE  (CASE i < a -> Value(T[i]) [] i >= a + m -> Value(T[i - m + d]) [] OTHER -> 0)
                \in Word
  <2>1. CASE i < a
    <3>1. i \in 1..n
      BY <1>2, <1>6, <2>1
    <3>2. \A x : x = Value(T[i]) => x \in Word
      BY <1>2, <1>7, <3>1
    <3>3. CASE i >= a + m
      <4>1. i - m + d \in 1..n
        BY <1>2, <1>4, <1>5, <1>6, <3>3
      <4>2. Value(T[i - m + d]) \in Word
        BY <1>2, <1>7, <4>1
      <4> QED
        BY <2>1, <3>2, <3>3, <4>2
    <3>4. CASE ~(i >= a + m)
      BY <2>1, <3>2, <3>4
    <3> QED
      BY <3>3, <3>4
  <2>2. CASE ~(i < a) /\ i >= a + m
    <3>1. i - m + d \in 1..n
      BY <1>2, <1>4, <1>5, <1>6, <2>2
    <3>2. Value(T[i - m + d]) \in Word
      BY <1>2, <1>7, <3>1
    <3> QED
      BY <2>2, <3>2
  <2>3. CASE ~(i < a) /\ ~(i >= a + m)
    BY <1>8, <2>3
  <2> QED
    BY <2>1, <2>2, <2>3
<1>12. g \in [1..total -> Word]
  BY <1>10, <1>11
<1>13. g \in Seq(Word) /\ Len(g) = total
  BY <1>12, FunctionIsSeq
<1> QED
  BY <1>9, <1>13

-----------------------------------------------------------------------------
(* The numbers that were written are read.                                 *)

(* The tokens of an address give back the numbers they were written from.  *)
LEMMA AllRead ==
  ASSUME NEW f \in Seq(Word)
  PROVE  FieldsRead(HexOf(f), Len(f)) = f
<1>1. PICK T, n : T = HexOf(f) /\ n = Len(f)
  OBVIOUS
<1>2. n \in Nat /\ DOMAIN f = 1..n /\ f = [i \in 1..n |-> f[i]]
  BY <1>1, LenProperties
<1>3. /\ T \in Seq(Short) /\ Len(T) = n /\ DOMAIN T = 1..n
      /\ \A k \in 1..n : T[k] # << >> /\ Value(T[k]) = f[k]
  BY <1>1, HexOfTyped, LenProperties
<1>4. Null(T) = {}
  BY <1>3 DEF Null
<1>5. GapAt(T) = n + 1
  BY <1>3, <1>4 DEF GapAt
<1>6. FieldsRead(T, n) = [i \in 1..n |-> f[i]]
  <2>1. \A i \in 1..n : i < GapAt(T)
    BY <1>2, <1>5
  <2>2. ASSUME NEW i \in 1..n
        PROVE  (CASE i < GapAt(T) -> Value(T[i])
                  [] i >= GapAt(T) + Missing(T, n) ->
                       Value(T[i - Missing(T, n) + Cardinality(Null(T))])
                  [] OTHER -> 0) = f[i]
    <3>1. i < GapAt(T) /\ Value(T[i]) = f[i]
      BY <1>3, <2>1
    <3>2. ~(i >= GapAt(T) + Missing(T, n))
      <4>1. Missing(T, n) = 0
        <5>1. Cardinality(Null(T)) = 0
          BY <1>4, FS_EmptySet
        <5> QED
          BY <1>2, <1>3, <5>1 DEF Missing
      <4> QED
        BY <1>2, <1>5, <4>1
    <3> QED
      BY <3>1, <3>2
  <2> QED
    BY <2>2 DEF FieldsRead
<1> QED
  BY <1>1, <1>2, <1>6

(* Where a run of zeros was left out there is one empty token.             *)
Gapped(T, f, a, l) ==
  /\ T \in Seq(Short) /\ a \in 1..Len(T) /\ l \in Nat
  /\ a + l <= Len(f) + 1 /\ Len(T) = Len(f) - l + 1
  /\ \A k \in 1..Len(T) : /\ k < a => T[k] = Hex(f[k])
                          /\ k = a => T[k] = << >>
                          /\ k > a => T[k] = Hex(f[k + l - 1])
  /\ \A k \in a..(a + l - 1) : f[k] = 0

LEMMA GappedRead ==
  ASSUME NEW f \in Seq(Word), NEW T, NEW a, NEW l, Gapped(T, f, a, l)
  PROVE  FieldsRead(T, Len(f)) = f
<1>1. PICK n, m : n = Len(f) /\ m = Len(T)
  OBVIOUS
<1>2. n \in Nat /\ DOMAIN f = 1..n /\ f = [i \in 1..n |-> f[i]] /\ \A k \in 1..n : f[k] \in Word
  BY <1>1, LenProperties, ElementOfSeq
<1>3. /\ T \in Seq(Short) /\ m \in Nat /\ DOMAIN T = 1..m /\ a \in 1..m /\ l \in Nat
      /\ a + l <= n + 1 /\ m = n - l + 1
      /\ \A k \in a..(a + l - 1) : f[k] = 0
  BY <1>1, LenProperties DEF Gapped
<1>4. \A k \in 1..m : /\ k < a => T[k] = Hex(f[k])
                      /\ k = a => T[k] = << >>
                      /\ k > a => T[k] = Hex(f[k + l - 1])
  BY <1>1 DEF Gapped
<1>5. Null(T) = {a}
  <2>1. \A k \in 1..m : k < a => T[k] # << >>
    <3>1. SUFFICES ASSUME NEW k \in 1..m, k < a PROVE T[k] # << >>
      OBVIOUS
    <3>2. k \in 1..n
      BY <1>2, <1>3, <3>1
    <3> QED
      BY <1>2, <1>4, <3>1, <3>2, HexBack
  <2>2. \A k \in 1..m : k > a => T[k] # << >>
    <3>1. SUFFICES ASSUME NEW k \in 1..m, k > a PROVE T[k] # << >>
      OBVIOUS
    <3>2. k + l - 1 \in 1..n
      BY <1>2, <1>3, <3>1
    <3> QED
      BY <1>2, <1>4, <3>1, <3>2, HexBack
  <2>3. \A k \in 1..m : T[k] = << >> <=> k = a
    BY <1>3, <1>4, <2>1, <2>2
  <2> QED
    BY <1>3, <2>3 DEF Null
<1>6. Cardinality(Null(T)) = 1
  BY <1>5, FS_Singleton
<1>7. GapAt(T) = a
  <2>1. Min({a}) = a
    <3>1. {a} \in SUBSET Int /\ a \in {a} /\ \A y \in {a} : a <= y
      BY <1>3
    <3> QED
      BY ONLY <3>1, MinIs
  <2> QED
    BY <1>5, <2>1 DEF GapAt
<1>8. Missing(T, n) = l
  BY <1>1, <1>2, <1>3, <1>6 DEF Missing
<1>9. FieldsRead(T, n) = [i \in 1..n |-> CASE i < a -> Value(T[i])
                                           [] i >= a + l -> Value(T[i - l + 1])
                                           [] OTHER -> 0]
  BY <1>6, <1>7, <1>8 DEF FieldsRead
<1>10. ASSUME NEW i \in 1..n
       PROVE  (CASE i < a -> Value(T[i]) [] i >= a + l -> Value(T[i - l + 1]) [] OTHER -> 0)
                = f[i]
  <2>1. CASE i < a
    <3>1. i \in 1..m /\ ~(i >= a + l)
      BY <1>2, <1>3, <2>1
    <3>2. Value(T[i]) = f[i]
      BY <1>2, <1>4, <2>1, <3>1, HexBack
    <3> QED
      BY <2>1, <3>1, <3>2
  <2>2. CASE i >= a + l
    <3>1. i - l + 1 \in 1..m /\ i - l + 1 > a /\ (i - l + 1) + l - 1 = i /\ ~(i < a)
      BY <1>2, <1>3, <2>2
    <3>2. T[i - l + 1] = Hex(f[i])
      BY <1>4, <3>1
    <3>3. Value(T[i - l + 1]) = f[i]
      BY <1>2, <3>2, HexBack
    <3> QED
      BY <2>2, <3>1, <3>3
  <2>3. CASE ~(i < a) /\ ~(i >= a + l)
    <3>1. i \in a..(a + l - 1)
      BY <1>2, <1>3, <2>3
    <3>2. f[i] = 0
      BY <1>3, <3>1
    <3> QED
      BY <2>3, <3>2
  <2> QED
    BY <2>1, <2>2, <2>3
<1>11. FieldsRead(T, n) = [i \in 1..n |-> f[i]]
  BY <1>9, <1>10
<1> QED
  BY <1>1, <1>2, <1>11

-----------------------------------------------------------------------------
(* An address without the colon that begins or ends it.                    *)

(* A text has the characters of its fields, and those that part them.      *)
LEMMA FieldsOver ==
  ASSUME NEW C, NEW D, NEW glue \in C, NEW t \in Seq(C),
         Fields(t, {glue}) \in Seq(Seq(D))
  PROVE  t \in Seq(D \cup {glue})
<1>1. PICK B, f : B = D \cup {glue} /\ f = Fields(t, {glue})
  OBVIOUS
<1>2. glue \in B /\ f \in Seq(Seq(B))
  <2>1. Seq(D) \subseteq Seq(B)
    BY <1>1, SeqMonotonic
  <2> QED
    BY <1>1, <2>1, SeqMonotonic
<1>3. Joined(f, <<glue>>) = t
  BY <1>1, JoinedFields
<1>4. PICK r : JoinRun(r, B, glue, f, Len(f))
  BY <1>2, JoinRunExists
<1>5. Joined(f, <<glue>>) \in Seq(B)
  <2>1. Len(f) \in 0..Len(f)
    BY <1>2, LenProperties
  <2> QED
    BY <1>4, <2>1 DEF JoinRun
<1> QED
  BY <1>1, <1>3, <1>5

(* Where the first or the last field is not empty the text does not begin  *)
(* or end with a character that parts fields.                              *)
LEMMA FieldsBegin ==
  ASSUME NEW C, NEW glue \in C, NEW t \in Seq(C), Fields(t, {glue})[1] # << >>
  PROVE  t # << >> /\ ~Starts(t, glue)
<1>1. PICK e : e = << >>
  OBVIOUS
<1>2. e \in Seq(C) /\ Fields(e, {glue}) = << << >> >>
  BY <1>1, None, FieldsOfNone
<1>3. t # << >>
  BY <1>1, <1>2
<1>4. ASSUME Starts(t, glue) PROVE FALSE
  <2>1. PICK x : x = Rest(t, 1)
    OBVIOUS
  <2>2. x \in Seq(C) /\ t = <<glue>> \o x
    BY <1>4, <2>1, StartSplit
  <2>3. FieldsApart(e, glue, x, {glue})
    BY <1>2, <2>2, FieldsConcat
  <2>4. e \o (<<glue>> \o x) = t
    BY <1>1, <2>2, ConcatEmptySeq
  <2>5. Fields(t, {glue}) = << << >> >> \o Fields(x, {glue})
    BY <1>2, <2>3, <2>4 DEF FieldsApart
  <2>6. PICK f : f = Fields(x, {glue})
    OBVIOUS
  <2>7. f \in Seq(Seq(C \ {glue})) /\ << >> \in Seq(C \ {glue})
    BY <2>2, <2>6, FieldsTyped, None DEF Pieces
  <2>8. (<< << >> >> \o f)[1] = << >>
    BY <2>7, StartsOne
  <2> QED
    BY <2>5, <2>6, <2>8
<1> QED
  BY <1>3, <1>4

LEMMA FieldsEnd ==
  ASSUME NEW C, NEW glue \in C, NEW t \in Seq(C), Last(Fields(t, {glue})) # << >>
  PROVE  t # << >> /\ Last(t) # glue
<1>1. t # << >>
  <2>1. SUFFICES ASSUME t = << >> PROVE FALSE
    OBVIOUS
  <2>2. PICK e, w : e = << >> /\ w = << << >> >>
    OBVIOUS
  <2>3. e \in {e} /\ w = <<e>>
    BY <2>2
  <2>4. Len(w) = 1 /\ w[1] = e
    BY <2>3, One
  <2>5. Last(w) = e
    BY <2>4 DEF Last
  <2>6. Fields(t, {glue}) = w
    BY <2>1, <2>2, FieldsOfNone
  <2> QED
    BY <2>2, <2>5, <2>6
<1>2. ASSUME Last(t) = glue PROVE FALSE
  <2>1. PICK u : u = Front(t)
    OBVIOUS
  <2>2. u \in Seq(C) /\ t = Append(u, glue)
    BY <1>1, <1>2, <2>1, EndsIn
  <2>3. PICK f : f = Fields(u, {glue})
    OBVIOUS
  <2>4. Fields(t, {glue}) = Append(f, << >>)
    <3>1. Fields(t, {glue}) = Further(f, glue, {glue})
      BY <2>2, <2>3, FieldsFurther
    <3> QED
      BY <3>1 DEF Further
  <2>5. f \in Seq(Seq(C \ {glue})) /\ << >> \in Seq(C \ {glue})
    BY <2>2, <2>3, FieldsTyped, None DEF Pieces
  <2>6. Last(Append(f, << >>)) = << >>
    BY <2>5, FrontLast
  <2> QED
    BY <2>4, <2>6
<1> QED
  BY <1>1, <1>2

(* An address without a colon that begins or ends it.                      *)
Core(t) == SubSeq(t, IF Starts(t, ":") THEN 2 ELSE 1,
                     IF Last(t) = ":" THEN Len(t) - 1 ELSE Len(t))

LEMMA CoreWhole ==
  ASSUME NEW C, NEW t \in Seq(C), ~Starts(t, ":"), Last(t) # ":"
  PROVE  Core(t) = t
<1>1. SubSeq(t, 1, Len(t)) = t
  <2>1. PICK n : n = Len(t)
    OBVIOUS
  <2>2. n \in Nat /\ 1 \in 1..(Len(t) + 1) /\ n \in (1 - 1)..Len(t)
    BY <2>1, LenProperties
  <2>3. /\ SubSeq(t, 1, n) \in Seq(C) /\ Len(SubSeq(t, 1, n)) = n - 1 + 1
        /\ \A i \in 1..(n - 1 + 1) : SubSeq(t, 1, n)[i] = t[i + 1 - 1]
    BY <2>2, SliceIs
  <2>4. n - 1 + 1 = n /\ \A i \in 1..n : i + 1 - 1 = i
    BY <2>2
  <2>5. \A i \in 1..n : SubSeq(t, 1, n)[i] = t[i]
    BY <2>3, <2>4
  <2> QED
    BY <2>1, <2>3, <2>4, <2>5, SeqEqual
<1> QED
  BY <1>1 DEF Core

LEMMA CoreBehind ==
  ASSUME NEW C, ":" \in C, NEW x \in Seq(C), x # << >>, Last(x) # ":",
         NEW t, t = <<":">> \o x
  PROVE  Core(t) = x /\ Starts(t, ":") /\ Last(t) # ":"
<1>1. t \in Seq(C) /\ Rest(t, 1) = x /\ Starts(t, ":")
  BY StartsOne
<1>2. Last(t) = Last(x)
  <2>1. PICK s : s = <<":">>
    OBVIOUS
  <2>2. s \in Seq(C) /\ Len(s) = 1
    BY <2>1, One
  <2>3. PICK m : m = Len(x)
    OBVIOUS
  <2>4. m \in Nat /\ m # 0
    BY <2>3, LenProperties, EmptySeq
  <2>5. Len(t) = m + 1 /\ t[m + 1] = x[m]
    <3>1. t = s \o x
      BY <2>1
    <3>2. m + 1 \in 1..(1 + m) /\ ~(m + 1 <= 1) /\ (m + 1) - 1 = m
      BY <2>4
    <3>3. /\ Len(t) = Len(s) + Len(x)
          /\ \A i \in 1..(Len(s) + Len(x)) :
               t[i] = IF i <= Len(s) THEN s[i] ELSE x[i - Len(s)]
      BY <2>2, <3>1, ConcatProperties
    <3> QED
      BY <2>2, <2>3, <2>4, <3>2, <3>3
  <2> QED
    BY <2>3, <2>5 DEF Last
<1>3. Rest(t, 1) = SubSeq(t, 2, Len(t))
  <2>1. 1 + 1 = 2
    OBVIOUS
  <2> QED
    BY <2>1, Zenon DEF Rest
<1> QED
  BY <1>1, <1>2, <1>3 DEF Core

LEMMA CoreBefore ==
  ASSUME NEW C, ":" \in C, NEW x \in Seq(C), x # << >>, ~Starts(x, ":"),
         NEW t, t = Append(x, ":")
  PROVE  Core(t) = x
<1>1. t \in Seq(C) /\ Front(t) = x /\ Last(t) = ":"
  BY AppendProperties, FrontLast
<1>2. ~Starts(t, ":")
  <2>1. Len(x) \in Nat /\ Len(x) # 0
    BY LenProperties, EmptySeq
  <2>2. Len(t) = Len(x) + 1 /\ \A i \in 1..Len(x) : t[i] = x[i]
    BY AppendProperties
  <2>3. t[1] = x[1] /\ x[1] # ":"
    BY <2>1, <2>2, StartsIs
  <2> QED
    BY <1>1, <2>3, StartsIs
<1> QED
  BY <1>1, <1>2 DEF Core, Front

(* The fields of an address are read of its tokens.                        *)
Tokens(t) == IF IPv4Part(t) = << >> THEN Fields(Core(t), {":"})
             ELSE Front(Fields(Core(t), {":"}))

LEMMA AddressIs ==
  ASSUME NEW t
  PROVE  Address(t) = FieldsRead(Tokens(t), IF IPv4Part(t) = << >> THEN 8 ELSE 6)
BY DEF Address, FieldsRead, Tokens, Core, GapAt, Missing, Null, Value

-----------------------------------------------------------------------------
(* The tokens that are written for a run of zeros.                         *)

(* The tokens that are written when a run of zeros is left out.            *)
ZerosAt(f, a, l) ==
  /\ a \in 1..(Len(f) + 1) /\ l \in Nat /\ a + l <= Len(f) + 1
  /\ \A k \in a..(a + l - 1) : f[k] = 0

GapTokens(pre, post) == Append(HexOf(pre), << >>) \o HexOf(post)

GapFacts(f, a, l, pre, post, T) ==
  /\ Gapped(T, f, a, l) /\ pre \in Seq(Word) /\ post \in Seq(Word)
  /\ Len(pre) = a - 1 /\ Len(post) = Len(f) - a - l + 1

LEMMA GapMade ==
  ASSUME NEW f \in Seq(Word), NEW a, NEW l, ZerosAt(f, a, l),
         NEW pre, pre = SubSeq(f, 1, a - 1), NEW post, post = SubSeq(f, a + l, Len(f)),
         NEW T, T = GapTokens(pre, post)
  PROVE  GapFacts(f, a, l, pre, post, T)
<1>1. PICK n, m : n = Len(f) /\ m = n - a - l + 1
  OBVIOUS
<1> /\ a \in 1..(Len(f) + 1) /\ l \in Nat /\ a + l <= Len(f) + 1
    /\ \A k \in a..(a + l - 1) : f[k] = 0
  BY DEF ZerosAt
<1>2. n \in Nat /\ m \in Nat /\ a \in Nat /\ a >= 1 /\ a + l <= n + 1 /\ m + l = n - a + 1
  BY <1>1, LenProperties
<1>3. /\ pre \in Seq(Word) /\ Len(pre) = a - 1
      /\ \A i \in 1..(a - 1) : pre[i] = f[i]
  <2>1. 1 \in 1..(Len(f) + 1) /\ a - 1 \in (1 - 1)..Len(f)
    BY <1>1, <1>2
  <2>2. /\ SubSeq(f, 1, a - 1) \in Seq(Word) /\ Len(SubSeq(f, 1, a - 1)) = (a - 1) - 1 + 1
        /\ \A i \in 1..((a - 1) - 1 + 1) : SubSeq(f, 1, a - 1)[i] = f[i + 1 - 1]
    BY <2>1, SliceIs
  <2>3. (a - 1) - 1 + 1 = a - 1 /\ \A i \in 1..(a - 1) : i + 1 - 1 = i
    BY <1>2
  <2> QED
    BY <2>2, <2>3
<1>4. /\ post \in Seq(Word) /\ Len(post) = m
      /\ \A i \in 1..m : post[i] = f[i + (a + l) - 1]
  <2>1. a + l \in 1..(Len(f) + 1) /\ n \in ((a + l) - 1)..Len(f)
    BY <1>1, <1>2
  <2>2. /\ SubSeq(f, a + l, n) \in Seq(Word) /\ Len(SubSeq(f, a + l, n)) = n - (a + l) + 1
        /\ \A i \in 1..(n - (a + l) + 1) : SubSeq(f, a + l, n)[i] = f[i + (a + l) - 1]
    BY <2>1, SliceIs
  <2>3. n - (a + l) + 1 = m
    BY <1>1, <1>2
  <2> QED
    BY <1>1, <2>2, <2>3
<1>5. PICK u, v, w, e : u = HexOf(pre) /\ v = HexOf(post) /\ e = << >> /\ w = Append(u, e)
  OBVIOUS
<1>6. /\ u \in Seq(Short) /\ Len(u) = a - 1 /\ v \in Seq(Short) /\ Len(v) = m
      /\ e \in Short
      /\ \A i \in 1..(a - 1) : u[i] = Hex(f[i])
      /\ \A i \in 1..m : v[i] = Hex(f[i + (a + l) - 1])
  <2>1. e \in Short
    BY <1>5, None DEF Short
  <2> QED
    <3>1. /\ u \in Seq(Short) /\ Len(u) = Len(pre)
          /\ \A i \in 1..Len(pre) : u[i] = Hex(pre[i])
      BY <1>3, <1>5, HexOfTyped
    <3>2. /\ v \in Seq(Short) /\ Len(v) = Len(post)
          /\ \A i \in 1..Len(post) : v[i] = Hex(post[i])
      BY <1>4, <1>5, HexOfTyped
    <3>3. \A i \in 1..(a - 1) : u[i] = Hex(f[i])
      BY <1>3, <3>1
    <3>4. \A i \in 1..m : v[i] = Hex(f[i + (a + l) - 1])
      BY <1>4, <3>2
    <3> QED
      BY <1>3, <1>4, <2>1, <3>1, <3>2, <3>3, <3>4
<1>7. /\ w \in Seq(Short) /\ Len(w) = a /\ w[a] = e
      /\ \A i \in 1..(a - 1) : w[i] = u[i]
  <2>1. /\ w \in Seq(Short) /\ Len(w) = Len(u) + 1 /\ w[Len(u) + 1] = e
        /\ \A i \in 1..Len(u) : w[i] = u[i]
    BY <1>5, <1>6, AppendProperties
  <2>2. Len(u) + 1 = a
    BY <1>2, <1>6
  <2> QED
    BY <1>6, <2>1, <2>2
<1>8. /\ T \in Seq(Short) /\ Len(T) = a + m
      /\ \A i \in 1..(a + m) : T[i] = IF i <= a THEN w[i] ELSE v[i - a]
  <2>1. T = w \o v
    BY <1>5 DEF GapTokens
  <2>2. w \o v \in Seq(Short)
    BY ONLY <1>6, <1>7, ConcatProperties
  <2>3. Len(w \o v) = Len(w) + Len(v)
    BY ONLY <1>6, <1>7, ConcatProperties
  <2>4. \A i \in 1..(Len(w) + Len(v)) :
           (w \o v)[i] = IF i <= Len(w) THEN w[i] ELSE v[i - Len(w)]
    BY ONLY <1>6, <1>7, ConcatProperties
  <2> QED
    BY <1>6, <1>7, <2>1, <2>2, <2>3, <2>4
<1>9. a + m = n - l + 1 /\ a \in 1..(a + m)
  BY <1>1, <1>2
<1>10. ASSUME NEW k \in 1..(a + m)
       PROVE  /\ k < a => T[k] = Hex(f[k])
              /\ k = a => T[k] = << >>
              /\ k > a => T[k] = Hex(f[k + l - 1])
  <2>1. CASE k < a
    <3>1. k \in 1..(a - 1) /\ k <= a
      BY <1>2, <2>1
    <3> QED
      BY <1>2, <1>6, <1>7, <1>8, <2>1, <3>1
  <2>2. CASE k = a
    BY <1>2, <1>5, <1>7, <1>8, <2>2
  <2>3. CASE k > a
    <3>1. k - a \in 1..m /\ ~(k <= a) /\ (k - a) + (a + l) - 1 = k + l - 1
      BY <1>2, <2>3
    <3>2. T[k] = v[k - a]
      BY <1>8, <3>1
    <3>3. v[k - a] = Hex(f[k + l - 1])
      BY <1>6, <3>1
    <3>4. ~(k < a) /\ k # a
      BY <1>2, <2>3
    <3>5. T[k] = Hex(f[k + l - 1])
      BY <3>2, <3>3
    <3> QED
      BY <3>4, <3>5
  <2> QED
    BY <1>2, <2>1, <2>2, <2>3
<1>11. Gapped(T, f, a, l)
  BY <1>1, <1>2, <1>8, <1>9, <1>10 DEF Gapped
<1> QED
  BY <1>1, <1>3, <1>4, <1>11 DEF GapFacts

(* The only empty token is that of the run.                                *)
LEMMA GappedEnds ==
  ASSUME NEW f \in Seq(Word), NEW T, NEW a, NEW l, Gapped(T, f, a, l)
  PROVE  /\ T # << >> /\ T \in Seq(Short)
         /\ a > 1 => T[1] # << >>
         /\ a < Len(T) => Last(T) # << >>
<1>1. PICK n, m : n = Len(f) /\ m = Len(T)
  OBVIOUS
<1>2. n \in Nat /\ \A k \in 1..n : f[k] \in Word
  BY <1>1, LenProperties, ElementOfSeq
<1>3. /\ T \in Seq(Short) /\ m \in Nat /\ a \in 1..m /\ l \in Nat
      /\ a + l <= n + 1 /\ m = n - l + 1
  BY <1>1, LenProperties DEF Gapped
<1>4. \A k \in 1..m : /\ k < a => T[k] = Hex(f[k])
                      /\ k > a => T[k] = Hex(f[k + l - 1])
  BY <1>1 DEF Gapped
<1>5. T # << >>
  <2>1. SUFFICES ASSUME T = << >> PROVE FALSE
    OBVIOUS
  <2>2. m = 0
    BY <1>1, <2>1, None
  <2> QED
    BY <1>3, <2>2
<1>6. a > 1 => T[1] # << >>
  <2>1. SUFFICES ASSUME a > 1 PROVE T[1] # << >>
    OBVIOUS
  <2>2. 1 \in 1..m /\ 1 \in 1..n /\ 1 < a
    BY <1>2, <1>3, <2>1
  <2> QED
    BY <1>2, <1>4, <2>2, HexBack
<1>7. a < m => T[m] # << >>
  <2>1. SUFFICES ASSUME a < m PROVE T[m] # << >>
    OBVIOUS
  <2>2. m \in 1..m /\ m + l - 1 \in 1..n /\ m > a
    BY <1>2, <1>3, <2>1
  <2> QED
    BY <1>2, <1>4, <2>2, HexBack
<1>8. Last(T) = T[m]
  BY <1>1 DEF Last
<1> QED
  BY <1>1, <1>3, <1>5, <1>6, <1>7, <1>8

-----------------------------------------------------------------------------
(* Addresses that are written as they are read: fields and a run ahead.    *)

(* An address as it is written: B is its text, C the text without a colon  *)
(* that begins or ends it, T the tokens of that.                           *)
TokensGood(T, f) == T = HexOf(f) \/ \E a, l : Gapped(T, f, a, l)

WrittenAs(B, C, T, f) ==
  /\ B \in Seq(AddressChars) /\ C \in Seq(AddressChars)
  /\ T \in Seq(Short) /\ T # << >> /\ TokensGood(T, f) /\ Fields(C, {":"}) = T
  /\ \/ B = C /\ T[1] # << >> /\ (Len(f) = 8 => Last(T) # << >>)
     \/ B = <<":">> \o C /\ (C # << >> => Last(T) # << >>)
     \/ B = Append(C, ":") /\ T[1] # << >> /\ Len(f) = 8

Written(B, f) == \E C, T : WrittenAs(B, C, T, f)

LEMMA GoodRead ==
  ASSUME NEW f \in Seq(Word), NEW T, TokensGood(T, f)
  PROVE  FieldsRead(T, Len(f)) = f
BY AllRead, GappedRead DEF TokensGood

LEMMA SliceNone ==
  ASSUME NEW C, NEW t \in Seq(C), NEW a \in Int, NEW b \in Int, a > b
  PROVE  SubSeq(t, a, b) = << >>
BY SubSeqEmpty

(* No run of zeros.                                                        *)
LEMMA FullWritten ==
  ASSUME NEW f \in Seq(Word), f # << >>, NEW z, z.at = Len(f) + 1, z.len \in Nat, z.len <= 1,
         Len(f) \in {6, 8}
  PROVE  Written(FieldsText(f, z), f)
<1>1. PICK n, R, T, B : /\ n = Len(f) /\ R = Rest(Coloned(f), 1) /\ T = HexOf(f)
                        /\ B = FieldsText(f, z)
  OBVIOUS
<1>2. R \in Seq(AddressChars) /\ Fields(R, {":"}) = T
  BY <1>1, RestFields DEF FirstFields
<1>3. n \in Nat /\ n \in {6, 8}
  BY <1>1, LenProperties
<1>4. /\ T \in Seq(Short) /\ Len(T) = n /\ \A k \in 1..n : T[k] # << >>
  BY <1>1, HexOfTyped
<1>5. T # << >> /\ T[1] # << >> /\ Last(T) # << >>
  <2>1. T # << >>
    <3>1. SUFFICES ASSUME T = << >> PROVE FALSE
      OBVIOUS
    <3>2. n = 0
      BY <1>4, <3>1, None
    <3> QED
      BY <1>3, <3>2
  <2>2. 1 \in 1..n /\ n \in 1..n
    BY <1>3
  <2> QED
    BY <1>4, <2>1, <2>2 DEF Last
<1>6. B = R
  <2>1. z.at - 1 = n /\ z.at # 1 /\ ~(z.at <= n)
    BY <1>1, <1>3
  <2>2. ~(z.at - 1 + z.len = 8 /\ z.len # 0)
    <3>1. PICK l : l = z.len
      OBVIOUS
    <3>2. l \in {0, 1} /\ z.at = n + 1
      BY <1>1, <3>1
    <3>3. ~((n + 1) - 1 + l = 8 /\ l # 0)
      BY <1>3, <3>2
    <3> QED
      BY <3>1, <3>2, <3>3
  <2>3. SubSeq(f, 1, n) = f
    <3>1. 1 \in 1..(Len(f) + 1) /\ n \in (1 - 1)..Len(f)
      BY <1>1, <1>3
    <3>2. /\ SubSeq(f, 1, n) \in Seq(Word) /\ Len(SubSeq(f, 1, n)) = n - 1 + 1
          /\ \A i \in 1..(n - 1 + 1) : SubSeq(f, 1, n)[i] = f[i + 1 - 1]
      BY <3>1, SliceIs
    <3>3. n - 1 + 1 = n /\ \A i \in 1..n : i + 1 - 1 = i
      BY <1>3
    <3>4. \A i \in 1..n : SubSeq(f, 1, n)[i] = f[i]
      BY <3>2, <3>3
    <3> QED
      BY <1>1, <3>2, <3>3, <3>4, SeqEqual
  <2>4. SubSeq(f, z.at + z.len, n) = << >>
    <3>1. z.at + z.len \in Int /\ n \in Int /\ z.at + z.len > n
      BY <1>1, <1>3
    <3> QED
      BY <3>1, SliceNone
  <2>5. B = ((R \o << >>) \o << >>) \o << >>
    BY <1>1, <2>1, <2>2, <2>3, <2>4, NothingColoned DEF FieldsText
  <2>6. R \o << >> = R
    BY <1>2, ConcatEmptySeq
  <2> QED
    BY <2>5, <2>6
<1>7. WrittenAs(B, R, T, f)
  BY <1>1, <1>2, <1>4, <1>5, <1>6 DEF WrittenAs, TokensGood
<1> QED
  BY <1>1, <1>7 DEF Written

(* A run at the beginning.                                                 *)
LEMMA LeadWritten ==
  ASSUME NEW f \in Seq(Word), NEW z, z.at = 1, z.len \in Nat, z.len <= Len(f),
         \A k \in 1..z.len : f[k] = 0
  PROVE  Written(FieldsText(f, z), f)
<1>1. PICK n, l, pre, post, C, T, B :
        /\ n = Len(f) /\ l = z.len /\ pre = SubSeq(f, 1, 1 - 1) /\ post = SubSeq(f, 1 + l, n)
        /\ C = Coloned(post) /\ T = GapTokens(pre, post)
        /\ B = FieldsText(f, z)
  OBVIOUS
<1>2. n \in Nat /\ l \in Nat /\ 1 \in 1..(n + 1) /\ 1 + l <= n + 1 /\ 1 + l - 1 = l
  BY <1>1, LenProperties
<1>3. /\ Gapped(T, f, 1, l) /\ pre \in Seq(Word) /\ post \in Seq(Word)
      /\ Len(pre) = 1 - 1 /\ Len(post) = n - 1 - l + 1
  <2>1. \A k \in 1..(1 + l - 1) : f[k] = 0
    BY <1>1, <1>2
  <2>2. PICK a : a = 1
    OBVIOUS
  <2>3. /\ a \in 1..(Len(f) + 1) /\ a + l <= Len(f) + 1 /\ \A k \in a..(a + l - 1) : f[k] = 0
        /\ pre = SubSeq(f, 1, a - 1) /\ post = SubSeq(f, a + l, Len(f))
    BY <1>1, <1>2, <2>1, <2>2
  <2>4. GapFacts(f, a, l, pre, post, T)
    <3>1. T = GapTokens(pre, post) /\ ZerosAt(f, a, l)
      BY <1>1, <1>2, <2>3 DEF ZerosAt
    <3> QED
      BY <2>3, <3>1, GapMade
  <2> QED
    BY <1>1, <2>2, <2>4 DEF GapFacts
<1>4. pre = << >>
  BY <1>3, EmptySeq
<1>5. C \in Seq(AddressChars) /\ ":" \in AddressChars
  BY <1>1, <1>3, ColonedTyped DEF AddressChars
<1>6. T = << << >> >> \o HexOf(post)
  <2>1. HexOf(pre) = << >>
    BY <1>4, NothingColoned
  <2>2. Append(<< >>, << >>) = << << >> >>
    OBVIOUS
  <2> QED
    BY <1>1, <2>1, <2>2 DEF GapTokens
<1>7. Fields(C, {":"}) = T
  <2>1. PICK e : e = << >>
    OBVIOUS
  <2>2. e \in Seq(AddressChars) /\ Fields(e, {":"}) = << << >> >>
    BY <2>1, None, FieldsOfNone
  <2>3. FieldsColoned(e, post)
    BY <1>3, <2>2, ColonedFields
  <2>4. e \o C = C
    BY <1>5, <2>1, ConcatEmptySeq
  <2> QED
    BY <1>1, <1>6, <2>2, <2>3, <2>4 DEF FieldsColoned
<1>8. T # << >> /\ T \in Seq(Short) /\ (1 < Len(T) => Last(T) # << >>)
  BY <1>3, GappedEnds
<1>9. C # << >> => Last(T) # << >>
  <2>1. SUFFICES ASSUME C # << >> PROVE Last(T) # << >>
    OBVIOUS
  <2>2. post # << >>
    BY <1>1, <2>1, NothingColoned
  <2>3. Len(post) # 0
    BY <1>3, <2>2, EmptySeq
  <2>4. Len(T) = n - l + 1
    BY <1>1, <1>3 DEF Gapped
  <2>5. 1 < Len(T)
    BY <1>2, <1>3, <2>3, <2>4
  <2> QED
    BY <1>8, <2>5
<1>10. B = <<":">> \o C
  BY <1>1 DEF FieldsText
<1>11. B \in Seq(AddressChars)
  BY <1>5, <1>10, StartsOne
<1>12. WrittenAs(B, C, T, f)
  BY <1>3, <1>5, <1>7, <1>8, <1>9, <1>10, <1>11 DEF WrittenAs, TokensGood
<1> QED
  BY <1>1, <1>12 DEF Written

-----------------------------------------------------------------------------
(* A run behind other fields.                                              *)

BehindFacts(f, a, l, R, C, P, T) ==
  /\ Gapped(T, f, a, l) /\ C \in Seq(AddressChars) /\ R \in Seq(AddressChars)
  /\ C = R \o <<":">> /\ Fields(C, {":"}) = Append(HexOf(SubSeq(f, 1, a - 1)), << >>)
  /\ P = Coloned(SubSeq(f, a + l, Len(f))) /\ P \in Seq(AddressChars)
  /\ Fields(C \o P, {":"}) = T
  /\ T = GapTokens(SubSeq(f, 1, a - 1), SubSeq(f, a + l, Len(f)))
  /\ Len(SubSeq(f, a + l, Len(f))) = Len(f) - a - l + 1

LEMMA BehindIs ==
  ASSUME NEW f \in Seq(Word), NEW a, NEW l, ZerosAt(f, a, l), a > 1,
         NEW R, R = Rest(Coloned(SubSeq(f, 1, a - 1)), 1),
         NEW C, C = R \o <<":">>, NEW P, P = Coloned(SubSeq(f, a + l, Len(f))),
         NEW T, T = GapTokens(SubSeq(f, 1, a - 1), SubSeq(f, a + l, Len(f)))
  PROVE  BehindFacts(f, a, l, R, C, P, T)
<1>1. PICK pre, post : pre = SubSeq(f, 1, a - 1) /\ post = SubSeq(f, a + l, Len(f))
  OBVIOUS
<1>2. GapFacts(f, a, l, pre, post, T)
  BY <1>1, GapMade
<1>3. /\ Gapped(T, f, a, l) /\ pre \in Seq(Word) /\ post \in Seq(Word)
      /\ Len(pre) = a - 1 /\ Len(post) = Len(f) - a - l + 1
  BY <1>2 DEF GapFacts
<1>4. pre # << >>
  <2>1. SUFFICES ASSUME pre = << >> PROVE FALSE
    OBVIOUS
  <2>2. Len(pre) = 0
    BY <2>1, None
  <2>3. a \in Nat /\ a > 1
    BY LenProperties DEF ZerosAt
  <2> QED
    BY <1>3, <2>2, <2>3
<1>5. R \in Seq(AddressChars) /\ Fields(R, {":"}) = HexOf(pre) /\ ":" \in AddressChars
  BY <1>1, <1>3, <1>4, RestFields DEF FirstFields, AddressChars
<1>6. C = Append(R, ":") /\ C \in Seq(AddressChars)
  BY <1>5, AppendProperties, AppendIsConcat
<1>7. Fields(C, {":"}) = Append(HexOf(pre), << >>)
  <2>1. Fields(C, {":"}) = Further(HexOf(pre), ":", {":"})
    BY <1>5, <1>6, FieldsFurther
  <2> QED
    BY <2>1 DEF Further
<1>8. P \in Seq(AddressChars)
  BY <1>1, <1>3, ColonedTyped
<1>9. Fields(C \o P, {":"}) = T
  <2>1. FieldsColoned(C, post)
    BY <1>3, <1>6, ColonedFields
  <2> QED
    BY <1>1, <1>7, <2>1 DEF FieldsColoned, GapTokens
<1> QED
  BY <1>1, <1>3, <1>5, <1>6, <1>7, <1>8, <1>9 DEF BehindFacts

LEMMA BehindWritten ==
  ASSUME NEW f \in Seq(Word), NEW z, ZerosAt(f, z.at, z.len), z.at > 1, z.len >= 1,
         Len(f) \in {6, 8}
  PROVE  Written(FieldsText(f, z), f)
<1>1. PICK n, a, l, R, C, P, T, B :
        /\ n = Len(f) /\ a = z.at /\ l = z.len
        /\ R = Rest(Coloned(SubSeq(f, 1, a - 1)), 1) /\ C = R \o <<":">>
        /\ P = Coloned(SubSeq(f, a + l, Len(f)))
        /\ T = GapTokens(SubSeq(f, 1, a - 1), SubSeq(f, a + l, Len(f)))
        /\ B = FieldsText(f, z)
  OBVIOUS
<1>2. /\ n \in {6, 8} /\ a \in Nat /\ a > 1 /\ l \in Nat /\ l >= 1 /\ a + l <= n + 1
  BY <1>1 DEF ZerosAt
<1>3. BehindFacts(f, a, l, R, C, P, T)
  BY <1>1, <1>2, BehindIs
<1>4. /\ Gapped(T, f, a, l) /\ C \in Seq(AddressChars) /\ R \in Seq(AddressChars)
      /\ Fields(C, {":"}) = Append(HexOf(SubSeq(f, 1, a - 1)), << >>)
      /\ P \in Seq(AddressChars) /\ Fields(C \o P, {":"}) = T
      /\ Len(SubSeq(f, a + l, Len(f))) = n - a - l + 1
  BY <1>1, <1>3 DEF BehindFacts
<1>5. T # << >> /\ T \in Seq(Short) /\ T[1] # << >> /\ (a < Len(T) => Last(T) # << >>)
  BY <1>2, <1>4, GappedEnds
<1>6. Len(T) = n - l + 1
  BY <1>1, <1>4 DEF Gapped
<1>7. TokensGood(T, f)
  BY <1>4 DEF TokensGood
<1>8. a # 1 /\ a <= n /\ l # 0
  BY <1>2
<1>9. B = (C \o (IF a - 1 + l = 8 THEN <<":">> ELSE << >>)) \o P
  BY <1>1, <1>8 DEF FieldsText
<1>10. CASE a - 1 + l # 8
  <2>1. B = C \o P
    BY <1>4, <1>9, <1>10, ConcatEmptySeq
  <2>2. B \in Seq(AddressChars)
    BY <1>4, <2>1, ConcatProperties
  <2>3. n = 8 => Last(T) # << >>
    <3>1. SUFFICES ASSUME n = 8 PROVE a < Len(T)
      BY <1>5
    <3> QED
      BY <1>2, <1>6, <1>10, <3>1
  <2>4. WrittenAs(B, B, T, f)
    BY <1>1, <1>4, <1>5, <1>7, <2>1, <2>2, <2>3 DEF WrittenAs
  <2> QED
    BY <1>1, <2>4 DEF Written
<1>11. CASE a - 1 + l = 8
  <2>1. n = 8 /\ n - a - l + 1 = 0
    BY <1>2, <1>11
  <2>2. SubSeq(f, a + l, Len(f)) = << >>
    <3>1. a + l \in Int /\ n \in Int /\ a + l > n
      BY <1>2, <1>11, <2>1
    <3> QED
      BY <1>1, <3>1, SliceNone
  <2>3. P = << >>
    BY <1>1, <2>2, NothingColoned
  <2>4. ":" \in AddressChars
    BY DEF AddressChars
  <2>5. C \o <<":">> = Append(C, ":") /\ Append(C, ":") \in Seq(AddressChars)
    BY <1>4, <2>4, AppendProperties, AppendIsConcat
  <2>6. B = Append(C, ":") /\ B \in Seq(AddressChars)
    <3>1. B = (C \o <<":">>) \o << >>
      BY <1>9, <1>11, <2>3
    <3> QED
      BY <2>5, <3>1, ConcatEmptySeq
  <2>7. C \o P = C
    BY <1>4, <2>3, ConcatEmptySeq
  <2>8. WrittenAs(B, C, T, f)
    BY <1>1, <1>4, <1>5, <1>7, <2>1, <2>6, <2>7 DEF WrittenAs
  <2> QED
    BY <1>1, <2>8 DEF Written
<1> QED
  BY <1>10, <1>11

(* Every address.                                                          *)
LEMMA ShortWritten ==
  ASSUME NEW f \in Seq(Word), Len(f) \in {6, 8}
  PROVE  Written(ShortAddress(f), f)
<1>1. PICK z : z = ZeroRun(f)
  OBVIOUS
<1>2. f # << >>
  <2>1. SUFFICES ASSUME f = << >> PROVE FALSE
    OBVIOUS
  <2>2. Len(f) = 0
    BY <2>1, None
  <2> QED
    BY <2>2
<1>3. RunOf(f, z)
  BY <1>1, <1>2, ZeroRunIs
<1>4. CASE z.at = Len(f) + 1 /\ z.len <= 1
  BY <1>1, <1>2, <1>3, <1>4, FullWritten DEF RunOf, ShortAddress
<1>5. CASE /\ z.len >= 2 /\ z.at + z.len <= Len(f) + 1
           /\ \A j \in z.at..(z.at + z.len - 1) : f[j] = 0
  <2>1. ZerosAt(f, z.at, z.len)
    BY <1>3, <1>5 DEF RunOf, ZerosAt
  <2>2. z.at \in Nat /\ z.at >= 1 /\ z.len \in Nat
    BY <1>3 DEF RunOf
  <2>3. CASE z.at = 1
    <3>1. z.len <= Len(f) /\ \A k \in 1..z.len : f[k] = 0
      BY <1>5, <2>2, <2>3
    <3> QED
      BY <1>1, <2>2, <2>3, <3>1, LeadWritten DEF ShortAddress
  <2>4. CASE z.at > 1
    BY <1>1, <1>5, <2>1, <2>2, <2>4, BehindWritten DEF ShortAddress
  <2> QED
    BY <2>2, <2>3, <2>4
<1> QED
  BY <1>3, <1>4, <1>5 DEF RunOf

-----------------------------------------------------------------------------
(* All that normalize_IPv6 writes of eight fields is read again as them.   *)

LEMMA ShortIsText ==
  /\ Short \subseteq Seq(HexSet) /\ Short \subseteq Seq(AddressChars)
  /\ HexSet \subseteq AddressChars /\ ":" \in AddressChars /\ << >> \in Short
<1>1. HexSet \subseteq AddressChars /\ ":" \in AddressChars
  BY DEF AddressChars
<1>2. Seq(HexSet) \subseteq Seq(AddressChars)
  BY <1>1, SeqMonotonic
<1>3. << >> \in Short
  BY None DEF Short
<1> QED
  BY <1>1, <1>2, <1>3 DEF Short

(* The fields of the whole text of an address.                             *)
LEMMA WrittenFields ==
  ASSUME NEW B, NEW C, NEW T, NEW f, WrittenAs(B, C, T, f)
  PROVE  Fields(B, {":"}) \in Seq(Short) /\ Fields(B, {":"}) # << >>
<1>1. /\ B \in Seq(AddressChars) /\ C \in Seq(AddressChars)
      /\ T \in Seq(Short) /\ T # << >> /\ Fields(C, {":"}) = T
  BY DEF WrittenAs
<1>2. Fields(B, {":"}) # << >>
  BY <1>1, FieldsTyped DEF Pieces
<1>3. CASE B = C
  BY <1>1, <1>2, <1>3
<1>4. CASE B = <<":">> \o C
  <2>1. PICK e, g : e = << >> /\ g = ":"
    OBVIOUS
  <2>2. e \in Seq(AddressChars) /\ Fields(e, {":"}) = << << >> >> /\ g \in AddressChars
    BY <2>1, None, FieldsOfNone, ShortIsText
  <2>3. FieldsApart(e, g, C, {":"})
    BY <1>1, <2>1, <2>2, FieldsConcat
  <2>4. e \o (<<g>> \o C) = B
    BY <1>1, <1>4, <2>1, ConcatEmptySeq
  <2>5. Fields(B, {":"}) = << << >> >> \o T
    BY <1>1, <2>2, <2>3, <2>4 DEF FieldsApart
  <2>6. << << >> >> \o T \in Seq(Short)
    BY <1>1, ShortIsText, StartsOne
  <2> QED
    BY <1>2, <2>5, <2>6
<1>5. CASE B = Append(C, ":")
  <2>1. Fields(B, {":"}) = Append(T, << >>)
    <3>1. Fields(B, {":"}) = Further(T, ":", {":"})
      BY <1>1, <1>5, FieldsFurther, ShortIsText
    <3> QED
      BY <3>1 DEF Further
  <2>2. Append(T, << >>) \in Seq(Short)
    BY <1>1, ShortIsText, AppendProperties
  <2> QED
    BY <1>2, <2>1, <2>2
<1> QED
  BY <1>3, <1>4, <1>5 DEF WrittenAs

(* An address without an IPv4 part is read as it was.                      *)
LEMMA PlainBack ==
  ASSUME NEW f \in Seq(Word), Len(f) = 8, NEW B, Written(B, f), Len(B) >= 2
  PROVE  Address(B) = f /\ IPv4Part(B) = << >>
<1>1. PICK C, T : WrittenAs(B, C, T, f)
  BY DEF Written
<1>2. /\ B \in Seq(AddressChars) /\ C \in Seq(AddressChars)
      /\ T \in Seq(Short) /\ T # << >> /\ TokensGood(T, f) /\ Fields(C, {":"}) = T
      /\ ":" \in AddressChars
  BY <1>1, ShortIsText DEF WrittenAs
<1>3. B \in Seq(HexSet \cup {":"})
  <2>1. Fields(B, {":"}) \in Seq(Seq(HexSet))
    BY <1>1, WrittenFields, ShortIsText, SeqMonotonic
  <2> QED
    BY <1>2, <2>1, FieldsOver
<1>4. IPv4Part(B) = << >>
  <2>1. "." \notin HexSet \cup {":"}
    BY DEF HexSet
  <2>2. "." \notin Range(B)
    BY <1>3, <2>1, InRange, ElementOfSeq
  <2> QED
    BY <2>2 DEF IPv4Part
<1>5. Core(B) = C
  <2>1. CASE B = C /\ T[1] # << >> /\ Last(T) # << >>
    BY <1>2, <2>1, FieldsBegin, FieldsEnd, CoreWhole
  <2>2. CASE B = <<":">> \o C /\ (C # << >> => Last(T) # << >>)
    <3>1. C # << >>
      <4>1. SUFFICES ASSUME C = << >> PROVE FALSE
        OBVIOUS
      <4>2. PICK s : s = <<":">>
        OBVIOUS
      <4>3. s \in Seq(AddressChars) /\ Len(s) = 1
        BY <1>2, <4>2, One
      <4>4. B = s
        BY <2>2, <4>1, <4>2, <4>3, ConcatEmptySeq
      <4>5. Len(B) = 1
        BY <4>3, <4>4
      <4> QED
        BY <4>5
    <3>2. Last(T) # << >>
      BY <2>2, <3>1
    <3>3. Last(C) # ":"
      BY <1>2, <3>2, FieldsEnd
    <3> QED
      BY <1>2, <2>2, <3>1, <3>3, CoreBehind
  <2>3. CASE B = Append(C, ":") /\ T[1] # << >>
    <3>1. C # << >> /\ ~Starts(C, ":")
      BY <1>2, <2>3, FieldsBegin
    <3> QED
      BY <1>2, <2>3, <3>1, CoreBefore
  <2> QED
    BY <1>1, <2>1, <2>2, <2>3 DEF WrittenAs
<1>6. Tokens(B) = T
  BY <1>2, <1>4, <1>5 DEF Tokens
<1>7. Address(B) = FieldsRead(T, 8)
  BY <1>4, <1>6, AddressIs
<1>8. FieldsRead(T, 8) = f
  BY <1>2, GoodRead
<1> QED
  BY <1>4, <1>7, <1>8

(* Nor does an IPv4 part change what is before it.                         *)
DottedRead(n, f, p) == Address(n) = f /\ IPv4Part(n) = p /\ n \in Seq(AddressChars)

LEMMA DottedBack ==
  ASSUME NEW f \in Seq(Word), Len(f) = 6, NEW B, Written(B, f),
         NEW p \in Seq(AddressChars \ {":"}), "." \in Range(p),
         NEW q, q = <<":">> \o p, NEW n, n = B \o q
  PROVE  DottedRead(n, f, p)
<1>1. PICK C, T : WrittenAs(B, C, T, f)
  BY DEF Written
<1>2. /\ B \in Seq(AddressChars) /\ C \in Seq(AddressChars)
      /\ T \in Seq(Short) /\ T # << >> /\ TokensGood(T, f) /\ Fields(C, {":"}) = T
      /\ ":" \in AddressChars
  BY <1>1, ShortIsText DEF WrittenAs
<1>3. PICK b : q = <<":">> \o p /\ b = Fields(B, {":"})
  OBVIOUS
<1>4. p \in Seq(AddressChars) /\ q \in Seq(AddressChars) /\ p # << >>
  <2>1. p \in Seq(AddressChars)
    BY SeqMonotonic
  <2>2. p # << >>
    <3>1. SUFFICES ASSUME p = << >> PROVE FALSE
      OBVIOUS
    <3>2. Len(p) = 0
      BY <3>1, None
    <3>3. \E i \in 1..Len(p) : p[i] = "."
      BY <2>1, InRange
    <3> QED
      BY <3>2, <3>3
  <2> QED
    BY <1>2, <1>3, <2>1, <2>2, StartsOne
<1>5. Fields(p, {":"}) = <<p>>
  BY FieldsPlain
<1>6. \A u \in Seq(AddressChars), g \in Seq(Seq(AddressChars)) :
        Fields(u, {":"}) = g => Fields(u \o q, {":"}) = Append(g, p)
  <2>1. TAKE u \in Seq(AddressChars), g \in Seq(Seq(AddressChars))
  <2>2. HAVE Fields(u, {":"}) = g
  <2>3. FieldsApart(u, ":", p, {":"})
    BY <1>2, <1>4, FieldsConcat
  <2>4. Fields(u \o q, {":"}) = g \o <<p>>
    BY <1>3, <1>5, <2>2, <2>3 DEF FieldsApart
  <2>5. g \o <<p>> = Append(g, p)
    BY <1>4, AppendIsConcat
  <2> QED
    BY <2>4, <2>5
<1>7. b \in Seq(Seq(AddressChars)) /\ T \in Seq(Seq(AddressChars)) /\ b # << >>
  BY <1>1, <1>2, <1>3, WrittenFields, ShortIsText, SeqMonotonic
<1>8. n \in Seq(AddressChars) /\ n = B \o q
  BY <1>2, <1>3, <1>4, ConcatProperties
<1>9. Fields(n, {":"}) = Append(b, p)
  BY <1>2, <1>3, <1>6, <1>7, <1>8
<1>10. IPv4Part(n) = p
  <2>1. "." \in Range(n)
    <3>1. PICK i \in 1..Len(p) : p[i] = "."
      BY <1>4, InRange
    <3>2. PICK w : w = B \o <<":">>
      OBVIOUS
    <3>3. w \in Seq(AddressChars) /\ n = w \o p
      <4>1. PICK s : s = <<":">>
        OBVIOUS
      <4>2. s \in Seq(AddressChars)
        BY <1>2, <4>1, One
      <4>3. Regrouped(B, s, p)
        BY <1>2, <1>4, <4>2, Regroup
      <4>4. (B \o s) \o p = B \o (s \o p)
        BY <4>3 DEF Regrouped
      <4> QED
        BY <1>2, <1>3, <1>8, <3>2, <4>1, <4>2, <4>4, ConcatProperties
    <3>4. PICK m, k : m = Len(w) /\ k = Len(p)
      OBVIOUS
    <3>5. m \in Nat /\ k \in Nat
      BY <1>4, <3>3, <3>4, LenProperties
    <3>6. /\ Len(w \o p) = m + k
          /\ \A j \in 1..(m + k) : (w \o p)[j] = IF j <= m THEN w[j] ELSE p[j - m]
      BY <1>4, <3>3, <3>4, ConcatProperties
    <3>7. m + i \in 1..(m + k) /\ ~(m + i <= m) /\ (m + i) - m = i
      BY <3>4, <3>5
    <3>8. n[m + i] = "." /\ m + i \in 1..Len(n)
      BY <3>1, <3>3, <3>6, <3>7
    <3> QED
      BY <1>8, <3>8, InRange
  <2>2. Last(Fields(n, {":"})) = p
    BY <1>4, <1>7, <1>9, FrontLast
  <2> QED
    BY <2>1, <2>2 DEF IPv4Part
<1>11. PICK t : t = Append(T, p)
  OBVIOUS
<1>12. t \in Seq(Seq(AddressChars)) /\ Front(t) = T /\ Last(t) = p /\ t[1] = T[1]
  <2>1. Front(t) = T /\ Last(t) = p /\ t \in Seq(Seq(AddressChars))
    BY <1>4, <1>7, <1>11, FrontLast, AppendProperties
  <2>2. Len(T) \in Nat /\ Len(T) # 0
    BY <1>2, LenProperties, EmptySeq
  <2>3. \A i \in 1..Len(T) : t[i] = T[i]
    BY <1>4, <1>7, <1>11, AppendProperties
  <2> QED
    BY <2>1, <2>2, <2>3
<1>13. Fields(Core(n), {":"}) = t
  <2>1. CASE B = C /\ T[1] # << >>
    <3>1. Fields(n, {":"}) = t
      BY <1>2, <1>3, <1>9, <1>11, <2>1
    <3>2. ~Starts(n, ":") /\ Last(n) # ":"
      BY <1>2, <1>4, <1>8, <1>12, <2>1, <3>1, FieldsBegin, FieldsEnd
    <3>3. Core(n) = n
      BY <1>8, <3>2, CoreWhole
    <3> QED
      BY <3>1, <3>3
  <2>2. CASE B = <<":">> \o C
    <3>1. PICK x, s : x = C \o q /\ s = <<":">>
      OBVIOUS
    <3>2. x \in Seq(AddressChars) /\ s \in Seq(AddressChars)
      BY <1>2, <1>4, <3>1, ConcatProperties, One
    <3>3. Fields(x, {":"}) = t
      BY <1>2, <1>6, <1>7, <1>11, <3>1
    <3>4. x # << >> /\ Last(x) # ":"
      BY <1>2, <1>4, <1>12, <3>2, <3>3, FieldsEnd
    <3>5. n = <<":">> \o x
      <4>1. Regrouped(s, C, q)
        BY <1>2, <1>4, <3>2, Regroup
      <4>2. (s \o C) \o q = s \o (C \o q)
        BY <4>1 DEF Regrouped
      <4> QED
        BY <1>8, <2>2, <3>1, <4>2
    <3>6. Core(n) = x
      BY <1>2, <3>2, <3>4, <3>5, CoreBehind
    <3> QED
      BY <3>3, <3>6
  <2> QED
    BY <1>1, <2>1, <2>2 DEF WrittenAs
<1>14. Tokens(n) = T
  BY <1>4, <1>10, <1>12, <1>13 DEF Tokens
<1>15. Address(n) = FieldsRead(T, 6)
  BY <1>4, <1>10, <1>14, AddressIs
<1>16. FieldsRead(T, 6) = f
  BY <1>2, GoodRead
<1> QED
  BY <1>8, <1>10, <1>15, <1>16 DEF DottedRead

-----------------------------------------------------------------------------
(* The tokens of a valid address, and those behind its first.              *)

LEMMA CoreOf ==
  ASSUME NEW C, NEW h \in Seq(C), Len(h) >= 2,
         NEW y, y = IF Starts(h, ":") THEN Rest(h, 1) ELSE h
  PROVE  /\ y \in Seq(C) /\ y # << >> /\ Last(y) = Last(h)
         /\ Core(h) = IF Last(h) = ":" THEN Front(y) ELSE y
<1>1. PICK n : n = Len(h)
  OBVIOUS
<1>2. n \in Nat /\ n >= 2
  BY <1>1, LenProperties
<1>3. SubSeq(h, 1, n) = h
  <2>1. 1 \in 1..(Len(h) + 1) /\ n \in (1 - 1)..Len(h)
    BY <1>1, <1>2
  <2>2. /\ SubSeq(h, 1, n) \in Seq(C) /\ Len(SubSeq(h, 1, n)) = n - 1 + 1
        /\ \A i \in 1..(n - 1 + 1) : SubSeq(h, 1, n)[i] = h[i + 1 - 1]
    BY <2>1, SliceIs
  <2>3. n - 1 + 1 = n /\ \A i \in 1..n : i + 1 - 1 = i
    BY <1>2
  <2>4. \A i \in 1..n : SubSeq(h, 1, n)[i] = h[i]
    BY <2>2, <2>3
  <2> QED
    BY <1>1, <2>2, <2>3, <2>4, SeqEqual
<1>4. CASE ~Starts(h, ":")
  <2>1. h # << >>
    <3>1. SUFFICES ASSUME h = << >> PROVE FALSE
      OBVIOUS
    <3>2. Len(h) = 0
      BY <3>1, None
    <3> QED
      BY <1>1, <1>2, <3>2
  <2>2. Front(h) = SubSeq(h, 1, Len(h) - 1)
    BY DEF Front
  <2> QED
    BY <1>1, <1>3, <1>4, <2>1, <2>2 DEF Core
<1>5. CASE Starts(h, ":")
  <2>1. y = SubSeq(h, 2, n)
    <3>1. 1 + 1 = 2
      OBVIOUS
    <3> QED
      BY <1>1, <1>5, <3>1, Zenon DEF Rest
  <2>2. /\ y \in Seq(C) /\ Len(y) = n - 1
        /\ \A i \in 1..(n - 1) : y[i] = h[i + 1]
    <3>1. 2 \in 1..(Len(h) + 1) /\ n \in (2 - 1)..Len(h)
      BY <1>1, <1>2
    <3>2. /\ SubSeq(h, 2, n) \in Seq(C) /\ Len(SubSeq(h, 2, n)) = n - 2 + 1
          /\ \A i \in 1..(n - 2 + 1) : SubSeq(h, 2, n)[i] = h[i + 2 - 1]
      BY <3>1, SliceIs
    <3>3. n - 2 + 1 = n - 1 /\ \A i \in 1..(n - 1) : i + 2 - 1 = i + 1
      BY <1>2
    <3> QED
      BY <2>1, <3>2, <3>3
  <2>3. y # << >>
    <3>1. SUFFICES ASSUME y = << >> PROVE FALSE
      OBVIOUS
    <3>2. Len(y) = 0
      BY <3>1, None
    <3> QED
      BY <1>2, <2>2, <3>2
  <2>4. Last(y) = Last(h)
    <3>1. n - 1 \in 1..(n - 1) /\ (n - 1) + 1 = n
      BY <1>2
    <3>2. y[n - 1] = h[n]
      BY <2>2, <3>1
    <3> QED
      BY <1>1, <2>2, <3>2 DEF Last
  <2>5. Front(y) = SubSeq(h, 2, n - 1)
    <3>1. PICK u, v, m : u = SubSeq(y, 1, m) /\ v = SubSeq(h, 2, n - 1) /\ m = n - 2
      OBVIOUS
    <3>2. u \in Seq(C) /\ Len(u) = m /\ \A i \in 1..m : u[i] = y[i]
      <4>1. 1 \in 1..(Len(y) + 1) /\ m \in (1 - 1)..Len(y)
        BY <1>2, <2>2, <3>1
      <4>2. /\ SubSeq(y, 1, m) \in Seq(C) /\ Len(SubSeq(y, 1, m)) = m - 1 + 1
            /\ \A i \in 1..(m - 1 + 1) : SubSeq(y, 1, m)[i] = y[i + 1 - 1]
        BY <2>2, <4>1, SliceIs
      <4>3. m - 1 + 1 = m /\ \A i \in 1..m : i + 1 - 1 = i
        BY <1>2, <3>1
      <4> QED
        BY <3>1, <4>2, <4>3
    <3>3. v \in Seq(C) /\ Len(v) = m /\ \A i \in 1..m : v[i] = h[i + 1]
      <4>1. 2 \in 1..(Len(h) + 1) /\ n - 1 \in (2 - 1)..Len(h)
        BY <1>1, <1>2
      <4>2. /\ SubSeq(h, 2, n - 1) \in Seq(C) /\ Len(SubSeq(h, 2, n - 1)) = (n - 1) - 2 + 1
            /\ \A i \in 1..((n - 1) - 2 + 1) : SubSeq(h, 2, n - 1)[i] = h[i + 2 - 1]
        BY <4>1, SliceIs
      <4>3. (n - 1) - 2 + 1 = m /\ \A i \in 1..m : i + 2 - 1 = i + 1
        BY <1>2, <3>1
      <4> QED
        BY <3>1, <4>2, <4>3
    <3>4. \A i \in 1..m : u[i] = v[i]
      <4>1. \A i \in 1..m : i \in 1..(n - 1)
        BY <1>2, <3>1
      <4> QED
        BY <2>2, <3>2, <3>3, <4>1
    <3>5. u = v
      BY <3>2, <3>3, <3>4, SeqEqual
    <3>6. Len(y) - 1 = m
      BY <1>2, <2>2, <3>1
    <3> QED
      BY <3>1, <3>5, <3>6 DEF Front
  <2> QED
    BY <1>1, <1>5, <2>1, <2>2, <2>3, <2>4, <2>5 DEF Core
<1> QED
  BY <1>4, <1>5

(* The fields of a text that is taken for an address.                      *)
FieldsFit(g) ==
  /\ g # << >> /\ g \in Seq(Seq(AddressChars)) /\ Front(g) \in Seq(Short)
  /\ \/ Last(g) \in Short
     \/ Last(g) \in Seq(AddressChars \ {":"}) /\ "." \in Range(Last(g))

LEMMA FitBehind ==
  ASSUME NEW g \in Seq(Seq(AddressChars)), g # << >>, NEW e, e = << >>,
         NEW w, w = <<e>> \o g
  PROVE  FieldsFit(w) <=> FieldsFit(g)
<1>1. PICK E, f, c : E = Seq(AddressChars) /\ f = Front(g) /\ c = Last(g)
  OBVIOUS
<1>2. f \in Seq(E) /\ c \in E /\ g = Append(f, c)
  BY <1>1, EndsIn
<1>3. e \in E /\ e \in Short
  BY <1>1, None, ShortIsText
<1>4. PICK d : d = <<e>> \o f
  OBVIOUS
<1>5. d \in Seq(E) /\ w \in Seq(E) /\ w # << >>
  BY <1>1, <1>2, <1>3, <1>4, StartsOne
<1>6. w = Append(d, c)
  <2>1. PICK s : s = <<e>>
    OBVIOUS
  <2>2. s \in Seq(E)
    BY <1>3, <2>1, One
  <2>3. Append(s \o f, c) = Longer(s, f, c)
    BY <1>2, <2>2, AppendLast
  <2> QED
    BY <1>2, <1>4, <2>1, <2>3 DEF Longer
<1>7. Front(w) = d /\ Last(w) = c
  BY <1>2, <1>5, <1>6, FrontLast
<1>8. d \in Seq(Short) <=> f \in Seq(Short)
  <2>1. f \in Seq(Short) => d \in Seq(Short)
    BY <1>3, <1>4, StartsOne
  <2>2. ASSUME d \in Seq(Short) PROVE f \in Seq(Short)
    <3>1. Rest(d, 1) = f
      BY <1>2, <1>3, <1>4, StartsOne
    <3>2. Rest(d, 1) \in Seq(Short)
      BY <2>2, PartsOfText
    <3> QED
      BY <3>1, <3>2
  <2> QED
    BY <2>1, <2>2
<1> QED
  BY <1>1, <1>5, <1>7, <1>8 DEF FieldsFit

-----------------------------------------------------------------------------
(* No token of a valid address is longer than four digits.                 *)

LEMMA ShortOfChars ==
  ASSUME NEW x \in Seq(AddressChars), Len(x) <= 4, is_chars(x, HexDigits)
  PROVE  x \in Short
<1>1. x \in Seq(HexSet)
  BY CharsSeq, HexDigitsAre
<1> QED
  BY <1>1 DEF Short

(* A text that begins with a colon, and what follows it.                   *)
LEMMA ColonBefore ==
  ASSUME NEW h \in Seq(AddressChars), Starts(h, ":")
  PROVE  /\ Rest(h, 1) \in Seq(AddressChars) /\ h = <<":">> \o Rest(h, 1)
         /\ Fields(h, {":"}) = << << >> >> \o Fields(Rest(h, 1), {":"})
         /\ Fields(Rest(h, 1), {":"}) \in Seq(Seq(AddressChars))
         /\ Fields(Rest(h, 1), {":"}) # << >>
<1>1. PICK x, e, g : x = Rest(h, 1) /\ e = << >> /\ g = ":"
  OBVIOUS
<1>2. x \in Seq(AddressChars) /\ h = <<":">> \o x /\ ":" \in AddressChars
  BY <1>1, StartSplit
<1>3. e \in Seq(AddressChars) /\ Fields(e, {":"}) = << << >> >> /\ g \in AddressChars
  BY <1>1, <1>2, None, FieldsOfNone
<1>4. FieldsApart(e, g, x, {":"})
  BY <1>1, <1>2, <1>3, FieldsConcat
<1>5. e \o (<<g>> \o x) = h
  BY <1>1, <1>2, ConcatEmptySeq
<1>6. Fields(h, {":"}) = << << >> >> \o Fields(x, {":"})
  BY <1>3, <1>4, <1>5 DEF FieldsApart
<1>7. Fields(x, {":"}) \in Seq(Seq(AddressChars)) /\ Fields(x, {":"}) # << >>
  <2>1. Fields(x, {":"}) \in Seq(Seq(AddressChars \ {":"})) /\ Fields(x, {":"}) # << >>
    BY <1>2, FieldsTyped DEF Pieces
  <2>2. Seq(AddressChars \ {":"}) \subseteq Seq(AddressChars)
    BY SeqMonotonic
  <2> QED
    BY <2>1, <2>2, SeqMonotonic
<1> QED
  BY <1>1, <1>2, <1>6, <1>7

LEMMA ValidFits ==
  ASSUME NEW h \in Seq(AddressChars), is_valid_ipv6(h)
  PROVE  FieldsFit(Fields(h, {":"}))
<1>1. PICK all, x, tail : /\ x = IF Starts(h, ":") THEN Rest(h, 2) ELSE h
                          /\ all = Fields(x, {":"}) /\ tail = Last(all)
  OBVIOUS
<1>2. /\ Len(h) \in 2..39
      /\ Starts(h, ":") => h[2] = ":"
      /\ \A k \in 1..(Len(all) - 1) : Len(all[k]) <= 4 /\ is_chars(all[k], HexDigits)
      /\ \/ Starts(h, ":") /\ Len(h) = 2
         \/ Contains(tail, ".")
         \/ Len(tail) <= 4 /\ is_chars(tail, HexDigits)
         \/ tail = << >>
  BY <1>1 DEF is_valid_ipv6
<1>3. PICK y : y = Rest(h, 1)
  OBVIOUS
<1>4. Starts(h, ":") => /\ y \in Seq(AddressChars) /\ Starts(y, ":") /\ Rest(y, 1) = x
                        /\ Len(h) = Len(x) + 2
  <2>1. SUFFICES ASSUME Starts(h, ":")
                 PROVE  /\ y \in Seq(AddressChars) /\ Starts(y, ":") /\ Rest(y, 1) = x
                        /\ Len(h) = Len(x) + 2
    OBVIOUS
  <2>2. PICK n : n = Len(h)
    OBVIOUS
  <2>3. n \in Nat /\ n >= 2
    BY <1>2, <2>2
  <2>4. /\ y \in Seq(AddressChars) /\ Len(y) = n - 1
        /\ \A i \in 1..(n - 1) : y[i] = h[i + 1]
    <3>1. y = SubSeq(h, 2, n)
      <4>1. 1 + 1 = 2
        OBVIOUS
      <4> QED
        BY <1>3, <2>2, <4>1, Zenon DEF Rest
    <3>2. 2 \in 1..(Len(h) + 1) /\ n \in (2 - 1)..Len(h)
      BY <2>2, <2>3
    <3>3. /\ SubSeq(h, 2, n) \in Seq(AddressChars) /\ Len(SubSeq(h, 2, n)) = n - 2 + 1
          /\ \A i \in 1..(n - 2 + 1) : SubSeq(h, 2, n)[i] = h[i + 2 - 1]
      BY <3>2, SliceIs
    <3>4. n - 2 + 1 = n - 1 /\ \A i \in 1..(n - 1) : i + 2 - 1 = i + 1
      BY <2>3
    <3> QED
      BY <3>1, <3>3, <3>4
  <2>5. y[1] = ":" /\ y # << >>
    <3>1. 1 \in 1..(n - 1) /\ 1 + 1 = 2 /\ n - 1 # 0
      BY <2>3
    <3>2. y[1] = ":"
      BY <1>2, <2>1, <2>4, <3>1
    <3>3. y # << >>
      BY <2>4, <3>1, None
    <3> QED
      BY <3>2, <3>3
  <2>6. Starts(y, ":")
    BY <2>4, <2>5, StartsIs
  <2>7. PICK a, b : a = SubSeq(y, 2, n - 1) /\ b = SubSeq(h, 3, n)
    OBVIOUS
  <2>8. Rest(y, 1) = a /\ x = b
    <3>1. 1 + 1 = 2 /\ 2 + 1 = 3
      OBVIOUS
    <3>2. Rest(y, 1) = a
      BY <2>4, <2>7, <3>1, Zenon DEF Rest
    <3>3. x = b
      BY <1>1, <2>1, <2>2, <2>7, <3>1, Zenon DEF Rest
    <3> QED
      BY <3>2, <3>3
  <2>9. a \in Seq(AddressChars) /\ Len(a) = n - 2 /\ \A i \in 1..(n - 2) : a[i] = y[i + 1]
    <3>1. 2 \in 1..(Len(y) + 1) /\ n - 1 \in (2 - 1)..Len(y)
      BY <2>3, <2>4
    <3>2. /\ SubSeq(y, 2, n - 1) \in Seq(AddressChars)
          /\ Len(SubSeq(y, 2, n - 1)) = (n - 1) - 2 + 1
          /\ \A i \in 1..((n - 1) - 2 + 1) : SubSeq(y, 2, n - 1)[i] = y[i + 2 - 1]
      BY <2>4, <3>1, SliceIs
    <3>3. (n - 1) - 2 + 1 = n - 2 /\ \A i \in 1..(n - 2) : i + 2 - 1 = i + 1
      BY <2>3
    <3> QED
      BY <2>7, <3>2, <3>3
  <2>10. b \in Seq(AddressChars) /\ Len(b) = n - 2 /\ \A i \in 1..(n - 2) : b[i] = h[i + 2]
    <3>1. 3 \in 1..(Len(h) + 1) /\ n \in (3 - 1)..Len(h)
      BY <2>2, <2>3
    <3>2. /\ SubSeq(h, 3, n) \in Seq(AddressChars) /\ Len(SubSeq(h, 3, n)) = n - 3 + 1
          /\ \A i \in 1..(n - 3 + 1) : SubSeq(h, 3, n)[i] = h[i + 3 - 1]
      BY <3>1, SliceIs
    <3>3. n - 3 + 1 = n - 2 /\ \A i \in 1..(n - 2) : i + 3 - 1 = i + 2
      BY <2>3
    <3> QED
      BY <2>7, <3>2, <3>3
  <2>11. a = b
    <3>1. \A i \in 1..(n - 2) : i + 1 \in 1..(n - 1) /\ (i + 1) + 1 = i + 2
      BY <2>3
    <3>2. \A i \in 1..(n - 2) : a[i] = b[i]
      BY <2>4, <2>9, <2>10, <3>1
    <3> QED
      BY <2>9, <2>10, <3>2, SeqEqual
  <2> QED
    BY <2>2, <2>3, <2>4, <2>6, <2>8, <2>9, <2>11
<1>5. x \in Seq(AddressChars)
  BY <1>1, <1>4, PartsOfText
<1>6. PICK E : E = Seq(AddressChars)
  OBVIOUS
<1>7. all \in Seq(Seq(AddressChars \ {":"})) /\ all \in Seq(E) /\ all # << >>
  <2>1. all \in Seq(Seq(AddressChars \ {":"})) /\ all # << >>
    BY <1>1, <1>5, FieldsTyped DEF Pieces
  <2>2. Seq(AddressChars \ {":"}) \subseteq E
    BY <1>6, SeqMonotonic
  <2> QED
    BY <2>1, <2>2, SeqMonotonic
<1>8. tail \in Seq(AddressChars \ {":"}) /\ tail \in Seq(AddressChars)
  <2>1. tail \in Seq(AddressChars \ {":"})
    BY <1>1, <1>7, EndsIn
  <2> QED
    BY <2>1, SeqMonotonic
<1>9. Front(all) \in Seq(Short)
  <2>1. PICK f, c, m : f = Front(all) /\ c = Last(all) /\ m = Len(Front(all))
    OBVIOUS
  <2>2. f \in Seq(E) /\ c \in E /\ all = Append(f, c) /\ Len(all) = m + 1
    BY <1>7, <2>1, EndsIn
  <2>3. m \in Nat /\ DOMAIN f = 1..m /\ f = [i \in 1..m |-> f[i]]
    BY <2>1, <2>2, LenProperties
  <2>4. \A i \in 1..m : all[i] = f[i] /\ f[i] \in E
    BY <2>1, <2>2, AppendProperties, ElementOfSeq
  <2>5. \A i \in 1..m : f[i] \in Short
    <3>1. TAKE i \in 1..m
    <3>2. i \in 1..(Len(all) - 1)
      BY <2>2, <2>3
    <3>3. f[i] \in Seq(AddressChars) /\ Len(f[i]) <= 4 /\ is_chars(f[i], HexDigits)
      BY <1>2, <1>6, <2>4, <3>2
    <3> QED
      BY <3>3, ShortOfChars
  <2>6. f \in [1..m -> Short]
    BY <2>3, <2>5
  <2> QED
    BY <2>1, <2>3, <2>6, FunctionIsSeq
<1>10. tail \in Short \/ "." \in Range(tail)
  <2>1. CASE Starts(h, ":") /\ Len(h) = 2
    <3>1. Len(x) = 0
      BY <1>4, <1>5, <2>1, LenProperties
    <3>2. x = << >>
      BY <1>5, <3>1, EmptySeq
    <3>3. PICK e, w : e = << >> /\ w = << << >> >>
      OBVIOUS
    <3>4. e \in {e} /\ w = <<e>>
      BY <3>3
    <3>5. Len(w) = 1 /\ w[1] = e
      BY <3>4, One
    <3>6. all = w
      BY <1>1, <3>2, <3>3, FieldsOfNone
    <3>7. tail = << >>
      BY <1>1, <3>3, <3>5, <3>6 DEF Last
    <3> QED
      BY <3>7, ShortIsText
  <2>2. CASE Contains(tail, ".")
    <3>1. \E i \in 1..Len(tail) : tail[i] = "."
      BY <2>2 DEF Contains
    <3> QED
      BY <1>8, <3>1, InRange
  <2>3. CASE Len(tail) <= 4 /\ is_chars(tail, HexDigits)
    BY <1>8, <2>3, ShortOfChars
  <2>4. CASE tail = << >>
    BY <2>4, ShortIsText
  <2> QED
    BY <1>2, <2>1, <2>2, <2>3, <2>4
<1>11. FieldsFit(all)
  BY <1>1, <1>6, <1>7, <1>8, <1>9, <1>10 DEF FieldsFit
<1>12. CASE ~Starts(h, ":")
  BY <1>1, <1>11, <1>12
<1>13. CASE Starts(h, ":")
  <2>1. PICK e, g, w, v : /\ e = << >> /\ g = Fields(y, {":"}) /\ w = <<e>> \o all
                          /\ v = <<e>> \o g
    OBVIOUS
  <2>2. g = w
    BY <1>1, <1>4, <1>13, <2>1, ColonBefore
  <2>3. FieldsFit(w)
    BY <1>6, <1>7, <1>11, <2>1, FitBehind
  <2>4. g \in Seq(Seq(AddressChars)) /\ g # << >> /\ Fields(h, {":"}) = v
    BY <1>3, <1>13, <2>1, ColonBefore
  <2>5. FieldsFit(g)
    BY <2>2, <2>3
  <2>6. FieldsFit(v)
    BY <2>1, <2>4, <2>5, FitBehind
  <2> QED
    BY <2>4, <2>6
<1> QED
  BY <1>12, <1>13

-----------------------------------------------------------------------------
(* An IPv6 address in normal form stays as it is.                          *)

(* What is read of a text that is taken for an address: eight numbers, or  *)
(* six and an IPv4 address.                                                *)
AddressRead(h) ==
  /\ Address(h) \in Seq(Word)
  /\ \/ IPv4Part(h) = << >> /\ Len(Address(h)) = 8
     \/ /\ IPv4Part(h) \in Seq(AddressChars \ {":"}) /\ "." \in Range(IPv4Part(h))
        /\ IPv4Part(h) # << >> /\ Len(Address(h)) = 6

LEMMA FitRead ==
  ASSUME NEW h \in Seq(AddressChars), Len(h) >= 2, FieldsFit(Fields(h, {":"}))
  PROVE  AddressRead(h)
<1>1. PICK E, y, f, g :
        /\ E = Seq(AddressChars) /\ y = (IF Starts(h, ":") THEN Rest(h, 1) ELSE h)
        /\ f = Fields(h, {":"}) /\ g = Fields(y, {":"})
  OBVIOUS
<1>2. /\ y \in Seq(AddressChars) /\ y # << >> /\ Last(y) = Last(h)
      /\ Core(h) = IF Last(h) = ":" THEN Front(y) ELSE y
  BY <1>1, CoreOf
<1>3. ":" \in AddressChars
  BY DEF AddressChars
<1>4. /\ f # << >> /\ f \in Seq(E) /\ Front(f) \in Seq(Short)
      /\ \/ Last(f) \in Short
         \/ Last(f) \in Seq(AddressChars \ {":"}) /\ "." \in Range(Last(f))
  BY <1>1 DEF FieldsFit
<1>5. /\ g \in Seq(E) /\ g # << >> /\ FieldsFit(g) /\ Last(g) = Last(f)
  <2>1. CASE ~Starts(h, ":")
    BY <1>1, <1>4, <2>1
  <2>2. CASE Starts(h, ":")
    <3>1. PICK e : e = << >>
      OBVIOUS
    <3>2. g \in Seq(E) /\ g # << >> /\ f = <<e>> \o g
      BY <1>1, <2>2, <3>1, ColonBefore
    <3>3. FieldsFit(g)
      BY <1>1, <3>1, <3>2, FitBehind
    <3>4. Last(f) = Last(g)
      <4>1. PICK a, c, d : a = Front(g) /\ c = Last(g) /\ d = <<e>>
        OBVIOUS
      <4>2. a \in Seq(E) /\ c \in E /\ g = Append(a, c)
        BY <3>2, <4>1, EndsIn
      <4>3. e \in E
        BY <1>1, <3>1, None
      <4>4. d \in Seq(E)
        BY <4>1, <4>3, One
      <4>5. Append(d \o a, c) = Longer(d, a, c)
        BY <4>2, <4>4, AppendLast
      <4>6. d \o a \in Seq(E)
        BY <4>2, <4>4, ConcatProperties
      <4>7. Last(Append(d \o a, c)) = c
        BY <4>2, <4>6, FrontLast
      <4>8. f = Append(d \o a, c)
        BY <3>2, <4>1, <4>2, <4>5 DEF Longer
      <4> QED
        BY <4>1, <4>7, <4>8
    <3> QED
      BY <3>2, <3>3, <3>4
  <2> QED
    BY <2>1, <2>2
<1>6. Front(g) \in Seq(Short) /\ g = Append(Front(g), Last(g)) /\ Front(g) \in Seq(E)
  BY <1>1, <1>5, EndsIn DEF FieldsFit
<1>7. f = Append(Front(f), Last(f)) /\ Front(f) \in Seq(E)
  BY <1>1, <1>4, EndsIn
<1>8. CASE Last(f) \in Short
  <2>1. f \in Seq(Short) /\ g \in Seq(Short)
    <3>1. \A a \in Seq(Short), c \in Short : Append(a, c) \in Seq(Short)
      BY AppendProperties
    <3>2. f \in Seq(Short)
      BY <1>4, <1>7, <1>8, <3>1
    <3>3. g \in Seq(Short)
      BY <1>5, <1>6, <1>8, <3>1
    <3> QED
      BY <3>2, <3>3
  <2>2. h \in Seq(HexSet \cup {":"})
    <3>1. f \in Seq(Seq(HexSet))
      BY <2>1, ShortIsText, SeqMonotonic
    <3> QED
      BY <1>1, <1>3, <3>1, FieldsOver
  <2>3. IPv4Part(h) = << >>
    <3>1. "." \notin HexSet \cup {":"}
      BY DEF HexSet
    <3>2. "." \notin Range(h)
      BY <2>2, <3>1, InRange, ElementOfSeq
    <3> QED
      BY <3>2 DEF IPv4Part
  <2>4. Fields(Core(h), {":"}) \in Seq(Short)
    <3>1. CASE Last(h) # ":"
      BY <1>1, <1>2, <2>1, <3>1
    <3>2. CASE Last(h) = ":"
      <4>1. PICK z : z = Front(y)
        OBVIOUS
      <4>2. z \in Seq(AddressChars) /\ y = Append(z, ":")
        BY <1>2, <3>2, <4>1, EndsIn
      <4>3. Fields(y, {":"}) = Further(Fields(z, {":"}), ":", {":"})
        BY <1>3, <4>2, FieldsFurther
      <4>4. PICK v, e : v = Fields(z, {":"}) /\ e = << >>
        OBVIOUS
      <4>5. g = Append(v, e)
        BY <1>1, <4>3, <4>4 DEF Further
      <4>6. v \in Seq(Seq(AddressChars \ {":"})) /\ e \in Seq(AddressChars \ {":"})
        BY <4>2, <4>4, FieldsTyped, None DEF Pieces
      <4>7. Front(g) = v
        BY <4>5, <4>6, FrontLast
      <4> QED
        BY <1>2, <1>6, <3>2, <4>1, <4>4, <4>7
    <3> QED
      BY <3>1, <3>2
  <2>5. Tokens(h) \in Seq(Short)
    BY <2>3, <2>4 DEF Tokens
  <2>6. Address(h) = FieldsRead(Tokens(h), 8)
    BY <2>3, AddressIs
  <2>7. Address(h) \in Seq(Word) /\ Len(Address(h)) = 8
    BY <2>5, <2>6, FieldsReadTyped
  <2> QED
    BY <2>3, <2>7 DEF AddressRead
<1>9. CASE Last(f) \in Seq(AddressChars \ {":"}) /\ "." \in Range(Last(f))
  <2>1. PICK p : p = Last(f)
    OBVIOUS
  <2>2. p \in Seq(AddressChars \ {":"}) /\ "." \in Range(p) /\ p # << >>
    <3>1. p # << >>
      <4>1. SUFFICES ASSUME p = << >> PROVE FALSE
        OBVIOUS
      <4>2. Len(p) = 0
        BY <4>1, None
      <4>3. \E i \in 1..Len(p) : p[i] = "."
        BY <1>9, <2>1, InRange
      <4> QED
        BY <4>2, <4>3
    <3> QED
      BY <1>9, <2>1, <3>1
  <2>3. "." \in Range(h)
    <3>1. SUFFICES ASSUME "." \notin Range(h) PROVE FALSE
      OBVIOUS
    <3>2. PICK D : D = AddressChars \ {"."}
      OBVIOUS
    <3>3. h \in Seq(D)
      <4>1. \A i \in 1..Len(h) : h[i] # "." /\ h[i] \in AddressChars
        BY <3>1, InRange, ElementOfSeq
      <4>2. \A i \in 1..Len(h) : h[i] \in D
        BY <3>2, <4>1
      <4>3. Len(h) \in Nat /\ DOMAIN h = 1..Len(h)
        BY LenProperties
      <4>4. is_chars(h, D)
        BY <4>2, <4>3 DEF is_chars
      <4> QED
        BY <4>4, CharsSeq
    <3>4. f \in Seq(Seq(D \ {":"}))
      BY <1>1, <3>3, FieldsTyped DEF Pieces
    <3>5. p \in Seq(D \ {":"})
      BY <1>4, <2>1, <3>4, EndsIn
    <3>6. \E i \in 1..Len(p) : p[i] = "."
      BY <2>2, InRange
    <3> QED
      BY <3>2, <3>5, <3>6, ElementOfSeq
  <2>4. IPv4Part(h) = p
    BY <1>1, <2>1, <2>3 DEF IPv4Part
  <2>5. Last(h) # ":"
    BY <1>1, <1>3, <2>1, <2>2, FieldsEnd
  <2>6. Tokens(h) = Front(g)
    BY <1>1, <1>2, <2>2, <2>4, <2>5 DEF Tokens
  <2>7. Address(h) = FieldsRead(Tokens(h), 6)
    BY <2>2, <2>4, AddressIs
  <2>8. Address(h) \in Seq(Word) /\ Len(Address(h)) = 6
    BY <1>6, <2>6, <2>7, FieldsReadTyped
  <2> QED
    BY <2>2, <2>4, <2>8 DEF AddressRead
<1> QED
  BY <1>4, <1>8, <1>9

(* A valid address once written in short is written so again; what is      *)
(* written has the characters of an address.                               *)
THEOREM AddressStays ==
  ASSUME NEW h \in Seq(AddressChars), is_valid_ipv6(h)
  PROVE  /\ normalize_IPv6(h) \in Seq(AddressChars)
         /\ is_valid_ipv6(normalize_IPv6(h)) =>
              normalize_IPv6(normalize_IPv6(h)) = normalize_IPv6(h)
<1>1. CASE h = <<":", ":">>
  BY <1>1 DEF normalize_IPv6
<1>2. CASE h # <<":", ":">>
  <2>1. PICK f, p, B, n : /\ f = Address(h) /\ p = IPv4Part(h) /\ B = ShortAddress(f)
                          /\ n = B \o Prefixed(<<":">>, p)
    OBVIOUS
  <2>2. normalize_IPv6(h) = n
    BY <1>2, <2>1 DEF normalize_IPv6
  <2>3. AddressRead(h)
    <3>1. Len(h) \in 2..39
      BY DEF is_valid_ipv6
    <3>2. Len(h) >= 2
      <4>1. PICK m : m = Len(h)
        OBVIOUS
      <4>2. m \in 2..39
        BY <3>1, <4>1
      <4>3. m >= 2
        BY <4>2
      <4> QED
        BY <4>1, <4>3
    <3> QED
      BY <3>2, ValidFits, FitRead
  <2>4. /\ f \in Seq(Word)
        /\ \/ p = << >> /\ Len(f) = 8
           \/ /\ p \in Seq(AddressChars \ {":"}) /\ "." \in Range(p)
              /\ p # << >> /\ Len(f) = 6
    BY <2>1, <2>3 DEF AddressRead
  <2>5. Written(B, f)
    BY <2>1, <2>4, ShortWritten
  <2>6. B \in Seq(AddressChars)
    BY <2>5 DEF Written, WrittenAs
  <2>7. n \in Seq(AddressChars) /\ (Len(n) >= 2 => Address(n) = f /\ IPv4Part(n) = p)
    <3>1. CASE p = << >> /\ Len(f) = 8
      <4>1. n = B
        BY <2>1, <2>6, <3>1, ConcatEmptySeq DEF Prefixed
      <4> QED
        BY <2>4, <2>5, <2>6, <3>1, <4>1, PlainBack
    <3>2. CASE p \in Seq(AddressChars \ {":"}) /\ "." \in Range(p) /\ p # << >> /\ Len(f) = 6
      <4>1. PICK q : q = <<":">> \o p
        OBVIOUS
      <4>2. n = B \o q
        BY <2>1, <3>2, <4>1 DEF Prefixed
      <4>3. DottedRead(n, f, p)
        BY <2>4, <2>5, <3>2, <4>1, <4>2, DottedBack
      <4> QED
        BY <4>3 DEF DottedRead
    <3> QED
      BY <2>4, <3>1, <3>2
  <2>8. ASSUME is_valid_ipv6(n) PROVE normalize_IPv6(n) = n
    <3>1. Len(n) \in 2..39
      BY <2>8 DEF is_valid_ipv6
    <3>2. PICK m : m = Len(n)
      OBVIOUS
    <3>3. m \in 2..39
      BY <3>1, <3>2
    <3>4. m >= 2
      BY <3>3
    <3>5. Address(n) = f /\ IPv4Part(n) = p
      BY <2>7, <3>2, <3>4
    <3>6. normalize_IPv6(n) = IF n = <<":", ":">> THEN n
                              ELSE ShortAddress(f) \o Prefixed(<<":">>, p)
      BY <3>5 DEF normalize_IPv6
    <3> QED
      BY <2>1, <3>6
  <2> QED
    BY <2>2, <2>7, <2>8
<1> QED
  BY <1>1, <1>2

-----------------------------------------------------------------------------
(* Texts all of whose escapes stand for characters, piece by piece.        *)

(* A text all of whose escapes, those that are whole, are for a character. *)
Whole(t, i) == i + 2 <= Len(t) /\ {t[i + 1], t[i + 2]} \subseteq HexDigits
Spells(t) == \A i \in Escapes(t) : Whole(t, i) => Spelled(t, i) \in Chars

(* A piece of a text: its escapes are the text's.                          *)
SlicePlace(t, s, i, j) ==
  /\ j \in Escapes(t) /\ j + 2 <= Len(t)
  /\ t[j + 1] = s[i + 1] /\ t[j + 2] = s[i + 2]

LEMMA SliceEscape ==
  ASSUME NEW C, NEW t \in Seq(C), NEW a \in 1..(Len(t) + 1), NEW b \in (a - 1)..Len(t),
         NEW s, s = SubSeq(t, a, b), NEW i \in Escapes(s), i + 2 <= Len(s)
  PROVE  \E j : SlicePlace(t, s, i, j)
<1>1. PICK n, m : n = Len(t) /\ m = b - a + 1
  OBVIOUS
<1>2. /\ n \in Nat /\ a \in Int /\ b \in Int /\ m \in Int /\ 1 <= a /\ b <= n
      /\ s \in Seq(C) /\ Len(s) = m /\ \A k \in 1..m : s[k] = t[k + a - 1]
  BY <1>1, LenProperties, SliceIs
<1>3. i \in 1..m /\ s[i] = "%" /\ i + 2 <= m
  BY <1>2, EscapesIn
<1>4. PICK j : j = i + a - 1
  OBVIOUS
<1>5. /\ i + 1 \in 1..m /\ i + 2 \in 1..m /\ (i + 1) + a - 1 = j + 1 /\ (i + 2) + a - 1 = j + 2
      /\ j \in 1..n /\ j + 2 <= n
  BY <1>1, <1>2, <1>3, <1>4
<1>6. t[j] = "%" /\ s[i + 1] = t[j + 1] /\ s[i + 2] = t[j + 2]
  BY <1>2, <1>3, <1>4, <1>5
<1>7. j \in Escapes(t)
  BY <1>1, <1>5, <1>6, EscapesIn
<1> QED
  BY <1>1, <1>5, <1>6, <1>7 DEF SlicePlace

LEMMA SliceSpells ==
  ASSUME NEW C, NEW t \in Seq(C), Spells(t),
         NEW a \in 1..(Len(t) + 1), NEW b \in (a - 1)..Len(t)
  PROVE  Spells(SubSeq(t, a, b))
<1>1. PICK s : s = SubSeq(t, a, b)
  OBVIOUS
<1>2. ASSUME NEW i \in Escapes(s), Whole(s, i)
      PROVE Spelled(s, i) \in Chars
  <2>1. i + 2 <= Len(s)
    BY <1>2 DEF Whole
  <2>2. PICK j : SlicePlace(t, s, i, j)
    BY <1>1, <2>1, SliceEscape
  <2>3. Whole(t, j)
    BY <1>2, <2>2 DEF Whole, SlicePlace
  <2>4. Spelled(t, j) \in Chars
    BY <2>2, <2>3 DEF Spells, SlicePlace
  <2> QED
    BY <2>2, <2>4 DEF Spelled, SlicePlace
<1> QED
  BY <1>1, <1>2 DEF Spells

LEMMA PartsSpell ==
  ASSUME NEW C, NEW t \in Seq(C), Spells(t), NEW chars, NEW n \in Nat
  PROVE  /\ Spells(Upto(t, chars)) /\ Spells(Onward(t, chars)) /\ Spells(Rest(t, n))
<1>1. PICK f, l : f = find_first_of(t, chars) /\ l = Len(t)
  OBVIOUS
<1>2. f \in 1..(l + 1) /\ l \in Nat
  BY <1>1, FirstOf, LenProperties
<1>3. Spells(SubSeq(t, 1, f - 1))
  <2>1. 1 \in 1..(Len(t) + 1) /\ f - 1 \in (1 - 1)..Len(t)
    BY <1>1, <1>2
  <2> QED
    BY <2>1, SliceSpells
<1>4. Spells(SubSeq(t, f, Len(t)))
  <2>1. f \in 1..(Len(t) + 1) /\ Len(t) \in (f - 1)..Len(t)
    BY <1>1, <1>2
  <2> QED
    BY <2>1, SliceSpells
<1>5. Spells(SubSeq(t, n + 1, Len(t)))
  <2>1. CASE n <= l
    <3>1. n + 1 \in 1..(Len(t) + 1) /\ Len(t) \in ((n + 1) - 1)..Len(t)
      BY <1>1, <1>2, <2>1
    <3> QED
      BY <3>1, SliceSpells
  <2>2. CASE n > l
    <3>1. PICK m : m = n + 1
      OBVIOUS
    <3>2. m > l
      BY <1>2, <2>2, <3>1
    <3>3. SubSeq(t, m, l) = << >>
      <4>1. m \in Int /\ l \in Int /\ \A i \in m..l : t[i] \in C
        BY <1>2, <2>2, <3>1
      <4>2. SubSeq(t, m, l) \in Seq(C) /\ Len(SubSeq(t, m, l)) = 0
        BY <3>2, <4>1, SubSeqProperties
      <4> QED
        BY <4>2, EmptySeq
    <3>4. Escapes(<< >>) = {}
      BY DEF Escapes
    <3> QED
      BY <1>1, <3>1, <3>3, <3>4 DEF Spells
  <2> QED
    BY <1>2, <2>1, <2>2
<1> QED
  BY <1>1, <1>3, <1>4, <1>5 DEF Upto, Onward, Rest

-----------------------------------------------------------------------------
(* A text that decode takes, and makes a text of characters of.            *)
Fit(t) == t \in Seq(Chars) /\ WellEscaped(t) /\ Spells(t)

LEMMA FitDecoded ==
  ASSUME NEW t, Fit(t)
  PROVE  decode(t) \in Seq(Chars)
<1>1. \A i \in Escapes(t) : Spelled(t, i) \in Chars
  BY DEF Fit, Spells, WellEscaped, Whole
<1> QED
  BY <1>1, DecodeTyped DEF Fit

LEMMA FitNone == Fit(<< >>)
<1>1. Escapes(<< >>) = {}
  BY DEF Escapes
<1> QED
  BY <1>1, None DEF Fit, Spells, WellEscaped

(* A text in two, and each of the two.                                     *)
LEMMA FitApart ==
  ASSUME NEW u \in Seq(Chars), NEW v \in Seq(Chars), Fit(u \o v),
         v = << >> \/ v[1] \notin HexSet
  PROVE  Fit(u) /\ Fit(v)
<1>1. PICK t, n, m, l : t = u \o v /\ n = Len(u) /\ m = Len(v) /\ l = n + m
  OBVIOUS
<1>2. /\ t \in Seq(Chars) /\ Len(t) = l /\ n \in Nat /\ m \in Nat /\ l \in Nat
      /\ \A i \in 1..n : t[i] = u[i]
      /\ \A i \in 1..m : t[n + i] = v[i]
  <2>1. /\ u \o v \in Seq(Chars) /\ Len(u \o v) = Len(u) + Len(v)
        /\ \A i \in 1..(Len(u) + Len(v)) :
             (u \o v)[i] = IF i <= Len(u) THEN u[i] ELSE v[i - Len(u)]
    BY ConcatProperties
  <2>2. n \in Nat /\ m \in Nat /\ l \in Nat
    BY <1>1, LenProperties
  <2>3. \A i \in 1..n : i \in 1..(n + m) /\ i <= n
    BY <2>2
  <2>4. \A i \in 1..m : n + i \in 1..(n + m) /\ ~(n + i <= n) /\ (n + i) - n = i
    BY <2>2
  <2>5. \A i \in 1..(n + m) : t[i] = IF i <= n THEN u[i] ELSE v[i - n]
    BY <1>1, <2>1
  <2> QED
    BY <1>1, <2>1, <2>2, <2>3, <2>4, <2>5
<1>3. /\ \A i : i \in Escapes(t) <=> i \in 1..l /\ t[i] = "%"
      /\ \A i : i \in Escapes(u) <=> i \in 1..n /\ u[i] = "%"
      /\ \A i : i \in Escapes(v) <=> i \in 1..m /\ v[i] = "%"
  BY <1>1, <1>2, EscapesIn
<1>4. ASSUME NEW i \in Escapes(t)
      PROVE /\ i + 2 <= l /\ t[i + 1] \in HexDigits /\ t[i + 2] \in HexDigits
            /\ Spelled(t, i) \in Chars
  BY <1>1, <1>2, <1>4 DEF Fit, WellEscaped, Spells, Whole
<1>5. ASSUME NEW i \in Escapes(u)
      PROVE Whole(u, i) /\ Spelled(u, i) \in Chars
  <2>1. i \in 1..n /\ u[i] = "%"
    BY <1>3
  <2>2. i \in 1..l /\ t[i] = "%" /\ i \in Escapes(t)
    <3>1. i \in 1..l
      BY <1>1, <1>2, <2>1
    <3> QED
      BY <1>2, <1>3, <2>1, <3>1
  <2>3. /\ i + 2 <= l /\ t[i + 1] \in HexDigits /\ t[i + 2] \in HexDigits
        /\ Spelled(t, i) \in Chars
    BY <1>4, <2>2
  <2>4. i + 2 <= n
    <3>1. SUFFICES ASSUME ~(i + 2 <= n) PROVE FALSE
      OBVIOUS
    <3>2. (i + 1 = n + 1 \/ i + 2 = n + 1) /\ 1 \in 1..m
      BY <1>1, <1>2, <2>1, <2>3, <3>1
    <3>3. t[n + 1] = v[1] /\ t[n + 1] \in HexDigits
      BY <1>2, <2>3, <3>2
    <3>4. v # << >>
      <4>1. SUFFICES ASSUME v = << >> PROVE FALSE
        OBVIOUS
      <4>2. m = 0
        BY <1>1, <4>1, None
      <4> QED
        BY <3>2, <4>2
    <3> QED
      BY <3>3, <3>4, HexDigitsAre
  <2>5. i + 1 \in 1..n /\ i + 2 \in 1..n
    BY <1>2, <2>1, <2>4
  <2>6. t[i + 1] = u[i + 1] /\ t[i + 2] = u[i + 2]
    BY <1>2, <2>5
  <2> QED
    BY <1>1, <2>3, <2>4, <2>6 DEF Whole, Spelled
<1>6. ASSUME NEW i \in Escapes(v)
      PROVE Whole(v, i) /\ Spelled(v, i) \in Chars
  <2>1. i \in 1..m /\ v[i] = "%"
    BY <1>3
  <2>2. PICK j : j = n + i
    OBVIOUS
  <2>3. j \in 1..l /\ t[j] = "%" /\ j \in Escapes(t)
    <3>1. j \in 1..l
      BY <1>1, <1>2, <2>1, <2>2
    <3> QED
      BY <1>2, <1>3, <2>1, <2>2, <3>1
  <2>4. /\ j + 2 <= l /\ t[j + 1] \in HexDigits /\ t[j + 2] \in HexDigits
        /\ Spelled(t, j) \in Chars
    BY <1>4, <2>3
  <2>5. /\ i + 2 <= m /\ i + 1 \in 1..m /\ i + 2 \in 1..m
        /\ j + 1 = n + (i + 1) /\ j + 2 = n + (i + 2)
    BY <1>1, <1>2, <2>1, <2>2, <2>4
  <2>6. t[j + 1] = v[i + 1] /\ t[j + 2] = v[i + 2]
    BY <1>2, <2>5
  <2> QED
    BY <1>1, <2>4, <2>5, <2>6 DEF Whole, Spelled
<1> QED
  BY <1>5, <1>6 DEF Fit, WellEscaped, Spells, Whole

LEMMA FitParts ==
  ASSUME NEW t, Fit(t), NEW chars, chars \cap HexSet = {}
  PROVE  Fit(Upto(t, chars)) /\ Fit(Onward(t, chars))
<1>1. PICK u, v : u = Upto(t, chars) /\ v = Onward(t, chars)
  OBVIOUS
<1>2. u \in Seq(Chars) /\ v \in Seq(Chars) /\ t = u \o v /\ (v = << >> \/ v[1] \in chars)
  BY <1>1, CutExists DEF CutOf, Fit
<1> QED
  BY <1>1, <1>2, FitApart

LEMMA FitRest ==
  ASSUME NEW t, Fit(t), t = << >> \/ t[1] \notin HexSet \cup {"%"}
  PROVE  Fit(Rest(t, 1))
<1>1. CASE t = << >>
  <2>1. Rest(t, 1) \in Seq({})
    BY <1>1, None, PartsOfText
  <2>2. Rest(t, 1) = << >>
    <3>1. PICK r, n : r = Rest(t, 1) /\ n = Len(r)
      OBVIOUS
    <3>2. r \in Seq({}) /\ n \in Nat
      BY <2>1, <3>1, LenProperties
    <3>3. n = 0
      <4>1. SUFFICES ASSUME n # 0 PROVE FALSE
        OBVIOUS
      <4>2. 1 \in 1..n
        BY <3>2, <4>1
      <4> QED
        BY <3>1, <3>2, <4>2, ElementOfSeq
    <3> QED
      BY <3>1, <3>2, <3>3, EmptySeq
  <2> QED
    BY <2>2, FitNone
<1>2. CASE t # << >>
  <2>1. PICK c, r : c = t[1] /\ r = Rest(t, 1)
    OBVIOUS
  <2>2. t \in Seq(Chars) /\ Starts(t, c)
    BY <1>2, <2>1, StartsIs DEF Fit
  <2>3. c \in Chars /\ r \in Seq(Chars) /\ t = <<c>> \o r
    BY <2>1, <2>2, StartSplit
  <2> DEFINE n == Len(r)
  <2>4. Spells(r)
    BY <2>1, <2>2, PartsSpell DEF Fit
  <2>5. WellEscaped(r)
    <3>1. ASSUME NEW i \in Escapes(r)
          PROVE i + 2 <= Len(r) /\ {r[i + 1], r[i + 2]} \subseteq HexDigits
      <4>1. PICK l : l = Len(r)
        OBVIOUS
      <4>2. /\ l \in Nat /\ i \in 1..l /\ r[i] = "%"
        BY <2>3, <4>1, EscapesIn, LenProperties
      <4>3. Len(t) = l + 1 /\ \A k \in 1..l : t[k + 1] = r[k]
        <5>1. PICK a : a = <<c>>
          OBVIOUS
        <5>2. a \in Seq(Chars) /\ Len(a) = 1 /\ t = a \o r
          BY <2>3, <5>1, One
        <5>3. /\ Len(a \o r) = Len(a) + Len(r)
              /\ \A k \in 1..(Len(a) + Len(r)) :
                   (a \o r)[k] = IF k <= Len(a) THEN a[k] ELSE r[k - Len(a)]
          BY <2>3, <5>2, ConcatProperties
        <5>4. \A k \in 1..l : k + 1 \in 1..(1 + l) /\ ~(k + 1 <= 1) /\ (k + 1) - 1 = k
          BY <4>2
        <5>5. 1 + l = l + 1
          BY <4>2
        <5> QED
          BY <4>1, <5>2, <5>3, <5>4, <5>5
      <4>4. i + 1 \in 1..(l + 1) /\ t[i + 1] = "%"
        BY <4>2, <4>3
      <4>5. i + 1 \in Escapes(t)
        BY <2>2, <4>3, <4>4, EscapesIn
      <4>6. (i + 1) + 2 <= l + 1 /\ t[(i + 1) + 1] \in HexDigits /\ t[(i + 1) + 2] \in HexDigits
        BY <4>3, <4>5 DEF Fit, WellEscaped
      <4>7. /\ i + 2 <= l /\ i + 1 \in 1..l /\ i + 2 \in 1..l
            /\ (i + 1) + 2 = (i + 2) + 1
        BY <4>2, <4>6
      <4> QED
        BY <4>1, <4>3, <4>6, <4>7
    <3> QED
      BY <3>1 DEF WellEscaped
  <2> QED
    BY <2>1, <2>3, <2>4, <2>5 DEF Fit
<1> QED
  BY <1>1, <1>2

-----------------------------------------------------------------------------
(* Keys and values of such texts.                                          *)

LEMMA FitUnplus ==
  ASSUME NEW t, Fit(t)
  PROVE  Fit(Unplus(t))
<1>1. PICK u, n : u = Unplus(t) /\ n = Len(t)
  OBVIOUS
<1>2. /\ t \in Seq(Chars) /\ u \in Seq(Chars) /\ Len(u) = n /\ n \in Nat
      /\ \A i \in 1..n : u[i] = IF t[i] = "+" THEN " " ELSE t[i]
  BY <1>1, UnplusTyped, LenProperties DEF Fit
<1>3. "+" \notin HexDigits
  BY HexDigitsAre DEF HexSet
<1>4. ASSUME NEW i \in Escapes(u)
      PROVE Whole(u, i) /\ Spelled(u, i) \in Chars
  <2>1. i \in 1..n /\ u[i] = "%"
    BY <1>2, EscapesIn
  <2>2. t[i] = "%"
    BY <1>2, <2>1
  <2>3. i \in Escapes(t)
    BY <1>1, <1>2, <2>1, <2>2, EscapesIn
  <2>4. /\ i + 2 <= n /\ t[i + 1] \in HexDigits /\ t[i + 2] \in HexDigits
        /\ Spelled(t, i) \in Chars
    BY <1>1, <2>3 DEF Fit, WellEscaped, Spells, Whole
  <2>5. i + 1 \in 1..n /\ i + 2 \in 1..n
    <3>1. n \in Nat /\ i \in 1..n /\ i + 2 <= n
      BY <1>2, <2>1, <2>4
    <3> QED
      BY ONLY <3>1
  <2>6. u[i + 1] = t[i + 1] /\ u[i + 2] = t[i + 2]
    BY <1>2, <1>3, <2>4, <2>5
  <2> QED
    BY <1>2, <2>4, <2>6 DEF Whole, Spelled
<1> QED
  BY <1>1, <1>2, <1>4 DEF Fit, WellEscaped, Spells, Whole

LEMMA FitPlus ==
  ASSUME NEW t, Fit(t)
  PROVE  decode_plus(t) \in Seq(Chars)
<1>1. decode_plus(t) = decode(Unplus(t))
  BY DEF decode_plus, Unplus
<1> QED
  BY <1>1, FitUnplus, FitDecoded

LEMMA CleanOf ==
  ASSUME NEW C, NEW chars, NEW u \in Seq(C), \A i \in 1..Len(u) : u[i] \notin chars
  PROVE  u \in Seq(C \ chars)
<1>1. PICK n : n = Len(u)
  OBVIOUS
<1>2. n \in Nat /\ u \in [1..n -> C]
  BY <1>1, LenProperties
<1>3. u \in [1..n -> C \ chars]
  BY <1>1, <1>2
<1> QED
  BY <1>2, <1>3, FunctionIsSeq

(* The pieces of such a text are such texts.                               *)
FitTexts == {t \in Seq(Chars) : Fit(t)}

LEMMA PiecesFit ==
  ASSUME NEW t, Fit(t), NEW chars, chars \cap (HexSet \cup {"%"}) = {}
  PROVE  Fields(t, chars) \in Seq(FitTexts)
<1> DEFINE S == {n \in Nat : \A u \in Seq(Chars) :
                   Len(u) <= n /\ Fit(u) => Fields(u, chars) \in Seq(FitTexts)}
<1>1. ASSUME NEW u \in Seq(Chars), Fit(u), u \in Seq(Chars \ chars)
      PROVE Fields(u, chars) \in Seq(FitTexts)
  <2>1. Fields(u, chars) = <<u>>
    BY <1>1, FieldsPlain
  <2>2. u \in FitTexts
    BY <1>1 DEF FitTexts
  <2> QED
    BY <2>1, <2>2, One
<1>2. 0 \in S
  <2>1. ASSUME NEW u \in Seq(Chars), Len(u) <= 0, Fit(u)
        PROVE Fields(u, chars) \in Seq(FitTexts)
    <3>1. Len(u) \in Nat
      BY LenProperties
    <3>2. Len(u) = 0
      BY <2>1, <3>1
    <3>3. u = << >>
      BY <3>2, EmptySeq
    <3>4. u \in Seq(Chars \ chars)
      BY <3>3, None
    <3> QED
      BY <1>1, <2>1, <3>4
  <2> QED
    BY <2>1
<1>3. ASSUME NEW k \in Nat, k \in S PROVE k + 1 \in S
  <2>1. ASSUME NEW w \in Seq(Chars), Len(w) <= k + 1, Fit(w)
        PROVE Fields(w, chars) \in Seq(FitTexts)
    <3>1. PICK u, v : u = Upto(w, chars) /\ v = Onward(w, chars)
      OBVIOUS
    <3>2. /\ u \in Seq(Chars) /\ v \in Seq(Chars) /\ w = u \o v
          /\ \A i \in 1..Len(u) : u[i] \notin chars
          /\ (v = << >> \/ v[1] \in chars)
      BY <3>1, CutExists DEF CutOf
    <3>3. u \in Seq(Chars \ chars)
      BY <3>2, CleanOf
    <3>4. Fit(u) /\ Fit(v)
      BY <2>1, <3>1, FitParts
    <3>5. CASE v = << >>
      <4>1. w = u
        BY <3>2, <3>5, ConcatEmptySeq
      <4> QED
        BY <1>1, <3>2, <3>3, <3>4, <4>1
    <3>6. CASE v # << >>
      <4>1. PICK c, x : c = v[1] /\ x = Rest(v, 1)
        OBVIOUS
      <4>2. Starts(v, c) /\ c \in chars
        BY <3>2, <3>6, <4>1, StartsIs
      <4>3. c \in Chars /\ x \in Seq(Chars) /\ v = <<c>> \o x
        BY <3>2, <4>1, <4>2, StartSplit
      <4>4. Fit(x)
        BY <3>4, <4>1, <4>2, FitRest
      <4>5. Len(x) <= k
        <5>1. PICK a : a = <<c>>
          OBVIOUS
        <5>2. a \in Seq(Chars) /\ Len(a) = 1 /\ v = a \o x
          BY <4>3, <5>1, One
        <5>3. Len(w) = Len(u) + Len(v) /\ Len(v) = Len(a) + Len(x)
          BY <3>2, <4>3, <5>2, ConcatProperties
        <5>4. PICK p, q, r : p = Len(u) /\ q = Len(x) /\ r = Len(w)
          OBVIOUS
        <5>5. p \in Nat /\ q \in Nat /\ r = p + (1 + q) /\ r <= k + 1
          BY <2>1, <3>2, <4>3, <5>2, <5>3, <5>4, LenProperties
        <5>6. q <= k
          BY ONLY <5>5, k \in Nat
        <5> QED
          BY <5>4, <5>6
      <4>6. Fields(x, chars) \in Seq(FitTexts)
        BY <1>3, <4>3, <4>4, <4>5
      <4>7. Fields(u, chars) \in Seq(FitTexts)
        BY <1>1, <3>2, <3>3, <3>4
      <4>8. Fields(u \o (<<c>> \o x), chars) = Fields(u, chars) \o Fields(x, chars)
        <5>1. FieldsApart(u, c, x, chars)
          BY <3>2, <4>2, <4>3, FieldsConcat
        <5> QED
          BY <5>1 DEF FieldsApart
      <4>9. PICK a, b : a = Fields(u, chars) /\ b = Fields(x, chars)
        OBVIOUS
      <4>10. a \o b \in Seq(FitTexts)
        <5>1. a \in Seq(FitTexts) /\ b \in Seq(FitTexts)
          BY <4>6, <4>7, <4>9
        <5> QED
          BY <5>1, ConcatProperties
      <4> QED
        BY <3>2, <4>3, <4>8, <4>9, <4>10
    <3> QED
      BY <3>5, <3>6
  <2> QED
    BY <2>1
<1>4. PICK n : n = Len(t)
  OBVIOUS
<1>5. n \in Nat /\ t \in Seq(Chars)
  BY <1>4, LenProperties DEF Fit
<1>6. 0..n \subseteq S
  <2> HIDE DEF S
  <2> QED
    BY <1>2, <1>3, <1>5, Upwards
<1>7. n \in S /\ n <= n
  BY <1>5, <1>6
<1> QED
  BY <1>4, <1>5, <1>7

(* The entries of a query.                                                 *)
LEMMA EntriesTyped ==
  ASSUME NEW t, Fit(QueryText(t))
  PROVE  QueryEntries(t) \in Seq(Entry)
<1>1. CASE QueryText(t) = << >>
  BY <1>1, None DEF QueryEntries
<1>2. CASE QueryText(t) # << >>
  <2>1. PICK all, n : all = Fields(QueryText(t), {";", "&"}) /\ n = Len(all)
    OBVIOUS
  <2>2. all \in Seq(FitTexts)
    <3>1. {";", "&"} \cap (HexSet \cup {"%"}) = {}
      BY DEF HexSet
    <3> QED
      BY <2>1, <3>1, PiecesFit
  <2>3. n \in Nat /\ DOMAIN all = 1..n /\ \A k \in 1..n : Fit(all[k])
    <3>1. n \in Nat /\ DOMAIN all = 1..n
      BY <2>1, <2>2, LenProperties
    <3>2. \A k \in 1..n : all[k] \in FitTexts
      BY <2>1, <2>2, ElementOfSeq
    <3> QED
      BY <3>1, <3>2 DEF FitTexts
  <2>4. ASSUME NEW k \in 1..n
        PROVE /\ decode_plus(Upto(all[k], {"="})) \in Seq(Chars)
              /\ decode_plus(Rest(Onward(all[k], {"="}), 1)) \in Seq(Chars)
    <3>1. {"="} \cap HexSet = {} /\ "=" \notin HexSet \cup {"%"}
      BY DEF HexSet
    <3>2. PICK e, v : e = all[k] /\ v = Onward(all[k], {"="})
      OBVIOUS
    <3>3. Fit(e)
      BY <2>3, <3>2
    <3>4. Fit(Upto(e, {"="})) /\ Fit(v)
      BY <3>1, <3>2, <3>3, FitParts
    <3>5. v = << >> \/ v[1] = "="
      <4>1. CutOf(Chars, e, {"="}, Upto(e, {"="}), Onward(e, {"="}))
        BY <3>3, CutExists DEF Fit
      <4> QED
        BY <3>2, <4>1 DEF CutOf
    <3>6. Fit(Rest(v, 1))
      BY <3>1, <3>4, <3>5, FitRest
    <3> QED
      BY <3>2, <3>4, <3>6, FitPlus
  <2>5. PICK q : q = [k \in 1..n |->
                       [key |-> decode_plus(Upto(all[k], {"="})),
                        val |-> decode_plus(Rest(Onward(all[k], {"="}), 1))]]
    OBVIOUS
  <2>6. q \in [1..n -> Entry]
    BY <2>4, <2>5 DEF Entry
  <2>7. q \in Seq(Entry)
    BY <2>3, <2>6, FunctionIsSeq
  <2>8. QueryEntries(t) = q
    BY <1>2, <2>1, <2>3, <2>5 DEF QueryEntries
  <2> QED
    BY <2>7, <2>8
<1> QED
  BY <1>1, <1>2

-----------------------------------------------------------------------------
(* A host in normal form is a host that is read as it is.                  *)

LEMMA LowerTwice ==
  ASSUME NEW t \in Seq(Chars)
  PROVE  to_lower(to_lower(t)) = to_lower(t)
<1>1. PICK l : l = to_lower(t)
  OBVIOUS
<1>2. l \in Seq(Chars) /\ Range(l) \cap Upper = {}
  BY <1>1, LowerTyped, NoCapitals
<1> QED
  BY <1>1, <1>2, LowerIs

(* A scheme in small letters is a scheme.                                  *)
LEMMA LowerScheme ==
  ASSUME NEW s \in Seq(Chars), is_scheme(s)
  PROVE  is_scheme(to_lower(s))
<1>1. PICK l, n : l = to_lower(s) /\ n = Len(s)
  OBVIOUS
<1>2. /\ l \in Seq(Chars) /\ Len(l) = n /\ n \in Nat
      /\ \A i \in 1..n : l[i] = IF s[i] \in Upper THEN Char(Code(s[i]) + 32) ELSE s[i]
  BY <1>1, LowerTyped, LenProperties
<1>3. DOMAIN s = 1..n /\ DOMAIN l = 1..n
  BY <1>1, <1>2, LenProperties
<1>4. n # 0
  <2>1. s # << >>
    BY DEF is_scheme
  <2> QED
    BY <1>1, <2>1, EmptySeq
<1>5. l # << >> /\ 1 \in 1..n
  <2>1. l # << >>
    <3>1. SUFFICES ASSUME l = << >> PROVE FALSE
      OBVIOUS
    <3>2. Len(l) = 0
      BY <3>1, None
    <3> QED
      BY <1>2, <1>4, <3>2
  <2> QED
    BY <1>2, <1>4, <2>1
<1>6. l[1] \in Alpha
  <2>1. s[1] \in Alpha
    BY DEF is_scheme
  <2> QED
    BY <1>2, <1>5, <2>1, LowerCode
<1>7. \A i \in 1..n : l[i] \in Alpha \cup Num \cup {"+", "-", "."}
  <2>1. \A i \in 1..n : s[i] \in Alpha \cup Num \cup {"+", "-", "."}
    BY <1>3 DEF is_scheme
  <2> QED
    BY <1>2, <2>1, LowerCode
<1> QED
  BY <1>1, <1>3, <1>5, <1>6, <1>7 DEF is_scheme

-----------------------------------------------------------------------------
(* The pieces that parse_url takes a text apart into.                      *)
CutTyped(t) ==
  /\ Scheme(t) \in Seq(Chars)
  /\ User(Authority(t)) \in Seq(Chars) /\ AfterUser(Authority(t)) \in Seq(Chars)
  /\ Path(t) \in Seq(Chars) /\ Spells(Path(t))
  /\ QueryText(t) \in Seq(Chars) /\ Spells(QueryText(t))
  /\ Fragment(t) \in Seq(Chars) /\ Spells(Fragment(t))

LEMMA CutIsTyped ==
  ASSUME NEW t \in Seq(Chars), Spells(t)
  PROVE  CutTyped(t)
<1>1. PICK n : n = SchemeEnd(t)
  OBVIOUS
<1>2. n \in Nat /\ n <= Len(t)
  <2>1. PICK f, l : f = find_first_of(t, {":", "/", "?", "#"}) /\ l = Len(t)
    OBVIOUS
  <2>2. f \in 1..(l + 1) /\ l \in Nat
    BY <2>1, FirstOf, LenProperties
  <2>3. n = (IF f <= l /\ t[f] = ":" THEN f ELSE 0)
    BY <1>1, <2>1 DEF SchemeEnd
  <2> QED
    BY <2>1, <2>2, <2>3
<1>3. Scheme(t) \in Seq(Chars)
  <2>1. n - 1 \in Int /\ 1 \in Int /\ \A i \in 1..(n - 1) : i \in 1..Len(t)
    BY <1>2, LenProperties
  <2>2. \A i \in 1..(n - 1) : t[i] \in Chars
    BY <2>1, ElementOfSeq
  <2>3. SubSeq(t, 1, n - 1) \in Seq(Chars)
    BY <2>1, <2>2, SubSeqProperties
  <2> QED
    BY <1>1, <2>3 DEF Scheme
<1>4. PICK a : a = AfterScheme(t)
  OBVIOUS
<1>5. a \in Seq(Chars) /\ Spells(a)
  BY <1>1, <1>2, <1>4, PartsOfText, PartsSpell DEF AfterScheme
<1>6. PICK b : b = Rest(a, 2) /\ b \in Seq(Chars) /\ Spells(b)
  BY <1>5, PartsOfText, PartsSpell
<1>7. Authority(t) \in Seq(Chars)
  <2>1. Upto(b, {"/", "?", "#"}) \in Seq(Chars)
    BY <1>6, PartsOfText
  <2> QED
    BY <1>4, <1>6, <2>1, None DEF Authority
<1>8. Path(t) \in Seq(Chars) /\ Spells(Path(t))
  <2>1. PICK e : e = Onward(b, {"/", "?", "#"}) /\ e \in Seq(Chars) /\ Spells(e)
    BY <1>6, PartsOfText, PartsSpell
  <2>2. PICK p : p = (IF HasAuthority(t) THEN e ELSE a) /\ p \in Seq(Chars) /\ Spells(p)
    BY <1>5, <2>1
  <2>3. Path(t) = Upto(p, {"?", "#"})
    BY <1>4, <1>6, <2>1, <2>2 DEF Path
  <2> QED
    BY <2>2, <2>3, PartsOfText, PartsSpell
<1>9. QueryText(t) \in Seq(Chars) /\ Spells(QueryText(t))
  <2>1. PICK e : e = Onward(a, {"?", "#"}) /\ e \in Seq(Chars) /\ Spells(e)
    BY <1>5, PartsOfText, PartsSpell
  <2>2. PICK p : p = Rest(e, 1) /\ p \in Seq(Chars) /\ Spells(p)
    BY <2>1, PartsOfText, PartsSpell
  <2>3. QueryText(t) = Upto(p, {"#"})
    BY <1>4, <2>1, <2>2 DEF QueryText
  <2> QED
    BY <2>2, <2>3, PartsOfText, PartsSpell
<1>10. Fragment(t) \in Seq(Chars) /\ Spells(Fragment(t))
  <2>1. PICK e : e = Onward(a, {"#"}) /\ e \in Seq(Chars) /\ Spells(e)
    BY <1>5, PartsOfText, PartsSpell
  <2>2. Fragment(t) = Rest(e, 1)
    BY <1>4, <2>1 DEF Fragment
  <2> QED
    BY <2>1, <2>2, PartsOfText, PartsSpell
<1>11. PICK c : c = Authority(t) /\ c \in Seq(Chars)
  BY <1>7
<1>12. User(c) \in Seq(Chars)
  <2>1. Upto(c, {"@"}) \in Seq(Chars)
    BY <1>11, PartsOfText
  <2> QED
    BY <2>1, None DEF User
<1>13. AfterUser(c) \in Seq(Chars)
  <2>1. PICK e : e = Onward(c, {"@"}) /\ e \in Seq(Chars)
    BY <1>11, PartsOfText
  <2>2. Rest(e, 1) \in Seq(Chars)
    BY <2>1, PartsOfText
  <2> QED
    BY <1>11, <2>1, <2>2 DEF AfterUser
<1> QED
  BY <1>3, <1>8, <1>9, <1>10, <1>11, <1>12, <1>13 DEF CutTyped

-----------------------------------------------------------------------------
(* The host of a text.                                                     *)
HostTypes(h) ==
  /\ h.host \in Seq(Chars) /\ h.ip_v \in 0..15 /\ h.rest \in Seq(Chars)
  /\ h.ip_v \notin {0, 4, 6} => h.host \in Seq(Mask05)

LEMMA HostIsTyped ==
  ASSUME NEW a \in Seq(Chars), HostPart(a).ok
  PROVE  HostTypes(HostPart(a))
<1>1. CASE ~Starts(a, "[")
  <2>1. PICK name, rest, v : /\ name = Upto(a, {":"}) /\ rest = Onward(a, {":"})
                             /\ v = IF is_ipv4(name) THEN 4 ELSE 0
    OBVIOUS
  <2>2. name \in Seq(Chars) /\ rest \in Seq(Chars)
    BY <2>1, PartsOfText
  <2>3. v \in 0..15 /\ v \in {0, 4, 6}
    BY <2>1
  <2>4. HostPart(a).host = name /\ HostPart(a).ip_v = v /\ HostPart(a).rest = rest
    BY <1>1, <2>1 DEF HostPart
  <2> QED
    BY <2>2, <2>3, <2>4 DEF HostTypes
<1>2. CASE Starts(a, "[")
  <2>1. PICK inside, rest : /\ inside = Upto(Rest(a, 1), {"]"})
                            /\ rest = Rest(Onward(a, {"]"}), 1)
    OBVIOUS
  <2>2. inside \in Seq(Chars) /\ rest \in Seq(Chars)
    <3>1. PICK r, o : r = Rest(a, 1) /\ o = Onward(a, {"]"})
      OBVIOUS
    <3>2. r \in Seq(Chars) /\ o \in Seq(Chars)
      BY <3>1, PartsOfText
    <3> QED
      BY <2>1, <3>1, <3>2, PartsOfText
  <2>3. HostPart(a) = IPLiteral(a)
    BY <1>2 DEF HostPart
  <2>4. "]" \in Range(a)
    <3>1. SUFFICES ASSUME "]" \notin Range(a) PROVE FALSE
      OBVIOUS
    <3>2. ~NoHost.ok
      BY DEF NoHost
    <3>3. IPLiteral(a) = NoHost
      BY <3>1 DEF IPLiteral
    <3> QED
      BY <2>3, <3>2, <3>3
  <2>5. CASE Starts(inside, "v")
    <3>1. HostPart(a) =
             [ok |-> Len(inside) > 2 /\ inside[2] \in HexDigits /\ inside[3] = "."
                     /\ is_chars(Rest(inside, 3), Mask05),
              host |-> Rest(inside, 3),
              ip_v |-> IF Len(inside) > 1 THEN get_hex_digit(inside[2]) ELSE -1,
              rest |-> rest]
      BY <2>1, <2>3, <2>4, <2>5 DEF IPLiteral
    <3>2. Len(inside) > 2 /\ inside[2] \in HexDigits /\ is_chars(Rest(inside, 3), Mask05)
      <4>1. PICK good, b, c, d :
              /\ good = (Len(inside) > 2 /\ inside[2] \in HexDigits /\ inside[3] = "."
                         /\ is_chars(Rest(inside, 3), Mask05))
              /\ HostPart(a) = [ok |-> good, host |-> b, ip_v |-> c, rest |-> d]
        BY <3>1, Zenon
      <4>2. HostPart(a) = [ok |-> good, host |-> b, ip_v |-> c, rest |-> d]
        BY <4>1, Zenon
      <4>3. HostPart(a).ok = good
        BY ONLY <4>2
      <4>4. good
        BY <4>3, Zenon
      <4> QED
        BY <4>1, <4>4, Zenon
    <3>3. Len(inside) > 1
      BY <2>2, <3>2, LenProperties
    <3>4. get_hex_digit(inside[2]) \in 0..15
      BY <3>2, HexDigitTyped
    <3>5. Rest(inside, 3) \in Seq(Chars)
      BY <2>2, PartsOfText
    <3>6. Rest(inside, 3) \in Seq(Mask05)
      BY <3>2, <3>5, CharsSeq
    <3>7. PICK x, v : x = Rest(inside, 3) /\ v = get_hex_digit(inside[2])
      OBVIOUS
    <3>8. HostPart(a).host = x /\ HostPart(a).ip_v = v /\ HostPart(a).rest = rest
      BY <3>1, <3>3, <3>7
    <3> QED
      BY <2>2, <3>4, <3>5, <3>6, <3>7, <3>8 DEF HostTypes
  <2>6. CASE ~Starts(inside, "v")
    <3>1. HostPart(a) = [ok |-> is_ipv6(inside), host |-> inside, ip_v |-> 6, rest |-> rest]
      BY <2>1, <2>3, <2>4, <2>6 DEF IPLiteral
    <3>2. HostPart(a).host = inside /\ HostPart(a).ip_v = 6 /\ HostPart(a).rest = rest
      BY <3>1
    <3>3. 6 \in 0..15 /\ 6 \in {0, 4, 6}
      OBVIOUS
    <3> QED
      BY <2>2, <3>2, <3>3 DEF HostTypes
  <2> QED
    BY <2>5, <2>6
<1> QED
  BY <1>1, <1>2

LEMMA AddressTyped ==
  ASSUME NEW h \in Seq(Chars), is_ipv6(h)
  PROVE  h \in Seq(AddressChars)
<1>1. is_chars(h, AddressChars)
  BY HexDigitsAre DEF is_ipv6, AddressChars
<1> QED
  BY <1>1, CharsSeq

(* As it is kept.                                                          *)
LEMMA NormalHostSound ==
  ASSUME NEW h, HostTypes(h), h.ip_v = 6 => is_ipv6(h.host) /\ is_valid_ipv6(h.host)
  PROVE  NormalHost(h) \in Seq(Chars) /\ HostSound(NormalHost(h), h.ip_v)
<1>1. PICK x, v : x = h.host /\ v = h.ip_v
  OBVIOUS
<1>2. /\ x \in Seq(Chars) /\ v \in 0..15
      /\ v \notin {0, 4, 6} => x \in Seq(Mask05)
      /\ v = 6 => is_ipv6(x) /\ is_valid_ipv6(x)
  BY <1>1 DEF HostTypes
<1>3. v # -1
  BY <1>2
<1>4. CASE v = 0
  <2>1. NormalHost(h) = to_lower(x)
    BY <1>1, <1>4 DEF NormalHost
  <2>2. to_lower(x) \in Seq(Chars) /\ to_lower(to_lower(x)) = to_lower(x)
    BY <1>2, LowerTyped, LowerTwice
  <2> QED
    BY <1>1, <1>3, <1>4, <2>1, <2>2 DEF HostSound
<1>5. CASE v = 6
  <2>1. PICK y : y = normalize_IPv6(x)
    OBVIOUS
  <2>2. NormalHost(h) = y
    BY <1>1, <1>5, <2>1 DEF NormalHost
  <2>3. x \in Seq(AddressChars) /\ is_valid_ipv6(x)
    BY <1>2, <1>5, AddressTyped
  <2>4. y \in Seq(AddressChars) /\ (is_valid_ipv6(y) => normalize_IPv6(y) = y)
    BY <2>1, <2>3, AddressStays
  <2>5. y \in Seq(Chars)
    BY <2>4, AddressMasked, SeqMonotonic
  <2> QED
    BY <1>1, <1>3, <1>5, <2>2, <2>4, <2>5 DEF HostSound
<1>6. CASE v \notin {0, 6}
  <2>1. NormalHost(h) = x
    BY <1>1, <1>6 DEF NormalHost
  <2> QED
    BY <1>1, <1>2, <1>3, <1>6, <2>1 DEF HostSound
<1> QED
  BY <1>4, <1>5, <1>6

-----------------------------------------------------------------------------
(* Whatever parse_url takes, it makes sound parts of.                      *)

LEMMA DefinedSpells ==
  ASSUME NEW t \in Seq(Chars), Defined(t)
  PROVE  Spells(t)
<1>1. ASSUME NEW i \in Escapes(t), Whole(t, i)
      PROVE Spelled(t, i) \in Chars
  <2>1. PICK n : n = 16 * get_hex_digit(t[i + 1]) + get_hex_digit(t[i + 2])
    OBVIOUS
  <2>2. n \in 32..126
    BY <1>1, <2>1 DEF Defined, Whole
  <2> QED
    BY <2>1, <2>2, CharIn DEF Spelled
<1> QED
  BY <1>1 DEF Spells

LEMMA DecodesFit ==
  ASSUME NEW t \in Seq(Chars), Spells(t), NEW mask, Decodes(t, mask)
  PROVE  Fit(t)
  BY DEF Decodes, Fit

LEMMA EmptyPathOrderly == Orderly(<< >>)
  BY NoPartsNormal DEF NormalParts, NoParts

LEMMA SlashIn == "/" \in Chars
  BY SignsIn

(* The host and the port of a text that parse_url takes.                   *)
HostAndPort(x, v, port) ==
  /\ x \in Seq(Chars) /\ v \in -1..15 /\ HostSound(x, v)
  /\ port \in Seq(Chars) /\ (port = << >> \/ is_port(port))

LEMMA HostOfText ==
  ASSUME NEW t \in Seq(Chars), Parses(t), Defined(t), CutTyped(t),
         NEW h, h = HostPart(AfterUser(Authority(t)))
  PROVE  HostAndPort(IF HasAuthority(t) THEN NormalHost(h) ELSE << >>,
                     IF HasAuthority(t) THEN h.ip_v ELSE -1, PortText(h.rest))
<1>1. CASE ~HasAuthority(t)
  <2>1. Authority(t) = << >>
    BY <1>1 DEF Authority
  <2>2. PortText(h.rest) = << >>
    BY <2>1, EmptyAuthority
  <2>3. HostSound(<< >>, -1)
    <3>1. << >> \in Seq(Mask05)
      BY None
    <3> QED
      BY <3>1 DEF HostSound
  <2>4. << >> \in Seq(Chars) /\ -1 \in -1..15
    BY None
  <2> QED
    BY <1>1, <2>2, <2>3, <2>4 DEF HostAndPort
<1>2. CASE HasAuthority(t)
  <2>1. /\ h.ok /\ (h.ip_v = 6 => is_ipv6(h.host))
        /\ Starts(h.rest, ":") => is_port(PortText(h.rest))
    BY <1>2 DEF Parses
  <2>2. AfterUser(Authority(t)) \in Seq(Chars)
    BY DEF CutTyped
  <2>3. HostTypes(h)
    BY <2>1, <2>2, HostIsTyped
  <2>4. h.ip_v = 6 => is_ipv6(h.host) /\ is_valid_ipv6(h.host)
    BY <2>1 DEF Defined
  <2>5. NormalHost(h) \in Seq(Chars) /\ HostSound(NormalHost(h), h.ip_v)
    BY <2>3, <2>4, NormalHostSound
  <2>6. PICK r : r = h.rest /\ r \in Seq(Chars)
    BY <2>3 DEF HostTypes
  <2>7. PortText(r) \in Seq(Chars) /\ (PortText(r) = << >> \/ is_port(PortText(r)))
    <3>1. CASE Starts(r, ":")
      <4>1. PortText(r) = Rest(r, 1)
        BY <3>1 DEF PortText
      <4> QED
        BY <2>1, <2>6, <3>1, <4>1, PartsOfText
    <3>2. CASE ~Starts(r, ":")
      BY <3>2, None DEF PortText
    <3> QED
      BY <3>1, <3>2
  <2>8. h.ip_v \in -1..15
    BY <2>3 DEF HostTypes
  <2> QED
    BY <1>2, <2>5, <2>6, <2>7, <2>8 DEF HostAndPort
<1> QED
  BY <1>1, <1>2

(* Whatever parse_url takes it makes sound parts of.                       *)
LEMMA PartsSound ==
  ASSUME NEW t \in Seq(Chars), Parses(t), Defined(t)
  PROVE  Sound(Parts(t))
<1>1. Spells(t)
  BY DefinedSpells
<1>2. CutTyped(t)
  BY <1>1, CutIsTyped
<1>3. PICK h : h = HostPart(AfterUser(Authority(t)))
  OBVIOUS
<1>4. PICK x, v, port :
        /\ x = (IF HasAuthority(t) THEN NormalHost(h) ELSE << >>)
        /\ v = (IF HasAuthority(t) THEN h.ip_v ELSE -1)
        /\ port = PortText(h.rest)
  OBVIOUS
<1>5. HostAndPort(x, v, port)
  BY <1>2, <1>3, <1>4, HostOfText
<1>6. PICK s : s = Scheme(t)
  OBVIOUS
<1>7. /\ s \in Seq(Chars) /\ to_lower(s) \in Seq(Chars)
      /\ to_lower(s) = << >> \/ (is_scheme(to_lower(s)) /\ to_lower(to_lower(s)) = to_lower(s))
  <2>1. s \in Seq(Chars) /\ to_lower(s) \in Seq(Chars)
    BY <1>2, <1>6, LowerTyped DEF CutTyped
  <2>2. CASE SchemeEnd(t) > 0
    <3>1. is_scheme(s)
      BY <1>6, <2>2 DEF Parses
    <3> QED
      BY <2>1, <3>1, LowerScheme, LowerTwice
  <2>3. CASE ~(SchemeEnd(t) > 0)
    <3>1. SchemeEnd(t) = 0
      <4>1. find_first_of(t, {":", "/", "?", "#"}) \in Nat
                /\ find_first_of(t, {":", "/", "?", "#"}) > 0
        BY FirstOf
      <4> QED
        BY <2>3, <4>1 DEF SchemeEnd
    <3>2. PICK z : z = SubSeq(t, 1, 0 - 1)
      OBVIOUS
    <3>3. z = << >>
      <4>1. 1 \in Int /\ 0 - 1 \in Int /\ \A i \in 1..(0 - 1) : t[i] \in Chars
        OBVIOUS
      <4>2. SubSeq(t, 1, 0 - 1) \in Seq(Chars)
            /\ Len(SubSeq(t, 1, 0 - 1)) = IF 1 <= 0 - 1 THEN (0 - 1) - 1 + 1 ELSE 0
        BY <4>1, SubSeqProperties
      <4>3. z \in Seq(Chars) /\ Len(z) = 0
        BY <3>2, <4>2
      <4> QED
        BY <4>3, EmptySeq
    <3>4. s = z
      BY <1>6, <3>1, <3>2 DEF Scheme
    <3> QED
      BY <2>1, <3>3, <3>4, LowerNothing
  <2> QED
    BY <2>1, <2>2, <2>3
<1>8. Fit(Path(t)) /\ (HasQuery(t) => Fit(QueryText(t))) /\ Fit(Fragment(t))
  <2>1. /\ Decodes(Path(t), Mask2F) /\ (HasQuery(t) => Decodes(QueryText(t), Mask3F))
        /\ Decodes(Fragment(t), Mask3F)
    BY DEF Parses
  <2> QED
    BY <1>2, <2>1, DecodesFit DEF CutTyped
<1>9. PICK path : path = normalize_path(decode(Path(t)))
  OBVIOUS
<1>10. path \in Seq(Chars) /\ Orderly(path)
  <2>1. decode(Path(t)) \in Seq(Chars)
    BY <1>8, FitDecoded
  <2> QED
    BY <1>9, <2>1, SlashIn, PathInSeq, PathOrderly
<1>11. PICK q : q = IF HasQuery(t) THEN QueryEntries(t) ELSE << >>
  OBVIOUS
<1>12. q \in Seq(Entry)
  BY <1>8, <1>11, EntriesTyped, None
<1>13. PICK user, fragment : user = User(Authority(t)) /\ fragment = decode(Fragment(t))
  OBVIOUS
<1>14. user \in Seq(Chars) /\ fragment \in Seq(Chars)
  BY <1>2, <1>8, <1>13, FitDecoded DEF CutTyped
<1>15. PICK l : l = to_lower(s)
  OBVIOUS
<1>16. PICK p : p = [scheme |-> l, user |-> user, host |-> x, ip_v |-> v, port |-> port,
                     path |-> path, query |-> q, fragment |-> fragment]
  OBVIOUS
<1>17. Parts(t) = p
  BY <1>3, <1>4, <1>6, <1>9, <1>11, <1>13, <1>15, <1>16 DEF Parts
<1>18. /\ p.scheme = l /\ p.host = x /\ p.ip_v = v /\ p.port = port /\ p.path = path
  BY <1>16
<1>19. p \in PartsSet
  <2>1. v \in -1..127
    BY <1>5 DEF HostAndPort
  <2>2. x \in Seq(Chars) /\ port \in Seq(Chars)
    BY <1>5 DEF HostAndPort
  <2>3. l \in Seq(Chars)
    BY <1>7, <1>15
  <2> QED
    BY <1>10, <1>12, <1>14, <1>16, <2>1, <2>2, <2>3 DEF PartsSet
<1>20. Sound(p)
  BY <1>5, <1>7, <1>10, <1>15, <1>18, <1>19 DEF Sound, HostAndPort
<1> QED
  BY <1>17, <1>20

(* An object without parts, and one moved from, which keeps its version.   *)
LEMMA EmptySound ==
  ASSUME NEW v \in -1..127, NEW p, p = [NoParts EXCEPT !.ip_v = v]
  PROVE  Sound(p)
<1>1. << >> \in Seq(Chars) /\ << >> \in Seq(Mask05) /\ << >> \in Seq(Entry)
  BY None
<1>2. p = [scheme |-> << >>, user |-> << >>, host |-> << >>, ip_v |-> v,
           port |-> << >>, path |-> << >>, query |-> << >>, fragment |-> << >>]
  BY DEF NoParts
<1>3. p \in PartsSet
  <2>1. PICK e, q : e = << >> /\ q = << >>
    OBVIOUS
  <2>2. e \in Seq(Chars) /\ q \in Seq(Entry)
    BY <1>1, <2>1
  <2>3. p = [scheme |-> e, user |-> e, host |-> e, ip_v |-> v,
             port |-> e, path |-> e, query |-> q, fragment |-> e]
    BY <1>2, <2>1
  <2>4. v \in -1..127
    OBVIOUS
  <2> QED
    BY ONLY <2>2, <2>3, <2>4 DEF PartsSet
<1>4. p.scheme = << >> /\ p.host = << >> /\ p.ip_v = v /\ p.port = << >> /\ p.path = << >>
  BY <1>2
<1>5. ~is_valid_ipv6(<< >>)
  <2>1. Len(<< >>) = 0
    BY None
  <2>2. Len(<< >>) \notin 2..39
    BY <2>1
  <2> QED
    BY <2>2 DEF is_valid_ipv6
<1>6. HostSound(<< >>, v)
  BY <1>1, <1>5, LowerNothing DEF HostSound
<1> QED
  BY <1>3, <1>4, <1>6, EmptyPathOrderly DEF Sound

LEMMA NoPartsSound == Sound(NoParts)
<1>1. NoParts = [NoParts EXCEPT !.ip_v = -1]
  BY DEF NoParts
<1>2. -1 \in -1..127
  OBVIOUS
<1> QED
  BY <1>1, <1>2, EmptySound

-----------------------------------------------------------------------------
(* Sound parts, field by field: what set_scheme and set_host put.          *)

(* Sound parts, field by field.                                            *)
SoundFields(s, u, h, v, pt, pa, q, f) ==
  /\ s \in Seq(Chars) /\ (s = << >> \/ (is_scheme(s) /\ to_lower(s) = s))
  /\ u \in Seq(Chars)
  /\ h \in Seq(Chars) /\ v \in -1..127 /\ HostSound(h, v)
  /\ pt \in Seq(Chars) /\ (pt = << >> \/ is_port(pt))
  /\ pa \in Seq(Chars) /\ Orderly(pa)
  /\ q \in Seq(Entry) /\ f \in Seq(Chars)

Filled(s, u, h, v, pt, pa, q, f) ==
  [scheme |-> s, user |-> u, host |-> h, ip_v |-> v, port |-> pt, path |-> pa,
   query |-> q, fragment |-> f]

LEMMA SoundFrom ==
  ASSUME NEW s, NEW u, NEW h, NEW v, NEW pt, NEW pa, NEW q, NEW f,
         SoundFields(s, u, h, v, pt, pa, q, f),
         NEW p, p = Filled(s, u, h, v, pt, pa, q, f)
  PROVE  Sound(p)
<1>1. /\ s \in Seq(Chars) /\ u \in Seq(Chars) /\ h \in Seq(Chars) /\ v \in -1..127
      /\ pt \in Seq(Chars) /\ pa \in Seq(Chars) /\ q \in Seq(Entry) /\ f \in Seq(Chars)
  BY DEF SoundFields
<1>2. p = [scheme |-> s, user |-> u, host |-> h, ip_v |-> v, port |-> pt, path |-> pa,
           query |-> q, fragment |-> f]
  BY DEF Filled
<1>3. p \in PartsSet
  BY ONLY <1>1, <1>2 DEF PartsSet
<1>4. p.scheme = s /\ p.host = h /\ p.ip_v = v /\ p.port = pt /\ p.path = pa
  BY ONLY <1>2
<1> QED
  BY <1>3, <1>4 DEF Sound, SoundFields

LEMMA SoundParts ==
  ASSUME NEW p, Sound(p)
  PROVE  /\ p = Filled(p.scheme, p.user, p.host, p.ip_v, p.port, p.path, p.query, p.fragment)
         /\ SoundFields(p.scheme, p.user, p.host, p.ip_v, p.port, p.path, p.query, p.fragment)
<1>1. p \in PartsSet
  BY DEF Sound
<1>2. p = Filled(p.scheme, p.user, p.host, p.ip_v, p.port, p.path, p.query, p.fragment)
  BY ONLY <1>1 DEF PartsSet, Filled
<1>3. /\ p.scheme \in Seq(Chars) /\ p.user \in Seq(Chars) /\ p.host \in Seq(Chars)
      /\ p.ip_v \in -1..127 /\ p.port \in Seq(Chars) /\ p.path \in Seq(Chars)
      /\ p.query \in Seq(Entry) /\ p.fragment \in Seq(Chars)
  BY ONLY <1>1 DEF PartsSet
<1> QED
  BY <1>2, <1>3 DEF Sound, SoundFields

-----------------------------------------------------------------------------
(* What the setters make of sound parts.                                   *)
LEMMA SchemeSound ==
  ASSUME NEW p, Sound(p), NEW s \in Seq(Chars), is_scheme(s), NEW q, q = SetScheme(p, s)
  PROVE  Sound(q)
<1>1. PICK l, pt : /\ l = to_lower(s)
                   /\ pt = IF DefaultPort(l, p.port) THEN << >> ELSE p.port
  OBVIOUS
<1>2. /\ p = Filled(p.scheme, p.user, p.host, p.ip_v, p.port, p.path, p.query, p.fragment)
      /\ SoundFields(p.scheme, p.user, p.host, p.ip_v, p.port, p.path, p.query, p.fragment)
  BY SoundParts
<1>3. l \in Seq(Chars) /\ is_scheme(l) /\ to_lower(l) = l
  BY <1>1, LowerTyped, LowerScheme, LowerTwice
<1>4. pt \in Seq(Chars) /\ (pt = << >> \/ is_port(pt))
  BY <1>1, <1>2, None DEF SoundFields
<1>5. SoundFields(l, p.user, p.host, p.ip_v, pt, p.path, p.query, p.fragment)
  BY <1>2, <1>3, <1>4 DEF SoundFields
<1>6. PICK r : r = Filled(l, p.user, p.host, p.ip_v, pt, p.path, p.query, p.fragment)
  OBVIOUS
<1>7. Sound(r)
  BY <1>5, <1>6, SoundFrom
<1>8. q = IF l = p.scheme THEN p ELSE [p EXCEPT !.scheme = l, !.port = pt]
  BY <1>1 DEF SetScheme
<1>9. [p EXCEPT !.scheme = l, !.port = pt] = r
  <2>1. PICK a : a = [p EXCEPT !.scheme = l]
    OBVIOUS
  <2>2. PICK u, h, v, ol, pa, e, f :
          /\ u = p.user /\ h = p.host /\ v = p.ip_v /\ ol = p.port
          /\ pa = p.path /\ e = p.query /\ f = p.fragment
    OBVIOUS
  <2>3. p = Filled(p.scheme, u, h, v, ol, pa, e, f) /\ r = Filled(l, u, h, v, pt, pa, e, f)
    BY <1>2, <1>6, <2>2
  <2>4. a = Filled(l, u, h, v, ol, pa, e, f)
    BY ONLY <2>1, <2>3 DEF Filled
  <2>5. [a EXCEPT !.port = pt] = r
    BY ONLY <2>3, <2>4 DEF Filled
  <2>6. [p EXCEPT !.scheme = l, !.port = pt] = [a EXCEPT !.port = pt]
    BY <2>1
  <2> QED
    BY <2>5, <2>6
<1> QED
  BY <1>7, <1>8, <1>9

LEMMA HostPut ==
  ASSUME NEW p, Sound(p), NEW h \in Seq(Chars), NEW v \in -1..127, HostSound(h, v),
         NEW q, q = [p EXCEPT !.host = h, !.ip_v = v]
  PROVE  Sound(q)
<1>1. /\ p = Filled(p.scheme, p.user, p.host, p.ip_v, p.port, p.path, p.query, p.fragment)
      /\ SoundFields(p.scheme, p.user, p.host, p.ip_v, p.port, p.path, p.query, p.fragment)
  BY SoundParts
<1>2. SoundFields(p.scheme, p.user, h, v, p.port, p.path, p.query, p.fragment)
  BY <1>1 DEF SoundFields
<1>3. q = Filled(p.scheme, p.user, h, v, p.port, p.path, p.query, p.fragment)
  <2>1. q = [p EXCEPT !.host = h, !.ip_v = v]
    OBVIOUS
  <2> QED
    BY ONLY <1>1, <2>1 DEF Filled
<1> QED
  BY <1>2, <1>3, SoundFrom

LEMMA HostSetSound ==
  ASSUME NEW p, Sound(p), NEW h \in Seq(Chars), NEW v \in 0..127, HostTaken(h, v),
         NEW q, q = SetHost(p, h, v)
  PROVE  Sound(q)
<1>1. CASE h = << >>
  <2>1. q = [p EXCEPT !.host = h, !.ip_v = -1]
    <3>1. ~is_ipv4(h)
      <4>1. Len(h) = 0
        BY <1>1, None
      <4>2. Len(h) \notin 7..254
        BY <4>1
      <4> QED
        BY <4>2 DEF is_ipv4
    <3>2. ~is_ipv6(h)
      <4>1. Len(h) = 0
        BY <1>1, None
      <4>2. Len(h) \notin 2..254
        BY <4>1
      <4> QED
        BY <4>2 DEF is_ipv6
    <3> QED
      BY <1>1, <3>1, <3>2 DEF SetHost
  <2>2. HostSound(h, -1) /\ -1 \in -1..127
    BY <1>1, None DEF HostSound
  <2> QED
    BY <2>1, <2>2, HostPut
<1>2. CASE h # << >> /\ is_ipv4(h)
  <2>1. q = [p EXCEPT !.host = h, !.ip_v = 4]
    BY <1>2 DEF SetHost
  <2>2. HostSound(h, 4) /\ 4 \in -1..127
    BY DEF HostSound
  <2> QED
    BY <2>1, <2>2, HostPut
<1>3. CASE h # << >> /\ ~is_ipv4(h) /\ v \notin {0, 4, 6}
  <2>1. q = [p EXCEPT !.host = h, !.ip_v = v]
    BY <1>3 DEF SetHost
  <2>2. is_ipv6(h)
    BY <1>3 DEF HostTaken
  <2>3. h \in Seq(AddressChars)
    BY <2>2, AddressTyped
  <2>4. h \in Seq(Mask05)
    BY <2>3, AddressMasked, SeqMonotonic
  <2>5. HostSound(h, v) /\ v \in -1..127
    <3>1. v # -1 /\ v \in -1..127
      OBVIOUS
    <3> QED
      BY <1>3, <2>4, <3>1 DEF HostSound
  <2> QED
    BY <2>1, <2>5, HostPut
<1>4. CASE h # << >> /\ ~is_ipv4(h) /\ v \in {0, 4, 6} /\ is_ipv6(h)
  <2>1. PICK y : y = normalize_IPv6(h)
    OBVIOUS
  <2>2. q = [p EXCEPT !.host = y, !.ip_v = 6]
    BY <1>4, <2>1 DEF SetHost
  <2>3. is_valid_ipv6(h)
    BY <1>4 DEF HostTaken
  <2>4. h \in Seq(AddressChars)
    BY <1>4, AddressTyped
  <2>5. y \in Seq(AddressChars) /\ (is_valid_ipv6(y) => normalize_IPv6(y) = y)
    BY <2>1, <2>3, <2>4, AddressStays
  <2>6. y \in Seq(Chars)
    BY <2>5, AddressMasked, SeqMonotonic
  <2>7. HostSound(y, 6) /\ 6 \in -1..127
    BY <2>5 DEF HostSound
  <2> QED
    BY <2>2, <2>6, <2>7, HostPut
<1>5. CASE h # << >> /\ ~is_ipv4(h) /\ v \in {0, 4, 6} /\ ~is_ipv6(h)
  <2>1. PICK y : y = to_lower(h)
    OBVIOUS
  <2>2. q = [p EXCEPT !.host = y, !.ip_v = 0]
    BY <1>5, <2>1 DEF SetHost
  <2>3. y \in Seq(Chars) /\ to_lower(y) = y
    BY <2>1, LowerTyped, LowerTwice
  <2>4. HostSound(y, 0) /\ 0 \in -1..127
    BY <2>3 DEF HostSound
  <2> QED
    BY <2>2, <2>3, <2>4, HostPut
<1> QED
  BY <1>1, <1>2, <1>3, <1>4, <1>5

-----------------------------------------------------------------------------
(* What the other setters put; and what build_url writes is a text.        *)

LEMMA PortSound ==
  ASSUME NEW p, Sound(p), NEW s \in Seq(Chars), is_port(s), NEW q, q = SetPort(p, s)
  PROVE  Sound(q)
<1>1. PICK pt : pt = IF DefaultPort(p.scheme, s) THEN << >> ELSE s
  OBVIOUS
<1>2. /\ p = Filled(p.scheme, p.user, p.host, p.ip_v, p.port, p.path, p.query, p.fragment)
      /\ SoundFields(p.scheme, p.user, p.host, p.ip_v, p.port, p.path, p.query, p.fragment)
  BY SoundParts
<1>3. pt \in Seq(Chars) /\ (pt = << >> \/ is_port(pt))
  BY <1>1, None
<1>4. SoundFields(p.scheme, p.user, p.host, p.ip_v, pt, p.path, p.query, p.fragment)
  BY <1>2, <1>3 DEF SoundFields
<1>5. q = [p EXCEPT !.port = pt]
  BY <1>1 DEF SetPort
<1>6. q = Filled(p.scheme, p.user, p.host, p.ip_v, pt, p.path, p.query, p.fragment)
  BY ONLY <1>2, <1>5 DEF Filled
<1> QED
  BY <1>4, <1>6, SoundFrom

LEMMA PathSound ==
  ASSUME NEW p, Sound(p), NEW s \in Seq(Chars), NEW q, q = SetPath(p, s)
  PROVE  Sound(q)
<1>1. PICK pa : pa = normalize_path(s)
  OBVIOUS
<1>2. /\ p = Filled(p.scheme, p.user, p.host, p.ip_v, p.port, p.path, p.query, p.fragment)
      /\ SoundFields(p.scheme, p.user, p.host, p.ip_v, p.port, p.path, p.query, p.fragment)
  BY SoundParts
<1>3. pa \in Seq(Chars) /\ Orderly(pa)
  BY <1>1, SlashIn, PathInSeq, PathOrderly
<1>4. SoundFields(p.scheme, p.user, p.host, p.ip_v, p.port, pa, p.query, p.fragment)
  BY <1>2, <1>3 DEF SoundFields
<1>5. q = [p EXCEPT !.path = pa]
  BY <1>1 DEF SetPath
<1>6. q = Filled(p.scheme, p.user, p.host, p.ip_v, p.port, pa, p.query, p.fragment)
  BY ONLY <1>2, <1>5 DEF Filled
<1> QED
  BY <1>4, <1>6, SoundFrom

LEMMA QuerySound ==
  ASSUME NEW p, Sound(p), NEW e \in Seq(Entry), NEW q, q = [p EXCEPT !.query = e]
  PROVE  Sound(q)
<1>1. /\ p = Filled(p.scheme, p.user, p.host, p.ip_v, p.port, p.path, p.query, p.fragment)
      /\ SoundFields(p.scheme, p.user, p.host, p.ip_v, p.port, p.path, p.query, p.fragment)
  BY SoundParts
<1>2. SoundFields(p.scheme, p.user, p.host, p.ip_v, p.port, p.path, e, p.fragment)
  BY <1>1 DEF SoundFields
<1>3. q = [p EXCEPT !.query = e]
  OBVIOUS
<1>4. q = Filled(p.scheme, p.user, p.host, p.ip_v, p.port, p.path, e, p.fragment)
  BY ONLY <1>1, <1>3 DEF Filled
<1> QED
  BY <1>2, <1>4, SoundFrom

LEMMA UserSound ==
  ASSUME NEW p, Sound(p), NEW s \in Seq(Chars), NEW q,
         q = [p EXCEPT !.user = s] \/ q = [p EXCEPT !.fragment = s]
  PROVE  Sound(q)
<1>1. /\ p = Filled(p.scheme, p.user, p.host, p.ip_v, p.port, p.path, p.query, p.fragment)
      /\ SoundFields(p.scheme, p.user, p.host, p.ip_v, p.port, p.path, p.query, p.fragment)
  BY SoundParts
<1>2. SoundFields(p.scheme, s, p.host, p.ip_v, p.port, p.path, p.query, p.fragment)
  BY <1>1 DEF SoundFields
<1>3. SoundFields(p.scheme, p.user, p.host, p.ip_v, p.port, p.path, p.query, s)
  BY <1>1 DEF SoundFields
<1>4. CASE q = [p EXCEPT !.user = s]
  <2>1. q = Filled(p.scheme, s, p.host, p.ip_v, p.port, p.path, p.query, p.fragment)
    BY ONLY <1>1, <1>4 DEF Filled
  <2> QED
    BY <1>2, <2>1, SoundFrom
<1>5. CASE q = [p EXCEPT !.fragment = s]
  <2>1. q = Filled(p.scheme, p.user, p.host, p.ip_v, p.port, p.path, p.query, s)
    BY ONLY <1>1, <1>5 DEF Filled
  <2> QED
    BY <1>3, <2>1, SoundFrom
<1> QED
  BY <1>4, <1>5

LEMMA MadeSound ==
  ASSUME NEW p, Sound(p), NEW c \in Calls, Taken(c)
  PROVE  Sound(Made(p, c))
<1>1. /\ c.name \in Setters
      /\ c.name \in {"query", "add"} => c.arg \in Seq(Entry)
      /\ c.name \notin {"query", "add"} => c.arg \in Seq(Chars)
      /\ c.name = "host" => c.ip_v \in 0..127
  BY ObjectAssumption
<1>2. PICK a, q : a = c.arg /\ q = Made(p, c)
  OBVIOUS
<1>3. CASE c.name = "scheme"
  <2>1. is_scheme(a) /\ q = SetScheme(p, a) /\ a \in Seq(Chars)
    BY <1>1, <1>2, <1>3 DEF Taken, Made
  <2> QED
    BY <1>2, <2>1, SchemeSound
<1>4. CASE c.name = "host"
  <2>1. PICK v : v = c.ip_v
    OBVIOUS
  <2>2. HostTaken(a, v) /\ q = SetHost(p, a, v) /\ a \in Seq(Chars) /\ v \in 0..127
    BY <1>1, <1>2, <1>4, <2>1 DEF Taken, Made
  <2> QED
    BY <1>2, <2>2, HostSetSound
<1>5. CASE c.name = "port"
  <2>1. is_port(a) /\ q = SetPort(p, a) /\ a \in Seq(Chars)
    BY <1>1, <1>2, <1>5 DEF Taken, Made
  <2> QED
    BY <1>2, <2>1, PortSound
<1>6. CASE c.name = "path"
  <2>1. q = SetPath(p, a) /\ a \in Seq(Chars)
    BY <1>1, <1>2, <1>6 DEF Made
  <2> QED
    BY <1>2, <2>1, PathSound
<1>7. CASE c.name = "query"
  <2>1. q = [p EXCEPT !.query = a] /\ a \in Seq(Entry)
    BY <1>1, <1>2, <1>7 DEF Made
  <2> QED
    BY <1>2, <2>1, QuerySound
<1>8. CASE c.name = "add"
  <2>1. PICK o, e : o = p.query /\ e = o \o a
    OBVIOUS
  <2>2. q = [p EXCEPT !.query = e]
    BY <1>2, <1>8, <2>1 DEF Made
  <2>3. o \in Seq(Entry) /\ a \in Seq(Entry)
    BY <1>1, <1>2, <1>8, <2>1, SoundParts DEF SoundFields
  <2>4. e \in Seq(Entry)
    BY <2>1, <2>3, ConcatProperties
  <2> QED
    BY <1>2, <2>2, <2>4, QuerySound
<1>9. CASE c.name = "user"
  <2>1. q = [p EXCEPT !.user = a] /\ a \in Seq(Chars)
    BY <1>1, <1>2, <1>9 DEF Made
  <2> QED
    BY <1>2, <2>1, UserSound
<1>10. CASE c.name = "fragment"
  <2>1. q = [p EXCEPT !.fragment = a] /\ a \in Seq(Chars)
    BY <1>1, <1>2, <1>10 DEF Made
  <2> QED
    BY <1>2, <2>1, UserSound
<1> QED
  BY <1>1, <1>3, <1>4, <1>5, <1>6, <1>7, <1>8, <1>9, <1>10 DEF Setters

-----------------------------------------------------------------------------
(* What build_url writes is a text.                                        *)
LEMMA HostWritten ==
  ASSUME NEW p, Sound(p), p.host # << >>
  PROVE  HostText(p) \in Seq(Chars)
<1>1. PICK h, v, b, e : h = p.host /\ v = p.ip_v /\ b = <<"[">> /\ e = <<"]">>
  OBVIOUS
<1>2. h \in Seq(Chars) /\ v \in -1..127 /\ v # -1
  BY <1>1, SoundParts DEF SoundFields, HostSound
<1>3. b \in Seq(Chars) /\ e \in Seq(Chars)
  BY <1>1, SignsIn, One
<1>4. CASE v \in {0, 4}
  BY <1>1, <1>2, <1>4 DEF HostText
<1>5. CASE v = 6
  <2>1. HostText(p) = (b \o h) \o e
    BY <1>1, <1>5 DEF HostText
  <2>2. b \o h \in Seq(Chars)
    BY <1>2, <1>3, ConcatProperties
  <2> QED
    BY <1>3, <2>1, <2>2, ConcatProperties
<1>6. CASE v \notin {0, 4, 6}
  <2>1. PICK g, d, x : g = <<"[", "v">> /\ d = <<".">> /\ x = Hex(v)
    OBVIOUS
  <2>2. v \in Word
    BY <1>2 DEF Word
  <2>3. x \in Seq(Chars)
    BY <2>1, <2>2, HexTyped, HexIn, SeqMonotonic
  <2>4. g \in Seq(Chars) /\ d \in Seq(Chars)
    <3>1. "[" \in Chars /\ "v" \in Chars /\ "." \in Chars
      BY SignsIn
    <3> QED
      BY <2>1, <3>1
  <2>5. HostText(p) = (((g \o x) \o d) \o h) \o e
    BY <1>1, <1>6, <2>1 DEF HostText
  <2>6. g \o x \in Seq(Chars)
    BY <2>3, <2>4, ConcatProperties
  <2>7. (g \o x) \o d \in Seq(Chars)
    BY <2>4, <2>6, ConcatProperties
  <2>8. ((g \o x) \o d) \o h \in Seq(Chars)
    BY <1>2, <2>7, ConcatProperties
  <2> QED
    BY <1>3, <2>5, <2>8, ConcatProperties
<1> QED
  BY <1>4, <1>5, <1>6

LEMMA BuildTyped ==
  ASSUME NEW p, Sound(p), Builds(p)
  PROVE  Build(p) \in Seq(Chars)
<1>1. PICK s, a, e, q, f, D :
        /\ s = SchemeWritten(p) /\ a = Before(p) /\ e = PathText(p)
        /\ q = QueryWritten(p.query) /\ f = FragmentWritten(p.fragment) /\ D = Chars
  OBVIOUS
<1>2. Build(p) = (((s \o a) \o e) \o q) \o f
  BY <1>1 DEF Build, SchemeWritten, Before, PathText, QueryWritten, FragmentWritten, QuerySaid,
              AuthorityWritten, UserWritten, PortWritten
<1>3. p \in PartsSet
  BY DEF Sound
<1>4. e \in Seq(D)
  BY <1>1, <1>3, PathWritten DEF PathText, Sound, PartsSet
<1>5. q \in Seq(D) /\ f \in Seq(D)
  <2>1. /\ p.query \in Seq(Entry) /\ p.fragment \in Seq(Chars)
        /\ \A k \in DOMAIN p.query : p.query[k].key # << >>
    BY <1>3 DEF PartsSet, Builds
  <2>2. q \in Seq(Chars \ {"#"}) /\ f \in Seq(Chars)
    BY <1>1, <2>1, RearTyped
  <2>3. Chars \ {"#"} \subseteq D
    BY <1>1
  <2> QED
    BY <1>1, <2>2, <2>3, SeqMonotonic
<1>6. s \in Seq(D)
  <2>1. PICK c : c = <<":">>
    OBVIOUS
  <2>2. c \in Seq(D)
    BY <1>1, <2>1, One, SignsIn
  <2>3. p.scheme \in Seq(D)
    BY <1>1, <1>3 DEF PartsSet
  <2>4. p.scheme \o c \in Seq(D) /\ << >> \in Seq(D)
    BY <2>2, <2>3, ConcatProperties, None
  <2> QED
    BY <1>1, <2>1, <2>4 DEF SchemeWritten
<1>7. a \in Seq(D)
  <2>1. CASE p.host = << >>
    BY <1>1, <2>1, None DEF Before
  <2>2. CASE p.host # << >>
    <3>1. PICK u, h, r, b : /\ u = UserWritten(p) /\ h = HostText(p) /\ r = PortWritten(p)
                            /\ b = <<"/", "/">>
      OBVIOUS
    <3>2. b \in Seq(D)
      <4>1. "/" \in D
        BY <1>1, SlashIn
      <4> QED
        BY <3>1, <4>1
    <3>3. u \in Seq(D)
      <4>1. PICK w, c : w = encode(p.user, Mask05) /\ c = <<"@">>
        OBVIOUS
      <4>2. c \in Seq(D) /\ p.user \in Seq(Chars)
        BY <1>1, <1>3, <4>1, One, SignsIn DEF PartsSet
      <4>3. w \in Seq(D)
        BY <1>1, <4>1, <4>2, EncodeTyped, MasksIn, MasksOut
      <4>4. w \o c \in Seq(D) /\ << >> \in Seq(D)
        BY <4>2, <4>3, ConcatProperties, None
      <4> QED
        BY <3>1, <4>1, <4>4 DEF UserWritten
    <3>4. h \in Seq(D)
      BY <1>1, <2>2, <3>1, HostWritten
    <3>5. r \in Seq(D)
      <4>1. p.port \in Seq(Chars) /\ (p.port = << >> \/ is_port(p.port))
        BY <1>3 DEF Sound, PartsSet
      <4>2. r \in Seq(HostChars)
        BY <3>1, <4>1, PortRead
      <4>3. HostChars \subseteq D
        BY <1>1 DEF HostChars
      <4> QED
        BY <4>2, <4>3, SeqMonotonic
    <3>6. a = ((b \o u) \o h) \o r
      BY <1>1, <2>2, <3>1 DEF Before, AuthorityWritten
    <3>7. b \o u \in Seq(D)
      BY <3>2, <3>3, ConcatProperties
    <3>8. (b \o u) \o h \in Seq(D)
      BY <3>4, <3>7, ConcatProperties
    <3> QED
      BY <3>5, <3>6, <3>8, ConcatProperties
  <2> QED
    BY <2>1, <2>2
<1>8. s \o a \in Seq(D)
  BY <1>6, <1>7, ConcatProperties
<1>9. (s \o a) \o e \in Seq(D)
  BY <1>4, <1>8, ConcatProperties
<1>10. ((s \o a) \o e) \o q \in Seq(D)
  BY <1>5, <1>9, ConcatProperties
<1>11. (((s \o a) \o e) \o q) \o f \in Seq(D)
  BY <1>5, <1>10, ConcatProperties
<1> QED
  BY <1>1, <1>2, <1>11

-----------------------------------------------------------------------------
(* Sound parts stay sound, whoever changes them.                           *)

(* Sound parts in every object, whatever its flags say of them.            *)
SoundObject(u) == u.text \in Seq(Chars) /\ Sound(u.parts)
SoundObjects == \A o \in Objects : SoundObject(url[o])

LEMMA ClearedSound == SoundObject(Cleared)
<1>1. Cleared.text = << >> /\ Cleared.parts = NoParts
  BY DEF Cleared
<1> QED
  BY <1>1, None, NoPartsSound DEF SoundObject

LEMMA LazySound ==
  ASSUME NEW u, WellMade(u), SoundObject(u), Readable(u)
  PROVE  SoundObject(Lazy(u))
<1>1. CASE u.parse
  BY <1>1 DEF Lazy
<1>2. CASE ~u.parse /\ u.text = << >>
  BY <1>2, ClearedSound DEF Lazy
<1>3. CASE ~u.parse /\ u.text # << >>
  <2>1. PICK p : p = PartsOf(u.text)
    OBVIOUS
  <2>2. Lazy(u) = [u EXCEPT !.parse = TRUE, !.built = FALSE, !.parts = p]
    BY <1>3, <2>1 DEF Lazy
  <2>3. Lazy(u).parts = p /\ Lazy(u).text = u.text
    BY <2>2 DEF WellMade
  <2>4. PICK r \in Reading : r.text = u.text /\ p = r.parts
    <3>1. \E r \in Reading : r.text = u.text
      BY <1>3 DEF Readable
    <3> QED
      BY <2>1, <3>1, Zenon DEF PartsOf
  <2>5. PICK t \in Texts : Parses(t) /\ r.parts = Parts(t)
    BY ObjectAssumption
  <2>6. t \in Seq(Chars) /\ Defined(t)
    BY ObjectAssumption
  <2>7. Sound(Parts(t))
    BY <2>5, <2>6, PartsSound
  <2> QED
    BY <2>3, <2>4, <2>5, <2>7 DEF SoundObject
<1> QED
  BY <1>1, <1>2, <1>3 DEF WellMade

LEMMA OneSound ==
  ASSUME ObjectInv, SoundObjects, NEW o \in Objects, NEW u, SoundObject(u),
         url' = [url EXCEPT ![o] = u]
  PROVE  SoundObjects'
<1>1. url'[o] = u /\ \A x \in Objects \ {o} : url'[x] = url[x]
  BY DEF ObjectInv
<1> QED
  BY <1>1 DEF SoundObjects, SoundObject

LEMMA LazyOfSound ==
  ASSUME ObjectInv, SoundObjects, NEW o \in Objects, Readable(url[o]),
         NEW l, l = Lazy(url[o])
  PROVE  WellMade(l) /\ SoundObject(l) /\ l.parse
  BY LazyParses, LazySound DEF ObjectInv, SoundObjects

LEMMA ThrewSound ==
  ASSUME ObjectInv, SoundObjects, NEW o \in Objects, Threw(o)
  PROVE  SoundObjects'
<1>1. CASE url' = [url EXCEPT ![o] = url[o]]
  BY <1>1, OneSound DEF SoundObjects
<1>2. CASE Readable(url[o]) /\ url' = [url EXCEPT ![o] = Lazy(url[o])]
  BY <1>2, LazyOfSound, OneSound
<1> QED
  BY <1>1, <1>2 DEF Threw

LEMMA SoundSetText ==
  ASSUME ObjectInv, SoundObjects, NEW o \in Objects, NEW t \in Texts, SetText(o, t)
  PROVE  SoundObjects'
<1>1. PICK u : u = [url[o] EXCEPT !.text = t, !.parse = FALSE, !.built = FALSE]
  OBVIOUS
<1>2. url' = [url EXCEPT ![o] = u]
  BY <1>1, Returned DEF SetText
<1>3. u.text = t /\ u.parts = url[o].parts
  BY <1>1 DEF ObjectInv, WellMade
<1>4. t \in Seq(Chars)
  BY ObjectAssumption
<1>5. SoundObject(u)
  BY <1>3, <1>4 DEF SoundObject, SoundObjects
<1> QED
  BY <1>2, <1>5, OneSound

LEMMA SoundClear ==
  ASSUME ObjectInv, SoundObjects, NEW o \in Objects, clear(o)
  PROVE  SoundObjects'
<1>1. url' = [url EXCEPT ![o] = Cleared]
  BY Returned DEF clear
<1> QED
  BY <1>1, ClearedSound, OneSound

LEMMA SoundSet ==
  ASSUME ObjectInv, SoundObjects, NEW o \in Objects, NEW c \in Calls, Taken(c),
         Readable(url[o]), Return(o, c.name, Changed(Lazy(url[o]), c))
  PROVE  SoundObjects'
<1>1. PICK l : l = Lazy(url[o])
  OBVIOUS
<1>2. WellMade(l) /\ SoundObject(l)
  BY <1>1, LazyOfSound
<1>3. PICK u : u = Changed(l, c)
  OBVIOUS
<1>4. u = [l EXCEPT !.parts = Made(l.parts, c), !.built = u.built]
  BY <1>2, <1>3 DEF Changed, WellMade
<1>5. u.parts = Made(l.parts, c) /\ u.text = l.text
  BY <1>2, <1>4 DEF WellMade
<1>6. url' = [url EXCEPT ![o] = u]
  BY <1>1, <1>3, Returned
<1>7. SoundObject(u)
  BY <1>2, <1>5, MadeSound DEF SoundObject
<1> QED
  BY <1>6, <1>7, OneSound

LEMMA SoundReference ==
  ASSUME ObjectInv, SoundObjects, NEW o \in Objects, Readable(url[o]),
         NEW call, Return(o, call, [Lazy(url[o]) EXCEPT !.built = FALSE])
  PROVE  SoundObjects'
<1>1. PICK l : l = Lazy(url[o])
  OBVIOUS
<1>2. WellMade(l) /\ SoundObject(l)
  BY <1>1, LazyOfSound
<1>3. PICK u : u = [l EXCEPT !.built = FALSE]
  OBVIOUS
<1>4. u.parts = l.parts /\ u.text = l.text
  BY <1>2, <1>3 DEF WellMade
<1>5. url' = [url EXCEPT ![o] = u]
  BY <1>1, <1>3, Returned
<1> QED
  BY <1>2, <1>4, <1>5, OneSound DEF SoundObject

LEMMA SoundSetEntry ==
  ASSUME ObjectInv, SoundObjects, NEW o \in Objects, NEW i, NEW e \in Entry,
         Readable(url[o]), i \in DOMAIN Seen(url[o]).query,
         Return(o, "entry", [Lazy(url[o]) EXCEPT !.built = FALSE, !.parts.query[i] = e])
  PROVE  SoundObjects'
<1>1. PICK l : l = Lazy(url[o])
  OBVIOUS
<1>2. WellMade(l) /\ SoundObject(l)
  BY <1>1, LazyOfSound
<1>3. PICK p, q, r : p = l.parts /\ q = p.query /\ r = [q EXCEPT ![i] = e]
  OBVIOUS
<1>4. Sound(p) /\ i \in DOMAIN q
  BY <1>1, <1>2, <1>3 DEF SoundObject, Seen
<1>5. q \in Seq(Entry)
  BY <1>3, <1>4, SoundParts DEF SoundFields
<1>6. r \in Seq(Entry)
  <2>1. PICK n : n = Len(q)
    OBVIOUS
  <2>2. n \in Nat /\ q \in [1..n -> Entry]
    BY <1>5, <2>1, LenProperties
  <2>3. r \in [1..n -> Entry]
    BY <1>3, <1>4, <2>2
  <2> QED
    BY <2>2, <2>3, FunctionIsSeq
<1>7. PICK w : w = [p EXCEPT !.query = r]
  OBVIOUS
<1>8. Sound(w)
  BY <1>4, <1>6, <1>7, QuerySound
<1>9. PICK u : u = [l EXCEPT !.built = FALSE, !.parts.query[i] = e]
  OBVIOUS
<1>10. u.parts = w /\ u.text = l.text
  BY <1>2, <1>3, <1>7, <1>9 DEF WellMade
<1>11. url' = [url EXCEPT ![o] = u]
  BY <1>1, <1>9, Returned
<1> QED
  BY <1>2, <1>8, <1>10, <1>11, OneSound DEF SoundObject

LEMMA SoundWrite ==
  ASSUME ObjectInv, SoundObjects, NEW o \in Objects, NEW q \in Queries, WriteThrough(o, q)
  PROVE  SoundObjects'
<1>1. PICK l : l = url[o]
  OBVIOUS
<1>2. WellMade(l) /\ SoundObject(l)
  BY <1>1 DEF ObjectInv, SoundObjects
<1>3. q \in Seq(Entry)
  BY ObjectAssumption
<1>4. PICK p, w : p = l.parts /\ w = [p EXCEPT !.query = q]
  OBVIOUS
<1>5. Sound(w)
  BY <1>2, <1>3, <1>4, QuerySound DEF SoundObject
<1>6. PICK u : u = [l EXCEPT !.parts.query = q]
  OBVIOUS
<1>7. u.parts = w /\ u.text = l.text
  BY <1>2, <1>4, <1>6 DEF WellMade
<1>8. url' = [url EXCEPT ![o] = u]
  BY <1>1, <1>6, Returned DEF WriteThrough
<1> QED
  BY <1>2, <1>5, <1>7, <1>8, OneSound DEF SoundObject

LEMMA SoundSaid ==
  ASSUME ObjectInv, SoundObjects, NEW o \in Objects, NEW call,
         \/ Readable(url[o]) /\ BuildUrl(o, call, Lazy(url[o]))
         \/ Say(o, call, url[o], url[o].text)
         \/ Readable(url[o]) /\ Say(o, call, Lazy(url[o]), Lazy(url[o]).text)
         \/ Throw(o, call, url[o])
  PROVE  SoundObjects'
<1>1. CASE \E u : SoundObject(u) /\ url' = [url EXCEPT ![o] = u]
  BY <1>1, OneSound
<1>2. SoundObject(url[o]) /\ (Readable(url[o]) => SoundObject(Lazy(url[o])))
  BY LazyOfSound DEF SoundObjects
<1>3. CASE Readable(url[o]) /\ BuildUrl(o, call, Lazy(url[o]))
  <2>1. PICK l : l = Lazy(url[o])
    OBVIOUS
  <2>2. WellMade(l) /\ SoundObject(l)
    BY <1>3, <2>1, LazyOfSound
  <2>3. CASE Builds(l.parts)
    <3>1. PICK t, u : t = Build(l.parts) /\ u = [l EXCEPT !.built = FALSE, !.text = t]
      OBVIOUS
    <3>2. t \in Seq(Chars)
      BY <2>2, <2>3, <3>1, BuildTyped DEF SoundObject
    <3>3. u.parts = l.parts /\ u.text = t
      BY <2>2, <3>1 DEF WellMade
    <3>4. SoundObject(u)
      BY <2>2, <3>2, <3>3 DEF SoundObject
    <3>5. url' = [url EXCEPT ![o] = u]
      BY <1>3, <2>1, <2>3, <3>1, SaidOf DEF BuildUrl
    <3> QED
      BY <1>1, <3>4, <3>5
  <2>4. CASE ~Builds(l.parts)
    <3>1. url' = [url EXCEPT ![o] = l]
      BY <1>3, <2>1, <2>4, Thrown DEF BuildUrl
    <3> QED
      BY <1>1, <2>2, <3>1
  <2> QED
    BY <2>3, <2>4
<1>4. CASE ~(Readable(url[o]) /\ BuildUrl(o, call, Lazy(url[o])))
  <2>1. \/ url' = [url EXCEPT ![o] = url[o]]
        \/ Readable(url[o]) /\ url' = [url EXCEPT ![o] = Lazy(url[o])]
    BY <1>4, SaidOf, Thrown
  <2> QED
    BY <1>1, <1>2, <2>1
<1> QED
  BY <1>3, <1>4

LEMMA SoundTransfer ==
  ASSUME ObjectInv, SoundObjects, NEW x \in Objects, NEW y \in Objects,
         Copy(x, y) \/ Move(x, y)
  PROVE  SoundObjects'
<1>1. PICK a, b : a = url[x] /\ b = url[y]
  OBVIOUS
<1>2. WellMade(a) /\ WellMade(b) /\ SoundObject(a) /\ SoundObject(b)
  BY <1>1 DEF ObjectInv, SoundObjects
<1>3. PICK left :
        /\ left = b \/ left = MovedFrom(b)
        /\ url' = [url EXCEPT ![x] = Assigned(a, b), ![y] = left]
        /\ x # y
  BY <1>1 DEF Copy, Move, Transfer
<1>4. SoundObject(Assigned(a, b))
  BY <1>2 DEF Assigned, SoundObject
<1>5. SoundObject(left)
  <2>1. CASE left = b
    BY <1>2, <2>1
  <2>2. CASE left = MovedFrom(b)
    <3>1. PICK t, v, e, p : /\ t = (IF ~b.parse \/ b.built THEN << >> ELSE b.text)
                            /\ v = b.parts.ip_v /\ e = [NoParts EXCEPT !.ip_v = v]
                            /\ p = IF b.parse THEN e ELSE b.parts
      OBVIOUS
    <3>2. left = [b EXCEPT !.text = t, !.parts = p]
      BY <2>2, <3>1 DEF MovedFrom
    <3>3. left.text = t /\ left.parts = p
      BY <1>2, <3>2 DEF WellMade
    <3>4. t \in Seq(Chars)
      BY <1>2, <3>1, None DEF SoundObject
    <3>5. v \in -1..127
      BY <1>2, <3>1, SoundParts DEF SoundObject, SoundFields
    <3>6. Sound(e)
      BY <3>1, <3>5, EmptySound
    <3>7. Sound(p)
      BY <1>2, <3>1, <3>6 DEF SoundObject
    <3> QED
      BY <3>3, <3>4, <3>7 DEF SoundObject
  <2> QED
    BY <1>3, <2>1, <2>2
<1>6. /\ url'[x] = Assigned(a, b) /\ url'[y] = left
      /\ \A o \in Objects \ {x, y} : url'[o] = url[o]
  BY <1>3 DEF ObjectInv
<1> QED
  BY <1>4, <1>5, <1>6 DEF SoundObjects, SoundObject

LEMMA SoundNext ==
  ASSUME ObjectInv, SoundObjects, Next
  PROVE  SoundObjects'
<1>1. ASSUME NEW o \in Objects, Get(o)
      PROVE  SoundObjects'
  BY <1>1, StepGet, ThrewSound
<1>2. ASSUME NEW o \in Objects, NEW c \in Calls, Set(o, c)
      PROVE  SoundObjects'
  <2>1. CASE /\ Readable(url[o]) /\ Taken(c)
             /\ Return(o, c.name, Changed(Lazy(url[o]), c))
    BY <2>1, SoundSet
  <2>2. CASE ~(/\ Readable(url[o]) /\ Taken(c)
               /\ Return(o, c.name, Changed(Lazy(url[o]), c)))
    <3>1. Threw(o)
      BY <1>2, <2>2, Thrown DEF Set, Threw
    <3> QED
      BY <3>1, ThrewSound
  <2> QED
    BY <2>1, <2>2
<1>3. ASSUME NEW o \in Objects, NEW i, NEW e \in Entry, SetEntry(o, i, e)
      PROVE  SoundObjects'
  <2>1. CASE /\ Readable(url[o]) /\ i \in DOMAIN Seen(url[o]).query
             /\ Return(o, "entry", [Lazy(url[o]) EXCEPT !.built = FALSE,
                                                        !.parts.query[i] = e])
    BY <2>1, SoundSetEntry
  <2>2. CASE \/ Throw(o, "entry", url[o])
             \/ Readable(url[o]) /\ Throw(o, "entry", Lazy(url[o]))
    <3>1. Threw(o)
      BY <1>3, <2>2, Thrown DEF SetEntry, Threw
    <3> QED
      BY <3>1, ThrewSound
  <2> QED
    BY <1>3, <2>1, <2>2 DEF SetEntry
<1>4. ASSUME NEW o \in Objects, SetQuery(o)
      PROVE  SoundObjects'
  <2>1. CASE Readable(url[o]) /\ Return(o, "reference", [Lazy(url[o]) EXCEPT !.built = FALSE])
    BY <2>1, SoundReference
  <2>2. CASE Throw(o, "reference", url[o]) /\ refs' = refs
    BY <2>2, Thrown, ThrewSound DEF Threw
  <2> QED
    BY <1>4, <2>1, <2>2 DEF SetQuery
<1>5. ASSUME NEW o \in Objects, str(o) \/ output(o)
      PROVE  SoundObjects'
  BY <1>5, SoundSaid DEF str, output
<1>6. ASSUME NEW o \in Objects,
             \/ clear(o) \/ \E t \in Texts : SetText(o, t)
             \/ \E q \in Queries : WriteThrough(o, q)
      PROVE  SoundObjects'
  BY <1>6, SoundClear, SoundSetText, SoundWrite
<1>7. ASSUME NEW x \in Objects, NEW y \in Objects, Copy(x, y) \/ Move(x, y)
      PROVE  SoundObjects'
  BY <1>7, SoundTransfer
<1>8. \A q \in Queries : \A e \in Range(q) : e \in Entry
  <2>1. ASSUME NEW q \in Queries, NEW e \in Range(q) PROVE e \in Entry
    <3>1. q \in Seq(Entry)
      BY ObjectAssumption
    <3>2. PICK i \in 1..Len(q) : q[i] = e
      BY <3>1, InRange
    <3> QED
      BY <3>1, <3>2, ElementOfSeq
  <2> QED
    BY <2>1
<1> QED
  BY <1>1, <1>2, <1>3, <1>4, <1>5, <1>6, <1>7, <1>8 DEF Next

-----------------------------------------------------------------------------
(* Sound parts of every object, and texts that are read back.              *)

(* What is said is said of an object that has its parts.                   *)
SaidIsParsed == Told => last.of \in Objects /\ url[last.of].parse

LEMMA BuildParsed ==
  ASSUME ObjectInv, NEW o \in Objects, NEW call, Readable(url[o]),
         BuildUrl(o, call, Lazy(url[o]))
  PROVE  SaidIsParsed'
<1>1. PICK l : l = Lazy(url[o])
  OBVIOUS
<1>2. WellMade(l) /\ l.parse
  BY <1>1, LazyParses DEF ObjectInv
<1>3. CASE Builds(l.parts)
  <2>1. PICK t, u : t = Build(l.parts) /\ u = [l EXCEPT !.built = FALSE, !.text = t]
    OBVIOUS
  <2>2. u.parse
    BY <1>2, <2>1 DEF WellMade
  <2>3. url' = [url EXCEPT ![o] = u] /\ last'.of = o
    BY <1>1, <1>3, <2>1, SaidOf DEF BuildUrl
  <2>4. url'[o] = u
    BY <2>3 DEF ObjectInv
  <2> QED
    BY <2>2, <2>3, <2>4 DEF SaidIsParsed
<1>4. CASE ~Builds(l.parts)
  BY <1>1, <1>4, Thrown DEF BuildUrl, Silent, SaidIsParsed
<1> QED
  BY <1>3, <1>4

LEMMA SaidParsed ==
  ASSUME ObjectInv, NEW o \in Objects, str(o) \/ output(o)
  PROVE  SaidIsParsed'
<1>1. ASSUME NEW u, u.parse, NEW call, NEW text, Say(o, call, u, text)
      PROVE  SaidIsParsed'
  <2>1. url' = [url EXCEPT ![o] = u] /\ last'.of = o
    BY <1>1, SaidOf
  <2>2. url'[o] = u
    BY <2>1 DEF ObjectInv
  <2> QED
    BY <1>1, <2>1, <2>2 DEF SaidIsParsed
<1>2. ASSUME NEW call, Throw(o, call, url[o])
      PROVE  SaidIsParsed'
  BY <1>2, Thrown DEF Silent, SaidIsParsed
<1>3. url[o].built => url[o].parse
  BY ClearedWellMade DEF ObjectInv, WellMade
<1>4. Readable(url[o]) => Lazy(url[o]).parse
  BY LazyParses DEF ObjectInv
<1> QED
  BY <1>1, <1>2, <1>3, <1>4, BuildParsed DEF str, output

LEMMA SaidNext ==
  ASSUME ObjectInv, Next
  PROVE  SaidIsParsed'
<1>1. ASSUME NEW o \in Objects,
             \/ Get(o) \/ clear(o) \/ SetQuery(o)
             \/ \E t \in Texts : SetText(o, t)
             \/ \E c \in Calls : Set(o, c)
             \/ \E q \in Queries : WriteThrough(o, q)
             \/ \E q \in Queries : \E e \in Range(q), i \in 1..2 : SetEntry(o, i, e)
      PROVE  SaidIsParsed'
  <2>1. Silent
    BY <1>1, StepGet, StepClear, StepSetQuery, StepSetText, StepSet, StepWriteThrough,
       StepSetEntry
  <2> QED
    BY <2>1 DEF Silent, SaidIsParsed
<1>2. ASSUME NEW x \in Objects, NEW y \in Objects, Copy(x, y) \/ Move(x, y)
      PROVE  SaidIsParsed'
  BY <1>2, StepTransfer DEF SaidIsParsed
<1> QED
  BY <1>1, <1>2, SaidParsed DEF Next

LEMMA CountedNext ==
  ASSUME calls \in 0..MaxCalls, Next
  PROVE  calls' \in 0..MaxCalls
<1>1. calls < MaxCalls /\ calls' = calls + 1
  BY DEF Next, Get, clear, SetQuery, str, output, SetText, Set, WriteThrough, SetEntry, Copy,
         Move, Transfer, BuildUrl, Return, Throw, Say
<1> QED
  BY <1>1, ObjectAssumption

(* Everything that the round trip needs.                                   *)
SoundInv == SoundObjects /\ SaidIsParsed /\ calls \in 0..MaxCalls

(* At every moment every object has sound parts, good or not: what the     *)
(* setters take, parse_url reads or a reference writes is never out of the *)
(* form that build_url writes so that it is read again.                    *)
THEOREM PartsStaySound == Spec => []SoundInv
<1>1. Init => SoundInv
  <2> SUFFICES ASSUME Init
               PROVE  SoundInv
    OBVIOUS
  <2>1. SoundObjects
    BY ClearedSound DEF Init, SoundObjects
  <2>2. ~Told
    BY DEF Init, Told, Nothing
  <2>3. calls \in 0..MaxCalls
    BY ObjectAssumption DEF Init
  <2> QED
    BY <2>1, <2>2, <2>3 DEF SoundInv, SaidIsParsed
<1>2. ObjectInv /\ SoundInv /\ [Next]_vars => SoundInv'
  <2>1. ASSUME SoundInv, UNCHANGED vars
        PROVE  SoundInv'
    BY <2>1 DEF vars, SoundInv, SoundObjects, SoundObject, SaidIsParsed, Told
  <2> QED
    BY <2>1, SoundNext, SaidNext, CountedNext DEF SoundInv
<1> QED
  BY <1>1, <1>2, Inductive, PTL DEF Spec, InductiveInv

(* Objects have texts, flags and parts of their types, whatever is called. *)
THEOREM ObjectsTyped == Spec => []TypeOK
<1>1. ObjectInv /\ SoundInv => TypeOK
  <2> SUFFICES ASSUME ObjectInv, SoundInv
               PROVE  TypeOK
    OBVIOUS
  <2>1. ASSUME NEW o \in Objects
        PROVE  /\ url[o].text \in Seq(Chars)
               /\ url[o].parse \in BOOLEAN /\ url[o].built \in BOOLEAN
               /\ \A f \in DOMAIN NoParts \ {"ip_v", "query"} : url[o].parts[f] \in Seq(Chars)
               /\ url[o].parts.ip_v \in -1..127
               /\ url[o].parts.query \in Seq(Entry)
    <3>1. PICK u, p : u = url[o] /\ p = u.parts
      OBVIOUS
    <3>2. WellMade(u) /\ u.text \in Seq(Chars) /\ Sound(p)
      BY <3>1 DEF ObjectInv, SoundInv, SoundObjects, SoundObject
    <3>3. /\ p.scheme \in Seq(Chars) /\ p.user \in Seq(Chars) /\ p.host \in Seq(Chars)
          /\ p.port \in Seq(Chars) /\ p.path \in Seq(Chars) /\ p.fragment \in Seq(Chars)
          /\ p.ip_v \in -1..127 /\ p.query \in Seq(Entry)
      BY <3>2, SoundParts DEF SoundFields
    <3>4. DOMAIN NoParts \ {"ip_v", "query"}
            = {"scheme", "user", "host", "port", "path", "fragment"}
      BY DEF NoParts
    <3> QED
      BY <3>1, <3>2, <3>3, <3>4 DEF WellMade
  <2> QED
    BY <2>1 DEF TypeOK, ObjectInv, SoundInv
<1> QED
  BY <1>1, Inductive, PartsStaySound, PTL DEF InductiveInv

(* The text that str() or output() gives, read again, has the object's     *)
(* parts, whatever texts and calls these came from, for every text that    *)
(* parse_url takes and every argument that the setters take.               *)
THEOREM TextsReadBack == Spec => []RoundTrip
<1>1. ObjectInv /\ StrIsCurrent /\ SoundInv => RoundTrip
  <2> SUFFICES ASSUME ObjectInv, StrIsCurrent, SoundInv, Told, Carried(Seen(url[last.of]))
               PROVE  /\ Parses(last.said)
                      /\ Meaning(Parts(last.said)) = Meaning(Seen(url[last.of]))
    BY DEF RoundTrip
  <2>1. PICK u, p : u = url[last.of] /\ p = Seen(u)
    OBVIOUS
  <2>2. u.parse /\ SoundObject(u)
    BY <2>1 DEF SoundInv, SaidIsParsed, SoundObjects
  <2>3. p = u.parts
    BY <2>1, <2>2 DEF Seen, Lazy
  <2>4. Sound(p) /\ Carried(p) /\ Builds(p) /\ last.said = Build(p)
    BY <2>1, <2>2, <2>3 DEF SoundObject, StrIsCurrent
  <2>5. Parses(Build(p)) /\ Meaning(Parts(Build(p))) = Meaning(p)
    BY <2>4, ReadBack
  <2> QED
    BY <2>1, <2>4, <2>5
<1> QED
  BY <1>1, Inductive, PartsStaySound, PTL DEF InductiveInv

=============================================================================
