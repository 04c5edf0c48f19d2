------------------------------- MODULE MCUrl -------------------------------
(***************************************************************************)
(* UrlObject for TLC.                                                      *)
(***************************************************************************)
EXTENDS UrlObject, TLC

ObjectSymmetry == Permutations(Objects)

(* A default port, dots and capitals behind escapes and an entry without a *)
(* key; an address, a user, an escaped '&' and a key twice; a text that    *)
(* does not parse.                                                         *)
UrlTexts ==
  { << >>,
    <<"h","t","t","p",":","/", "/", "H", ":", "8", "0", "/", "a", "/", "%", "2", "e", ".",
      "?", "k", "&">>,
    <<"h",":","/", "/", "u", "@", "[", "0", ":", ":", "B", "]", ":", "8", "?", "k", "=",
      "%", "2", "6", "&", "k", "#", "f">>,
    <<"/", "%">> }

ReadingOf(texts) == {[text |-> t, parts |-> Parts(t)] : t \in {u \in texts : Parses(u)}}
UrlTextsRead == ReadingOf(UrlTexts)  \* a name of its own: TLC evaluates it once
UrlReading == UrlTextsRead

Arg(name, arg) == [name |-> name, arg |-> arg, ip_v |-> 0]

SetterCalls ==
  { Arg("scheme", <<"H", "t", "t", "p">>), Arg("scheme", << >>),
    Arg("user", <<"a", "@">>),
    Arg("host", << >>), Arg("host", <<"N">>), Arg("host", <<"a", "b">>),
    Arg("host", <<"1", ":", "0", ":", ":", "C">>),
    [name |-> "host", arg |-> <<":", "1">>, ip_v |-> 1],
    Arg("port", <<"8", "0">>),
    Arg("path", <<"/", "a", " ", "/", ".", "/", "b", "/", ".", ".">>),
    Arg("fragment", <<"#", "%">>),
    Arg("query", << >>),
    Arg("add", << [key |-> <<"k", "=">>, val |-> <<"+", " ">>] >>) }

(* The same with the address of zeros.                                     *)
ZeroHost == { Arg("host", <<"0", ":", ":", "0">>) }
NoTexts == { << >> }
NoReading == ReadingOf(NoTexts)

Written == { << >>, << [key |-> <<"w">>, val |-> <<"=", ";">>] >> }
=============================================================================
