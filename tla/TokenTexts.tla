----------------------------- MODULE TokenTexts -----------------------------
(***************************************************************************)
(* The text of one token: made by CreateToken for a name, or signed by     *)
(* another program that uses the library, cut or changed on its way, and   *)
(* verified at any time.  The bytes of the name also stand for those of a  *)
(* picture, for the codec of the frame service.                            *)
(*                                                                         *)
(* ApiHandler and SessionService know tokens by their claims (ApiTypes):   *)
(* this module shows that the texts behave as they assume.                 *)
(***************************************************************************)
EXTENDS JsonWebToken

CONSTANTS
  NameBytes,  \* bytes that names are made of
  MaxName,    \* bound: bytes of a name
  MaxSecond,  \* bound: last second the wall clock shows
  Builders,   \* what other programs sign
  Keys,       \* with these algorithms and secrets
  Verifiers   \* and what they demand of it

ASSUME TokenAssumption == /\ Lifetime \in Nat
                          /\ MaxSecond \in Nat
                          /\ MaxName \in Nat
                          /\ NameBytes \subseteq Byte

(* Leeways are of type size_t, and with_audience makes a set of its        *)
(* argument.                                                               *)
ASSUME VerifierAssumption == \A v \in Verifiers :
  /\ v.default_leeway \in Nat
  /\ \A key \in DOMAIN v.claims \cap {"exp", "iat", "nbf"} : v.claims[key].int \in Nat
  /\ "aud" \in DOMAIN v.claims => v.claims.aud.type = "array"

(* What is signed here: names of every length, at any time, and what other *)
(* programs sign.                                                          *)
Names == UNION {[1..n -> NameBytes] : n \in 0..MaxName}
Signed == {<<Created(n, iat, sec), hs256(Secret)>> :
             n \in Names, iat \in 0..MaxSecond, sec \in 0..MaxSecond}
          \cup Builders \X Keys

(* The objects that are signed are among Objects, and the texts and the    *)
(* signatures of them are strings of bytes.                                *)
ASSUME SigningAssumption == \A s \in Signed :
  LET header == SignedHeader(s[1], s[2])
      payload == s[1].payload
  IN  /\ header \in Objects /\ payload \in Objects
      /\ Serialize(header) \in Seq(Byte) /\ Serialize(payload) \in Seq(Byte)
      /\ Hmac(s[2].secret, Signable(s[1], s[2])) \in Seq(Byte)

Api == INSTANCE ApiTypes WITH TokenLifetime <- Lifetime, Paths <- {}, Bodies <- {},
                              LooseHeaders <- {}

VARIABLES
  now,    \* the wall clock
  name,   \* the bytes of the name
  token,  \* the dates of the token: none yet, or another program's
  made,   \* the text as it was signed
  text    \* the text as it is

vars == <<now, name, token, made, text>>

NoDates == [iat |-> 0, exp |-> 0, of |-> "none"]
OtherDates == [NoDates EXCEPT !.of = "other"]

TypeOK ==
  /\ now \in Api!Clock
  /\ name \in Seq(NameBytes) /\ Len(name) <= MaxName
  /\ token \in [iat: 0..MaxSecond, exp: 0..(MaxSecond + Lifetime),
                of: {"none", "other", "CreateToken"}]
  /\ made \in Seq(Sextet \cup {Dot})
  /\ text \in Seq(Sextet \cup {Dot, Percent})

Init ==
  /\ now = [sec |-> 0, late |-> FALSE]
  /\ name = << >> /\ token = NoDates
  /\ made = << >> /\ text = << >>

Type(byte) ==
  /\ token = NoDates /\ Len(name) < MaxName
  /\ name' = Append(name, byte)
  /\ UNCHANGED <<now, token, made, text>>

(* The second look at the clock may fall into the next second.             *)
Create(sec) ==
  /\ token = NoDates
  /\ sec \in {now.sec, now.sec + 1} \cap 0..MaxSecond
  /\ token' = [iat |-> now.sec, exp |-> sec + Lifetime, of |-> "CreateToken"]
  /\ made' = CreateToken(name, now.sec, sec)
  /\ text' = made'
  /\ UNCHANGED <<now, name>>

SignElsewhere(b, key) ==
  /\ token = NoDates
  /\ token' = OtherDates
  /\ made' = sign(b, key)
  /\ text' = made'
  /\ UNCHANGED <<now, name>>

(* A part of the text is all that is left.                                 *)
Cut(i, j) ==
  /\ token # NoDates /\ text = made
  /\ text' = SubSeq(made, i, j)
  /\ UNCHANGED <<now, name, token, made>>

(* One character becomes another.                                          *)
Change(i, c) ==
  /\ token # NoDates /\ text = made
  /\ text' = [made EXCEPT ![i] = c]
  /\ UNCHANGED <<now, name, token, made>>

TimePasses ==
  /\ Api!Later(now, now') \/ Api!SetBack(now, now')
  /\ UNCHANGED <<name, token, made, text>>

Next ==
  \/ \E byte \in NameBytes : Type(byte)
  \/ \E sec \in 0..MaxSecond : Create(sec)
  \/ \E b \in Builders, key \in Keys : SignElsewhere(b, key)
  \/ \E i, j \in DOMAIN made : i <= j /\ Cut(i, j)
  \/ \E i \in DOMAIN made, c \in {0, 1, Dot, Percent} : Change(i, c)
  \/ TimePasses

Spec == Init /\ [][Next]_vars

-----------------------------------------------------------------------------
(* Properties.                                                             *)

Whole == token.of = "CreateToken" /\ text = made

(* A token of CreateToken is what ApiHandler takes it for: at each instant *)
(* Verify accepts it if and only if neither date is in its way, whatever   *)
(* the name, and it never throws on it, which would end http_server.       *)
VerifyAsPromised ==
  Whole => verify(Verifier, text, now)
             = IF Api!Valid(token, now) THEN {"ok"} ELSE {"token_expired"}

(* A text that was cut or changed on its way is accepted only if nothing   *)
(* changed but bits that the last character of the signature does not use: *)
(* TokenExist finds a part of a token inside a stored text, and ApiHandler *)
(* trusts Verify to refuse it, or to throw.                                *)
ChangeRefused ==
  \A v \in Verifiers \cup {Verifier} :
    Accepted(v, text, now) =>
      /\ Front(text) = Front(made)
      /\ Part(signature_base64(text)) = Part(signature_base64(made))

(* A verifier that demands more, or allows less leeway, never accepts what *)
(* another one refuses: the checks of the claims add up and none of them   *)
(* hides another.                                                          *)
Stricter(v, w) ==
  /\ v.algs \subseteq w.algs /\ v.default_leeway <= w.default_leeway
  /\ \A key \in DOMAIN w.claims \ {"exp", "iat", "nbf"} :
       /\ key \in DOMAIN v.claims
       /\ \/ v.claims[key] = w.claims[key]
          \/ key = "aud" /\ w.claims.aud.set \subseteq v.claims.aud.set
  /\ \A key \in {"exp", "iat", "nbf"} :
       Leeway(v, key) <= Leeway(w, key)

StricterRefusesMore ==
  LET content == {v \in Verifiers : Accepted(v, text, now)}
  IN  \A v \in content, w \in Verifiers \ content : ~Stricter(v, w)

(* base64.c fills exactly the buffer that Base64encode_len says, never     *)
(* more than Base64decode_len says, and gives back the bytes it was given, *)
(* whatever their number.                                                  *)
BuffersFit ==
  LET coded == Base64encode(name)
      plain == Base64decode(coded)
  IN  /\ Len(coded) = Base64encode_len(Len(name))
      /\ Len(plain.plain) + 1 <= Base64decode_len(coded)
      /\ plain.length = Len(plain.plain)
      /\ plain.plain = name

(* So does base.h, with its fills, and without them as tokens have them;   *)
(* the two codecs agree on every character.                                *)
CodecsAgree ==
  LET coded == encode(name, UrlFill)
  IN  /\ BuffersFit
      /\ Decodable(coded, UrlFill) /\ decode(coded, UrlFill) = name
      /\ IsPart(trim(coded, UrlFill)) /\ Part(trim(coded, UrlFill)) = name
      /\ encode(name, Fill) = Front(Base64encode(name))
=============================================================================
