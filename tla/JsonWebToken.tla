---------------------------- MODULE JsonWebToken ----------------------------
(***************************************************************************)
(* Tokens as jwt-cpp builds, decodes and verifies them (jwt.h), and as     *)
(* json_web_tokens.cpp uses it.                                            *)
(*                                                                         *)
(* A claim has a type and a value; a JSON object is a function from names  *)
(* to claims.  What the text of an object is, and what HMAC-SHA256 gives,  *)
(* are parameters.                                                         *)
(***************************************************************************)
EXTENDS Base64

CONSTANTS
  Objects,       \* the JSON objects that occur
  Serialize(_),  \* the text of an object, as bytes
  Hmac(_, _)     \* the bytes HMAC-SHA256 makes of a key and a text

(* The texts of objects: parsing gives back what was serialized.           *)
Written == {[chars |-> Serialize(o), claims |-> o] : o \in Objects}

ASSUME JsonAssumption ==
  /\ \A w, x \in Written : w.chars = x.chars => w = x
  /\ \A o \in Objects : \A id \in DOMAIN o : o[id].type = "integer" => o[id].int \in Int

String(s) == [type |-> "string", str |-> s]
Number(n) == [type |-> "integer", int |-> n]
Strings(set) == [type |-> "array", set |-> set]

Put(f, x, v) == [y \in DOMAIN f \cup {x} |-> IF y = x THEN v ELSE f[y]]
EmptyObject == [x \in {} |-> x]

-----------------------------------------------------------------------------
(* builder.                                                                *)

create == [header |-> EmptyObject, payload |-> EmptyObject]
set_header_claim(b, id, c) == [b EXCEPT !.header = Put(@, id, c)]
set_payload_claim(b, id, c) == [b EXCEPT !.payload = Put(@, id, c)]
set_algorithm(b, str) == set_header_claim(b, "alg", String(str))
set_type(b, str) == set_header_claim(b, "typ", String(str))
set_issuer(b, str) == set_payload_claim(b, "iss", String(str))
set_subject(b, str) == set_payload_claim(b, "sub", String(str))
set_audience(b, c) == set_payload_claim(b, "aud", c)
set_expires_at(b, sec) == set_payload_claim(b, "exp", Number(sec))
set_not_before(b, sec) == set_payload_claim(b, "nbf", Number(sec))
set_issued_at(b, sec) == set_payload_claim(b, "iat", Number(sec))
set_id(b, str) == set_payload_claim(b, "jti", String(str))

hs256(secret) == [name |-> "HS256", secret |-> secret]

(* A part of a token: base64url without the fills.                         *)
Coded(bytes) == trim(encode(bytes, UrlFill), UrlFill)

SignedHeader(b, algo) ==
  IF "alg" \in DOMAIN b.header THEN b.header
  ELSE Put(b.header, "alg", String(algo.name))

(* The text that is signed.                                                *)
Signable(b, algo) ==
  Coded(Serialize(SignedHeader(b, algo))) \o <<Dot>> \o Coded(Serialize(b.payload))

sign(b, algo) ==
  LET token == Signable(b, algo)
  IN  token \o <<Dot>> \o Coded(Hmac(algo.secret, token))

-----------------------------------------------------------------------------
(* decoded_jwt.                                                            *)

Dots(token) == {i \in DOMAIN token : token[i] = Dot}
hdr_end(token) == Min(Dots(token))
payload_end(token) == Min(Dots(token) \ {hdr_end(token)})

header_base64(token) == SubSeq(token, 1, hdr_end(token) - 1)
payload_base64(token) == SubSeq(token, hdr_end(token) + 1, payload_end(token) - 1)
signature_base64(token) == SubSeq(token, payload_end(token) + 1, Len(token))

IsPart(base) == Decodable(pad(base, UrlFill), UrlFill)
Part(base) == decode(pad(base, UrlFill), UrlFill)

Texts == {w.chars : w \in Written}
parse_claims(chars) == (CHOOSE w \in Written : w.chars = chars).claims

(* What the constructor does not throw on.                                 *)
IsToken(token) ==
  /\ Cardinality(Dots(token)) >= 2
  /\ IsPart(header_base64(token)) /\ Part(header_base64(token)) \in Texts
  /\ IsPart(payload_base64(token)) /\ Part(payload_base64(token)) \in Texts
  /\ IsPart(signature_base64(token))

header_claims(token) == parse_claims(Part(header_base64(token)))
payload_claims(token) == parse_claims(Part(payload_base64(token)))

-----------------------------------------------------------------------------
(* verifier.                                                               *)

verifier == [claims |-> EmptyObject, default_leeway |-> 0, algs |-> {}]
leeway(v, sec) == [v EXCEPT !.default_leeway = sec]
with_claim(v, name, c) == [v EXCEPT !.claims = Put(@, name, c)]
expires_at_leeway(v, sec) == with_claim(v, "exp", Number(sec))
not_before_leeway(v, sec) == with_claim(v, "nbf", Number(sec))
issued_at_leeway(v, sec) == with_claim(v, "iat", Number(sec))
with_issuer(v, iss) == with_claim(v, "iss", String(iss))
with_subject(v, sub) == with_claim(v, "sub", String(sub))
with_audience(v, aud) == with_claim(v, "aud", Strings(aud))
with_id(v, id) == with_claim(v, "jti", String(id))
allow_algorithm(v, alg) ==
  [v EXCEPT !.algs = {a \in @ : a.name # alg.name} \cup {alg}]

(* The wall clock shows a second, and whether part of it has passed.       *)
(* Faulty variant: at the very second is after it.                         *)
AtOrAfter(now, sec) == now.sec >= sec
After(now, sec) == now.sec > sec \/ (now.sec = sec /\ now.late)
Before(now, sec) == now.sec < sec

(* Faulty variant: the bytes of the shorter signature are compared.        *)
SameAsFarAs(data, signature, secret) ==
  LET res == Hmac(secret, data)
  IN  \A i \in DOMAIN res \cap DOMAIN signature : res[i] = signature[i]

SameSignature(data, signature, secret) == Hmac(secret, data) = signature

Leeway(v, key) == IF key \in DOMAIN v.claims THEN v.claims[key].int ELSE v.default_leeway

Second(payload, key) ==
  IF key \in DOMAIN payload /\ payload[key].type = "integer" THEN payload[key].int ELSE 0

(* What a look at a date says: nothing when the token has none.            *)
AtDate(payload, key, refused) ==
  CASE key \notin DOMAIN payload -> "ok"
    [] key \in DOMAIN payload /\ payload[key].type # "integer" -> "throw"
    [] OTHER -> IF refused THEN "token_expired" ELSE "ok"

Late(v, payload, now) ==
  AtDate(payload, "exp", After(now, Second(payload, "exp") + Leeway(v, "exp")))

(* Faulty variant: leeway moves every date the same way.                   *)
EarlyDelayed(v, payload, key, now) ==
  AtDate(payload, key, Before(now, Second(payload, key) + Leeway(v, key)))

Early(v, payload, key, now) ==
  AtDate(payload, key, Before(now, Second(payload, key) - Leeway(v, key)))

Dates(v, payload, now) ==
  << Late(v, payload, now), Early(v, payload, "iat", now), Early(v, payload, "nbf", now) >>

Audience(c) == IF c.type = "string" THEN {c.str} ELSE c.set

(* Each of the expected audiences must be there; one may stand for a set.  *)
AudienceSays(payload, c) ==
  CASE "aud" \notin DOMAIN payload -> "audience_missmatch"
    [] "aud" \in DOMAIN payload /\ payload.aud.type \notin {"string", "array"} -> "throw"
    [] OTHER -> IF Audience(c) \subseteq Audience(payload.aud) THEN "ok"
                ELSE "audience_missmatch"

assert_claim_eq(payload, key, c) ==
  CASE key \notin DOMAIN payload -> "missing_claim"
    [] key \in DOMAIN payload /\ payload[key].type # c.type -> "claim_type_missmatch"
    [] OTHER -> IF payload[key] = c THEN "ok" ELSE "claim_value_missmatch"

(* The claims are gone through in the order of a hash table, up to the     *)
(* first that is not met.                                                  *)
Claims(v, payload) ==
  LET says(key) == IF key = "aud" THEN AudienceSays(payload, v.claims.aud)
                   ELSE assert_claim_eq(payload, key, v.claims[key])
      unmet == {says(key) : key \in DOMAIN v.claims \ {"exp", "iat", "nbf"}} \ {"ok"}
  IN  IF unmet = {} THEN {"ok"} ELSE unmet

(* What verify may say of a text: that all is well, an error, an exception. *)
verify(v, token, now) ==
  LET header == header_claims(token)
      payload == payload_claims(token)
      data == SubSeq(token, 1, payload_end(token) - 1)
      algs == {a \in v.algs : String(a.name) = header.alg}
      dates == Dates(v, payload, now)
      unmet == {i \in DOMAIN dates : dates[i] # "ok"}
  IN  IF ~IsToken(token) THEN {"throw"}
      ELSE IF "alg" \notin DOMAIN header \/ header.alg.type # "string" THEN {"throw"}
      ELSE IF algs = {} THEN {"wrong_algorithm"}
      ELSE IF \A a \in algs : ~SameSignature(data, Part(signature_base64(token)), a.secret)
           THEN {"invalid_signature"}
      ELSE IF unmet # {} THEN {dates[Min(unmet)]}
      ELSE Claims(v, payload)

Accepted(v, token, now) == verify(v, token, now) = {"ok"}

-----------------------------------------------------------------------------
(* json_web_tokens.cpp.                                                    *)

CONSTANTS
  Secret,    \* SECRET_STRING
  Lifetime   \* a minute, in seconds

Verifier == with_issuer(allow_algorithm(verifier, hs256(Secret)), "BLABBER")

Verify(token, now) == verify(Verifier, token, now)

(* The claims of a token for a name: the clock is looked at for each of    *)
(* the two dates.                                                          *)
Created(name, iat, sec) ==
  set_payload_claim(
    set_expires_at(set_issued_at(set_type(set_issuer(create, "BLABBER"), "JWT"), iat),
                   sec + Lifetime),
    "username", String(name))

CreateToken(name, iat, sec) == sign(Created(name, iat, sec), hs256(Secret))
=============================================================================
