---------------------------- MODULE MCTokenTexts ----------------------------
(***************************************************************************)
(* TokenTexts for TLC, with a small JSON and a small HMAC.                 *)
(***************************************************************************)
EXTENDS TokenTexts

MCNameBytes == {0, 251}
MCMaxName == 3
MCMaxSecond == 1
MCLifetime == 1
MCSecret == <<7>>

Iss(str) == set_issuer(create, str)

(* Tokens of others: without dates, with a date that is none, not valid    *)
(* before a second, for one or two audiences, of another issuer, with      *)
(* another algorithm in the header, for a subject.                         *)
OtherBuilders ==
  << set_audience(Iss("BLABBER"), String("a")),
    set_audience(Iss("BLABBER"), Strings({"a", "b"})),
    set_audience(Iss("BLABBER"), Number(1)),
    set_not_before(Iss("BLABBER"), 1),
    set_expires_at(Iss("OTHER"), 1),
    set_payload_claim(Iss("BLABBER"), "exp", String("soon")),
    set_algorithm(Iss("BLABBER"), "none"),
    set_header_claim(Iss("BLABBER"), "alg", Number(1)),
    set_payload_claim(create, "iss", Number(1)),
     set_id(set_subject(create, "s"), "i") >>

MCBuilders == Range(OtherBuilders)

MCKeys == { hs256(MCSecret), hs256(<<9>>) }

Basic == allow_algorithm(verifier, hs256(MCSecret))
MCVerifiers ==
  { Basic, leeway(Basic, 1), with_issuer(Basic, "BLABBER"),
    expires_at_leeway(issued_at_leeway(not_before_leeway(Basic, 1), 1), 1),
    with_audience(Basic, {"a"}), with_audience(Basic, {"a", "b"}),
    with_subject(Basic, "s"), with_id(with_subject(Basic, "s"), "i") }

(* The objects of these, in the order that numbers their texts.            *)
Header(b) == SignedHeader(b, hs256(MCSecret))
Others == [i \in DOMAIN OtherBuilders |-> Header(OtherBuilders[i])]
          \o [i \in DOMAIN OtherBuilders |-> OtherBuilders[i].payload]
          \o <<Header(set_type(create, "JWT"))>>

Dated(name_, iat, sec) ==
  [iss |-> String("BLABBER"), iat |-> Number(iat), exp |-> Number(sec + MCLifetime),
   username |-> String(name_)]

AllObjects == Range(Others)
              \cup {Dated(n, iat, sec) : n \in Names, iat \in 0..MCMaxSecond, sec \in 0..MCMaxSecond}
MCObjects == AllObjects

MCSerialize(o) ==
  IF "username" \in DOMAIN o
  THEN <<123, o.iat.int, o.exp.int>> \o o.username.str \o <<125>>
  ELSE <<123, 4 + CHOOSE i \in DOMAIN Others : Others[i] = o, 125>>

MCHmac(secret, data) ==
  LET h == FoldLeft(LAMBDA s, c : (s * 131 + c + 1) % 65521, secret[1], data)
  IN  <<h \div 256, h % 256>>
=============================================================================
