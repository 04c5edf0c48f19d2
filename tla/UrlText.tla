------------------------------ MODULE UrlText ------------------------------
(***************************************************************************)
(* What a URL's text means to the Url class of http_server (url.cpp): the  *)
(* characters each part may have, the normal form of each part, how a text *)
(* is taken apart and how it is put together.                              *)
(*                                                                         *)
(* A text is a sequence of one-character strings.  What throws in the code *)
(* is a predicate of its own here: Parses for parse_error, Builds for      *)
(* build_error.                                                            *)
(***************************************************************************)
EXTENDS Integers, SequencesExt, FiniteSetsExt

(* The bytes of the model: the printable ones, from 32 on ("grave" is 96). *)
Ascii ==
  << " ", "!", "\"", "#", "$", "%", "&", "'", "(", ")", "*", "+", ",", "-",
     ".", "/", "0", "1", "2", "3", "4", "5", "6", "7", "8", "9", ":", ";",
     "<", "=", ">", "?", "@", "A", "B", "C", "D", "E", "F", "G", "H", "I",
     "J", "K", "L", "M", "N", "O", "P", "Q", "R", "S", "T", "U", "V", "W",
     "X", "Y", "Z", "[", "\\", "]", "^", "_", "grave", "a", "b", "c", "d", "e",
     "f", "g", "h", "i", "j", "k", "l", "m", "n", "o", "p", "q", "r", "s",
     "t", "u", "v", "w", "x", "y", "z", "{", "|", "}", "~" >>
Chars == Range(Ascii)
Code(c) == CHOOSE n \in 32..126 : Ascii[n - 31] = c
Char(n) == Ascii[n - 31]

-----------------------------------------------------------------------------
(* The table tbl, by the masks it is asked for.                            *)

Mask01 == Chars \ {" ", "\"", "#", "%", "/", ":", "<", ">", "?", "@",
                          "[", "\\", "]", "^", "grave", "{", "|", "}"}
Mask05 == Mask01 \cup {":"}
Mask0F == Mask05 \cup {"@", "/"}
Mask1F == Mask0F \cup {"?"}
Mask2F == Mask0F \cup {"%"}
Mask3F == Mask1F \cup {"%"}

is_chars(t, mask) == \A i \in DOMAIN t : t[i] \in mask

Num == {Char(n) : n \in 48..57}
Upper == {Char(n) : n \in 65..90}
Alpha == {Char(n) : n \in (65..90) \cup (97..122)}

to_lower(t) ==
  [i \in DOMAIN t |-> IF t[i] \in Upper THEN Char(Code(t[i]) + 32) ELSE t[i]]

UpperHex == <<"0", "1", "2", "3", "4", "5", "6", "7", "8", "9", "A", "B", "C", "D", "E", "F">>
LowerHex == <<"0", "1", "2", "3", "4", "5", "6", "7", "8", "9", "a", "b", "c", "d", "e", "f">>
HexDigits == Range(UpperHex) \cup Range(LowerHex)

get_hex_digit(c) == CHOOSE n \in 0..15 : c \in {UpperHex[n + 1], LowerHex[n + 1]}

(* The place of the first of these characters, or the end.                 *)
find_first_of(t, chars) ==
  Min({i \in DOMAIN t : t[i] \in chars} \cup {Len(t) + 1})

Upto(t, chars) == SubSeq(t, 1, find_first_of(t, chars) - 1)
Onward(t, chars) == SubSeq(t, find_first_of(t, chars), Len(t))
Rest(t, n) == SubSeq(t, n + 1, Len(t))
Starts(t, c) == t # << >> /\ Head(t) = c

Fields(t, chars) ==  \* the pieces between these characters
  FoldLeft(LAMBDA pieces, c : IF c \in chars THEN Append(pieces, << >>)
                              ELSE [pieces EXCEPT ![Len(pieces)] = Append(@, c)],
           << << >> >>, t)

Joined(pieces, glue) ==
  FoldLeftDomain(LAMBDA t, k : IF k = 1 THEN pieces[1] ELSE t \o glue \o pieces[k],
                 << >>, pieces)

Prefixed(c, t) == IF t = << >> THEN << >> ELSE c \o t

-----------------------------------------------------------------------------
(* Numbers, addresses and names.                                           *)

(* val = val*10 + digit in a uint32_t, as its two halves.                  *)
AddDigit(val, c) ==
  LET low == val.low * 10 + get_hex_digit(c)
      high == val.high * 10 + low \div 65536
  IN  [low |-> low % 65536, high |-> high % 65536]

(* How many characters is_uint takes: none when it refuses.  A leading zero *)
(* is a number by itself.                                                  *)
is_uint(t, max) ==
  LET digits == IF Starts(t, "0") THEN <<"0">> ELSE Upto(t, Chars \ Num)
      val == FoldLeft(AddDigit, [low |-> 0, high |-> 0], digits)
  IN  IF val.high > 0 \/ val.low > max THEN 0 ELSE Len(digits)

is_port(t) == t # << >> /\ is_uint(t, 65535) = Len(t)

is_scheme(t) ==
  /\ t # << >> /\ t[1] \in Alpha
  /\ \A i \in DOMAIN t : t[i] \in Alpha \cup Num \cup {"+", "-", "."}

is_ipv4(t) == Len(t) \in 7..254 /\ is_chars(t, Num \cup {"."})

is_valid_ipv4(t) ==
  LET octets == Fields(t, {"."})
  IN  /\ Len(octets) = 4
      /\ \A k \in 1..4 : octets[k] # << >> /\ is_uint(octets[k], 255) = Len(octets[k])

is_reg_name(t) == is_chars(t, Mask01)

is_ipv6(t) == Len(t) \in 2..254 /\ is_chars(t, HexDigits \cup {":", "."})

(* Fields of up to four digits, one "::" at most, an IPv4 address in the   *)
(* place of the last two.                                                  *)
is_valid_ipv6(t) ==
  LET lead == Starts(t, ":")
      all == Fields(IF lead THEN Rest(t, 2) ELSE t, {":"})
      tail == Last(all)
      gaps == Len(SelectSeq(Front(all), LAMBDA f : f = << >>)) + (IF lead THEN 1 ELSE 0)
      full(n) == IF gaps = 0 THEN n = 8 ELSE n < 8
      before == Len(SelectSeq(Front(all), LAMBDA f : f # << >>))
  IN  /\ Len(t) \in 2..39
      /\ lead => t[2] = ":"
      /\ gaps <= 1
      /\ \A k \in 1..(Len(all) - 1) : Len(all[k]) <= 4 /\ is_chars(all[k], HexDigits)
      /\ \/ lead /\ Len(t) = 2
         \/ /\ Contains(tail, ".") /\ Len(Upto(tail, {"."})) <= 4
            /\ is_valid_ipv4(tail)
            /\ IF gaps = 0 THEN before = 6 ELSE before < 7
         \/ tail # << >> /\ Len(tail) <= 4 /\ is_chars(tail, HexDigits) /\ full(before + 1)
         \/ tail = << >> /\ Len(t) > 2 /\ t[Len(t) - 1] = ":" /\ before < 8

-----------------------------------------------------------------------------
(* Percent encoding.                                                       *)

Escapes(t) == {i \in DOMAIN t : t[i] = "%"}

WellEscaped(t) ==
  \A i \in Escapes(t) : i + 2 <= Len(t) /\ {t[i + 1], t[i + 2]} \subseteq HexDigits

decode(t) ==
  FoldLeftDomain(
    LAMBDA o, i : CASE i \in Escapes(t) ->
                         Append(o, Char(16 * get_hex_digit(t[i + 1])
                                        + get_hex_digit(t[i + 2])))
                    [] {i - 1, i - 2} \cap Escapes(t) # {} -> o
                    [] OTHER -> Append(o, t[i]),
    << >>, t)

decode_plus(t) ==  \* an escaped '+' stays one
  decode([i \in DOMAIN t |-> IF t[i] = "+" THEN " " ELSE t[i]])

Escape(c) ==
  <<"%", UpperHex[Code(c) \div 16 + 1], UpperHex[(Code(c) % 16) + 1]>>

encode(t, mask) ==
  FlattenSeq([i \in DOMAIN t |-> IF t[i] \in mask THEN <<t[i]>> ELSE Escape(t[i])])

encode_query(t, special) ==
  FlattenSeq([i \in DOMAIN t |->
                CASE t[i] = " " -> <<"+">>
                  [] t[i] \in special -> Escape(t[i])
                  [] OTHER -> encode(<<t[i]>>, Mask1F)])

(* Faulty variant: a key is escaped like a value.                          *)
encode_query_key_as_val(t) == encode_query(t, {"+", "&", ";"})

encode_query_key(t) == encode_query(t, {"+", "=", "&", ";"})
encode_query_val(t) == encode_query(t, {"+", "&", ";"})

-----------------------------------------------------------------------------
(* Normal forms.                                                           *)

(* Dot segments and empty segments are dropped; the last segment may be    *)
(* empty.                                                                  *)
NextSegment(stack, f) ==
  CASE f \in {<< >>, <<".">>} -> stack
    [] f = <<".", ".">> -> IF stack = << >> THEN stack ELSE Front(stack)
    [] OTHER -> Append(stack, f)

Segments(t) ==
  LET all == Fields(t, {"/"})
      tail == Last(all)
      before == FoldLeft(NextSegment, << >>, Front(all))
  IN  CASE tail = <<".">> -> Append(before, << >>)
        [] tail = <<".", ".">> -> NextSegment(before, tail)
        [] OTHER -> Append(before, tail)

normalize_path(t) ==
  (IF Starts(t, "/") THEN <<"/">> ELSE << >>) \o Joined(Segments(t), <<"/">>)

(* The 16-bit fields of a valid IPv6 text, its IPv4 part aside.            *)
IPv4Part(t) == IF "." \in Range(t) THEN Last(Fields(t, {":"})) ELSE << >>

Address(t) ==
  LET from == IF Starts(t, ":") THEN 2 ELSE 1
      to == IF Last(t) = ":" THEN Len(t) - 1 ELSE Len(t)
      tokens == LET all == Fields(SubSeq(t, from, to), {":"})
                IN  IF IPv4Part(t) = << >> THEN all ELSE Front(all)
      total == IF IPv4Part(t) = << >> THEN 8 ELSE 6
      field(k) == FoldLeft(LAMBDA n, c : 16 * n + get_hex_digit(c), 0, tokens[k])
      null == {k \in DOMAIN tokens : tokens[k] = << >>}
      missing == total - Len(tokens) + Cardinality(null)
      at == IF null = {} THEN Len(tokens) + 1 ELSE Min(null)
  IN  [i \in 1..total |-> CASE i < at -> field(i)
                            [] i >= at + missing -> field(i - missing + Cardinality(null))
                            [] OTHER -> 0]

Hex(n) ==  \* no leading zeros
  LET all == <<n \div 4096, (n \div 256) % 16, (n \div 16) % 16, n % 16>>
      zeros == Min({k \in 1..3 : all[k] # 0} \cup {4}) - 1
  IN  [i \in 1..(4 - zeros) |-> LowerHex[all[zeros + i] + 1]]

(* The first of the longest runs of zero fields: none of one field counts. *)
ZeroRun(fields) ==
  LET run(i) == Min({j \in i..Len(fields) : fields[j] # 0} \cup {Len(fields) + 1}) - i
      longest == Max({run(i) : i \in DOMAIN fields})
  IN  IF longest < 2 THEN [at |-> Len(fields) + 1, len |-> longest]
      ELSE [at |-> Min({i \in DOMAIN fields : run(i) = longest}), len |-> longest]

Coloned(fields) == FlattenSeq([k \in DOMAIN fields |-> <<":">> \o Hex(fields[k])])

(* A run that ends the address, of eight fields only, gets its second      *)
(* colon here; any other, from the field after it.                         *)
FieldsText(fields, null) ==
  (IF null.at = 1 THEN <<":">>
   ELSE Rest(Coloned(SubSeq(fields, 1, null.at - 1)), 1)
        \o (IF null.at <= Len(fields) THEN <<":">> ELSE << >>)
        \o (IF null.at - 1 + null.len = 8 /\ null.len # 0 THEN <<":">> ELSE << >>))
  \o Coloned(SubSeq(fields, null.at + null.len, Len(fields)))

ShortAddress(fields) == FieldsText(fields, ZeroRun(fields))

normalize_IPv6(t) ==
  IF t = <<":", ":">> THEN t
  ELSE ShortAddress(Address(t)) \o Prefixed(<<":">>, IPv4Part(t))

-----------------------------------------------------------------------------
(* parse_url.  The text is cut into scheme, authority, path, query and     *)
(* fragment, and the authority into user, host and port.                   *)

SchemeEnd(t) ==
  LET p == find_first_of(t, {":", "/", "?", "#"})
  IN  IF p <= Len(t) /\ t[p] = ":" THEN p ELSE 0

Scheme(t) == SubSeq(t, 1, SchemeEnd(t) - 1)
AfterScheme(t) == Rest(t, SchemeEnd(t))

HasAuthority(t) == Starts(AfterScheme(t), "/") /\ Starts(Rest(AfterScheme(t), 1), "/")
Authority(t) == IF HasAuthority(t) THEN Upto(Rest(AfterScheme(t), 2), {"/", "?", "#"})
                ELSE << >>
Path(t) == Upto(IF HasAuthority(t) THEN Onward(Rest(AfterScheme(t), 2), {"/", "?", "#"})
                ELSE AfterScheme(t), {"?", "#"})
QueryText(t) == Upto(Rest(Onward(AfterScheme(t), {"?", "#"}), 1), {"#"})
HasQuery(t) == Starts(Onward(AfterScheme(t), {"?", "#"}), "?")
Fragment(t) == Rest(Onward(AfterScheme(t), {"#"}), 1)

User(a) == IF "@" \in Range(a) THEN Upto(a, {"@"}) ELSE << >>
AfterUser(a) == IF "@" \in Range(a) THEN Rest(Onward(a, {"@"}), 1) ELSE a

(* The host with its IP version, 0 for a name, and what follows it.  Only  *)
(* a version of one digit is taken: with two, the second is not a dot.     *)
NoHost == [ok |-> FALSE, host |-> << >>, ip_v |-> -1, rest |-> << >>]

IPLiteral(h) ==
  LET inside == Upto(Rest(h, 1), {"]"})
      rest == Rest(Onward(h, {"]"}), 1)
  IN  CASE "]" \notin Range(h) -> NoHost
        [] "]" \in Range(h) /\ Starts(inside, "v") ->
             [ok |-> Len(inside) > 2 /\ inside[2] \in HexDigits /\ inside[3] = "."
                     /\ is_chars(Rest(inside, 3), Mask05),
              host |-> Rest(inside, 3),
              ip_v |-> IF Len(inside) > 1 THEN get_hex_digit(inside[2]) ELSE -1,
              rest |-> rest]
        [] OTHER ->
             [ok |-> is_ipv6(inside), host |-> inside, ip_v |-> 6, rest |-> rest]

HostPart(h) ==
  IF Starts(h, "[") THEN IPLiteral(h) ELSE
  LET name == Upto(h, {":"})
  IN  [ok |-> is_ipv4(name) \/ is_reg_name(name), host |-> name,
       ip_v |-> IF is_ipv4(name) THEN 4 ELSE 0, rest |-> Onward(h, {":"})]

(* Whatever else follows an IP literal is passed over.                     *)
PortText(rest) == IF Starts(rest, ":") THEN Rest(rest, 1) ELSE << >>

NormalHost(h) == CASE h.ip_v = 0 -> to_lower(h.host)
                   [] h.ip_v = 6 -> normalize_IPv6(h.host)
                   [] OTHER -> h.host

(* normalize_IPv6 reads past its fields when an address has only the       *)
(* characters of one: such texts are not the model's, nor are those with   *)
(* an escape for a byte that is not.                                       *)
Defined(t) ==
  LET h == HostPart(AfterUser(Authority(t)))
  IN  /\ h.ok /\ h.ip_v = 6 /\ is_ipv6(h.host) => is_valid_ipv6(h.host)
      /\ \A i \in Escapes(t) :
           i + 2 <= Len(t) /\ {t[i + 1], t[i + 2]} \subseteq HexDigits =>
             16 * get_hex_digit(t[i + 1]) + get_hex_digit(t[i + 2]) \in 32..126

(* The text of the query, or of the path, is one is_chars accepts and      *)
(* decode does not throw on.                                               *)
Decodes(t, mask) == is_chars(t, mask) /\ WellEscaped(t)

(* A query is entries of a key and a value; each ';' or '&' begins another. *)
QueryEntries(t) ==
  IF QueryText(t) = << >> THEN << >> ELSE
  LET all == Fields(QueryText(t), {";", "&"})
  IN  [k \in DOMAIN all |->
         [key |-> decode_plus(Upto(all[k], {"="})),
          val |-> decode_plus(Rest(Onward(all[k], {"="}), 1))]]

Parses(t) ==
  LET h == HostPart(AfterUser(Authority(t)))
  IN  /\ SchemeEnd(t) > 0 => is_scheme(Scheme(t))
      /\ HasAuthority(t) => /\ is_chars(User(Authority(t)), Mask05)
                            /\ h.ok /\ (h.ip_v = 6 => is_ipv6(h.host))
                            /\ Starts(h.rest, ":") => is_port(PortText(h.rest))
      /\ Decodes(Path(t), Mask2F)
      /\ HasQuery(t) => Decodes(QueryText(t), Mask3F)
      /\ Decodes(Fragment(t), Mask3F)

(* Faulty variant: no version is -1 in a uint8_t, the type of host()'s      *)
(* argument.                                                               *)
NoPartsUnsigned == [scheme |-> << >>, user |-> << >>, host |-> << >>, ip_v |-> 255,
                    port |-> << >>, path |-> << >>, query |-> << >>, fragment |-> << >>]

NoParts == [scheme |-> << >>, user |-> << >>, host |-> << >>, ip_v |-> -1,
            port |-> << >>, path |-> << >>, query |-> << >>, fragment |-> << >>]

(* Faulty variant: dot segments are removed before they are decoded.       *)
PartsDecodedLate(t) ==
  LET h == HostPart(AfterUser(Authority(t)))
  IN  [scheme |-> to_lower(Scheme(t)), user |-> User(Authority(t)),
       host |-> IF HasAuthority(t) THEN NormalHost(h) ELSE << >>,
       ip_v |-> IF HasAuthority(t) THEN h.ip_v ELSE -1,
       port |-> PortText(h.rest), path |-> decode(normalize_path(Path(t))),
       query |-> IF HasQuery(t) THEN QueryEntries(t) ELSE << >>,
       fragment |-> decode(Fragment(t))]

Parts(t) ==
  LET h == HostPart(AfterUser(Authority(t)))
  IN  [scheme |-> to_lower(Scheme(t)),
       user |-> User(Authority(t)),
       host |-> IF HasAuthority(t) THEN NormalHost(h) ELSE << >>,
       ip_v |-> IF HasAuthority(t) THEN h.ip_v ELSE -1,
       port |-> PortText(h.rest),
       path |-> normalize_path(decode(Path(t))),
       query |-> IF HasQuery(t) THEN QueryEntries(t) ELSE << >>,
       fragment |-> decode(Fragment(t))]

-----------------------------------------------------------------------------
(* build_url.                                                              *)

Http == <<"h", "t", "t", "p">>
Https == Http \o <<"s">>
DefaultPort(scheme, port) == \/ scheme = Http /\ port = <<"8", "0">>
                             \/ scheme = Https /\ port = <<"4", "4", "3">>

Builds(p) ==
  /\ p.host = << >> => /\ p.user = << >> /\ p.port = << >>
                       /\ ~Starts(Onward(p.path, {":", "/"}), ":")
  /\ p.host # << >> => p.path = << >> \/ Starts(p.path, "/")
  /\ \A k \in DOMAIN p.query : p.query[k].key # << >>

HostText(p) ==
  CASE p.ip_v \in {0, 4} -> p.host
    [] p.ip_v = 6 -> <<"[">> \o p.host \o <<"]">>
    [] OTHER -> <<"[", "v">> \o Hex(p.ip_v) \o <<".">> \o p.host \o <<"]">>

EntryText(e) == encode_query_key(e.key)
                \o (IF e.val = << >> THEN << >> ELSE <<"=">> \o encode_query_val(e.val))

Build(p) ==
  (IF p.scheme = << >> THEN << >> ELSE p.scheme \o <<":">>)
  \o (IF p.host = << >> THEN << >>
      ELSE <<"/", "/">>
           \o (IF p.user = << >> THEN << >> ELSE encode(p.user, Mask05) \o <<"@">>)
           \o HostText(p)
           \o (IF DefaultPort(p.scheme, p.port) THEN << >> ELSE Prefixed(<<":">>, p.port)))
  \o encode(p.path, Mask0F)
  \o Prefixed(<<"?">>, Joined([k \in DOMAIN p.query |-> EntryText(p.query[k])], <<"&">>))
  \o Prefixed(<<"#">>, encode(p.fragment, Mask1F))
=============================================================================
