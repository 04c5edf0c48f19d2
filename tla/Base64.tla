------------------------------- MODULE Base64 -------------------------------
(***************************************************************************)
(* The two base64 codecs of the repository: base64.c, which the frame      *)
(* service writes its pictures with, and base.h of jwt-cpp, which the      *)
(* parts of a token are written with.                                      *)
(*                                                                         *)
(* A byte is a number.  A character of an alphabet is its place there,     *)
(* 0..63; the characters outside the alphabets that matter are numbers     *)
(* from 64 on.  A text of base64.c ends with Nul.                          *)
(***************************************************************************)
EXTENDS Integers, SequencesExt, FiniteSetsExt

Byte == 0..255
Sextet == 0..63
Percent == 64
Dot == 65
Equals == 66
Nul == 67
Character == 0..67

(* Three bytes are four sextets.                                           *)
Sextets(a, b, c) ==
  <<a \div 4, (a % 4) * 16 + b \div 16, (b % 16) * 4 + c \div 64, c % 64>>

Bytes(p, q, r, s) ==
  <<p * 4 + q \div 16, (q % 16) * 16 + r \div 4, (r % 4) * 64 + s>>

-----------------------------------------------------------------------------
(* base64.c.                                                               *)

Base64encode_len(len) == ((len + 2) \div 3) * 4 + 1

(* Whole groups, then one or two bytes with '=' in the place of the rest.  *)
Base64encode(string) ==
  LET len == Len(string)
      at(i) == string[i + 1]
      i == 3 * (len \div 3)
      loop == FlattenSeq([k \in 1..(len \div 3) |->
                LET j == 3 * (k - 1) IN Sextets(at(j), at(j + 1), at(j + 2))])
      tail == CASE i = len -> << >>
                [] i = len - 1 -> SubSeq(Sextets(at(i), 0, 0), 1, 2) \o <<Equals, Equals>>
                [] OTHER -> SubSeq(Sextets(at(i), at(i + 1), 0), 1, 3) \o <<Equals>>
  IN  loop \o tail \o <<Nul>>

(* Characters up to the first that pr2six does not know.                   *)
nprbytes(bufcoded) ==
  Min({i \in DOMAIN bufcoded : bufcoded[i] \notin Sextet}) - 1

(* Room for the bytes of n characters, whole groups, and a Nul.             *)
DecodeRoom(n) == ((n + 3) \div 4) * 3 + 1

Base64decode_len(bufcoded) == DecodeRoom(nprbytes(bufcoded))

(* How many groups the loop takes: the last one, whole or not, is left.    *)
DecodeGroups(n) == IF n > 4 THEN (n - 1) \div 4 ELSE 0

(* The length that is returned for n characters.                           *)
DecodedLength(n) == ((n + 3) \div 4) * 3 - ((4 - (n - 4 * DecodeGroups(n))) % 4)

(* The bytes and the length that is returned.  The buffer also gets a Nul. *)
Base64decode(bufcoded) ==
  LET n == nprbytes(bufcoded)
      loops == DecodeGroups(n)
      left == n - 4 * loops
      in(i) == IF i < n THEN bufcoded[i + 1] ELSE 0
      group(k) == LET i == 4 * k IN Bytes(in(i), in(i + 1), in(i + 2), in(i + 3))
      rest == IF left > 1 THEN SubSeq(group(loops), 1, left - 1) ELSE << >>
  IN  [plain |-> FlattenSeq([k \in 1..loops |-> group(k - 1)]) \o rest,
       length |-> DecodedLength(n)]

-----------------------------------------------------------------------------
(* base.h.                                                                 *)

(* The fill of base64url is the escaped '=', "%3d"; "3" and "d" are also   *)
(* characters of the alphabet.                                             *)
UrlFill == <<Percent, 55, 29>>
Fill == <<Equals>>

encode(bin, fill) ==
  LET size == Len(bin)
      mod == size % 3
      fast_size == size - mod
      octet(i) == IF i < size THEN bin[i + 1] ELSE 0
      triple(i) == Sextets(octet(i), octet(i + 1), octet(i + 2))
  IN  FlattenSeq([k \in 1..(fast_size \div 3) |-> triple(3 * (k - 1))])
      \o (CASE mod = 0 -> << >>
            [] mod = 1 -> SubSeq(triple(fast_size), 1, 2) \o fill \o fill
            [] mod = 2 -> SubSeq(triple(fast_size), 1, 3) \o fill)

(* Fills at the end; a text is never all fill, and the third throws.       *)
fill_cnt(base, fill) ==
  LET f == Len(fill)
      isFill(j) == /\ Len(base) - (j - 1) * f > f
                   /\ SubSeq(base, Len(base) - j * f + 1, Len(base) - (j - 1) * f) = fill
  IN  Max({k \in 0..3 : \A j \in 1..k : isFill(j)})

(* What decode does not throw on.                                          *)
Decodable(base, fill) ==
  LET size == Len(base) - fill_cnt(base, fill) * Len(fill)
  IN  /\ fill_cnt(base, fill) <= 2
      /\ (size + fill_cnt(base, fill)) % 4 = 0
      /\ \A i \in 1..size : base[i] \in Sextet

decode(base, fill) ==
  LET cnt == fill_cnt(base, fill)
      size == Len(base) - cnt * Len(fill)
      sextet(i) == IF i < size THEN base[i + 1] ELSE 0
      group(k) == LET i == 4 * k
                  IN  Bytes(sextet(i), sextet(i + 1), sextet(i + 2), sextet(i + 3))
      groups == size \div 4
  IN  FlattenSeq([k \in 1..groups |-> group(k - 1)])
      \o (IF cnt = 0 THEN << >> ELSE SubSeq(group(groups), 1, 3 - cnt))

(* Faulty variant: as many fills as there are characters left.             *)
padByRemainder(base, fill) ==
  base \o FlattenSeq([k \in 1..(Len(base) % 4) |-> fill])

pad(base, fill) ==
  base \o CASE Len(base) % 4 = 0 -> << >>
            [] Len(base) % 4 = 1 -> fill \o fill \o fill
            [] Len(base) % 4 = 2 -> fill \o fill
            [] Len(base) % 4 = 3 -> fill

(* Faulty variant: looks for the fill of the other alphabet.               *)
trimPlain(base, fill) ==
  LET at == {i \in DOMAIN base : base[i] = Equals}
  IN  IF at = {} THEN base ELSE SubSeq(base, 1, Min(at) - 1)

trim(base, fill) ==
  LET at == {i \in 1..(Len(base) - Len(fill) + 1) : SubSeq(base, i, i + Len(fill) - 1) = fill}
  IN  IF at = {} THEN base ELSE SubSeq(base, 1, Min(at) - 1)
=============================================================================
