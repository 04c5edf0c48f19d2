----------------------------- MODULE TextProofs -----------------------------
(***************************************************************************)
(* Theorems about base64, the buffers of the frame service, and tokens.    *)
(*                                                                         *)
(* What fits the buffers, for pictures of any size; that both codecs,      *)
(* base64.c and that of jwt-cpp, give back the bytes that were encoded,    *)
(* whatever the bytes and however many; which texts a verifier accepts,    *)
(* for any JSON objects, any HMAC, any secrets and any clock; and that     *)
(* what CreateToken writes is read as it was meant, for any name.          *)
(*                                                                         *)
(* The codecs put a text together with folds and FlattenSeq.  What these   *)
(* give is shown by induction over the number of groups; the induction is  *)
(* a lemma about sets of numbers (Induct), which rests on the numbers      *)
(* being well-founded.                                                     *)
(***************************************************************************)
EXTENDS AnswerBuffers, TokenTexts, SequenceTheorems, FiniteSetTheorems, WellFoundedInduction, TLAPS

-----------------------------------------------------------------------------
(* For pictures of any height, what savePassage draws for readAndCompress  *)
(* is in no answer, and nothing of the picture is lost to it: jpegProc     *)
(* stops at the height of the camera's picture.                            *)
THEOREM StripLeftOut ==
  ASSUME NEW IMAGE_HEIGHT \in Nat, NEW Row, NEW strip,
         NEW fact \in [0..(IMAGE_HEIGHT - 1) -> Row]
  PROVE  jpegProc(savePassage(fact, IMAGE_HEIGHT, strip), IMAGE_HEIGHT) = fact
<1> DEFINE drawn == savePassage(fact, IMAGE_HEIGHT, strip)
<1>1. ASSUME NEW k \in 0..(IMAGE_HEIGHT - 1)
      PROVE  drawn[k] = fact[k]
  BY <1>1 DEF savePassage, hblackString
<1> HIDE DEF drawn
<1>2. jpegProc(drawn, IMAGE_HEIGHT) = [k \in 0..(IMAGE_HEIGHT - 1) |-> fact[k]]
  BY <1>1 DEF jpegProc
<1>3. jpegProc(drawn, IMAGE_HEIGHT) = fact
  BY ONLY <1>2, fact \in [0..(IMAGE_HEIGHT - 1) -> Row]
<1>4. QED
  BY ONLY <1>3 DEF drawn

(* A picture of up to 537597 bytes fits left_b64 and right_b64, and none   *)
(* that is larger: what readAndCompress takes for granted.                 *)
THEOREM PictureBound ==
  ASSUME NEW n \in Nat
  PROVE  PictureFits(n) <=> n <= 537597
BY DEF PictureFits, convertToBase64, Base64encode_len, b64_size

(* Where both pictures fit their buffers, the whole answer fits send_json, *)
(* whatever its numbers are: prepareVerifyAnswer need not look.            *)
THEOREM AnswerFits ==
  ASSUME NEW left \in Nat, NEW right \in Nat, NEW digits \in 0..MaxDigits,
         PictureFits(left), PictureFits(right)
  PROVE  prepareVerifyAnswer(left, right, digits) <= send_json_size
<1>1. left <= 537597 /\ right <= 537597
  BY PictureBound
<1>2. /\ convertToBase64(left) <= 716797
      /\ convertToBase64(right) <= 716797
  BY <1>1 DEF convertToBase64, Base64encode_len
<1>3. convertToBase64(left) \in Int /\ convertToBase64(right) \in Int
  BY DEF convertToBase64, Base64encode_len
<1>4. QED
  BY <1>2, <1>3 DEF prepareVerifyAnswer, send_json_size, Literals, MaxDigits

-----------------------------------------------------------------------------
(* A group of sextets stands for the three bytes it was made of, and for   *)
(* no others: the codecs share this step.                                  *)
THEOREM GroupRoundTrip ==
  ASSUME NEW a \in Byte, NEW b \in Byte, NEW c \in Byte
  PROVE  LET g == Sextets(a, b, c)
         IN  /\ g \in Sextet \X Sextet \X Sextet \X Sextet
             /\ Bytes(g[1], g[2], g[3], g[4]) = <<a, b, c>>
<1> DEFINE p == a \div 4
           q == (a % 4) * 16 + b \div 16
           r == (b % 16) * 4 + c \div 64
           s == c % 64
<1>1. p \in Sextet /\ q \in Sextet /\ r \in Sextet /\ s \in Sextet
  BY DEF Byte, Sextet
<1>2. p * 4 + q \div 16 = a
  BY DEF Byte
<1>3. (q % 16) * 16 + r \div 4 = b
  BY DEF Byte
<1>4. (r % 4) * 64 + s = c
  BY DEF Byte
<1>5. Sextets(a, b, c) = <<p, q, r, s>>
  BY DEF Sextets
<1>6. Bytes(p, q, r, s) = <<a, b, c>>
  BY <1>2, <1>3, <1>4 DEF Bytes
<1> HIDE DEF p, q, r, s
<1>7. QED
  BY <1>1, <1>5, <1>6

(* For every number of bytes, Base64decode returns as many as were         *)
(* encoded, whether the last group is whole or not, and the buffer of      *)
(* Base64decode_len has room for them and a Nul.                           *)
THEOREM LengthKept ==
  ASSUME NEW len \in Nat
  PROVE  /\ DecodedLength(SextetsOf(len)) = len
         /\ len + 1 <= DecodeRoom(SextetsOf(len))
<1> DEFINE k == len \div 3
<1>1. k \in Nat /\ len = 3 * k + (len % 3) /\ len % 3 \in 0..2
  OBVIOUS
<1>2. CASE len % 3 = 0
  <2>1. SextetsOf(len) = 4 * k
    BY <1>1, <1>2 DEF SextetsOf
  <2>2. CASE k = 0
    BY <1>1, <1>2, <2>1, <2>2 DEF DecodedLength, DecodeRoom, DecodeGroups
  <2>3. CASE k = 1
    BY <1>1, <1>2, <2>1, <2>3 DEF DecodedLength, DecodeRoom, DecodeGroups
  <2>4. CASE k > 1
    <3>1. DecodeGroups(4 * k) = k - 1
      BY <1>1, <2>4 DEF DecodeGroups
    <3>2. (4 * k + 3) \div 4 = k
      BY <1>1
    <3>3. (4 - (4 * k - 4 * (k - 1))) % 4 = 0
      BY <1>1
    <3>4. DecodedLength(4 * k) = ((4 * k + 3) \div 4) * 3
                                 - ((4 - (4 * k - 4 * (k - 1))) % 4)
      BY ONLY <3>1 DEF DecodedLength
    <3>5. DecodedLength(4 * k) = k * 3 - 0
      BY ONLY <3>2, <3>3, <3>4
    <3>6. QED
      BY <1>1, <1>2, <2>1, <3>2, <3>5 DEF DecodeRoom
  <2>5. QED
    BY <1>1, <2>2, <2>3, <2>4
<1>3. CASE len % 3 = 1
  <2>1. SextetsOf(len) = 4 * k + 2
    BY <1>1, <1>3 DEF SextetsOf
  <2>2. DecodeGroups(4 * k + 2) = k
    BY <1>1 DEF DecodeGroups
  <2>3. QED
    BY <1>1, <1>3, <2>1, <2>2 DEF DecodedLength, DecodeRoom
<1>4. CASE len % 3 = 2
  <2>1. SextetsOf(len) = 4 * k + 3
    BY <1>1, <1>4 DEF SextetsOf
  <2>2. DecodeGroups(4 * k + 3) = k
    BY <1>1 DEF DecodeGroups
  <2>3. QED
    BY <1>1, <1>4, <2>1, <2>2 DEF DecodedLength, DecodeRoom
<1>5. QED
  BY <1>1, <1>2, <1>3, <1>4

-----------------------------------------------------------------------------
(* Induction over the natural numbers, for sets: a proof names the set of  *)
(* the numbers that it is about.                                           *)
LEMMA Least ==
  ASSUME NEW T \in SUBSET Nat, T # {}
  PROVE \E n \in T : \A m \in T : n <= m
<1> DEFINE R == {ss \in Nat \X Nat : ss[1] < ss[2]}
<1>1. IsWellFoundedOn(R, Nat)
  BY NatLessThanWellFounded DEF OpToRel
<1>2. \E x \in T : \A y \in T : ~ (<<y, x>> \in R)
  <2> HIDE DEF R
  <2> QED
    BY <1>1, WFMin
<1>3. PICK x \in T : \A y \in T : ~ (<<y, x>> \in R)
  BY <1>2
<1>4. \A y \in T : ~(y < x)
  BY <1>3
<1> QED
  BY <1>4

LEMMA Induct ==
  ASSUME NEW S, 0 \in S, \A n \in Nat : n \in S => n + 1 \in S
  PROVE Nat \subseteq S
<1> DEFINE T == Nat \ S
<1>1. SUFFICES ASSUME T # {} PROVE FALSE
  OBVIOUS
<1>2. PICK n \in T : \A m \in T : n <= m
  BY <1>1, Least
<1>3. n - 1 \in Nat /\ n - 1 \notin T
  BY <1>2
<1> QED
  BY <1>2, <1>3

(* FlattenSeq is the last of the partial concatenations.                   *)
LEMMA FlattenSteps ==
  ASSUME NEW n \in Nat, n # 0, NEW g, Len(g) = n,
         NEW e, e = [k \in 1..n |-> IF k = 1 THEN g[k] ELSE e[k - 1] \o g[k]]
  PROVE  FlattenSeq(g) = e[n]
<1> DEFINE step(f) == [k \in 1..n |-> IF k = 1 THEN g[k] ELSE f[k - 1] \o g[k]]
           flat == CHOOSE f : f = step(f)
<1>1. FlattenSeq(g) = flat[n]
  BY DEF FlattenSeq
<1>2. flat = step(flat)
  <2>1. e = step(e)
    OBVIOUS
  <2> HIDE DEF step
  <2> QED
    BY <2>1
<1> HIDE DEF flat
<1> DEFINE S == {k \in Nat : k + 1 \in 1..n => flat[k + 1] = e[k + 1]}
<1>3. 0 \in S
  BY <1>2
<1>4. ASSUME NEW k \in Nat, k \in S PROVE k + 1 \in S
  <2> SUFFICES ASSUME k + 1 + 1 \in 1..n PROVE flat[k + 1 + 1] = e[k + 1 + 1]
    OBVIOUS
  <2>1. flat[k + 1] = e[k + 1]
    <3>1. k + 1 \in 1..n
      OBVIOUS
    <3> QED
      BY <1>4, <3>1
  <2> DEFINE l == k + 1 + 1
  <2>2. l \in 1..n /\ l # 1 /\ l - 1 = k + 1
    OBVIOUS
  <2> HIDE DEF l
  <2>3. flat[l] = flat[l - 1] \o g[l]
    BY <1>2, <2>2
  <2>4. e[l] = e[l - 1] \o g[l]
    BY <2>2
  <2>5. flat[l] = e[l]
    BY <2>1, <2>2, <2>3, <2>4
  <2> QED
    BY <2>5 DEF l
<1>5. Nat \subseteq S
  <2> HIDE DEF S
  <2> QED
    BY <1>3, <1>4, Induct
<1>6. n - 1 \in S
  <2> HIDE DEF S
  <2> QED
    BY <1>5
<1>7. flat[n - 1 + 1] = e[n - 1 + 1]
  BY <1>6
<1> QED
  BY <1>1, <1>7

LEMMA FunctionIsSeq ==
  ASSUME NEW n \in Nat, NEW S, NEW f \in [1..n -> S]
  PROVE  f \in Seq(S) /\ Len(f) = n /\ DOMAIN f = 1..n
<1>1. f \in Seq(S)
  BY SeqDef
<1>2. DOMAIN f = 1..n
  OBVIOUS
<1>3. Len(f) \in Nat /\ DOMAIN f = 1..Len(f)
  BY <1>1, LenProperties
<1> QED
  BY <1>1, <1>2, <1>3

(* Where the i-th place of m groups of three or four is.                   *)
LEMMA Places ==
  ASSUME NEW u \in {3, 4}, NEW m \in Nat, m # 0
  PROVE  /\ u * m \in Nat /\ u * (m - 1) \in Nat /\ u * (m - 1) + u = u * m
         /\ \A i \in 1..(u * m) :
              /\ (i - 1) \div u + 1 \in 1..m /\ ((i - 1) % u) + 1 \in 1..u
              /\ i > u * (m - 1) => /\ (i - 1) \div u + 1 = m
                                    /\ ((i - 1) % u) + 1 = i - u * (m - 1)
<1>1. CASE u = 3
  <2>1. \A i \in 1..(3 * m) :
          /\ (i - 1) \div 3 + 1 \in 1..m /\ ((i - 1) % 3) + 1 \in 1..3
          /\ i > 3 * (m - 1) => /\ (i - 1) \div 3 + 1 = m
                                /\ ((i - 1) % 3) + 1 = i - 3 * (m - 1)
    OBVIOUS
  <2> QED
    BY <1>1, <2>1
<1>2. CASE u = 4
  <2>1. \A i \in 1..(4 * m) :
          /\ (i - 1) \div 4 + 1 \in 1..m /\ ((i - 1) % 4) + 1 \in 1..4
          /\ i > 4 * (m - 1) => /\ (i - 1) \div 4 + 1 = m
                                /\ ((i - 1) % 4) + 1 = i - 4 * (m - 1)
    OBVIOUS
  <2> QED
    BY <1>2, <2>1
<1> QED
  BY <1>1, <1>2

(* Groups of u, one after the other.                                       *)
Grouped(u, n, g) == [i \in 1..(u * n) |-> g[(i - 1) \div u + 1][((i - 1) % u) + 1]]

LEMMA FlattenGroups ==
  ASSUME NEW n \in Nat, NEW u \in {3, 4}, NEW S, NEW g, g \in [1..n -> [1..u -> S]]
  PROVE  /\ FlattenSeq(g) = Grouped(u, n, g)
         /\ Grouped(u, n, g) \in Seq(S)
         /\ Len(Grouped(u, n, g)) = u * n
<1> DEFINE all(m) == [i \in 1..(u * m) |-> g[(i - 1) \div u + 1][((i - 1) % u) + 1]]
           e == [m \in 1..n |-> all(m)]
<1>1. ASSUME NEW m \in 0..n
      PROVE  all(m) \in Seq(S) /\ Len(all(m)) = u * m
  <2>1. u * m \in Nat
    OBVIOUS
  <2>2. \A i \in 1..(u * m) : (i - 1) \div u + 1 \in 1..n /\ ((i - 1) % u) + 1 \in 1..u
    <3>1. CASE m = 0
      BY <3>1
    <3>2. CASE m # 0
      <4>1. 1..m \subseteq 1..n
        OBVIOUS
      <4> QED
        BY <3>2, <4>1, Places
    <3> QED
      BY <3>1, <3>2
  <2>3. all(m) \in [1..(u * m) -> S]
    BY <2>2
  <2> HIDE DEF all
  <2> QED
    BY <2>1, <2>3, FunctionIsSeq
<1>2. ASSUME NEW m \in 1..n, m # 1 PROVE all(m) = all(m - 1) \o g[m]
  <2>1. g[m] \in Seq(S) /\ Len(g[m]) = u
    <3>1. g[m] \in [1..u -> S] /\ u \in Nat
      OBVIOUS
    <3> QED
      BY <3>1, FunctionIsSeq
  <2>2. all(m - 1) \in Seq(S) /\ Len(all(m - 1)) = u * (m - 1)
    BY <1>1, <1>2
  <2>3. /\ u * m \in Nat /\ u * (m - 1) \in Nat /\ u * (m - 1) + u = u * m
        /\ \A i \in 1..(u * m) :
              i > u * (m - 1) => /\ (i - 1) \div u + 1 = m
                                 /\ ((i - 1) % u) + 1 = i - u * (m - 1)
    <3>1. m \in Nat /\ m # 0 /\ u \in {3, 4}
      OBVIOUS
    <3> QED
      BY ONLY <3>1, Places
  <2>4. /\ all(m - 1) \o g[m] \in Seq(S)
        /\ Len(all(m - 1) \o g[m]) = u * m
        /\ \A i \in 1..(u * m) : (all(m - 1) \o g[m])[i] =
              IF i <= u * (m - 1) THEN all(m - 1)[i] ELSE g[m][i - u * (m - 1)]
    <3>1. PICK s, t : s = all(m - 1) /\ t = g[m]
      OBVIOUS
    <3> HIDE DEF all
    <3>2. /\ s \o t \in Seq(S)
          /\ Len(s \o t) = Len(s) + Len(t)
          /\ \A i \in 1..(Len(s) + Len(t)) : (s \o t)[i] =
               IF i <= Len(s) THEN s[i] ELSE t[i - Len(s)]
      BY <2>1, <2>2, <3>1, ConcatProperties
    <3>3. Len(s) = u * (m - 1) /\ Len(t) = u
      BY <2>1, <2>2, <3>1
    <3>4. Len(s) + Len(t) = u * m
      BY ONLY <2>3, <3>3
    <3> QED
      BY ONLY <3>1, <3>2, <3>3, <3>4
  <2>5. ASSUME NEW i \in 1..(u * m) PROVE all(m)[i] = (all(m - 1) \o g[m])[i]
    <3>1. CASE i <= u * (m - 1)
      <4>1. i \in 1..(u * (m - 1))
        BY <2>3, <3>1
      <4>2. all(m - 1)[i] = all(m)[i]
        BY <4>1
      <4> HIDE DEF all
      <4> QED
        BY <2>4, <3>1, <4>2
    <3>2. CASE i > u * (m - 1)
      <4>1. (i - 1) \div u + 1 = m /\ ((i - 1) % u) + 1 = i - u * (m - 1)
        BY <2>3, <3>2
      <4>2. all(m)[i] = g[m][i - u * (m - 1)]
        BY <4>1
      <4>3. ~(i <= u * (m - 1))
        BY <2>3, <3>2
      <4> HIDE DEF all
      <4> QED
        BY <2>4, <4>2, <4>3
    <3>3. i <= u * (m - 1) \/ i > u * (m - 1)
      BY <2>3
    <3> HIDE DEF all
    <3> QED
      BY ONLY <3>1, <3>2, <3>3
  <2>6. all(m) \in Seq(S) /\ Len(all(m)) = u * m
    BY <1>1
  <2> HIDE DEF all
  <2> QED
    BY <2>4, <2>5, <2>6, SeqEqual
<1>3. FlattenSeq(g) = all(n)
  <2>1. CASE n = 0
    <3>1. g = << >> /\ Len(g) = 0
      BY <2>1
    <3>2. all(0) = << >>
      OBVIOUS
    <3> QED
      BY <2>1, <3>1, <3>2 DEF FlattenSeq
  <2>2. CASE n # 0
    <3>1. e = [k \in 1..n |-> IF k = 1 THEN g[k] ELSE e[k - 1] \o g[k]]
      <4>1. all(1) = g[1]
        <5>1. g[1] \in [1..u -> S]
          BY <2>2
        <5>2. \A i \in 1..u : (i - 1) \div u = 0 /\ (i - 1) % u = i - 1
          <6>1. /\ \A i \in 1..3 : (i - 1) \div 3 = 0 /\ (i - 1) % 3 = i - 1
                /\ \A i \in 1..4 : (i - 1) \div 4 = 0 /\ (i - 1) % 4 = i - 1
            OBVIOUS
          <6> QED
            BY <6>1
        <5>3. u * 1 = u
          OBVIOUS
        <5>4. all(1) = [i \in 1..u |-> g[1][i]]
          BY <5>2, <5>3
        <5> HIDE DEF all
        <5> QED
          BY <5>1, <5>4
      <4>2. ASSUME NEW k \in 1..n
            PROVE  all(k) = IF k = 1 THEN g[k] ELSE e[k - 1] \o g[k]
        <5>1. CASE k = 1
          BY <4>1, <5>1
        <5>2. CASE k # 1
          <6>1. k - 1 \in 1..n
            BY <5>2
          <6>2. e[k - 1] = all(k - 1)
            BY <6>1
          <6> HIDE DEF all, e
          <6> QED
            BY <1>2, <5>2, <6>2
        <5> QED
          BY <5>1, <5>2
      <4> HIDE DEF all
      <4> QED
        BY <4>2
    <3>2. Len(g) = n
      OBVIOUS
    <3>3. FlattenSeq(g) = e[n]
      <4> HIDE DEF e
      <4> QED
        BY <2>2, <3>1, <3>2, FlattenSteps
    <3> QED
      BY <2>2, <3>3
  <2> QED
    BY <2>1, <2>2
<1>4. all(n) = Grouped(u, n, g)
  BY DEF Grouped
<1>5. n \in 0..n
  OBVIOUS
<1> HIDE DEF all
<1> QED
  BY <1>1, <1>3, <1>4, <1>5

-----------------------------------------------------------------------------
(* base64 without fills.                                                   *)

(* The octets of a text, and zeros behind them.                            *)
Octet(bin, j) == IF j < Len(bin) THEN bin[j + 1] ELSE 0
Triple(bin, k) == <<Octet(bin, 3 * k), Octet(bin, 3 * k + 1), Octet(bin, 3 * k + 2)>>
Four(bin, k) == Sextets(Octet(bin, 3 * k), Octet(bin, 3 * k + 1), Octet(bin, 3 * k + 2))

(* The sextets of a text, without fill.                                    *)
Core(bin) == [i \in 1..SextetsOf(Len(bin)) |-> Four(bin, (i - 1) \div 4)[((i - 1) % 4) + 1]]

FillsOf(len, fill) ==
  IF len % 3 = 0 THEN << >> ELSE IF len % 3 = 1 THEN fill \o fill ELSE fill

LEMMA FourTyped ==
  ASSUME NEW bin \in Seq(Byte), NEW k \in Nat
  PROVE  /\ \A j \in Nat : Octet(bin, j) \in Byte
         /\ Four(bin, k) \in [1..4 -> Sextet]
         /\ Triple(bin, k) \in [1..3 -> Byte]
         /\ Bytes(Four(bin, k)[1], Four(bin, k)[2], Four(bin, k)[3], Four(bin, k)[4])
              = Triple(bin, k)
<1>1. ASSUME NEW j \in Nat PROVE Octet(bin, j) \in Byte
  <2>1. 0 \in Byte
    BY DEF Byte
  <2>2. CASE j < Len(bin)
    <3>1. j + 1 \in 1..Len(bin)
      BY <2>2, LenProperties
    <3>2. bin[j + 1] \in Byte
      BY <3>1, ElementOfSeq
    <3> QED
      BY <2>2, <3>2 DEF Octet
  <2> QED
    BY <2>1, <2>2 DEF Octet
<1>2. PICK a, b, c : a = Octet(bin, 3 * k) /\ b = Octet(bin, 3 * k + 1) /\ c = Octet(bin, 3 * k + 2)
  OBVIOUS
<1>3. a \in Byte /\ b \in Byte /\ c \in Byte
  BY <1>1, <1>2
<1>4. /\ Sextets(a, b, c) \in Sextet \X Sextet \X Sextet \X Sextet
      /\ Bytes(Sextets(a, b, c)[1], Sextets(a, b, c)[2], Sextets(a, b, c)[3],
               Sextets(a, b, c)[4]) = <<a, b, c>>
  BY <1>3, GroupRoundTrip
<1>5. PICK g : g = Sextets(a, b, c)
  OBVIOUS
<1>6. g \in [1..4 -> Sextet]
  BY <1>4, <1>5
<1>7. <<a, b, c>> \in [1..3 -> Byte]
  BY <1>3
<1>8. Four(bin, k) = g /\ Triple(bin, k) = <<a, b, c>>
  BY <1>2, <1>5 DEF Four, Triple
<1> QED
  BY ONLY <1>1, <1>4, <1>5, <1>6, <1>7, <1>8

(* A number of bytes, in groups.                                           *)
LEMMA SextetCount ==
  ASSUME NEW len \in Nat
  PROVE  /\ len \div 3 \in Nat /\ len = 3 * (len \div 3) + (len % 3) /\ len % 3 \in {0, 1, 2}
         /\ SextetsOf(len) \in Nat
         /\ len % 3 = 0 => SextetsOf(len) = 4 * (len \div 3)
         /\ len % 3 = 1 => SextetsOf(len) = 4 * (len \div 3) + 2
         /\ len % 3 = 2 => SextetsOf(len) = 4 * (len \div 3) + 3
<1> DEFINE k == len \div 3
<1>1. k \in Nat /\ len = 3 * k + (len % 3) /\ len % 3 \in {0, 1, 2}
  OBVIOUS
<1>2. len % 3 = 0 => (4 * len + 2) \div 3 = 4 * k
  BY <1>1
<1>3. len % 3 = 1 => (4 * len + 2) \div 3 = 4 * k + 2
  BY <1>1
<1>4. len % 3 = 2 => (4 * len + 2) \div 3 = 4 * k + 3
  BY <1>1
<1>5. SextetsOf(len) = (4 * len + 2) \div 3
  BY DEF SextetsOf
<1> HIDE DEF k
<1>6. SextetsOf(len) \in Nat
  BY <1>1, <1>2, <1>3, <1>4, <1>5
<1>7. SextetsOf(len) = (4 * len + 2) \div 3 /\ k = len \div 3
  BY <1>5 DEF k
<1> QED
  BY ONLY <1>1, <1>2, <1>3, <1>4, <1>6, <1>7

LEMMA CoreTyped ==
  ASSUME NEW bin \in Seq(Byte)
  PROVE  /\ Core(bin) \in Seq(Sextet)
         /\ Len(Core(bin)) = SextetsOf(Len(bin))
         /\ \A i \in 1..SextetsOf(Len(bin)) :
               Core(bin)[i] = Four(bin, (i - 1) \div 4)[((i - 1) % 4) + 1]
<1> DEFINE n == SextetsOf(Len(bin))
<1>1. n \in Nat
  <2>1. Len(bin) \in Nat
    BY LenProperties
  <2> QED
    BY <2>1, SextetCount
<1> HIDE DEF n
<1>2. ASSUME NEW i \in 1..n PROVE Four(bin, (i - 1) \div 4)[((i - 1) % 4) + 1] \in Sextet
  <2>1. (i - 1) \div 4 \in Nat /\ ((i - 1) % 4) + 1 \in 1..4
    BY <1>1
  <2>2. Four(bin, (i - 1) \div 4) \in [1..4 -> Sextet]
    BY <2>1, FourTyped
  <2> QED
    BY <2>1, <2>2
<1>3. Core(bin) = [i \in 1..n |-> Four(bin, (i - 1) \div 4)[((i - 1) % 4) + 1]]
  BY DEF Core, n
<1>4. Core(bin) \in [1..n -> Sextet]
  BY <1>2, <1>3
<1>5. Core(bin) \in Seq(Sextet) /\ Len(Core(bin)) = n
  BY <1>1, <1>4, FunctionIsSeq
<1> QED
  BY <1>3, <1>5 DEF n

(* Whole groups, and the sextets of the octets that are left.              *)
Rest(bin) ==
  LET k == Len(bin) \div 3
  IN  IF Len(bin) % 3 = 0 THEN << >> ELSE SubSeq(Four(bin, k), 1, (Len(bin) % 3) + 1)

LEMMA CoreParts ==
  ASSUME NEW bin \in Seq(Byte)
  PROVE  LET loop == FlattenSeq([k \in 1..(Len(bin) \div 3) |-> Four(bin, k - 1)])
         IN  /\ loop \in Seq(Sextet) /\ Rest(bin) \in Seq(Sextet)
             /\ Core(bin) = loop \o Rest(bin)
<1> DEFINE len == Len(bin)
           m == len \div 3
           g == [k \in 1..m |-> Four(bin, k - 1)]
           loop == FlattenSeq(g)
<1>1. len \in Nat
  BY LenProperties
<1>2. /\ m \in Nat /\ len = 3 * m + (len % 3) /\ len % 3 \in {0, 1, 2}
      /\ SextetsOf(len) \in Nat
      /\ len % 3 = 0 => SextetsOf(len) = 4 * m
      /\ len % 3 = 1 => SextetsOf(len) = 4 * m + 2
      /\ len % 3 = 2 => SextetsOf(len) = 4 * m + 3
  BY <1>1, SextetCount
<1> HIDE DEF m, len
<1>3. g \in [1..m -> [1..4 -> Sextet]]
  <2>1. \A k \in 1..m : Four(bin, k - 1) \in [1..4 -> Sextet]
    <3> TAKE k \in 1..m
    <3>1. k - 1 \in Nat
      BY <1>2
    <3> QED
      BY <3>1, FourTyped
  <2> QED
    BY <2>1
<1>4. /\ loop = [i \in 1..(4 * m) |-> g[(i - 1) \div 4 + 1][((i - 1) % 4) + 1]]
      /\ loop \in Seq(Sextet) /\ Len(loop) = 4 * m
  <2>1. m \in Nat /\ 4 \in {3, 4}
    BY <1>2
  <2> HIDE DEF g
  <2>2. loop = Grouped(4, m, g) /\ loop \in Seq(Sextet) /\ Len(loop) = 4 * m
    BY ONLY <2>1, <1>3, FlattenGroups, Zenon
  <2> QED
    BY <2>2 DEF Grouped
<1>5. ASSUME NEW i \in 1..(4 * m)
      PROVE  loop[i] = Four(bin, (i - 1) \div 4)[((i - 1) % 4) + 1]
  <2>1. (i - 1) \div 4 + 1 \in 1..m /\ (i - 1) \div 4 + 1 - 1 = (i - 1) \div 4
    BY <1>2
  <2>2. loop[i] = g[(i - 1) \div 4 + 1][((i - 1) % 4) + 1]
    BY <1>4
  <2> HIDE DEF loop
  <2> QED
    BY <2>1, <2>2
<1>6. /\ Rest(bin) \in Seq(Sextet)
      /\ Len(Rest(bin)) = IF len % 3 = 0 THEN 0 ELSE (len % 3) + 1
      /\ \A i \in 1..Len(Rest(bin)) : Rest(bin)[i] = Four(bin, m)[i]
  <2>1. CASE len % 3 = 0
    BY <2>1, EmptySeq DEF Rest, len
  <2>2. CASE len % 3 # 0
    <3> DEFINE j == (len % 3) + 1
    <3>1. j \in 2..3
      BY <1>2, <2>2
    <3>2. PICK f : f = Four(bin, m)
      OBVIOUS
    <3>3. f \in [1..4 -> Sextet]
      BY <1>2, <3>2, FourTyped
    <3> HIDE DEF j
    <3>4. \A i \in 1..j : f[i] \in Sextet
      BY <3>1, <3>3
    <3>5. /\ SubSeq(f, 1, j) \in Seq(Sextet)
          /\ Len(SubSeq(f, 1, j)) = IF 1 <= j THEN j - 1 + 1 ELSE 0
          /\ \A i \in 1..(j - 1 + 1) : SubSeq(f, 1, j)[i] = f[1 + i - 1]
      BY <3>1, <3>4, SubSeqProperties
    <3>6. Rest(bin) = SubSeq(f, 1, j)
      BY <2>2, <3>2 DEF Rest, j, m, len
    <3>7. j - 1 + 1 = j /\ 1 <= j
      BY <3>1
    <3>8. \A i \in 1..j : 1 + i - 1 = i
      BY <3>1
    <3>9. Len(Rest(bin)) = j
      BY <3>5, <3>6, <3>7
    <3> QED
      BY <2>2, <3>2, <3>5, <3>6, <3>7, <3>8, <3>9 DEF j
  <2> QED
    BY <2>1, <2>2
<1>7. PICK s, t : s = loop /\ t = Rest(bin)
  OBVIOUS
<1>8. /\ s \o t \in Seq(Sextet)
      /\ Len(s \o t) = Len(s) + Len(t)
      /\ \A i \in 1..(Len(s) + Len(t)) : (s \o t)[i] =
           IF i <= Len(s) THEN s[i] ELSE t[i - Len(s)]
  BY <1>4, <1>6, <1>7, ConcatProperties
<1>9. Len(s) = 4 * m /\ Len(s) + Len(t) = SextetsOf(len)
  BY <1>2, <1>4, <1>6, <1>7
<1>10. /\ Core(bin) \in Seq(Sextet)
       /\ Len(Core(bin)) = SextetsOf(len)
       /\ \A i \in 1..SextetsOf(len) :
             Core(bin)[i] = Four(bin, (i - 1) \div 4)[((i - 1) % 4) + 1]
  BY CoreTyped DEF len
<1> HIDE DEF loop
<1>11. ASSUME NEW i \in 1..SextetsOf(len) PROVE Core(bin)[i] = (s \o t)[i]
  <2>1. CASE i <= 4 * m
    <3>1. i \in 1..(4 * m)
      BY <1>2, <2>1
    <3> QED
      BY <1>5, <1>7, <1>8, <1>9, <1>10, <2>1, <3>1
  <2>2. CASE i > 4 * m
    <3>1. i - 1 - 4 * m \in 0..3
      BY <1>2, <2>2
    <3>2. PICK d \in 0..3 : d = i - 1 - 4 * m
      BY <3>1
    <3>3. i - 1 = 4 * m + d
      BY <1>2, <3>2
    <3>4. (4 * m + d) \div 4 = m /\ (4 * m + d) % 4 = d
      BY <1>2
    <3>5. i - 4 * m = d + 1 /\ i - 4 * m \in 1..Len(t)
      BY <1>2, <1>9, <2>2, <3>3
    <3>6. Core(bin)[i] = Four(bin, m)[d + 1]
      BY <1>10, <3>3, <3>4
    <3>7. ~(i <= 4 * m)
      BY <1>2, <2>2
    <3>8. (s \o t)[i] = t[i - 4 * m]
      BY <1>8, <1>9, <3>7
    <3> QED
      BY <1>6, <1>7, <3>5, <3>6, <3>8
  <2>3. i <= 4 * m \/ i > 4 * m
    BY <1>2
  <2> QED
    BY <2>1, <2>2, <2>3
<1>12. Core(bin) = s \o t
  BY <1>8, <1>9, <1>10, <1>11, SeqEqual
<1> QED
  BY <1>4, <1>6, <1>7, <1>12 DEF loop, m, len

-----------------------------------------------------------------------------
(* What the encoders write.                                                *)

LEMMA FillsTyped ==
  ASSUME NEW len \in Nat, NEW S, NEW fill \in Seq(S)
  PROVE  /\ FillsOf(len, fill) \in Seq(S)
         /\ fill \o fill \in Seq(S)
BY ConcatProperties, EmptySeq DEF FillsOf

LEMMA TwoOf ==
  ASSUME NEW x
  PROVE  <<x>> \o <<x>> = <<x, x>>
<1>1. PICK s, t : s = <<x>> /\ t = <<x, x>>
  OBVIOUS
<1>2. s \in Seq({x}) /\ Len(s) = 1 /\ s[1] = x
  BY <1>1
<1>3. t \in Seq({x}) /\ Len(t) = 2 /\ t[1] = x /\ t[2] = x
  BY <1>1
<1>4. /\ s \o s \in Seq({x}) /\ Len(s \o s) = Len(s) + Len(s)
      /\ \A i \in 1..(Len(s) + Len(s)) : (s \o s)[i] = IF i <= Len(s) THEN s[i] ELSE s[i - Len(s)]
  BY <1>2, ConcatProperties
<1>5. Len(s \o s) = 2 /\ \A i \in 1..2 : (s \o s)[i] = x
  BY <1>2, <1>4
<1>6. \A i \in 1..2 : t[i] = x
  BY <1>3
<1>7. s \o s = t
  BY <1>3, <1>4, <1>5, <1>6, SeqEqual
<1> QED
  BY <1>1, <1>7

LEMMA Assoc ==
  ASSUME NEW S, NEW a \in Seq(S), NEW b \in Seq(S), NEW c \in Seq(S)
  PROVE  a \o (b \o c) = (a \o b) \o c
BY ConcatAssociative

LEMMA Wider ==
  ASSUME NEW s \in Seq(Sextet)
  PROVE  s \in Seq(Character)
<1>1. Sextet \subseteq Character
  BY DEF Sextet, Character
<1> QED
  BY <1>1, SeqMonotonic

(* encode writes the sextets of the whole text and then the fills.         *)
LEMMA EncodeIs ==
  ASSUME NEW bin \in Seq(Byte), NEW fill \in Seq(Character)
  PROVE  encode(bin, fill) = Core(bin) \o FillsOf(Len(bin), fill)
<1> DEFINE len == Len(bin)
           m == len \div 3
           octet(i) == IF i < len THEN bin[i + 1] ELSE 0
           triple(i) == Sextets(octet(i), octet(i + 1), octet(i + 2))
           loop == FlattenSeq([k \in 1..m |-> Four(bin, k - 1)])
           tail == CASE len % 3 = 0 -> << >>
                     [] len % 3 = 1 -> SubSeq(triple(len - (len % 3)), 1, 2) \o fill \o fill
                     [] len % 3 = 2 -> SubSeq(triple(len - (len % 3)), 1, 3) \o fill
<1>1. len \in Nat /\ m \in Nat /\ len = 3 * m + (len % 3) /\ len % 3 \in {0, 1, 2}
  <2>1. len \in Nat
    BY LenProperties
  <2> QED
    BY <2>1, SextetCount
<1>2. encode(bin, fill) =
        FlattenSeq([k \in 1..((len - (len % 3)) \div 3) |-> triple(3 * (k - 1))]) \o tail
  BY Zenon DEF encode
<1>3. len - (len % 3) = 3 * m /\ (3 * m) \div 3 = m
  <2> HIDE DEF m, len
  <2> QED
    BY <1>1
<1>4. \A k : triple(3 * k) = Four(bin, k)
  BY DEF Four, Octet
<1>5. FlattenSeq([k \in 1..((len - (len % 3)) \div 3) |-> triple(3 * (k - 1))]) = loop
  <2> HIDE DEF triple, m, len
  <2>1. [k \in 1..m |-> triple(3 * (k - 1))] = [k \in 1..m |-> Four(bin, k - 1)]
    BY <1>4
  <2> QED
    BY <1>3, <2>1
<1>6. loop \in Seq(Sextet) /\ Rest(bin) \in Seq(Sextet) /\ Core(bin) = loop \o Rest(bin)
  BY CoreParts
<1>7. tail = Rest(bin) \o FillsOf(len, fill)
  <2>1. triple(len - (len % 3)) = Four(bin, m)
    BY <1>3, <1>4
  <2>2. PICK t : t = triple(len - (len % 3))
    OBVIOUS
  <2>3. tail = CASE len % 3 = 0 -> << >>
                 [] len % 3 = 1 -> SubSeq(t, 1, 2) \o fill \o fill
                 [] len % 3 = 2 -> SubSeq(t, 1, 3) \o fill
    BY <2>2
  <2>4. Rest(bin) = IF len % 3 = 0 THEN << >> ELSE SubSeq(t, 1, (len % 3) + 1)
    BY <2>1, <2>2 DEF Rest
  <2>5. PICK r : r = Rest(bin)
    OBVIOUS
  <2>6. r \in Seq(Character)
    BY <1>6, <2>5, Wider
  <2> HIDE DEF tail, triple, octet, m, len
  <2>7. CASE len % 3 = 0
    BY <2>3, <2>4, <2>7 DEF FillsOf
  <2>8. CASE len % 3 = 1
    <3>1. tail = (r \o fill) \o fill
      <4>1. r = SubSeq(t, 1, 2)
        BY <2>4, <2>5, <2>8
      <4>2. tail = SubSeq(t, 1, 2) \o fill \o fill
        BY ONLY <2>3, <2>8
      <4> QED
        BY ONLY <4>1, <4>2
    <3>2. r \o (fill \o fill) = (r \o fill) \o fill
      BY <2>6, Assoc
    <3> QED
      BY <2>5, <2>8, <3>1, <3>2 DEF FillsOf
  <2>9. CASE len % 3 = 2
    BY <2>3, <2>4, <2>9 DEF FillsOf
  <2> QED
    BY <1>1, <2>7, <2>8, <2>9
<1>8. PICK a, b, c : a = loop /\ b = Rest(bin) /\ c = FillsOf(len, fill)
  OBVIOUS
<1>9. a \in Seq(Character) /\ b \in Seq(Character) /\ c \in Seq(Character)
  <2> HIDE DEF len, m, loop
  <2> QED
    BY <1>1, <1>6, <1>8, Wider, FillsTyped
<1>10. a \o (b \o c) = (a \o b) \o c
  BY <1>9, Assoc
<1> HIDE DEF loop, tail, len, m
<1>11. encode(bin, fill) = a \o (b \o c)
  BY <1>2, <1>5, <1>7, <1>8
<1>12. Core(bin) \o FillsOf(len, fill) = (a \o b) \o c
  BY <1>6, <1>8
<1> QED
  BY <1>10, <1>11, <1>12 DEF len

(* So does Base64encode, and a Nul.                                        *)
LEMMA Base64encodeIs ==
  ASSUME NEW bin \in Seq(Byte)
  PROVE  Base64encode(bin) = (Core(bin) \o FillsOf(Len(bin), Fill)) \o <<Nul>>
<1> DEFINE len == Len(bin)
           m == len \div 3
           at(i) == bin[i + 1]
           at3(j) == Sextets(at(j), at(j + 1), at(j + 2))
           loop == FlattenSeq([k \in 1..m |-> Four(bin, k - 1)])
           i == 3 * m
           tail == CASE i = len -> << >>
                     [] i = len - 1 -> SubSeq(Sextets(at(i), 0, 0), 1, 2) \o <<Equals, Equals>>
                     [] OTHER -> SubSeq(Sextets(at(i), at(i + 1), 0), 1, 3) \o <<Equals>>
<1>1. len \in Nat /\ m \in Nat /\ len = 3 * m + (len % 3) /\ len % 3 \in {0, 1, 2}
  <2>1. len \in Nat
    BY LenProperties
  <2> QED
    BY <2>1, SextetCount
<1>2. Base64encode(bin) =
        (FlattenSeq([k \in 1..m |-> LET j == 3 * (k - 1)
                                    IN  Sextets(at(j), at(j + 1), at(j + 2))])
          \o tail) \o <<Nul>>
  BY Zenon DEF Base64encode
<1>3. ASSUME NEW k \in 1..m PROVE at3(3 * (k - 1)) = Four(bin, k - 1)
  <2>1. 3 * (k - 1) < len /\ 3 * (k - 1) + 1 < len /\ 3 * (k - 1) + 2 < len
    <3> HIDE DEF len, m
    <3> QED
      BY <1>1
  <2> QED
    BY <2>1 DEF Four, Octet
<1>4. [k \in 1..m |-> LET j == 3 * (k - 1) IN Sextets(at(j), at(j + 1), at(j + 2))]
        = [k \in 1..m |-> Four(bin, k - 1)]
  <2> DEFINE f == [k \in 1..m |-> at3(3 * (k - 1))]
  <2>1. f = [k \in 1..m |-> Four(bin, k - 1)]
    <3> HIDE DEF at3, m
    <3> QED
      BY <1>3
  <2> QED
    BY <2>1
<1>5. loop \in Seq(Sextet) /\ Rest(bin) \in Seq(Sextet) /\ Core(bin) = loop \o Rest(bin)
  BY CoreParts
<1>6. tail = Rest(bin) \o FillsOf(len, Fill)
  <2>1. Rest(bin) = IF len % 3 = 0 THEN << >> ELSE SubSeq(Four(bin, m), 1, (len % 3) + 1)
    BY DEF Rest
  <2>2. CASE len % 3 = 0
    <3>1. i = len
      <4> HIDE DEF m, len
      <4> QED
        BY <1>1, <2>2
    <3> QED
      BY <2>1, <2>2, <3>1 DEF FillsOf
  <2>3. CASE len % 3 = 1
    <3>1. i # len /\ i = len - 1 /\ i < len /\ ~(i + 1 < len) /\ ~(i + 2 < len)
      <4> HIDE DEF m, len
      <4> QED
        BY <1>1, <2>3
    <3>2. Four(bin, m) = Sextets(at(i), 0, 0)
      BY <3>1 DEF Four, Octet
    <3>3. tail = SubSeq(Sextets(at(i), 0, 0), 1, 2) \o <<Equals, Equals>>
      BY <3>1
    <3>4. <<Equals>> \o <<Equals>> = <<Equals, Equals>>
      BY TwoOf
    <3>5. PICK f : f = Four(bin, m)
      OBVIOUS
    <3> HIDE DEF tail, i, m, len, at
    <3>6. Rest(bin) = SubSeq(f, 1, 2)
      <4>1. (len % 3) + 1 = 2 /\ len % 3 # 0
        BY ONLY <2>3
      <4>2. Rest(bin) = SubSeq(f, 1, (len % 3) + 1)
        BY ONLY <2>1, <3>5, <4>1
      <4> QED
        BY ONLY <4>1, <4>2
    <3>7. FillsOf(len, Fill) = <<Equals, Equals>>
      BY ONLY <2>3, <3>4 DEF FillsOf, Fill
    <3>8. tail = SubSeq(f, 1, 2) \o <<Equals, Equals>>
      BY <3>2, <3>3, <3>5
    <3> QED
      BY ONLY <3>6, <3>7, <3>8
  <2>4. CASE len % 3 = 2
    <3>1. i # len /\ i # len - 1 /\ i < len /\ i + 1 < len /\ ~(i + 2 < len)
      <4> HIDE DEF m, len
      <4> QED
        BY <1>1, <2>4
    <3>2. Four(bin, m) = Sextets(at(i), at(i + 1), 0)
      BY <3>1 DEF Four, Octet
    <3>3. tail = SubSeq(Sextets(at(i), at(i + 1), 0), 1, 3) \o <<Equals>>
      BY <3>1
    <3>4. PICK f : f = Four(bin, m)
      OBVIOUS
    <3> HIDE DEF tail, i, m, len, at
    <3>5. Rest(bin) = SubSeq(f, 1, 3)
      BY <2>1, <2>4, <3>4
    <3>6. FillsOf(len, Fill) = <<Equals>>
      BY ONLY <2>4 DEF FillsOf, Fill
    <3>7. tail = SubSeq(f, 1, 3) \o <<Equals>>
      BY <3>2, <3>3, <3>4
    <3> QED
      BY ONLY <3>5, <3>6, <3>7
  <2> HIDE DEF tail, len, m
  <2> QED
    BY <1>1, <2>2, <2>3, <2>4
<1>7. PICK a, b, c : a = loop /\ b = Rest(bin) /\ c = FillsOf(len, Fill)
  OBVIOUS
<1>8. Fill \in Seq(Character)
  BY DEF Fill, Equals, Character
<1>9. a \in Seq(Character) /\ b \in Seq(Character) /\ c \in Seq(Character)
  <2> HIDE DEF len, m, loop
  <2> QED
    BY <1>1, <1>5, <1>7, <1>8, Wider, FillsTyped
<1>10. a \o (b \o c) = (a \o b) \o c
  BY <1>9, Assoc
<1> HIDE DEF loop, tail, len, m
<1>11. Base64encode(bin) = (a \o (b \o c)) \o <<Nul>>
  BY <1>2, <1>4, <1>6, <1>7 DEF loop
<1>12. Core(bin) \o FillsOf(len, Fill) = (a \o b) \o c
  BY <1>5, <1>7
<1> QED
  BY <1>10, <1>11, <1>12 DEF len

-----------------------------------------------------------------------------
(* What the decoders read.                                                 *)

(* A group of the sextets, with zeros for those that are not there, gives  *)
(* the octets back.                                                        *)
LEMMA GroupBack ==
  ASSUME NEW bin \in Seq(Byte), NEW k \in Nat, 3 * k < Len(bin), NEW at,
         \A j \in Nat : at[j] = IF j < SextetsOf(Len(bin)) THEN Core(bin)[j + 1] ELSE 0
  PROVE  Bytes(at[4 * k], at[4 * k + 1], at[4 * k + 2], at[4 * k + 3]) = Triple(bin, k)
<1> DEFINE len == Len(bin)
           n == SextetsOf(len)
           m == len \div 3
<1>1. /\ len \in Nat /\ m \in Nat /\ len = 3 * m + (len % 3) /\ len % 3 \in {0, 1, 2}
      /\ n \in Nat
      /\ len % 3 = 0 => n = 4 * m
      /\ len % 3 = 1 => n = 4 * m + 2
      /\ len % 3 = 2 => n = 4 * m + 3
  <2>1. len \in Nat
    BY LenProperties
  <2> QED
    BY <2>1, SextetCount
<1>2. \A i \in 1..n : Core(bin)[i] = Four(bin, (i - 1) \div 4)[((i - 1) % 4) + 1]
  BY CoreTyped
<1>3. 3 * k < len
  OBVIOUS
<1>4. Four(bin, k) = Sextets(Octet(bin, 3 * k), Octet(bin, 3 * k + 1), Octet(bin, 3 * k + 2))
  BY DEF Four
<1>5. /\ 3 * k + 1 >= len => Octet(bin, 3 * k + 1) = 0
      /\ 3 * k + 2 >= len => Octet(bin, 3 * k + 2) = 0
  <2>1. ASSUME NEW j \in Nat, j >= len PROVE Octet(bin, j) = 0
    <3>1. ~(j < Len(bin))
      <4>1. Len(bin) \in Nat
        BY LenProperties
      <4> QED
        BY <2>1, <4>1
    <3> QED
      BY ONLY <3>1 DEF Octet
  <2>2. 3 * k + 1 \in Nat /\ 3 * k + 2 \in Nat
    OBVIOUS
  <2> QED
    BY ONLY <2>1, <2>2
<1>6. \A j \in Nat : at[j] = IF j < n THEN Core(bin)[j + 1] ELSE 0
  OBVIOUS
<1> HIDE DEF len, n, m
<1>7. ASSUME NEW j \in 0..3 PROVE at[4 * k + j] = Four(bin, k)[j + 1]
  <2>1. CASE 4 * k + j < n
    <3>1. 4 * k + j + 1 \in 1..n /\ 4 * k + j \in Nat
      BY <1>1, <2>1
    <3>2. (4 * k + j) \div 4 = k /\ (4 * k + j) % 4 = j
      OBVIOUS
    <3>3. 4 * k + j + 1 - 1 = 4 * k + j
      OBVIOUS
    <3>4. Core(bin)[4 * k + j + 1] = Four(bin, k)[j + 1]
      BY <1>2, <3>1, <3>2, <3>3
    <3>5. at[4 * k + j] = Core(bin)[4 * k + j + 1]
      BY <1>6, <2>1, <3>1
    <3> QED
      BY <3>4, <3>5
  <2>2. CASE 4 * k + j >= n
    <3>1. at[4 * k + j] = 0
      <4>1. 4 * k + j \in Nat /\ ~(4 * k + j < n)
        BY <1>1, <2>2
      <4> QED
        BY <1>6, <4>1
    <3>2. \/ j = 3 /\ 3 * k + 2 >= len
          \/ j = 2 /\ 3 * k + 1 >= len /\ 3 * k + 2 >= len
      BY <1>1, <1>3, <2>2
    <3>3. PICK a : a = Octet(bin, 3 * k)
      OBVIOUS
    <3>4. PICK b : b = Octet(bin, 3 * k + 1)
      OBVIOUS
    <3>5. CASE j = 3 /\ 3 * k + 2 >= len
      <4>1. Four(bin, k) = Sextets(a, b, 0)
        BY <1>4, <1>5, <3>3, <3>4, <3>5
      <4>2. Sextets(a, b, 0)[4] = 0
        BY DEF Sextets
      <4>3. j + 1 = 4
        BY <3>5
      <4> QED
        BY <3>1, <4>1, <4>2, <4>3
    <3>6. CASE j = 2 /\ 3 * k + 1 >= len /\ 3 * k + 2 >= len
      <4>1. Four(bin, k) = Sextets(a, 0, 0)
        BY <1>4, <1>5, <3>3, <3>6
      <4>2. Sextets(a, 0, 0)[3] = 0
        BY DEF Sextets
      <4>3. j + 1 = 3
        BY <3>6
      <4> QED
        BY <3>1, <4>1, <4>2, <4>3
    <3> QED
      BY <3>2, <3>5, <3>6
  <2>3. 4 * k + j < n \/ 4 * k + j >= n
    BY <1>1
  <2> QED
    BY <2>1, <2>2, <2>3
<1>8. PICK g : g = Four(bin, k)
  OBVIOUS
<1>9. /\ at[4 * k] = g[1] /\ at[4 * k + 1] = g[2]
      /\ at[4 * k + 2] = g[3] /\ at[4 * k + 3] = g[4]
  <2>1. at[4 * k + 0] = g[0 + 1] /\ at[4 * k + 1] = g[1 + 1]
    BY <1>7, <1>8
  <2>2. at[4 * k + 2] = g[2 + 1] /\ at[4 * k + 3] = g[3 + 1]
    BY <1>7, <1>8
  <2>3. 4 * k + 0 = 4 * k /\ 0 + 1 = 1 /\ 1 + 1 = 2 /\ 2 + 1 = 3 /\ 3 + 1 = 4
    OBVIOUS
  <2> QED
    BY ONLY <2>1, <2>2, <2>3
<1>10. Bytes(g[1], g[2], g[3], g[4]) = Triple(bin, k)
  BY <1>8, FourTyped
<1> QED
  BY ONLY <1>9, <1>10

(* The octets of a text, in groups of three and what is left.              *)
LEMMA Regrouped ==
  ASSUME NEW bin \in Seq(Byte), NEW m \in Nat, NEW j \in 0..3, Len(bin) = 3 * m + j,
         NEW g, g = [k \in 1..m |-> Triple(bin, k - 1)],
         NEW t, t = IF j = 0 THEN << >> ELSE SubSeq(Triple(bin, m), 1, j)
  PROVE  bin = FlattenSeq(g) \o t
<1>1. /\ bin \in Seq(Byte)
      /\ \A i \in 0..(3 * m + j - 1) : Octet(bin, i) = bin[i + 1]
  BY DEF Octet
<1>2. g \in [1..m -> [1..3 -> Byte]]
  <2>1. \A k \in 1..m : Triple(bin, k - 1) \in [1..3 -> Byte]
    <3> TAKE k \in 1..m
    <3>1. k - 1 \in Nat
      OBVIOUS
    <3> QED
      BY <3>1, FourTyped
  <2> QED
    BY <2>1
<1>3. PICK s : s = FlattenSeq(g)
  OBVIOUS
<1>4. /\ s = Grouped(3, m, g) /\ s \in Seq(Byte) /\ Len(s) = 3 * m
  <2>1. 3 \in {3, 4} /\ m \in Nat
    OBVIOUS
  <2>2. /\ FlattenSeq(g) = Grouped(3, m, g) /\ Grouped(3, m, g) \in Seq(Byte)
        /\ Len(Grouped(3, m, g)) = 3 * m
    BY ONLY <1>2, <2>1, FlattenGroups, Zenon
  <2> QED
    BY <1>3, <2>2
<1>5. ASSUME NEW k \in Nat, NEW d \in 0..2, 3 * k + d < 3 * m + j
      PROVE  Triple(bin, k)[d + 1] = bin[3 * k + d + 1]
  <2>1. Octet(bin, 3 * k + d) = bin[3 * k + d + 1]
    BY <1>1, <1>5
  <2>2. CASE d = 0
    <3>1. 3 * k + d = 3 * k /\ d + 1 = 1
      BY <2>2
    <3> QED
      BY ONLY <2>1, <3>1 DEF Triple
  <2>3. CASE d = 1
    <3>1. 3 * k + d = 3 * k + 1 /\ d + 1 = 2
      BY <2>3
    <3> QED
      BY ONLY <2>1, <3>1 DEF Triple
  <2>4. CASE d = 2
    <3>1. 3 * k + d = 3 * k + 2 /\ d + 1 = 3
      BY <2>4
    <3> QED
      BY ONLY <2>1, <3>1 DEF Triple
  <2> QED
    BY <2>2, <2>3, <2>4
<1>6. ASSUME NEW i \in 1..(3 * m) PROVE s[i] = bin[i]
  <2>1. (i - 1) \div 3 \in Nat /\ (i - 1) % 3 \in 0..2 /\ (i - 1) \div 3 + 1 \in 1..m
        /\ 3 * ((i - 1) \div 3) + ((i - 1) % 3) = i - 1
    OBVIOUS
  <2>2. PICK k \in Nat, d \in 0..2 : k = (i - 1) \div 3 /\ d = (i - 1) % 3
    BY <2>1
  <2>3. 3 * k + d + 1 = i /\ k + 1 \in 1..m /\ 3 * k + d < 3 * m + j /\ k + 1 - 1 = k
    BY <2>1, <2>2
  <2>4. s[i] = g[k + 1][d + 1]
    BY <1>4, <2>2 DEF Grouped
  <2>5. g[k + 1] = Triple(bin, k)
    BY <2>3
  <2> QED
    BY <1>5, <2>3, <2>4, <2>5
<1>7. t \in Seq(Byte) /\ Len(t) = j /\ \A i \in 1..j : t[i] = bin[3 * m + i]
  <2>1. CASE j = 0
    BY <2>1, EmptySeq
  <2>2. CASE j # 0
    <3>1. PICK f : f = Triple(bin, m)
      OBVIOUS
    <3>2. f \in [1..3 -> Byte]
      BY <3>1, FourTyped
    <3>3. \A i \in 1..j : f[i] \in Byte
      BY <3>2
    <3>4. /\ SubSeq(f, 1, j) \in Seq(Byte)
          /\ Len(SubSeq(f, 1, j)) = IF 1 <= j THEN j - 1 + 1 ELSE 0
          /\ \A i \in 1..(j - 1 + 1) : SubSeq(f, 1, j)[i] = f[1 + i - 1]
      BY <3>3, SubSeqProperties
    <3>5. j - 1 + 1 = j /\ 1 <= j /\ \A i \in 1..j : 1 + i - 1 = i
      BY <2>2
    <3>6. t = SubSeq(f, 1, j)
      BY <2>2, <3>1
    <3>7. ASSUME NEW i \in 1..j PROVE f[i] = bin[3 * m + i]
      <4>1. PICK d \in 0..2 : d = i - 1
        OBVIOUS
      <4>2. d + 1 = i /\ 3 * m + d < 3 * m + j /\ 3 * m + d + 1 = 3 * m + i
        BY <4>1
      <4> QED
        BY <1>5, <3>1, <4>2
    <3> QED
      BY <3>4, <3>5, <3>6, <3>7
  <2> QED
    BY <2>1, <2>2
<1>8. /\ s \o t \in Seq(Byte)
      /\ Len(s \o t) = Len(s) + Len(t)
      /\ \A i \in 1..(Len(s) + Len(t)) : (s \o t)[i] =
           IF i <= Len(s) THEN s[i] ELSE t[i - Len(s)]
  BY <1>4, <1>7, ConcatProperties
<1>9. Len(s) = 3 * m /\ Len(t) = j /\ Len(s) + Len(t) = 3 * m + j
  BY <1>4, <1>7
<1>10. ASSUME NEW i \in 1..(3 * m + j) PROVE bin[i] = (s \o t)[i]
  <2>1. CASE i <= 3 * m
    <3>1. i \in 1..(3 * m)
      BY <2>1
    <3> QED
      BY <1>6, <1>8, <1>9, <2>1, <3>1
  <2>2. CASE i > 3 * m
    <3>1. i - 3 * m \in 1..j /\ 3 * m + (i - 3 * m) = i /\ ~(i <= 3 * m)
      BY <2>2
    <3>2. (s \o t)[i] = t[i - 3 * m]
      BY <1>8, <1>9, <3>1
    <3>3. t[i - 3 * m] = bin[3 * m + (i - 3 * m)]
      BY <1>7, <3>1
    <3> QED
      BY <3>1, <3>2, <3>3
  <2>3. i <= 3 * m \/ i > 3 * m
    OBVIOUS
  <2> QED
    BY <2>1, <2>2, <2>3
<1>11. Len(bin) = Len(s \o t)
  BY <1>8, <1>9
<1>12. bin = s \o t
  BY <1>8, <1>9, <1>10, <1>11, SeqEqual
<1> QED
  BY <1>3, <1>12

(* Where the fill of base64url stands in a text.                           *)
LEMMA FillAt ==
  ASSUME NEW t \in Seq(Character), NEW i \in Int, 1 <= i, i + 2 <= Len(t)
  PROVE  SubSeq(t, i, i + 2) = UrlFill <=> t[i] = Percent /\ t[i + 1] = 55 /\ t[i + 2] = 29
<1> DEFINE u == SubSeq(t, i, i + 2)
<1>1. Len(t) \in Nat
  BY LenProperties
<1>2. \A k \in i..(i + 2) : t[k] \in Character
  <2> TAKE k \in i..(i + 2)
  <2>1. k \in 1..Len(t)
    BY <1>1
  <2> QED
    BY <2>1, ElementOfSeq
<1>3. /\ u \in Seq(Character)
      /\ Len(u) = IF i <= i + 2 THEN i + 2 - i + 1 ELSE 0
      /\ \A k \in 1..(i + 2 - i + 1) : u[k] = t[i + k - 1]
  <2>1. i + 2 \in Int
    OBVIOUS
  <2> QED
    BY <1>2, <2>1, SubSeqProperties
<1> HIDE DEF u
<1>4. Len(u) = 3 /\ u[1] = t[i] /\ u[2] = t[i + 1] /\ u[3] = t[i + 2]
  <2>1. i + 2 - i + 1 = 3 /\ i <= i + 2 /\ i + 1 - 1 = i /\ i + 2 - 1 = i + 1 /\ i + 3 - 1 = i + 2
    OBVIOUS
  <2>2. Len(u) = 3 /\ \A k \in 1..3 : u[k] = t[i + k - 1]
    BY ONLY <1>3, <2>1
  <2>3. u[1] = t[i + 1 - 1] /\ u[2] = t[i + 2 - 1] /\ u[3] = t[i + 3 - 1]
    BY <2>2
  <2> QED
    BY ONLY <2>1, <2>2, <2>3
<1>5. PICK f : f = UrlFill
  OBVIOUS
<1>6. /\ f \in Seq(Character) /\ Len(f) = 3
      /\ f[1] = Percent /\ f[2] = 55 /\ f[3] = 29
  BY <1>5 DEF UrlFill, Percent, Character
<1>7. ASSUME t[i] = Percent /\ t[i + 1] = 55 /\ t[i + 2] = 29 PROVE u = f
  <2>1. \A k \in 1..3 : u[k] = f[k]
    BY <1>4, <1>6, <1>7
  <2> QED
    BY <1>3, <1>4, <1>6, <2>1, SeqEqual
<1>8. ASSUME u = f PROVE t[i] = Percent /\ t[i + 1] = 55 /\ t[i + 2] = 29
  BY <1>4, <1>6, <1>8
<1> QED
  BY <1>5, <1>7, <1>8 DEF u

(* How many fills a text has.                                              *)
FillCount(len) == IF len % 3 = 0 THEN 0 ELSE 3 - (len % 3)

LEMMA FillsShape ==
  ASSUME NEW len \in Nat
  PROVE  LET fs == FillsOf(len, UrlFill)
             cnt == FillCount(len)
         IN  /\ fs \in Seq(Character) /\ Len(fs) = 3 * cnt /\ cnt \in 0..2
             /\ \A j \in 1..cnt : /\ fs[3 * j - 2] = Percent
                                  /\ fs[3 * j - 1] = 55 /\ fs[3 * j] = 29
<1> DEFINE fs == FillsOf(len, UrlFill)
           cnt == FillCount(len)
<1>1. PICK f : f = UrlFill
  OBVIOUS
<1>2. /\ f \in Seq(Character) /\ Len(f) = 3
      /\ f[1] = Percent /\ f[2] = 55 /\ f[3] = 29
  BY <1>1 DEF UrlFill, Percent, Character
<1>3. fs \in Seq(Character)
  BY <1>1, <1>2, FillsTyped
<1>4. CASE len % 3 = 0
  <2>1. cnt = 0 /\ fs = << >>
    BY <1>4 DEF FillCount, FillsOf
  <2> HIDE DEF cnt, fs
  <2> QED
    BY <1>3, <2>1, EmptySeq DEF cnt, fs
<1>5. CASE len % 3 = 2
  <2>1. cnt = 1 /\ fs = f
    BY <1>1, <1>5 DEF FillCount, FillsOf
  <2> HIDE DEF cnt, fs
  <2>2. \A j \in 1..cnt : fs[3 * j - 2] = Percent /\ fs[3 * j - 1] = 55 /\ fs[3 * j] = 29
    <3> TAKE j \in 1..cnt
    <3>1. 3 * j - 2 = 1 /\ 3 * j - 1 = 2 /\ 3 * j = 3
      BY <2>1
    <3> QED
      BY ONLY <1>2, <2>1, <3>1
  <2>3. Len(fs) = 3 * cnt /\ cnt \in 0..2
    BY <1>2, <2>1
  <2> QED
    BY ONLY <1>3, <2>2, <2>3 DEF cnt, fs
<1>6. CASE len % 3 = 1
  <2>1. cnt = 2 /\ fs = f \o f
    BY <1>1, <1>6 DEF FillCount, FillsOf
  <2>2. /\ Len(f \o f) = Len(f) + Len(f)
        /\ \A i \in 1..(Len(f) + Len(f)) : (f \o f)[i] = IF i <= Len(f) THEN f[i] ELSE f[i - Len(f)]
    <3>1. f \in Seq(Character)
      BY <1>2
    <3> QED
      BY ONLY <3>1, ConcatProperties
  <2> HIDE DEF cnt, fs
  <2>3. Len(fs) = 3 * cnt /\ cnt \in 0..2
    BY <1>2, <2>1, <2>2
  <2>4. \A i \in 1..6 : fs[i] = IF i <= 3 THEN f[i] ELSE f[i - 3]
    BY <1>2, <2>1, <2>2
  <2>5. /\ fs[1] = Percent /\ fs[2] = 55 /\ fs[3] = 29
        /\ fs[4] = Percent /\ fs[5] = 55 /\ fs[6] = 29
    BY <1>2, <2>4
  <2>6. \A j \in 1..cnt : fs[3 * j - 2] = Percent /\ fs[3 * j - 1] = 55 /\ fs[3 * j] = 29
    <3> TAKE j \in 1..cnt
    <3>1. CASE j = 1
      <4>1. 3 * j - 2 = 1 /\ 3 * j - 1 = 2 /\ 3 * j = 3
        BY <3>1
      <4> QED
        BY ONLY <2>5, <4>1
    <3>2. CASE j = 2
      <4>1. 3 * j - 2 = 4 /\ 3 * j - 1 = 5 /\ 3 * j = 6
        BY <3>2
      <4> QED
        BY ONLY <2>5, <4>1
    <3>3. j = 1 \/ j = 2
      <4>1. j \in 1..2
        BY <2>1
      <4> QED
        BY ONLY <4>1
    <3> QED
      BY ONLY <3>1, <3>2, <3>3
  <2> QED
    BY ONLY <1>3, <2>3, <2>6 DEF cnt, fs
<1>7. len % 3 \in {0, 1, 2}
  OBVIOUS
<1> HIDE DEF cnt, fs
<1> QED
  BY <1>4, <1>5, <1>6, <1>7 DEF cnt, fs

(* A part with its fills: sextets, and then the fills.                     *)
Filled(bin) == Core(bin) \o FillsOf(Len(bin), UrlFill)

LEMMA FilledShape ==
  ASSUME NEW bin \in Seq(Byte)
  PROVE  LET n == SextetsOf(Len(bin))
             cnt == FillCount(Len(bin))
             t == Filled(bin)
         IN  /\ t \in Seq(Character) /\ n \in Nat /\ cnt \in 0..2 /\ Len(t) = n + 3 * cnt
             /\ cnt # 0 => n >= 2
             /\ \A i \in 1..n : t[i] = Core(bin)[i] /\ t[i] \in Sextet
             /\ \A j \in 1..cnt : /\ t[n + 3 * j - 2] = Percent
                                  /\ t[n + 3 * j - 1] = 55 /\ t[n + 3 * j] = 29
<1> DEFINE len == Len(bin)
           n == SextetsOf(len)
           cnt == FillCount(len)
           t == Filled(bin)
<1>1. len \in Nat
  BY LenProperties
<1>2. n \in Nat /\ (len % 3 # 0 => n >= 2)
  <2>1. /\ len \div 3 \in Nat /\ n \in Nat /\ len % 3 \in {0, 1, 2}
        /\ len % 3 = 1 => n = 4 * (len \div 3) + 2
        /\ len % 3 = 2 => n = 4 * (len \div 3) + 3
    BY <1>1, SextetCount
  <2> HIDE DEF n, len
  <2> QED
    BY <2>1
<1>3. PICK c, fs : c = Core(bin) /\ fs = FillsOf(len, UrlFill)
  OBVIOUS
<1>4. /\ c \in Seq(Sextet) /\ c \in Seq(Character) /\ Len(c) = n
  BY <1>3, CoreTyped, Wider
<1>5. /\ fs \in Seq(Character) /\ Len(fs) = 3 * cnt /\ cnt \in 0..2
      /\ \A j \in 1..cnt : fs[3 * j - 2] = Percent /\ fs[3 * j - 1] = 55 /\ fs[3 * j] = 29
  BY <1>1, <1>3, FillsShape
<1>6. t = c \o fs
  BY <1>3 DEF Filled
<1>7. cnt # 0 => len % 3 # 0
  BY DEF FillCount
<1> HIDE DEF t, n, cnt, len
<1>8. /\ t \in Seq(Character) /\ Len(t) = n + 3 * cnt
      /\ \A i \in 1..(n + 3 * cnt) : t[i] = IF i <= n THEN c[i] ELSE fs[i - n]
  <2>1. /\ c \o fs \in Seq(Character)
        /\ Len(c \o fs) = Len(c) + Len(fs)
        /\ \A i \in 1..(Len(c) + Len(fs)) : (c \o fs)[i] =
             IF i <= Len(c) THEN c[i] ELSE fs[i - Len(c)]
    BY <1>4, <1>5, ConcatProperties
  <2>2. Len(c) = n /\ Len(fs) = 3 * cnt
    BY <1>4, <1>5
  <2> QED
    BY ONLY <1>6, <2>1, <2>2
<1>9. \A i \in 1..n : t[i] = c[i] /\ t[i] \in Sextet
  <2> TAKE i \in 1..n
  <2>1. i \in 1..(n + 3 * cnt) /\ i <= n
    BY <1>2, <1>5
  <2>2. t[i] = c[i]
    BY <1>8, <2>1
  <2>3. c[i] \in Sextet
    BY <1>4, ElementOfSeq
  <2> QED
    BY <2>2, <2>3
<1>10. \A j \in 1..cnt : t[n + 3 * j - 2] = Percent /\ t[n + 3 * j - 1] = 55 /\ t[n + 3 * j] = 29
  <2> TAKE j \in 1..cnt
  <2>1. ASSUME NEW d \in 0..2 PROVE t[n + 3 * j - d] = fs[3 * j - d]
    <3>1. n + 3 * j - d \in 1..(n + 3 * cnt) /\ ~(n + 3 * j - d <= n) /\ n + 3 * j - d - n = 3 * j - d
      BY <1>2, <1>5
    <3>2. PICK i : i = n + 3 * j - d
      OBVIOUS
    <3>3. i \in 1..(n + 3 * cnt) /\ ~(i <= n) /\ i - n = 3 * j - d
      BY <1>2, <1>5, <3>1, <3>2
    <3>4. t[i] = fs[i - n]
      BY ONLY <1>8, <3>3
    <3> QED
      BY ONLY <3>2, <3>3, <3>4
  <2>2. t[n + 3 * j - 2] = fs[3 * j - 2] /\ t[n + 3 * j - 1] = fs[3 * j - 1]
    BY <2>1
  <2>3. t[n + 3 * j] = fs[3 * j]
    <3>1. n + 3 * j - 0 = n + 3 * j /\ 3 * j - 0 = 3 * j
      BY <1>2, <1>5
    <3>2. t[n + 3 * j - 0] = fs[3 * j - 0]
      BY <2>1
    <3> QED
      BY ONLY <3>1, <3>2
  <2> QED
    BY <1>5, <2>2, <2>3
<1> QED
  BY <1>2, <1>3, <1>5, <1>7, <1>8, <1>9, <1>10 DEF t, n, cnt, len

LEMMA MinIs ==
  ASSUME NEW S \in SUBSET Int, NEW x \in S, \A y \in S : x <= y
  PROVE  Min(S) = x
<1>1. \E z \in S : \A y \in S : z <= y
  OBVIOUS
<1>2. Min(S) \in S /\ \A y \in S : Min(S) <= y
  BY <1>1, Zenon DEF Min
<1>3. Min(S) <= x /\ x <= Min(S) /\ Min(S) \in Int
  BY <1>2
<1> QED
  BY <1>3

LEMMA MaxIs ==
  ASSUME NEW S \in SUBSET Int, NEW x \in S, \A y \in S : x >= y
  PROVE  Max(S) = x
<1>1. \E z \in S : \A y \in S : z >= y
  OBVIOUS
<1>2. Max(S) \in S /\ \A y \in S : Max(S) >= y
  BY <1>1, Zenon DEF Max
<1>3. Max(S) >= x /\ x >= Max(S) /\ Max(S) \in Int
  BY <1>2
<1> QED
  BY <1>3

LEMMA Beginning ==
  ASSUME NEW S, NEW a \in Seq(S), NEW b \in Seq(S)
  PROVE  SubSeq(a \o b, 1, Len(a)) = a
<1>1. /\ a \o b \in Seq(S) /\ Len(a \o b) = Len(a) + Len(b)
      /\ \A i \in 1..(Len(a) + Len(b)) : (a \o b)[i] = IF i <= Len(a) THEN a[i] ELSE b[i - Len(a)]
  BY ConcatProperties
<1>2. Len(a) \in Nat /\ Len(b) \in Nat
  BY LenProperties
<1>3. PICK t, n : t = a \o b /\ n = Len(a)
  OBVIOUS
<1>4. \A i \in 1..n : t[i] = a[i] /\ t[i] \in S
  <2> TAKE i \in 1..n
  <2>1. i \in 1..(Len(a) + Len(b)) /\ i <= Len(a) /\ i \in 1..Len(a)
    BY <1>2, <1>3
  <2>2. a[i] \in S
    BY <2>1, ElementOfSeq
  <2> QED
    BY <1>1, <1>3, <2>1, <2>2
<1>5. n \in Nat
  BY <1>2, <1>3
<1>6. /\ SubSeq(t, 1, n) \in Seq(S)
      /\ Len(SubSeq(t, 1, n)) = IF 1 <= n THEN n - 1 + 1 ELSE 0
      /\ \A i \in 1..(n - 1 + 1) : SubSeq(t, 1, n)[i] = t[1 + i - 1]
  BY <1>4, <1>5, SubSeqProperties
<1>7. n - 1 + 1 = n /\ (~(1 <= n) => n = 0) /\ \A i \in 1..n : 1 + i - 1 = i
  BY <1>5
<1>8. Len(SubSeq(t, 1, n)) = n /\ \A i \in 1..n : SubSeq(t, 1, n)[i] = a[i]
  BY <1>4, <1>6, <1>7
<1>9. SubSeq(t, 1, n) = a
  BY <1>3, <1>6, <1>8, SeqEqual
<1> QED
  BY <1>3, <1>9

LEMMA PercentOut == \A x \in Sextet : x # Percent
BY DEF Sextet, Percent

(* The parts of a token are filled texts without their fills.              *)
LEMMA TrimIs ==
  ASSUME NEW bin \in Seq(Byte)
  PROVE  trim(Filled(bin), UrlFill) = Core(bin)
<1> DEFINE n == SextetsOf(Len(bin))
           cnt == FillCount(Len(bin))
           t == Filled(bin)
           at == {i \in 1..(Len(t) - 3 + 1) : SubSeq(t, i, i + 3 - 1) = UrlFill}
<1>1. /\ t \in Seq(Character) /\ n \in Nat /\ cnt \in 0..2 /\ Len(t) = n + 3 * cnt
      /\ \A i \in 1..n : t[i] = Core(bin)[i] /\ t[i] \in Sextet
      /\ \A j \in 1..cnt : /\ t[n + 3 * j - 2] = Percent
                           /\ t[n + 3 * j - 1] = 55 /\ t[n + 3 * j] = 29
  BY FilledShape
<1>2. Core(bin) \in Seq(Character) /\ Len(Core(bin)) = n
  BY CoreTyped, Wider
<1>3. FillsOf(Len(bin), UrlFill) \in Seq(Character)
  <2>1. Len(bin) \in Nat
    BY LenProperties
  <2> QED
    BY <2>1, FillsShape
<1>4. SubSeq(t, 1, n) = Core(bin)
  BY <1>2, <1>3, Beginning DEF Filled
<1>5. Len(UrlFill) = 3
  BY DEF UrlFill
<1>6. trim(t, UrlFill) = IF at = {} THEN t ELSE SubSeq(t, 1, Min(at) - 1)
  <2> HIDE DEF t
  <2> QED
    BY <1>5 DEF trim
<1>7. cnt = 0 => t = Core(bin)
  <2> SUFFICES ASSUME cnt = 0 PROVE t = Core(bin)
    OBVIOUS
  <2>1. Len(bin) % 3 = 0
    <3>1. Len(bin) \in Nat
      BY LenProperties
    <3> QED
      BY <3>1 DEF FillCount
  <2>2. FillsOf(Len(bin), UrlFill) = << >>
    BY <2>1 DEF FillsOf
  <2> QED
    BY <1>2, <2>2, ConcatEmptySeq DEF Filled
<1> HIDE DEF t, n, cnt
<1>11. \A i \in 1..n : t[i] # Percent
  BY ONLY <1>1, PercentOut
<1>8. ASSUME NEW i \in at PROVE i > n /\ i \in Int /\ i + 2 <= Len(t)
  <2>1. i \in Int /\ 1 <= i /\ i + 2 <= Len(t) /\ i + 3 - 1 = i + 2
    BY <1>1
  <2>2. t[i] = Percent
    BY <1>1, <2>1, FillAt
  <2>3. i \notin 1..n
    BY <1>11, <2>2
  <2> QED
    BY <1>1, <2>1, <2>3
<1>9. CASE cnt = 0
  <2>1. at = {}
    <3> SUFFICES ASSUME NEW i \in at PROVE FALSE
      OBVIOUS
    <3>1. i > n /\ i \in Int /\ i + 2 <= Len(t)
      BY <1>8
    <3>2. Len(t) = n /\ n \in Nat
      BY <1>1, <1>9
    <3> QED
      BY ONLY <3>1, <3>2
  <2> QED
    BY <1>6, <1>7, <1>9, <2>1 DEF t
<1>10. CASE cnt # 0
  <2>1. 1 \in 1..cnt /\ n + 3 <= Len(t) /\ n + 1 \in Int
    BY <1>1, <1>10
  <2>2. t[n + 1] = Percent /\ t[n + 1 + 1] = 55 /\ t[n + 1 + 2] = 29
    <3>1. /\ t[n + 3 * 1 - 2] = Percent
          /\ t[n + 3 * 1 - 1] = 55 /\ t[n + 3 * 1] = 29
      BY <1>1, <2>1
    <3>2. n + 3 * 1 - 2 = n + 1 /\ n + 3 * 1 - 1 = n + 1 + 1 /\ n + 3 * 1 = n + 1 + 2
      BY <1>1
    <3> QED
      BY ONLY <3>1, <3>2
  <2>3. SubSeq(t, n + 1, n + 1 + 2) = UrlFill
    <3>1. 1 <= n + 1 /\ n + 1 + 2 <= Len(t)
      BY <1>1, <2>1
    <3> QED
      BY <1>1, <2>1, <2>2, <3>1, FillAt
  <2>4. n + 1 \in at
    <3>1. n + 1 \in 1..(Len(t) - 3 + 1) /\ n + 1 + 3 - 1 = n + 1 + 2
      BY <1>1, <2>1
    <3> QED
      BY <2>3, <3>1
  <2>5. \A i \in at : n + 1 <= i
    BY <1>1, <1>8
  <2>6. at \subseteq Int
    BY <1>8
  <2> HIDE DEF at
  <2>7. Min(at) = n + 1
    BY <2>4, <2>5, <2>6, MinIs
  <2>8. n + 1 - 1 = n
    BY <1>1
  <2>9. trim(t, UrlFill) = SubSeq(t, 1, Min(at) - 1)
    BY ONLY <1>6, <2>4
  <2>10. Min(at) - 1 = n
    BY <1>1, <2>7
  <2>11. trim(t, UrlFill) = Core(bin)
    BY ONLY <1>4, <2>9, <2>10
  <2> QED
    BY ONLY <2>11 DEF t
<1> QED
  BY <1>9, <1>10

(* pad puts the fills back that trim took.                                 *)
LEMMA PadIs ==
  ASSUME NEW bin \in Seq(Byte)
  PROVE  pad(Core(bin), UrlFill) = Filled(bin)
<1> DEFINE len == Len(bin)
           n == SextetsOf(len)
           m == len \div 3
<1>1. /\ len \in Nat /\ m \in Nat /\ len % 3 \in {0, 1, 2}
      /\ len % 3 = 0 => n = 4 * m
      /\ len % 3 = 1 => n = 4 * m + 2
      /\ len % 3 = 2 => n = 4 * m + 3
  <2>1. len \in Nat
    BY LenProperties
  <2> QED
    BY <2>1, SextetCount
<1>2. Len(Core(bin)) = n
  BY CoreTyped
<1>3. PICK c, f : c = Core(bin) /\ f = UrlFill
  OBVIOUS
<1> DEFINE fills == CASE n % 4 = 0 -> << >>
                      [] n % 4 = 1 -> f \o f \o f
                      [] n % 4 = 2 -> f \o f
                      [] n % 4 = 3 -> f
<1>4. pad(c, f) = c \o fills
  BY <1>2, <1>3, Zenon DEF pad
<1>5. Filled(bin) = c \o FillsOf(len, f)
  BY <1>3 DEF Filled
<1> HIDE DEF n, m, len
<1>6. CASE len % 3 = 0
  <2>1. n % 4 = 0
    BY <1>1, <1>6
  <2>2. FillsOf(len, f) = << >>
    BY <1>6 DEF FillsOf
  <2>3. fills = << >>
    BY ONLY <2>1
  <2> HIDE DEF fills
  <2> QED
    BY ONLY <1>3, <1>4, <1>5, <2>2, <2>3
<1>7. CASE len % 3 = 1
  <2>1. n % 4 = 2
    BY <1>1, <1>7
  <2>2. FillsOf(len, f) = f \o f
    BY <1>7 DEF FillsOf
  <2>3. fills = f \o f
    BY ONLY <2>1
  <2> HIDE DEF fills
  <2> QED
    BY ONLY <1>3, <1>4, <1>5, <2>2, <2>3
<1>8. CASE len % 3 = 2
  <2>1. n % 4 = 3
    BY <1>1, <1>8
  <2>2. FillsOf(len, f) = f
    BY <1>8 DEF FillsOf
  <2>3. fills = f
    BY ONLY <2>1
  <2> HIDE DEF fills
  <2> QED
    BY ONLY <1>3, <1>4, <1>5, <2>2, <2>3
<1> QED
  BY <1>1, <1>6, <1>7, <1>8

(* decode finds the fills that encode wrote.                               *)
LEMMA FillCntIs ==
  ASSUME NEW bin \in Seq(Byte)
  PROVE  fill_cnt(Filled(bin), UrlFill) = FillCount(Len(bin))
<1> DEFINE n == SextetsOf(Len(bin))
           cnt == FillCount(Len(bin))
           t == Filled(bin)
           isFill(j) == /\ Len(t) - (j - 1) * 3 > 3
                        /\ SubSeq(t, Len(t) - j * 3 + 1, Len(t) - (j - 1) * 3) = UrlFill
           K == {k \in 0..3 : \A j \in 1..k : isFill(j)}
<1>1. /\ t \in Seq(Character) /\ n \in Nat /\ cnt \in 0..2 /\ Len(t) = n + 3 * cnt
      /\ cnt # 0 => n >= 2
      /\ \A i \in 1..n : t[i] = Core(bin)[i] /\ t[i] \in Sextet
      /\ \A j \in 1..cnt : /\ t[n + 3 * j - 2] = Percent
                           /\ t[n + 3 * j - 1] = 55 /\ t[n + 3 * j] = 29
  BY FilledShape
<1>2. fill_cnt(t, UrlFill) = Max(K)
  <2>1. Len(UrlFill) = 3
    BY DEF UrlFill
  <2> HIDE DEF t
  <2> QED
    BY <2>1, Zenon DEF fill_cnt
<1> HIDE DEF t, n, cnt
<1>3. ASSUME NEW j \in 1..cnt PROVE isFill(j)
  <2> DEFINE i == n + 3 * (cnt + 1 - j) - 2
  <2>1. /\ i \in Int /\ 1 <= i /\ i + 2 <= Len(t)
        /\ Len(t) - j * 3 + 1 = i /\ Len(t) - (j - 1) * 3 = i + 2
        /\ Len(t) - (j - 1) * 3 > 3
    BY <1>1
  <2>2. PICK l \in 1..cnt : l = cnt + 1 - j
    BY <1>1
  <2>3. n + 3 * l - 2 = i /\ n + 3 * l - 1 = i + 1 /\ n + 3 * l = i + 2
    BY <1>1, <2>2
  <2>4. t[n + 3 * l - 2] = Percent /\ t[n + 3 * l - 1] = 55 /\ t[n + 3 * l] = 29
    BY <1>1
  <2> HIDE DEF i
  <2>5. t[i] = Percent /\ t[i + 1] = 55 /\ t[i + 2] = 29
    BY ONLY <2>3, <2>4
  <2>6. SubSeq(t, i, i + 2) = UrlFill
    BY <1>1, <2>1, <2>5, FillAt
  <2> QED
    BY ONLY <2>1, <2>6
<1>4. ASSUME NEW l, l = cnt + 1, isFill(l) PROVE FALSE
  <2>1. Len(t) - (l - 1) * 3 > 3
    BY <1>4
  <2>2. SubSeq(t, Len(t) - l * 3 + 1, Len(t) - (l - 1) * 3) = UrlFill
    BY <1>4
  <2>3. Len(t) - l * 3 + 1 = n - 2 /\ Len(t) - (l - 1) * 3 = n
    BY <1>1, <1>4
  <2>4. PICK i : i = n - 2
    OBVIOUS
  <2>5. n > 3 /\ i \in Int /\ 1 <= i /\ i + 2 <= Len(t) /\ i \in 1..n /\ i + 2 = n
    BY <1>1, <2>1, <2>3, <2>4
  <2>6. SubSeq(t, i, i + 2) = UrlFill
    BY ONLY <2>2, <2>3, <2>4, <2>5
  <2>7. t[i] = Percent
    BY <1>1, <2>5, <2>6, FillAt
  <2> QED
    BY ONLY <1>1, <2>5, <2>7, PercentOut
<1>5. cnt \in K
  <2>1. cnt \in 0..3
    BY <1>1
  <2> HIDE DEF isFill
  <2> QED
    BY <1>3, <2>1
<1>6. ASSUME NEW k \in K PROVE cnt >= k
  <2>1. k \in 0..3 /\ \A j \in 1..k : isFill(j)
    <3> HIDE DEF isFill
    <3> QED
      OBVIOUS
  <2>2. cnt + 1 \notin 1..k
    <3> SUFFICES ASSUME cnt + 1 \in 1..k PROVE FALSE
      OBVIOUS
    <3>1. PICK l \in 1..k : l = cnt + 1
      OBVIOUS
    <3> HIDE DEF isFill
    <3>2. isFill(l)
      BY <2>1
    <3> QED
      BY <1>4, <3>1, <3>2
  <2> QED
    BY <1>1, <2>1, <2>2
<1>7. K \subseteq Int
  <2> HIDE DEF isFill
  <2> QED
    OBVIOUS
<1> HIDE DEF K
<1>8. Max(K) = cnt
  BY <1>5, <1>6, <1>7, MaxIs
<1> QED
  BY <1>2, <1>8 DEF t, cnt

(* A filled text is one that decode takes, and gives the octets back.      *)
LEMMA FilledBack ==
  ASSUME NEW bin \in Seq(Byte)
  PROVE  Decodable(Filled(bin), UrlFill) /\ decode(Filled(bin), UrlFill) = bin
<1> DEFINE len == Len(bin)
           m == len \div 3
           n == SextetsOf(len)
           cnt == FillCount(len)
           t == Filled(bin)
<1>1. /\ len \in Nat /\ m \in Nat /\ len = 3 * m + (len % 3) /\ len % 3 \in {0, 1, 2}
      /\ len % 3 = 0 => n = 4 * m /\ cnt = 0
      /\ len % 3 = 1 => n = 4 * m + 2 /\ cnt = 2
      /\ len % 3 = 2 => n = 4 * m + 3 /\ cnt = 1
  <2>1. len \in Nat
    BY LenProperties
  <2>2. /\ m \in Nat /\ len = 3 * m + (len % 3) /\ len % 3 \in {0, 1, 2}
        /\ len % 3 = 0 => n = 4 * m
        /\ len % 3 = 1 => n = 4 * m + 2
        /\ len % 3 = 2 => n = 4 * m + 3
    BY <2>1, SextetCount
  <2>3. cnt = IF len % 3 = 0 THEN 0 ELSE 3 - (len % 3)
    BY DEF FillCount
  <2> HIDE DEF len, m, n, cnt
  <2> QED
    BY <2>1, <2>2, <2>3
<1>2. /\ t \in Seq(Character) /\ n \in Nat /\ cnt \in 0..2 /\ Len(t) = n + 3 * cnt
      /\ \A i \in 1..n : t[i] = Core(bin)[i] /\ t[i] \in Sextet
  BY FilledShape
<1>3. fill_cnt(t, UrlFill) = cnt
  BY FillCntIs
<1>4. Len(UrlFill) = 3
  BY DEF UrlFill
<1>5. \A k \in Nat : 3 * k < len =>
        \A at : (\A j \in Nat : at[j] = IF j < n THEN Core(bin)[j + 1] ELSE 0) =>
          Bytes(at[4 * k], at[4 * k + 1], at[4 * k + 2], at[4 * k + 3]) = Triple(bin, k)
  BY GroupBack
<1>6. \A j \in 0..3 : len = 3 * m + j =>
        \A g : g = [k \in 1..m |-> Triple(bin, k - 1)] =>
        \A u : u = (IF j = 0 THEN << >> ELSE SubSeq(Triple(bin, m), 1, j)) =>
          bin = FlattenSeq(g) \o u
  BY <1>1, Regrouped
<1> DEFINE size == Len(t) - fill_cnt(t, UrlFill) * Len(UrlFill)
           sextet(i) == IF i < size THEN t[i + 1] ELSE 0
           group(k) == Bytes(sextet(4 * k), sextet(4 * k + 1), sextet(4 * k + 2), sextet(4 * k + 3))
           groups == size \div 4
           g == [k \in 1..groups |-> group(k - 1)]
           u == IF fill_cnt(t, UrlFill) = 0 THEN << >> ELSE SubSeq(group(groups), 1, 3 - fill_cnt(t, UrlFill))
<1>7. decode(t, UrlFill) = FlattenSeq(g) \o u
  <2> HIDE DEF t
  <2> QED
    BY Zenon DEF decode
<1> HIDE DEF len, m, n, cnt, t
<1>8. size = n
  <2>1. size = Len(t) - cnt * 3
    BY <1>3, <1>4
  <2> HIDE DEF size
  <2> QED
    BY <1>2, <2>1
<1>9. groups = m
  <2> HIDE DEF size
  <2> QED
    BY <1>1, <1>8
<1>10. ASSUME NEW k \in Nat, 3 * k < len PROVE group(k) = Triple(bin, k)
  <2> DEFINE at == [j \in Nat |-> sextet(j)]
  <2>1. \A j \in Nat : at[j] = IF j < n THEN Core(bin)[j + 1] ELSE 0
    <3> TAKE j \in Nat
    <3>1. sextet(j) = IF j < n THEN t[j + 1] ELSE 0
      BY <1>8
    <3>2. j < n => t[j + 1] = Core(bin)[j + 1]
      BY <1>2
    <3>3. at[j] = sextet(j)
      OBVIOUS
    <3> HIDE DEF sextet, at
    <3> QED
      BY ONLY <3>1, <3>2, <3>3
  <2>2. group(k) = Bytes(at[4 * k], at[4 * k + 1], at[4 * k + 2], at[4 * k + 3])
    <3>1. 4 * k \in Nat /\ 4 * k + 1 \in Nat /\ 4 * k + 2 \in Nat /\ 4 * k + 3 \in Nat
      OBVIOUS
    <3>2. /\ at[4 * k] = sextet(4 * k) /\ at[4 * k + 1] = sextet(4 * k + 1)
          /\ at[4 * k + 2] = sextet(4 * k + 2) /\ at[4 * k + 3] = sextet(4 * k + 3)
      <4> HIDE DEF sextet
      <4> QED
        BY <3>1
    <3> HIDE DEF sextet, at
    <3> QED
      BY ONLY <3>2
  <2> HIDE DEF at, group
  <2> QED
    BY <1>5, <1>10, <2>1, <2>2
<1> HIDE DEF group, size
<1>11. g = [k \in 1..m |-> Triple(bin, k - 1)]
  <2>1. ASSUME NEW k \in 1..m PROVE group(k - 1) = Triple(bin, k - 1)
    <3>1. k - 1 \in Nat /\ 3 * (k - 1) < len
      BY <1>1
    <3> QED
      BY <1>10, <3>1
  <2> HIDE DEF groups
  <2> QED
    BY <1>9, <2>1
<1>12. PICK j \in 0..3 : j = len % 3
  BY <1>1
<1>13. u = IF j = 0 THEN << >> ELSE SubSeq(Triple(bin, m), 1, j)
  <2> HIDE DEF groups
  <2>1. CASE j = 0
    <3>1. fill_cnt(t, UrlFill) = 0
      BY <1>1, <1>3, <1>12, <2>1
    <3> QED
      BY <2>1, <3>1
  <2>2. CASE j # 0
    <3>1. fill_cnt(t, UrlFill) # 0 /\ 3 - fill_cnt(t, UrlFill) = j
      BY <1>1, <1>3, <1>12, <2>2
    <3>2. group(groups) = Triple(bin, m)
      <4>1. 3 * m < len /\ m \in Nat
        BY <1>1, <1>12, <2>2
      <4> QED
        BY <1>9, <1>10, <4>1
    <3> QED
      BY <2>2, <3>1, <3>2
  <2> QED
    BY <2>1, <2>2
<1>14. decode(t, UrlFill) = bin
  <2>1. len = 3 * m + j
    BY <1>1, <1>12
  <2> HIDE DEF g, u
  <2> QED
    BY <1>6, <1>7, <1>11, <1>12, <1>13, <2>1
<1>15. Decodable(t, UrlFill)
  <2>1. fill_cnt(t, UrlFill) <= 2
    BY <1>2, <1>3
  <2>2. (size + fill_cnt(t, UrlFill)) % 4 = 0
    <3>1. (n + cnt) % 4 = 0
      BY <1>1
    <3> QED
      BY <1>3, <1>8, <3>1
  <2>3. \A i \in 1..size : t[i] \in Sextet
    BY <1>2, <1>8
  <2> QED
    BY <2>1, <2>2, <2>3 DEF Decodable, size
<1> QED
  BY <1>14, <1>15 DEF t

(* For octets of any number and value: decode takes what encode wrote, and *)
(* gives the octets back; without the fills it is the sextets alone, which *)
(* is what a part of a token is.                                           *)
THEOREM EncodeBack ==
  ASSUME NEW bin \in Seq(Byte)
  PROVE  LET coded == encode(bin, UrlFill)
         IN  /\ Decodable(coded, UrlFill) /\ decode(coded, UrlFill) = bin
             /\ trim(coded, UrlFill) = Core(bin)
<1>1. UrlFill \in Seq(Character)
  BY DEF UrlFill, Percent, Character
<1>2. encode(bin, UrlFill) = Filled(bin)
  BY <1>1, EncodeIs DEF Filled
<1> QED
  BY <1>2, FilledBack, TrimIs

-----------------------------------------------------------------------------
(* The codec of the frame service.                                         *)

(* The text of base64.c: sextets, fills and a Nul.                         *)
LEMMA Base64encodeShape ==
  ASSUME NEW bin \in Seq(Byte)
  PROVE  LET n == SextetsOf(Len(bin))
             t == Base64encode(bin)
         IN  /\ t \in Seq(Character) /\ n \in Nat
             /\ Len(t) = Base64encode_len(Len(bin)) /\ n + 1 <= Len(t)
             /\ \A i \in 1..n : t[i] = Core(bin)[i] /\ t[i] \in Sextet
             /\ t[n + 1] \notin Sextet
             /\ encode(bin, Fill) = Front(t)
<1> DEFINE len == Len(bin)
           n == SextetsOf(len)
           t == Base64encode(bin)
<1>1. /\ len \in Nat /\ len % 3 \in {0, 1, 2} /\ n \in Nat
      /\ Base64encode_len(len) = n + FillCount(len) + 1
  <2>1. len \in Nat
    BY LenProperties
  <2> DEFINE m == len \div 3
  <2>2. /\ m \in Nat /\ len = 3 * m + (len % 3) /\ len % 3 \in {0, 1, 2} /\ n \in Nat
        /\ len % 3 = 0 => n = 4 * m
        /\ len % 3 = 1 => n = 4 * m + 2
        /\ len % 3 = 2 => n = 4 * m + 3
    BY <2>1, SextetCount
  <2>3. FillCount(len) = IF len % 3 = 0 THEN 0 ELSE 3 - (len % 3)
    BY DEF FillCount
  <2>4. Base64encode_len(len) = ((len + 2) \div 3) * 4 + 1
    BY DEF Base64encode_len
  <2> HIDE DEF n, len, m
  <2>5. CASE len % 3 = 0
    <3>1. (len + 2) \div 3 = m
      BY <2>1, <2>2, <2>5
    <3> QED
      BY <2>1, <2>2, <2>3, <2>4, <2>5, <3>1
  <2>6. CASE len % 3 = 1
    <3>1. (len + 2) \div 3 = m + 1
      BY <2>1, <2>2, <2>6
    <3> QED
      BY <2>1, <2>2, <2>3, <2>4, <2>6, <3>1
  <2>7. CASE len % 3 = 2
    <3>1. (len + 2) \div 3 = m + 1
      BY <2>1, <2>2, <2>7
    <3> QED
      BY <2>1, <2>2, <2>3, <2>4, <2>7, <3>1
  <2> QED
    BY <2>2, <2>5, <2>6, <2>7
<1>2. PICK c, fs, nul : c = Core(bin) /\ fs = FillsOf(len, Fill) /\ nul = <<Nul>>
  OBVIOUS
<1>3. c \in Seq(Character) /\ Len(c) = n /\ \A i \in 1..n : c[i] \in Sextet
  <2>1. c \in Seq(Sextet) /\ Len(c) = n
    BY <1>2, CoreTyped
  <2> QED
    BY <2>1, Wider, ElementOfSeq
<1>4. /\ fs \in Seq(Character) /\ Len(fs) = FillCount(len)
      /\ Len(fs) \in Nat /\ (Len(fs) # 0 => fs[1] = Equals)
  <2>1. Fill \in Seq(Character) /\ Len(Fill) = 1 /\ Fill[1] = Equals
    BY DEF Fill, Equals, Character
  <2>2. fs \in Seq(Character)
    BY <1>1, <1>2, <2>1, FillsTyped
  <2> HIDE DEF len, n
  <2>3. CASE len % 3 = 0
    <3>1. fs = << >> /\ FillCount(len) = 0
      BY <1>2, <2>3 DEF FillsOf, FillCount
    <3> QED
      BY <2>2, <3>1, EmptySeq
  <2>4. CASE len % 3 = 1
    <3>1. fs = <<Equals>> \o <<Equals>> /\ FillCount(len) = 2
      BY <1>2, <2>4 DEF FillsOf, FillCount, Fill
    <3>2. fs = <<Equals, Equals>>
      BY <3>1, TwoOf
    <3> QED
      BY <2>2, <3>1, <3>2
  <2>5. CASE len % 3 = 2
    <3>1. fs = <<Equals>> /\ FillCount(len) = 1
      BY <1>2, <2>5 DEF FillsOf, FillCount, Fill
    <3> QED
      BY <2>2, <3>1
  <2> QED
    BY <1>1, <2>3, <2>4, <2>5
<1>5. nul \in Seq(Character) /\ Len(nul) = 1 /\ nul[1] = Nul
  BY <1>2 DEF Nul, Character
<1>6. t = (c \o fs) \o nul
  BY <1>2, Base64encodeIs
<1>7. PICK b : b = c \o fs
  OBVIOUS
<1> HIDE DEF t, n, len
<1>8. /\ b \in Seq(Character) /\ Len(b) = n + Len(fs)
      /\ \A i \in 1..(n + Len(fs)) : b[i] = IF i <= n THEN c[i] ELSE fs[i - n]
  BY <1>3, <1>4, <1>7, ConcatProperties
<1>9. /\ t \in Seq(Character) /\ Len(t) = n + Len(fs) + 1
      /\ \A i \in 1..(n + Len(fs) + 1) :
           t[i] = IF i <= n + Len(fs) THEN b[i] ELSE nul[i - (n + Len(fs))]
  <2>1. /\ b \o nul \in Seq(Character) /\ Len(b \o nul) = Len(b) + Len(nul)
        /\ \A i \in 1..(Len(b) + Len(nul)) :
              (b \o nul)[i] = IF i <= Len(b) THEN b[i] ELSE nul[i - Len(b)]
    BY <1>5, <1>8, ConcatProperties
  <2>2. t = b \o nul
    BY <1>6, <1>7
  <2> QED
    BY ONLY <1>5, <1>8, <2>1, <2>2
<1>10. ASSUME NEW i \in 1..n PROVE t[i] = c[i] /\ t[i] \in Sextet
  <2>1. /\ i \in 1..(n + Len(fs)) /\ i <= n + Len(fs) /\ i <= n
        /\ i \in 1..(n + Len(fs) + 1)
    BY <1>1, <1>4
  <2>2. t[i] = b[i]
    BY ONLY <1>9, <2>1
  <2>3. b[i] = c[i]
    BY ONLY <1>8, <2>1
  <2> QED
    BY <1>3, <2>2, <2>3
<1>11. t[n + 1] \notin Sextet
  <2>1. Equals \notin Sextet /\ Nul \notin Sextet
    BY DEF Sextet, Equals, Nul
  <2>2. PICK i : i = n + 1
    OBVIOUS
  <2>3. CASE Len(fs) = 0
    <3>1. i \in 1..(n + Len(fs) + 1) /\ ~(i <= n + Len(fs)) /\ i - (n + Len(fs)) = 1
      BY <1>1, <2>2, <2>3
    <3>2. t[i] = Nul
      BY ONLY <1>5, <1>9, <3>1
    <3> QED
      BY <2>1, <2>2, <3>2
  <2>4. CASE Len(fs) # 0
    <3>1. /\ i \in 1..(n + Len(fs) + 1) /\ i <= n + Len(fs) /\ i - n = 1
          /\ i \in 1..(n + Len(fs)) /\ ~(i <= n)
      BY <1>1, <1>4, <2>2, <2>4
    <3>2. t[i] = b[i]
      BY ONLY <1>9, <3>1
    <3>3. b[i] = fs[1]
      BY ONLY <1>8, <3>1
    <3>4. t[i] = Equals
      BY ONLY <1>4, <2>4, <3>2, <3>3
    <3> QED
      BY <2>1, <2>2, <3>4
  <2> QED
    BY <2>3, <2>4
<1>12. encode(bin, Fill) = Front(t)
  <2>1. Fill \in Seq(Character)
    BY DEF Fill, Equals, Character
  <2>2. encode(bin, Fill) = b
    BY <1>2, <1>7, <2>1, EncodeIs DEF len
  <2>3. SubSeq(b \o nul, 1, Len(b)) = b
    BY <1>5, <1>8, Beginning
  <2>4. Len(t) - 1 = Len(b)
    BY <1>1, <1>4, <1>8, <1>9
  <2>5. t = b \o nul
    BY <1>6, <1>7
  <2>6. Front(t) = SubSeq(t, 1, Len(t) - 1)
    BY DEF Front
  <2> QED
    BY ONLY <2>2, <2>3, <2>4, <2>5, <2>6
<1>13. Len(t) = Base64encode_len(len) /\ n + 1 <= Len(t)
  BY <1>1, <1>4, <1>9
<1> QED
  BY <1>1, <1>2, <1>9, <1>10, <1>11, <1>12, <1>13 DEF t, n, len

(* For bytes of any number and value: Base64decode gives back what         *)
(* Base64encode was given, as many bytes, and the buffer that              *)
(* Base64decode_len asks for has room for them and a Nul.                  *)
THEOREM Base64Back ==
  ASSUME NEW bin \in Seq(Byte)
  PROVE  LET t == Base64encode(bin)
         IN  /\ Base64decode(t) = [plain |-> bin, length |-> Len(bin)]
             /\ Len(bin) + 1 <= Base64decode_len(t)
<1> DEFINE len == Len(bin)
           m == len \div 3
           n == SextetsOf(len)
           t == Base64encode(bin)
<1>1. /\ len \in Nat /\ m \in Nat /\ len = 3 * m + (len % 3) /\ len % 3 \in {0, 1, 2}
      /\ len % 3 = 0 => n = 4 * m
      /\ len % 3 = 1 => n = 4 * m + 2
      /\ len % 3 = 2 => n = 4 * m + 3
  <2>1. len \in Nat
    BY LenProperties
  <2> QED
    BY <2>1, SextetCount
<1>2. /\ t \in Seq(Character) /\ n \in Nat /\ n + 1 <= Len(t)
      /\ \A i \in 1..n : t[i] = Core(bin)[i] /\ t[i] \in Sextet
      /\ t[n + 1] \notin Sextet
  BY Base64encodeShape
<1>3. /\ DecodedLength(n) = len
      /\ len + 1 <= DecodeRoom(n)
  BY <1>1, LengthKept
<1>4. \A k \in Nat : 3 * k < len =>
        \A at : (\A j \in Nat : at[j] = IF j < n THEN Core(bin)[j + 1] ELSE 0) =>
          Bytes(at[4 * k], at[4 * k + 1], at[4 * k + 2], at[4 * k + 3]) = Triple(bin, k)
  BY GroupBack
<1>5. \A p \in Nat, j \in 0..3 : len = 3 * p + j =>
        \A g : g = [k \in 1..p |-> Triple(bin, k - 1)] =>
        \A u : u = (IF j = 0 THEN << >> ELSE SubSeq(Triple(bin, p), 1, j)) =>
          bin = FlattenSeq(g) \o u
  BY Regrouped
<1>6. nprbytes(t) = n
  <2> DEFINE S == {i \in DOMAIN t : t[i] \notin Sextet}
  <2>1. DOMAIN t = 1..Len(t) /\ Len(t) \in Nat
    BY LenProperties
  <2> HIDE DEF t, n
  <2>2. S \in SUBSET Int
    BY <2>1
  <2>3. n + 1 \in S
    BY <1>2, <2>1
  <2>4. ASSUME NEW y \in S PROVE n + 1 <= y
    <3>1. y \in Int /\ 1 <= y /\ y \notin 1..n
      BY <1>2, <2>1
    <3> QED
      BY <1>2, <3>1
  <2>5. nprbytes(t) = Min(S) - 1
    BY DEF nprbytes
  <2> HIDE DEF S
  <2>6. Min(S) = n + 1
    BY <2>2, <2>3, <2>4, MinIs
  <2> QED
    BY <1>2, <2>5, <2>6
<1> DEFINE np == nprbytes(t)
           loops == DecodeGroups(np)
           left == np - 4 * loops
           in(i) == IF i < np THEN t[i + 1] ELSE 0
           group(k) == Bytes(in(4 * k), in(4 * k + 1), in(4 * k + 2), in(4 * k + 3))
           g == [k \in 1..loops |-> group(k - 1)]
           rest == IF left > 1 THEN SubSeq(group(loops), 1, left - 1) ELSE << >>
<1>7. Base64decode(t) = [plain |-> FlattenSeq(g) \o rest, length |-> DecodedLength(np)]
  <2> HIDE DEF t
  <2> QED
    BY Zenon DEF Base64decode
<1> HIDE DEF len, m, n, t
<1>8. np = n
  BY <1>6
<1> HIDE DEF np
<1>9. PICK j \in 0..3 : /\ loops \in Nat /\ len = 3 * loops + j
                        /\ IF j = 0 THEN left <= 1 ELSE left > 1 /\ left - 1 = j
  <2>1. loops = IF n > 4 THEN (n - 1) \div 4 ELSE 0
    BY <1>8 DEF DecodeGroups
  <2>2. left = n - 4 * loops
    BY <1>8
  <2> HIDE DEF loops, left
  <2>3. CASE len % 3 = 0
    <3>1. CASE m = 0
      <4>1. loops = 0 /\ left = 0 /\ len = 0
        BY <1>1, <2>1, <2>2, <2>3, <3>1
      <4> QED
        BY <4>1
    <3>2. CASE m # 0
      <4>1. loops = m - 1
        <5>1. CASE m = 1
          BY <1>1, <2>1, <2>3, <5>1
        <5>2. CASE m > 1
          <6>1. n > 4 /\ (n - 1) \div 4 = m - 1
            BY <1>1, <2>3, <5>2
          <6> QED
            BY <2>1, <6>1
        <5> QED
          BY <1>1, <3>2, <5>1, <5>2
      <4>2. left = 4 /\ len = 3 * loops + 3 /\ loops \in Nat
        BY <1>1, <2>2, <2>3, <3>2, <4>1
      <4> QED
        BY <4>2
    <3> QED
      BY <3>1, <3>2
  <2>4. CASE len % 3 = 1
    <3>1. loops = m
      BY <1>1, <2>1, <2>4
    <3>2. left = 2 /\ len = 3 * loops + 1 /\ loops \in Nat
      BY <1>1, <2>2, <2>4, <3>1
    <3> QED
      BY <3>2
  <2>5. CASE len % 3 = 2
    <3>1. loops = m
      BY <1>1, <2>1, <2>5
    <3>2. left = 3 /\ len = 3 * loops + 2 /\ loops \in Nat
      BY <1>1, <2>2, <2>5, <3>1
    <3> QED
      BY <3>2
  <2> QED
    BY <1>1, <2>3, <2>4, <2>5
<1> HIDE DEF loops, left
<1>10. ASSUME NEW k \in Nat, 3 * k < len PROVE group(k) = Triple(bin, k)
  <2> DEFINE at == [i \in Nat |-> in(i)]
  <2>1. \A i \in Nat : at[i] = IF i < n THEN Core(bin)[i + 1] ELSE 0
    <3> TAKE i \in Nat
    <3>1. in(i) = IF i < n THEN t[i + 1] ELSE 0
      BY <1>8
    <3>2. i < n => t[i + 1] = Core(bin)[i + 1]
      BY <1>2
    <3>3. at[i] = in(i)
      OBVIOUS
    <3> HIDE DEF in, at
    <3> QED
      BY ONLY <3>1, <3>2, <3>3
  <2>2. group(k) = Bytes(at[4 * k], at[4 * k + 1], at[4 * k + 2], at[4 * k + 3])
    <3>1. 4 * k \in Nat /\ 4 * k + 1 \in Nat /\ 4 * k + 2 \in Nat /\ 4 * k + 3 \in Nat
      OBVIOUS
    <3>2. /\ at[4 * k] = in(4 * k) /\ at[4 * k + 1] = in(4 * k + 1)
          /\ at[4 * k + 2] = in(4 * k + 2) /\ at[4 * k + 3] = in(4 * k + 3)
      <4> HIDE DEF in
      <4> QED
        BY <3>1
    <3> HIDE DEF in, at
    <3> QED
      BY ONLY <3>2
  <2> HIDE DEF at, group
  <2> QED
    BY <1>4, <1>10, <2>1, <2>2
<1> HIDE DEF group
<1>11. g = [k \in 1..loops |-> Triple(bin, k - 1)]
  <2>1. ASSUME NEW k \in 1..loops PROVE group(k - 1) = Triple(bin, k - 1)
    <3>1. k - 1 \in Nat /\ 3 * (k - 1) < len
      BY <1>9
    <3> QED
      BY <1>10, <3>1
  <2> QED
    BY <2>1
<1>12. rest = IF j = 0 THEN << >> ELSE SubSeq(Triple(bin, loops), 1, j)
  <2>1. CASE j = 0
    <3>1. ~(left > 1)
      <4>1. left \in Int
        BY <1>2, <1>8, <1>9 DEF left
      <4> QED
        BY <1>9, <2>1, <4>1
    <3> QED
      BY <2>1, <3>1
  <2>2. CASE j # 0
    <3>1. left > 1 /\ left - 1 = j
      BY <1>9, <2>2
    <3>2. group(loops) = Triple(bin, loops)
      <4>1. 3 * loops < len /\ loops \in Nat
        BY <1>9, <2>2
      <4> QED
        BY <1>10, <4>1
    <3> QED
      BY ONLY <2>2, <3>1, <3>2
  <2> QED
    BY <2>1, <2>2
<1> HIDE DEF g, rest
<1>13. bin = FlattenSeq(g) \o rest
  BY <1>5, <1>9, <1>11, <1>12
<1>14. Base64decode_len(t) = DecodeRoom(n)
  BY <1>8 DEF Base64decode_len, np
<1> QED
  BY <1>3, <1>7, <1>8, <1>13, <1>14 DEF len, t

-----------------------------------------------------------------------------
(* What a verifier looks at.                                              *)

DateClaims == {"exp", "iat", "nbf"}

(* What one expected claim says of a payload, as Claims has it.            *)
ClaimSays(v, payload, key) ==
  IF key = "aud" THEN AudienceSays(payload, v.claims.aud)
  ELSE assert_claim_eq(payload, key, v.claims[key])

(* The checks of verify before the dates: they look at the algorithms of a *)
(* verifier only.                                                          *)
Authentic(algs, token_) ==
  LET header == header_claims(token_)
  IN  /\ IsToken(token_)
      /\ "alg" \in DOMAIN header /\ header.alg.type = "string"
      /\ \E a \in algs : /\ String(a.name) = header.alg
                         /\ SameSignature(SubSeq(token_, 1, payload_end(token_) - 1),
                                          Part(signature_base64(token_)), a.secret)

InTime(v, payload, clock) ==
  /\ Late(v, payload, clock) = "ok"
  /\ Early(v, payload, "iat", clock) = "ok"
  /\ Early(v, payload, "nbf", clock) = "ok"

ClaimsMet(v, payload) ==
  \A key \in DOMAIN v.claims \ DateClaims : ClaimSays(v, payload, key) = "ok"

(* The first of the dates that is not met is one that is not met.          *)
LEMMA DatesUnmet ==
  ASSUME NEW v, NEW payload, NEW clock
  PROVE  LET dates == Dates(v, payload, clock)
             unmet == {i \in DOMAIN dates : dates[i] # "ok"}
         IN  /\ unmet = {} <=> InTime(v, payload, clock)
             /\ unmet # {} => Min(unmet) \in unmet /\ dates[Min(unmet)] # "ok"
<1> DEFINE dates == Dates(v, payload, clock)
           unmet == {i \in DOMAIN dates : dates[i] # "ok"}
<1>1. /\ DOMAIN dates = 1..3
      /\ dates[1] = Late(v, payload, clock)
      /\ dates[2] = Early(v, payload, "iat", clock)
      /\ dates[3] = Early(v, payload, "nbf", clock)
  BY DEF Dates
<1> HIDE DEF dates
<1>2. unmet \subseteq 1..3
  BY <1>1
<1>3. ASSUME unmet # {} PROVE Min(unmet) \in unmet
  <2>1. \E x \in unmet : \A y \in unmet : x <= y
    BY <1>2, <1>3
  <2> QED
    BY <2>1, Zenon DEF Min
<1>4. unmet = {} <=> InTime(v, payload, clock)
  BY <1>1 DEF InTime
<1> QED
  BY <1>3, <1>4 DEF dates

LEMMA ClaimsOk ==
  ASSUME NEW v, NEW payload
  PROVE  Claims(v, payload) = {"ok"} <=> ClaimsMet(v, payload)
<1> DEFINE unmet == {ClaimSays(v, payload, key) : key \in DOMAIN v.claims \ DateClaims}
                      \ {"ok"}
<1>1. Claims(v, payload) = IF unmet = {} THEN {"ok"} ELSE unmet
  BY Zenon DEF Claims, ClaimSays, DateClaims
<1>2. unmet = {} <=> ClaimsMet(v, payload)
  BY DEF ClaimsMet
<1>3. unmet # {"ok"}
  OBVIOUS
<1> QED
  BY <1>1, <1>2, <1>3

(* verify looks at the dates, and then at the claims, of an authentic text *)
(* only.                                                                   *)
LEMMA VerifyInTurn ==
  ASSUME NEW v, NEW token_, NEW clock
  PROVE  LET payload == payload_claims(token_)
             dates == Dates(v, payload, clock)
             unmet == {i \in DOMAIN dates : dates[i] # "ok"}
         IN  /\ Authentic(v.algs, token_) =>
                  verify(v, token_, clock) =
                    IF unmet # {} THEN {dates[Min(unmet)]} ELSE Claims(v, payload)
             /\ ~Authentic(v.algs, token_) => verify(v, token_, clock) # {"ok"}
<1> DEFINE header == header_claims(token_)
           payload == payload_claims(token_)
           algs == {a \in v.algs : String(a.name) = header.alg}
           data == SubSeq(token_, 1, payload_end(token_) - 1)
           signed(a) == SameSignature(data, Part(signature_base64(token_)), a.secret)
           dates == Dates(v, payload, clock)
           unmet == {i \in DOMAIN dates : dates[i] # "ok"}
           typed == "alg" \in DOMAIN header /\ header.alg.type = "string"
           said == IF unmet # {} THEN {dates[Min(unmet)]} ELSE Claims(v, payload)
<1>1. verify(v, token_, clock) =
        IF ~IsToken(token_) THEN {"throw"}
        ELSE IF ~typed THEN {"throw"}
        ELSE IF algs = {} THEN {"wrong_algorithm"}
        ELSE IF \A a \in algs : ~signed(a) THEN {"invalid_signature"}
        ELSE said
  BY Zenon DEF verify
<1>2. Authentic(v.algs, token_) <=> IsToken(token_) /\ typed /\ \E a \in algs : signed(a)
  BY Zenon DEF Authentic
<1>3. Authentic(v.algs, token_) => verify(v, token_, clock) = said
  <2> HIDE DEF header, payload, algs, data, signed, dates, unmet, typed, said
  <2> QED
    BY <1>1, <1>2
<1>4. ~Authentic(v.algs, token_) => verify(v, token_, clock) # {"ok"}
  <2> HIDE DEF header, payload, algs, data, signed, dates, unmet, typed, said
  <2> QED
    BY <1>1, <1>2
<1> QED
  BY ONLY <1>3, <1>4

(* verify accepts exactly a text that passes each of its checks: none of   *)
(* them is made up for by another.                                         *)
THEOREM AcceptedMeetsAll ==
  ASSUME NEW v, NEW token_, NEW clock
  PROVE  Accepted(v, token_, clock) <=>
           /\ Authentic(v.algs, token_)
           /\ InTime(v, payload_claims(token_), clock)
           /\ ClaimsMet(v, payload_claims(token_))
<1> DEFINE payload == payload_claims(token_)
           dates == Dates(v, payload, clock)
           unmet == {i \in DOMAIN dates : dates[i] # "ok"}
<1>1. /\ Authentic(v.algs, token_) =>
           verify(v, token_, clock) =
             IF unmet # {} THEN {dates[Min(unmet)]} ELSE Claims(v, payload)
      /\ ~Authentic(v.algs, token_) => verify(v, token_, clock) # {"ok"}
  BY VerifyInTurn
<1>2. /\ unmet = {} <=> InTime(v, payload, clock)
      /\ unmet # {} => dates[Min(unmet)] # "ok"
  BY DatesUnmet
<1>3. Claims(v, payload) = {"ok"} <=> ClaimsMet(v, payload)
  BY ClaimsOk
<1> HIDE DEF dates, unmet
<1> QED
  BY <1>1, <1>2, <1>3 DEF Accepted

-----------------------------------------------------------------------------
(* Stricter verifiers.                                                     *)

(* A token that is decoded has JSON objects for its header and payload.    *)
LEMMA ObjectsOfTokens ==
  ASSUME NEW token_, IsToken(token_)
  PROVE  /\ header_claims(token_) \in Objects
         /\ payload_claims(token_) \in Objects
<1>1. ASSUME NEW chars \in Texts PROVE parse_claims(chars) \in Objects
  <2>1. PICK written \in Written : written.chars = chars
    BY <1>1 DEF Texts
  <2>2. (CHOOSE x \in Written : x.chars = chars) \in Written
    BY <2>1
  <2>3. \A x \in Written : x.claims \in Objects
    BY DEF Written
  <2> QED
    BY <2>2, <2>3 DEF parse_claims
<1> QED
  BY <1>1 DEF IsToken, header_claims, payload_claims

LEMMA LeewayIsNat ==
  ASSUME NEW v \in Verifiers, NEW key \in DateClaims
  PROVE  Leeway(v, key) \in Nat
BY VerifierAssumption DEF Leeway, DateClaims

(* A date that is met is met with more leeway, in either direction.        *)
LEMMA MoreLeeway ==
  ASSUME NEW v \in Verifiers, NEW w \in Verifiers, NEW payload \in Objects,
         NEW clock, clock.sec \in Int,
         \A key \in DateClaims : Leeway(v, key) <= Leeway(w, key),
         InTime(v, payload, clock)
  PROVE  InTime(w, payload, clock)
<1>1. \A key : Second(payload, key) \in Int
  BY JsonAssumption DEF Second
<1>2. \A key \in DateClaims : Leeway(v, key) \in Nat /\ Leeway(w, key) \in Nat
  BY LeewayIsNat
<1>3. ASSUME NEW key, NEW p, NEW q, q => p, AtDate(payload, key, p) = "ok"
      PROVE  AtDate(payload, key, q) = "ok"
  BY <1>3 DEF AtDate
<1>4. Late(w, payload, clock) = "ok"
  <2> DEFINE sec == Second(payload, "exp")
  <2>1. After(clock, sec + Leeway(w, "exp")) => After(clock, sec + Leeway(v, "exp"))
    <3>1. "exp" \in DateClaims
      BY DEF DateClaims
    <3>2. PICK a, b : a = Leeway(v, "exp") /\ b = Leeway(w, "exp")
      OBVIOUS
    <3>3. sec \in Int /\ a \in Nat /\ b \in Nat /\ a <= b
      BY <1>1, <1>2, <3>1, <3>2
    <3> HIDE DEF sec
    <3>4. After(clock, sec + b) => After(clock, sec + a)
      BY <3>3 DEF After
    <3> QED
      BY <3>2, <3>4
  <2> QED
    BY <1>3, <2>1 DEF Late, InTime
<1>5. ASSUME NEW key \in {"iat", "nbf"}, Early(v, payload, key, clock) = "ok"
      PROVE  Early(w, payload, key, clock) = "ok"
  <2> DEFINE sec == Second(payload, key)
  <2>1. Before(clock, sec - Leeway(w, key)) => Before(clock, sec - Leeway(v, key))
    <3>1. key \in DateClaims
      BY <1>5 DEF DateClaims
    <3>2. PICK a, b : a = Leeway(v, key) /\ b = Leeway(w, key)
      OBVIOUS
    <3>3. sec \in Int /\ a \in Nat /\ b \in Nat /\ a <= b
      BY <1>1, <1>2, <3>1, <3>2
    <3> HIDE DEF sec
    <3>4. Before(clock, sec - b) => Before(clock, sec - a)
      BY <3>3 DEF Before
    <3> QED
      BY <3>2, <3>4
  <2> QED
    BY <1>3, <1>5, <2>1 DEF Early
<1> QED
  BY <1>4, <1>5 DEF InTime

(* Fewer claims are expected, each with the same or a smaller value.       *)
LEMMA FewerClaims ==
  ASSUME NEW v \in Verifiers, NEW w \in Verifiers, NEW payload,
         Stricter(v, w), ClaimsMet(v, payload)
  PROVE  ClaimsMet(w, payload)
<1> SUFFICES ASSUME NEW key \in DOMAIN w.claims \ DateClaims
             PROVE  ClaimSays(w, payload, key) = "ok"
  BY DEF ClaimsMet
<1>1. /\ key \in DOMAIN v.claims \ DateClaims
      /\ \/ v.claims[key] = w.claims[key]
         \/ key = "aud" /\ w.claims.aud.set \subseteq v.claims.aud.set
  BY DEF Stricter, DateClaims
<1>2. ClaimSays(v, payload, key) = "ok"
  BY <1>1 DEF ClaimsMet
<1>3. CASE v.claims[key] = w.claims[key]
  BY <1>2, <1>3 DEF ClaimSays
<1>4. CASE key = "aud" /\ w.claims.aud.set \subseteq v.claims.aud.set
  <2>1. v.claims.aud.type = "array" /\ w.claims.aud.type = "array"
    BY <1>1, <1>4, VerifierAssumption
  <2>2. Audience(w.claims.aud) \subseteq Audience(v.claims.aud)
    BY <1>4, <2>1 DEF Audience
  <2> QED
    BY <1>2, <1>4, <2>2 DEF ClaimSays, AudienceSays
<1> QED
  BY <1>1, <1>3, <1>4

LEMMA StricterAccepts ==
  ASSUME NEW v \in Verifiers, NEW w \in Verifiers, NEW token_,
         NEW clock, clock.sec \in Int,
         Stricter(v, w), Accepted(v, token_, clock)
  PROVE  Accepted(w, token_, clock)
<1> DEFINE payload == payload_claims(token_)
<1>1. Authentic(v.algs, token_) /\ InTime(v, payload, clock) /\ ClaimsMet(v, payload)
  BY AcceptedMeetsAll
<1>2. Authentic(w.algs, token_)
  BY <1>1 DEF Authentic, Stricter
<1>3. payload \in Objects
  BY <1>1, ObjectsOfTokens DEF Authentic
<1>4. \A key \in DateClaims : Leeway(v, key) <= Leeway(w, key)
  BY DEF Stricter, DateClaims
<1>5. InTime(w, payload, clock)
  BY <1>1, <1>3, <1>4, MoreLeeway
<1>6. ClaimsMet(w, payload)
  BY <1>1, FewerClaims
<1> QED
  BY <1>2, <1>5, <1>6, AcceptedMeetsAll

(* The clock stays one, set back or not.                                   *)
LEMMA ClockStep == now \in Api!Clock /\ (TimePasses \/ UNCHANGED vars) => now' \in Api!Clock
<1> SUFFICES ASSUME now \in Api!Clock, TimePasses \/ UNCHANGED vars PROVE now' \in Api!Clock
  OBVIOUS
<1>1. CASE UNCHANGED now
  BY <1>1
<1>2. CASE TimePasses
  <2>1. CASE Api!SetBack(now, now')
    BY <2>1 DEF Api!SetBack
  <2>2. CASE Api!Later(now, now')
    <3>1. now.sec \in 0..MaxSecond /\ now = [sec |-> now.sec, late |-> now.late]
      BY DEF Api!Clock, Api!Seconds
    <3>2. CASE now' = [now EXCEPT !.late = TRUE]
      <4>1. now' = [sec |-> now.sec, late |-> TRUE]
        BY <3>1, <3>2
      <4> QED
        BY <3>1, <4>1 DEF Api!Clock, Api!Seconds
    <3>3. CASE now.sec < MaxSecond /\ now' = [sec |-> now.sec + 1, late |-> FALSE]
      <4>1. now.sec + 1 \in 0..MaxSecond
        BY <3>1, <3>3, TokenAssumption
      <4> QED
        BY <3>3, <4>1 DEF Api!Clock, Api!Seconds
    <3> QED
      BY <2>2, <3>2, <3>3 DEF Api!Later
  <2> QED
    BY <1>2, <2>1, <2>2 DEF TimePasses
<1> QED
  BY <1>1, <1>2 DEF vars

LEMMA ClockTyped == Spec => [](now \in Api!Clock)
<1>1. Init => now \in Api!Clock
  BY TokenAssumption DEF Init, Api!Clock, Api!Seconds
<1>2. now \in Api!Clock /\ [Next]_vars => (now \in Api!Clock)'
  <2>1. Next => TimePasses \/ UNCHANGED now
    BY DEF Next, Type, Create, SignElsewhere, Cut, Change
  <2> QED
    BY <2>1, ClockStep DEF vars
<1> QED
  BY <1>1, <1>2, PTL DEF Spec

(* A verifier that demands more never accepts what one that demands less   *)
(* refuses, whatever the text, the JSON objects, the HMAC and the clock.   *)
THEOREM StricterIsStricter == Spec => []StricterRefusesMore
<1>1. now \in Api!Clock => StricterRefusesMore
  <2> SUFFICES ASSUME now \in Api!Clock,
                      NEW v \in Verifiers, Accepted(v, text, now),
                      NEW w \in Verifiers, Stricter(v, w)
               PROVE  Accepted(w, text, now)
    BY DEF StricterRefusesMore
  <2>1. now.sec \in Int
    BY TokenAssumption DEF Api!Clock, Api!Seconds
  <2> QED
    BY <2>1, StricterAccepts
<1> QED
  BY <1>1, ClockTyped, PTL

-----------------------------------------------------------------------------
(* The tokens of http_server.                                              *)

(* What CreateToken put into a token is all that Verify goes by: a text    *)
(* with its claims and its signature is accepted exactly between its two   *)
(* dates as ApiHandler has it, for every lifetime, clock and name, and is  *)
(* neither thrown on nor refused for anything else.                        *)
THEOREM DatesDecide ==
  ASSUME NEW name_, NEW iat \in Nat, NEW sec \in Nat, NEW token_,
         NEW clock \in [sec: Nat, late: BOOLEAN],
         Authentic({hs256(Secret)}, token_),
         payload_claims(token_) = Created(name_, iat, sec).payload
  PROVE  LET dates == [iat |-> iat, exp |-> sec + Lifetime]
         IN  Verify(token_, clock) = IF Api!Valid(dates, clock) THEN {"ok"}
                                     ELSE {"token_expired"}
<1> DEFINE payload == payload_claims(token_)
           dates == [iat |-> iat, exp |-> sec + Lifetime]
<1>1. /\ DOMAIN payload = {"iss", "iat", "exp", "username"}
      /\ payload.iss = String("BLABBER")
      /\ payload.iat = Number(iat)
      /\ payload.exp = Number(sec + Lifetime)
  BY DEF Created, create, EmptyObject, set_issuer, set_type, set_issued_at,
         set_expires_at, set_header_claim, set_payload_claim, Put
<1>2. /\ Verifier.claims = Put(EmptyObject, "iss", String("BLABBER"))
      /\ Verifier.default_leeway = 0
      /\ Verifier.algs = {hs256(Secret)}
  <2>1. PICK alg : alg = hs256(Secret)
    OBVIOUS
  <2>2. PICK v : v = allow_algorithm(verifier, alg)
    OBVIOUS
  <2>3. {a \in {} : a.name # alg.name} \cup {alg} = {alg}
    OBVIOUS
  <2>4. v = [claims |-> EmptyObject, default_leeway |-> 0, algs |-> {alg}]
    BY <2>2, <2>3 DEF verifier, allow_algorithm
  <2>5. Verifier = [v EXCEPT !.claims = Put(@, "iss", String("BLABBER"))]
    BY <2>1, <2>2 DEF Verifier, with_issuer, with_claim
  <2> QED
    BY <2>1, <2>4, <2>5
<1>3. /\ DOMAIN Verifier.claims = {"iss"}
      /\ Verifier.claims["iss"] = String("BLABBER")
      /\ \A key \in DateClaims : Leeway(Verifier, key) = 0
  BY <1>2 DEF Put, EmptyObject, Leeway, DateClaims
<1>4. /\ Second(payload, "exp") = sec + Lifetime
      /\ Second(payload, "iat") = iat
  BY <1>1 DEF Second, Number
<1> HIDE DEF payload
<1>5. Late(Verifier, payload, clock) =
        IF Api!Expired(dates, clock) THEN "token_expired" ELSE "ok"
  <2>1. After(clock, Second(payload, "exp") + Leeway(Verifier, "exp"))
          <=> Api!Expired(dates, clock)
    BY <1>3, <1>4, TokenAssumption DEF After, Api!Expired, DateClaims
  <2>2. "exp" \in DOMAIN payload /\ payload["exp"].type = "integer"
    BY <1>1 DEF Number
  <2> QED
    BY <2>1, <2>2 DEF Late, AtDate
<1>6. Early(Verifier, payload, "iat", clock) =
        IF Api!NotYetIssued(dates, clock) THEN "token_expired" ELSE "ok"
  <2>1. Before(clock, Second(payload, "iat") - Leeway(Verifier, "iat"))
          <=> Api!NotYetIssued(dates, clock)
    BY <1>3, <1>4 DEF Before, Api!NotYetIssued, DateClaims
  <2>2. "iat" \in DOMAIN payload /\ payload["iat"].type = "integer"
    BY <1>1 DEF Number
  <2> QED
    BY <2>1, <2>2 DEF Early, AtDate
<1>7. Early(Verifier, payload, "nbf", clock) = "ok"
  BY <1>1 DEF Early, AtDate
<1>8. Claims(Verifier, payload) = {"ok"}
  <2>1. ClaimsMet(Verifier, payload)
    BY <1>1, <1>3 DEF ClaimsMet, ClaimSays, assert_claim_eq, DateClaims
  <2> QED
    BY <2>1, ClaimsOk
<1> DEFINE said == Dates(Verifier, payload, clock)
           unmet == {i \in DOMAIN said : said[i] # "ok"}
<1>9. verify(Verifier, token_, clock) =
        IF unmet # {} THEN {said[Min(unmet)]} ELSE {"ok"}
  <2>1. Authentic(Verifier.algs, token_)
    BY <1>2
  <2>2. verify(Verifier, token_, clock) =
          IF unmet # {} THEN {said[Min(unmet)]} ELSE Claims(Verifier, payload)
    BY <2>1, VerifyInTurn, Zenon DEF payload
  <2> QED
    BY <1>8, <2>2, Zenon
<1>10. unmet = {} <=> Api!Valid(dates, clock)
  <2>1. unmet = {} <=> InTime(Verifier, payload, clock)
    BY DatesUnmet
  <2> HIDE DEF unmet, dates
  <2> QED
    BY <1>5, <1>6, <1>7, <2>1 DEF InTime, Api!Valid
<1>11. ASSUME unmet # {} PROVE said[Min(unmet)] = "token_expired"
  <2>1. said[Min(unmet)] # "ok" /\ Min(unmet) \in unmet
    BY <1>11, DatesUnmet
  <2>2. \A i \in DOMAIN said : said[i] \in {"ok", "token_expired"}
    BY <1>5, <1>6, <1>7 DEF Dates
  <2> QED
    BY <2>1, <2>2
<1> HIDE DEF said, unmet, dates
<1> QED
  BY <1>9, <1>10, <1>11 DEF Verify, dates

-----------------------------------------------------------------------------
(* The texts of tokens.                                                    *)

(* A piece of a text is known by its characters.                           *)
LEMMA Piece ==
  ASSUME NEW S, NEW t \in Seq(S), NEW u \in Seq(S), NEW m \in Nat, m + Len(u) <= Len(t),
         \A i \in 1..Len(u) : t[m + i] = u[i]
  PROVE  SubSeq(t, m + 1, m + Len(u)) = u
<1> DEFINE n == Len(u)
           w == SubSeq(t, m + 1, m + n)
<1>1. n \in Nat /\ Len(t) \in Nat
  BY LenProperties
<1>2. \A k \in (m + 1)..(m + n) : t[k] \in S
  <2> TAKE k \in (m + 1)..(m + n)
  <2>1. k \in 1..Len(t)
    BY <1>1
  <2> QED
    BY <2>1, ElementOfSeq
<1>3. /\ w \in Seq(S)
      /\ Len(w) = IF m + 1 <= m + n THEN m + n - (m + 1) + 1 ELSE 0
      /\ \A i \in 1..(m + n - (m + 1) + 1) : w[i] = t[m + 1 + i - 1]
  <2>1. m + 1 \in Int /\ m + n \in Int
    BY <1>1
  <2> QED
    BY <1>2, <2>1, SubSeqProperties
<1> HIDE DEF w
<1>4. m + n - (m + 1) + 1 = n /\ (m + 1 <= m + n <=> n # 0)
  BY <1>1
<1>5. Len(w) = n
  BY ONLY <1>3, <1>4
<1>6. \A i \in 1..n : w[i] = u[i]
  <2> TAKE i \in 1..n
  <2>1. m + 1 + i - 1 = m + i
    BY <1>1
  <2>2. w[i] = t[m + 1 + i - 1]
    BY <1>3, <1>4
  <2> QED
    BY <2>1, <2>2
<1>7. w = u
  BY <1>3, <1>5, <1>6, SeqEqual
<1> QED
  BY <1>7 DEF w

Dotted(s, u) == s \o <<Dot>> \o u

(* Three parts with dots between them are told apart by the dots.          *)
LEMMA PartsOfToken ==
  ASSUME NEW h \in Seq(Sextet), NEW p \in Seq(Sextet), NEW s \in Seq(Sextet)
  PROVE  LET d == Dotted(h, p)
             t == Dotted(d, s)
         IN  /\ t \in Seq(Sextet \cup {Dot})
             /\ Cardinality(Dots(t)) >= 2
             /\ header_base64(t) = h /\ payload_base64(t) = p /\ signature_base64(t) = s
             /\ SubSeq(t, 1, payload_end(t) - 1) = d
<1>2. PICK dot, d, t : dot = <<Dot>> /\ d = Dotted(h, p) /\ t = Dotted(d, s)
  OBVIOUS
<1> DEFINE C == Sextet \cup {Dot}
           i1 == Len(h) + 1
           i2 == Len(h) + Len(p) + 2
<1>1. /\ h \in Seq(C) /\ p \in Seq(C) /\ s \in Seq(C)
      /\ Len(h) \in Nat /\ Len(p) \in Nat /\ Len(s) \in Nat
      /\ \A i \in 1..Len(h) : h[i] # Dot
      /\ \A i \in 1..Len(p) : p[i] # Dot
      /\ \A i \in 1..Len(s) : s[i] # Dot
  <2>1. Sextet \subseteq C
    OBVIOUS
  <2>2. \A q \in Seq(Sextet) : /\ q \in Seq(C) /\ Len(q) \in Nat
                               /\ \A i \in 1..Len(q) : q[i] \in Sextet
    <3> HIDE DEF C
    <3> QED
      BY <2>1, SeqMonotonic, LenProperties, ElementOfSeq
  <2>3. Dot \notin Sextet
    BY DEF Dot, Sextet
  <2> QED
    BY <2>2, <2>3
<1>3. dot \in Seq(C) /\ Len(dot) = 1 /\ dot[1] = Dot
  BY <1>2
<1> HIDE DEF C
<1>4. PICK a : a = h \o dot
  OBVIOUS
<1>5. /\ a \in Seq(C) /\ Len(a) = Len(h) + 1
      /\ \A i \in 1..(Len(h) + 1) : a[i] = IF i <= Len(h) THEN h[i] ELSE dot[i - Len(h)]
  <2>1. /\ h \o dot \in Seq(C) /\ Len(h \o dot) = Len(h) + Len(dot)
        /\ \A i \in 1..(Len(h) + Len(dot)) :
              (h \o dot)[i] = IF i <= Len(h) THEN h[i] ELSE dot[i - Len(h)]
    BY ONLY <1>1, <1>3, ConcatProperties
  <2> QED
    BY ONLY <1>3, <1>4, <2>1
<1>6. d = a \o p
  BY <1>2, <1>4 DEF Dotted
<1>7. /\ d \in Seq(C) /\ Len(d) = Len(h) + 1 + Len(p)
      /\ \A i \in 1..(Len(h) + 1 + Len(p)) :
            d[i] = IF i <= Len(h) + 1 THEN a[i] ELSE p[i - (Len(h) + 1)]
  <2>1. /\ a \o p \in Seq(C) /\ Len(a \o p) = Len(a) + Len(p)
        /\ \A i \in 1..(Len(a) + Len(p)) :
              (a \o p)[i] = IF i <= Len(a) THEN a[i] ELSE p[i - Len(a)]
    <3>1. a \in Seq(C) /\ p \in Seq(C)
      BY <1>1, <1>5
    <3> QED
      BY ONLY <3>1, ConcatProperties
  <2> QED
    BY ONLY <1>5, <1>6, <2>1
<1>8. PICK e : e = d \o dot
  OBVIOUS
<1>9. /\ e \in Seq(C) /\ Len(e) = Len(d) + 1
      /\ \A i \in 1..(Len(d) + 1) : e[i] = IF i <= Len(d) THEN d[i] ELSE dot[i - Len(d)]
  <2>1. /\ d \o dot \in Seq(C) /\ Len(d \o dot) = Len(d) + Len(dot)
        /\ \A i \in 1..(Len(d) + Len(dot)) :
              (d \o dot)[i] = IF i <= Len(d) THEN d[i] ELSE dot[i - Len(d)]
    <3>1. d \in Seq(C) /\ dot \in Seq(C)
      BY <1>3, <1>7
    <3> QED
      BY ONLY <3>1, ConcatProperties
  <2> QED
    BY ONLY <1>3, <1>8, <2>1
<1>10. t = e \o s
  BY <1>2, <1>8 DEF Dotted
<1>11. /\ t \in Seq(C) /\ Len(t) = Len(d) + 1 + Len(s)
       /\ \A i \in 1..(Len(d) + 1 + Len(s)) :
             t[i] = IF i <= Len(d) + 1 THEN e[i] ELSE s[i - (Len(d) + 1)]
  <2>1. /\ e \o s \in Seq(C) /\ Len(e \o s) = Len(e) + Len(s)
        /\ \A i \in 1..(Len(e) + Len(s)) :
              (e \o s)[i] = IF i <= Len(e) THEN e[i] ELSE s[i - Len(e)]
    <3>1. e \in Seq(C) /\ s \in Seq(C)
      BY <1>1, <1>9
    <3> QED
      BY ONLY <3>1, ConcatProperties
  <2> QED
    BY ONLY <1>9, <1>10, <2>1
<1>12. Len(d) + 1 = i2 /\ i1 \in Nat /\ i2 \in Nat /\ i1 < i2 /\ Len(t) = i2 + Len(s)
  BY <1>1, <1>7, <1>11
<1>13. ASSUME NEW i \in 1..Len(d) PROVE t[i] = d[i]
  <2>1. /\ i \in 1..(Len(d) + 1 + Len(s)) /\ i <= Len(d) + 1
        /\ i \in 1..(Len(d) + 1) /\ i <= Len(d)
    BY <1>1, <1>12
  <2> QED
    BY ONLY <1>9, <1>11, <2>1
<1>14. ASSUME NEW i \in 1..Len(h) PROVE t[i] = h[i] /\ t[0 + i] = h[i]
  <2>1. /\ i \in 1..Len(d) /\ i \in 1..(Len(h) + 1 + Len(p)) /\ i <= Len(h) + 1
        /\ i \in 1..(Len(h) + 1) /\ i <= Len(h) /\ 0 + i = i
    BY <1>1, <1>7
  <2>2. d[i] = a[i] /\ a[i] = h[i]
    BY ONLY <1>5, <1>7, <2>1
  <2> QED
    BY <1>13, <2>1, <2>2
<1>15. t[i1] = Dot
  <2>1. /\ i1 \in 1..Len(d) /\ i1 \in 1..(Len(h) + 1 + Len(p)) /\ i1 <= Len(h) + 1
        /\ i1 \in 1..(Len(h) + 1) /\ ~(i1 <= Len(h)) /\ i1 - Len(h) = 1
    BY <1>1, <1>7
  <2> HIDE DEF i1
  <2>2. d[i1] = a[i1] /\ a[i1] = dot[1]
    BY ONLY <1>5, <1>7, <2>1
  <2> QED
    BY <1>3, <1>13, <2>1, <2>2
<1>16. ASSUME NEW i \in 1..Len(p) PROVE t[i1 + i] = p[i]
  <2>1. PICK k : k = i1 + i
    OBVIOUS
  <2>2. /\ k \in 1..Len(d) /\ k \in 1..(Len(h) + 1 + Len(p)) /\ ~(k <= Len(h) + 1)
        /\ k - (Len(h) + 1) = i
    BY <1>1, <1>7, <2>1
  <2>3. d[k] = p[i]
    BY ONLY <1>7, <2>2
  <2> QED
    BY <1>13, <2>1, <2>2, <2>3
<1>17. t[i2] = Dot
  <2>1. /\ i2 \in 1..(Len(d) + 1 + Len(s)) /\ i2 <= Len(d) + 1
        /\ i2 \in 1..(Len(d) + 1) /\ ~(i2 <= Len(d)) /\ i2 - Len(d) = 1
    BY <1>1, <1>12
  <2> HIDE DEF i2
  <2> QED
    BY ONLY <1>3, <1>9, <1>11, <2>1
<1>18. ASSUME NEW i \in 1..Len(s) PROVE t[i2 + i] = s[i]
  <2>1. PICK k : k = i2 + i
    OBVIOUS
  <2>2. /\ k \in 1..(Len(d) + 1 + Len(s)) /\ ~(k <= Len(d) + 1) /\ k - (Len(d) + 1) = i
    <3>1. Len(d) + 1 = i2 /\ i2 \in Nat /\ Len(s) \in Nat /\ i \in 1..Len(s)
      BY <1>1, <1>12
    <3> HIDE DEF i2
    <3> QED
      BY ONLY <2>1, <3>1
  <2> QED
    BY ONLY <1>11, <2>1, <2>2
<1>19. Dots(t) = {i1, i2}
  <2>1. DOMAIN t = 1..Len(t)
    BY <1>11, LenProperties
  <2>2. i1 \in 1..Len(t) /\ i2 \in 1..Len(t)
    BY <1>1, <1>12
  <2>3. ASSUME NEW i \in 1..Len(t), t[i] = Dot, i # i1, i # i2 PROVE FALSE
    <3>1. CASE i < i1
      <4>1. i \in 1..Len(h)
        BY <1>1, <3>1
      <4> QED
        BY <1>1, <1>14, <2>3, <4>1
    <3>2. CASE i > i1 /\ i < i2
      <4>1. i - i1 \in 1..Len(p) /\ i1 + (i - i1) = i
        BY <1>1, <3>2
      <4>2. PICK k \in 1..Len(p) : k = i - i1
        BY <4>1
      <4>3. t[i1 + k] = p[k] /\ i1 + k = i
        BY <1>16, <4>1, <4>2
      <4> QED
        BY <1>1, <2>3, <4>3
    <3>3. CASE i > i2
      <4>1. i - i2 \in 1..Len(s) /\ i2 + (i - i2) = i
        BY <1>1, <1>12, <3>3
      <4>2. PICK k \in 1..Len(s) : k = i - i2
        BY <4>1
      <4>3. t[i2 + k] = s[k] /\ i2 + k = i
        BY <1>18, <4>1, <4>2
      <4> QED
        BY <1>1, <2>3, <4>3
    <3>4. i < i1 \/ (i > i1 /\ i < i2) \/ i > i2
      <4>1. i \in Int /\ i1 \in Int /\ i2 \in Int /\ i1 < i2 /\ i # i1 /\ i # i2
        BY <1>12, <2>3
      <4> HIDE DEF i1, i2
      <4> QED
        BY ONLY <4>1
    <3> QED
      BY <3>1, <3>2, <3>3, <3>4
  <2> HIDE DEF i1, i2
  <2> QED
    BY <1>15, <1>17, <2>1, <2>2, <2>3 DEF Dots
<1>20. hdr_end(t) = i1
  <2>1. {i1, i2} \in SUBSET Int /\ i1 \in {i1, i2} /\ \A y \in {i1, i2} : i1 <= y
    BY <1>12
  <2> HIDE DEF i1, i2
  <2>2. Min({i1, i2}) = i1
    BY <2>1, MinIs
  <2> QED
    BY <1>19, <2>2 DEF hdr_end
<1>21. payload_end(t) = i2
  <2>1. {i2} \in SUBSET Int /\ i2 \in {i2} /\ \A y \in {i2} : i2 <= y
    BY <1>12
  <2>2. i1 # i2
    BY <1>12
  <2> HIDE DEF i1, i2
  <2>3. Min({i2}) = i2
    BY <2>1, MinIs
  <2>4. {i1, i2} \ {i1} = {i2}
    BY <2>2
  <2> QED
    BY <1>19, <1>20, <2>3, <2>4 DEF payload_end
<1>22. Cardinality(Dots(t)) >= 2
  <2>1. i1 # i2
    BY <1>12
  <2> HIDE DEF i1, i2
  <2>2. IsFiniteSet({i1}) /\ Cardinality({i1}) = 1
    BY FS_Singleton
  <2>3. Cardinality({i1} \cup {i2}) = 2
    <3>1. i2 \notin {i1}
      BY <2>1
    <3>2. Cardinality({i1} \cup {i2}) = 1 + 1
      BY ONLY <2>2, <3>1, FS_AddElement
    <3>3. 1 + 1 = 2
      OBVIOUS
    <3> QED
      BY ONLY <3>2, <3>3, Zenon
  <2>4. {i1} \cup {i2} = {i1, i2}
    OBVIOUS
  <2>5. Cardinality(Dots(t)) = 2
    BY ONLY <1>19, <2>3, <2>4
  <2> QED
    BY ONLY <2>5
<1>23. header_base64(t) = h
  <2>1. 0 + Len(h) <= Len(t)
    BY <1>1, <1>12
  <2>2. SubSeq(t, 0 + 1, 0 + Len(h)) = h
    BY <1>1, <1>11, <1>14, <2>1, Piece
  <2>3. 0 + 1 = 1 /\ 0 + Len(h) = i1 - 1
    BY <1>1
  <2> QED
    BY ONLY <1>20, <2>2, <2>3 DEF header_base64
<1>24. payload_base64(t) = p
  <2>1. i1 + Len(p) <= Len(t)
    BY <1>1, <1>12
  <2>2. SubSeq(t, i1 + 1, i1 + Len(p)) = p
    <3> HIDE DEF i1
    <3> QED
      BY <1>1, <1>11, <1>12, <1>16, <2>1, Piece
  <2>3. i1 + Len(p) = i2 - 1
    BY <1>1
  <2> HIDE DEF i1, i2
  <2> QED
    BY ONLY <1>20, <1>21, <2>2, <2>3 DEF payload_base64
<1>25. signature_base64(t) = s
  <2>1. i2 + Len(s) <= Len(t)
    BY <1>1, <1>12
  <2> HIDE DEF i2
  <2>2. SubSeq(t, i2 + 1, i2 + Len(s)) = s
    BY <1>1, <1>11, <1>12, <1>18, <2>1, Piece
  <2> QED
    BY ONLY <1>12, <1>21, <2>2 DEF signature_base64
<1>26. SubSeq(t, 1, payload_end(t) - 1) = d
  <2>1. 0 + Len(d) <= Len(t)
    BY <1>1, <1>12
  <2>2. \A i \in 1..Len(d) : t[0 + i] = d[i]
    <3> TAKE i \in 1..Len(d)
    <3>1. 0 + i = i
      OBVIOUS
    <3> QED
      BY <1>13, <3>1
  <2>3. SubSeq(t, 0 + 1, 0 + Len(d)) = d
    BY <1>7, <1>11, <2>1, <2>2, Piece
  <2>4. 0 + 1 = 1 /\ 0 + Len(d) = i2 - 1
    BY <1>1, <1>12
  <2> QED
    BY ONLY <1>21, <2>3, <2>4
<1> QED
  BY <1>2, <1>11, <1>22, <1>23, <1>24, <1>25, <1>26 DEF C

(* The parts of a token as they are written and read.                      *)
LEMMA CodedIs ==
  ASSUME NEW bytes \in Seq(Byte)
  PROVE  /\ Coded(bytes) \in Seq(Sextet)
         /\ IsPart(Coded(bytes)) /\ Part(Coded(bytes)) = bytes
<1>1. Coded(bytes) = Core(bytes) /\ Core(bytes) \in Seq(Sextet)
  BY EncodeBack, CoreTyped DEF Coded
<1> QED
  BY <1>1, PadIs, FilledBack DEF IsPart, Part

LEMMA ParsedBack ==
  ASSUME NEW o \in Objects
  PROVE  Serialize(o) \in Texts /\ parse_claims(Serialize(o)) = o
<1> DEFINE w == [chars |-> Serialize(o), claims |-> o]
<1>1. w \in Written
  BY DEF Written
<1>2. w.chars = Serialize(o) /\ w.claims = o
  OBVIOUS
<1> HIDE DEF w
<1>3. \A x \in Written : x.chars = w.chars => x = w
  BY <1>1, JsonAssumption
<1>4. (CHOOSE x \in Written : x.chars = Serialize(o)) = w
  BY <1>1, <1>2, <1>3
<1>5. Serialize(o) \in Texts
  BY <1>1, <1>2 DEF Texts
<1> QED
  BY <1>2, <1>4, <1>5 DEF parse_claims

(* What is read from a token is what was signed, and its signature is that *)
(* of the text in front of it.                                             *)
LEMMA SignedRead ==
  ASSUME NEW b, NEW algo, <<b, algo>> \in Signed
  PROVE  LET t == sign(b, algo)
         IN  /\ t \in Seq(Sextet \cup {Dot})
             /\ IsToken(t)
             /\ header_claims(t) = SignedHeader(b, algo)
             /\ payload_claims(t) = b.payload
             /\ SameSignature(SubSeq(t, 1, payload_end(t) - 1),
                              Part(signature_base64(t)), algo.secret)
<1>1. PICK s : s = <<b, algo>> /\ s[1] = b /\ s[2] = algo /\ s \in Signed
  OBVIOUS
<1>2. /\ SignedHeader(b, algo) \in Objects /\ b.payload \in Objects
      /\ Serialize(SignedHeader(b, algo)) \in Seq(Byte) /\ Serialize(b.payload) \in Seq(Byte)
      /\ Hmac(algo.secret, Signable(b, algo)) \in Seq(Byte)
  BY <1>1, SigningAssumption
<1>3. PICK hb, pb, sb : /\ hb = Serialize(SignedHeader(b, algo)) /\ pb = Serialize(b.payload)
                        /\ sb = Hmac(algo.secret, Signable(b, algo))
  OBVIOUS
<1>4. hb \in Seq(Byte) /\ pb \in Seq(Byte) /\ sb \in Seq(Byte)
  BY <1>2, <1>3
<1>5. PICK h, p, g : h = Coded(hb) /\ p = Coded(pb) /\ g = Coded(sb)
  OBVIOUS
<1>6. /\ h \in Seq(Sextet) /\ IsPart(h) /\ Part(h) = hb
      /\ p \in Seq(Sextet) /\ IsPart(p) /\ Part(p) = pb
      /\ g \in Seq(Sextet) /\ IsPart(g) /\ Part(g) = sb
  BY <1>4, <1>5, CodedIs
<1>7. PICK d : d = Signable(b, algo)
  OBVIOUS
<1>8. d = Dotted(h, p)
  BY <1>3, <1>5, <1>7 DEF Signable, Dotted
<1>9. PICK t : t = sign(b, algo)
  OBVIOUS
<1>10. t = Dotted(d, g)
  BY <1>3, <1>5, <1>7, <1>9 DEF sign, Dotted
<1>11. /\ t \in Seq(Sextet \cup {Dot})
       /\ Cardinality(Dots(t)) >= 2
       /\ header_base64(t) = h /\ payload_base64(t) = p /\ signature_base64(t) = g
       /\ SubSeq(t, 1, payload_end(t) - 1) = d
  <2>1. h \in Seq(Sextet) /\ p \in Seq(Sextet) /\ g \in Seq(Sextet)
    BY <1>6
  <2> QED
    BY ONLY <1>8, <1>10, <2>1, PartsOfToken
<1>12. /\ hb \in Texts /\ parse_claims(hb) = SignedHeader(b, algo)
       /\ pb \in Texts /\ parse_claims(pb) = b.payload
  BY <1>2, <1>3, ParsedBack
<1>13. IsToken(t)
  BY <1>6, <1>11, <1>12 DEF IsToken
<1>14. header_claims(t) = SignedHeader(b, algo) /\ payload_claims(t) = b.payload
  BY <1>6, <1>11, <1>12 DEF header_claims, payload_claims
<1>15. SameSignature(SubSeq(t, 1, payload_end(t) - 1), Part(signature_base64(t)), algo.secret)
  BY <1>3, <1>6, <1>7, <1>11 DEF SameSignature
<1> QED
  BY <1>9, <1>11, <1>13, <1>14, <1>15

(* A token of CreateToken, for any name and any two looks at the clock.    *)
LEMMA CreatedRead ==
  ASSUME NEW n \in Names, NEW iat \in 0..MaxSecond, NEW sec \in 0..MaxSecond
  PROVE  LET t == CreateToken(n, iat, sec)
         IN  /\ t \in Seq(Sextet \cup {Dot})
             /\ Authentic({hs256(Secret)}, t)
             /\ payload_claims(t) = Created(n, iat, sec).payload
<1>1. PICK b, algo : b = Created(n, iat, sec) /\ algo = hs256(Secret)
  OBVIOUS
<1>2. <<b, algo>> \in Signed
  BY <1>1 DEF Signed
<1>3. PICK t : t = CreateToken(n, iat, sec)
  OBVIOUS
<1>4. /\ t \in Seq(Sextet \cup {Dot})
      /\ IsToken(t)
      /\ header_claims(t) = SignedHeader(b, algo)
      /\ payload_claims(t) = b.payload
      /\ SameSignature(SubSeq(t, 1, payload_end(t) - 1),
                       Part(signature_base64(t)), algo.secret)
  BY <1>1, <1>2, <1>3, SignedRead DEF CreateToken
<1>5. "alg" \notin DOMAIN b.header
  BY <1>1 DEF Created, create, EmptyObject, set_issuer, set_type, set_issued_at,
              set_expires_at, set_header_claim, set_payload_claim, Put
<1>6. "alg" \in DOMAIN header_claims(t) /\ header_claims(t).alg = String(algo.name)
  BY <1>4, <1>5 DEF SignedHeader, Put
<1>7. String(algo.name).type = "string"
  BY DEF String
<1>8. Authentic({algo}, t)
  BY <1>4, <1>6, <1>7 DEF Authentic
<1> QED
  BY <1>1, <1>3, <1>4, <1>8


LEMMA CodecsGive ==
  ASSUME name \in Seq(Byte)
  PROVE  CodecsAgree
<1>1. PICK coded, t : coded = encode(name, UrlFill) /\ t = Base64encode(name)
  OBVIOUS
<1>2. /\ Decodable(coded, UrlFill) /\ decode(coded, UrlFill) = name
  BY <1>1, EncodeBack
<1>3. IsPart(trim(coded, UrlFill)) /\ Part(trim(coded, UrlFill)) = name
  BY <1>1, CodedIs DEF Coded
<1>4. Len(t) = Base64encode_len(Len(name)) /\ encode(name, Fill) = Front(t)
  BY <1>1, Base64encodeShape
<1>5. PICK plain : plain = Base64decode(t)
  OBVIOUS
<1>6. plain = [plain |-> name, length |-> Len(name)] /\ Len(name) + 1 <= Base64decode_len(t)
  BY <1>1, <1>5, Base64Back
<1>7. plain.plain = name /\ plain.length = Len(name)
  BY <1>6
<1>8. BuffersFit
  BY <1>1, <1>4, <1>5, <1>6, <1>7 DEF BuffersFit
<1> QED
  BY <1>1, <1>2, <1>3, <1>4, <1>8 DEF CodecsAgree

LEMMA NameTyped == name \in Seq(NameBytes) /\ Len(name) <= MaxName => name \in Names
<1> SUFFICES ASSUME name \in Seq(NameBytes), Len(name) <= MaxName PROVE name \in Names
  OBVIOUS
<1>1. Len(name) \in 0..MaxName /\ name \in [1..Len(name) -> NameBytes]
  BY LenProperties, TokenAssumption
<1> QED
  BY <1>1 DEF Names

(* The text that was signed is the one the dates of the token are for.     *)
MadeAsDated ==
  token.of = "CreateToken" =>
    \E sec \in 0..MaxSecond : /\ made = CreateToken(name, token.iat, sec)
                              /\ token.exp = sec + Lifetime

InductiveInv == TypeOK /\ MadeAsDated

LEMMA InitHolds == Init => InductiveInv
<1> SUFFICES ASSUME Init PROVE InductiveInv
  OBVIOUS
<1> USE DEF Init
<1>1. now \in Api!Clock
  BY TokenAssumption DEF Api!Clock, Api!Seconds
<1>2. name \in Seq(NameBytes) /\ Len(name) <= MaxName
  BY EmptySeq, TokenAssumption
<1>3. token \in [iat: 0..MaxSecond, exp: 0..(MaxSecond + Lifetime),
                 of: {"none", "other", "CreateToken"}]
  BY TokenAssumption DEF NoDates
<1>4. made \in Seq(Sextet \cup {Dot}) /\ text \in Seq(Sextet \cup {Dot, Percent})
  BY EmptySeq
<1>5. MadeAsDated
  BY DEF MadeAsDated, NoDates
<1> QED
  BY <1>1, <1>2, <1>3, <1>4, <1>5 DEF InductiveInv, TypeOK

LEMMA WiderText ==
  ASSUME NEW t \in Seq(Sextet \cup {Dot})
  PROVE  t \in Seq(Sextet \cup {Dot, Percent})
<1>1. Sextet \cup {Dot} \subseteq Sextet \cup {Dot, Percent}
  OBVIOUS
<1> QED
  BY <1>1, SeqMonotonic

LEMMA StepHolds == InductiveInv /\ [Next]_vars => InductiveInv'
<1> SUFFICES ASSUME InductiveInv, [Next]_vars PROVE InductiveInv'
  OBVIOUS
<1> DEFINE C == Sextet \cup {Dot}
           P == Sextet \cup {Dot, Percent}
           Tokens == [iat: 0..MaxSecond, exp: 0..(MaxSecond + Lifetime),
                      of: {"none", "other", "CreateToken"}]
<1>1. /\ now \in Api!Clock
      /\ name \in Seq(NameBytes) /\ Len(name) <= MaxName
      /\ token \in Tokens /\ made \in Seq(C) /\ text \in Seq(P)
      /\ MadeAsDated
  BY DEF InductiveInv, TypeOK
<1>2. now.sec \in 0..MaxSecond
  BY <1>1 DEF Api!Clock, Api!Seconds
<1>3. \A t \in Seq(C) : t \in Seq(P)
  BY WiderText
<1> SUFFICES /\ now' \in Api!Clock
             /\ name' \in Seq(NameBytes) /\ Len(name') <= MaxName
             /\ token' \in Tokens /\ made' \in Seq(C) /\ text' \in Seq(P)
             /\ MadeAsDated'
  BY DEF InductiveInv, TypeOK
<1> HIDE DEF C, P, Tokens
<1>4. ASSUME NEW byte \in NameBytes, Type(byte)
      PROVE  /\ now' \in Api!Clock
             /\ name' \in Seq(NameBytes) /\ Len(name') <= MaxName
             /\ token' \in Tokens /\ made' \in Seq(C) /\ text' \in Seq(P)
             /\ MadeAsDated'
  <2>1. /\ token = NoDates /\ Len(name) < MaxName /\ name' = Append(name, byte)
        /\ UNCHANGED <<now, token, made, text>>
    BY <1>4 DEF Type
  <2>2. name' \in Seq(NameBytes) /\ Len(name') = Len(name) + 1
    BY <1>1, <2>1, AppendProperties
  <2>3. Len(name') <= MaxName
    <3>1. Len(name) \in Nat
      BY <1>1, LenProperties
    <3> QED
      BY <2>1, <2>2, <3>1, TokenAssumption
  <2>4. MadeAsDated'
    BY <2>1 DEF MadeAsDated, NoDates
  <2> QED
    BY <1>1, <2>1, <2>2, <2>3, <2>4
<1>5. ASSUME NEW sec \in 0..MaxSecond, Create(sec)
      PROVE  /\ now' \in Api!Clock
             /\ name' \in Seq(NameBytes) /\ Len(name') <= MaxName
             /\ token' \in Tokens /\ made' \in Seq(C) /\ text' \in Seq(P)
             /\ MadeAsDated'
  <2>1. /\ token' = [iat |-> now.sec, exp |-> sec + Lifetime, of |-> "CreateToken"]
        /\ made' = CreateToken(name, now.sec, sec)
        /\ text' = made' /\ UNCHANGED <<now, name>>
    BY <1>5 DEF Create
  <2>2. name \in Names
    BY <1>1, NameTyped
  <2>3. made' \in Seq(C)
    BY <1>2, <2>1, <2>2, CreatedRead DEF C
  <2>4. token' \in Tokens
    <3>1. sec + Lifetime \in 0..(MaxSecond + Lifetime)
      BY TokenAssumption
    <3> QED
      BY <1>2, <2>1, <3>1 DEF Tokens
  <2>5. MadeAsDated'
    <3>1. token'.iat = now.sec /\ token'.exp = sec + Lifetime /\ name' = name
      BY <2>1
    <3> QED
      BY <2>1, <3>1 DEF MadeAsDated
  <2> QED
    BY <1>1, <1>3, <2>1, <2>3, <2>4, <2>5
<1>6. ASSUME NEW b \in Builders, NEW key \in Keys, SignElsewhere(b, key)
      PROVE  /\ now' \in Api!Clock
             /\ name' \in Seq(NameBytes) /\ Len(name') <= MaxName
             /\ token' \in Tokens /\ made' \in Seq(C) /\ text' \in Seq(P)
             /\ MadeAsDated'
  <2>1. /\ token' = OtherDates /\ made' = sign(b, key)
        /\ text' = made' /\ UNCHANGED <<now, name>>
    BY <1>6 DEF SignElsewhere
  <2>2. made' \in Seq(C)
    <3>1. <<b, key>> \in Signed
      BY DEF Signed
    <3> QED
      BY <2>1, <3>1, SignedRead DEF C
  <2>3. token' = [iat |-> 0, exp |-> 0, of |-> "other"]
    BY <2>1 DEF OtherDates, NoDates
  <2>4. token' \in Tokens
    BY <2>3, TokenAssumption DEF Tokens
  <2>5. MadeAsDated'
    BY <2>3 DEF MadeAsDated
  <2> QED
    BY <1>1, <1>3, <2>1, <2>2, <2>4, <2>5
<1>7. ASSUME NEW i \in DOMAIN made, NEW j \in DOMAIN made, i <= j, Cut(i, j)
      PROVE  /\ now' \in Api!Clock
             /\ name' \in Seq(NameBytes) /\ Len(name') <= MaxName
             /\ token' \in Tokens /\ made' \in Seq(C) /\ text' \in Seq(P)
             /\ MadeAsDated'
  <2>1. text' = SubSeq(made, i, j) /\ UNCHANGED <<now, name, token, made>>
    BY <1>7 DEF Cut
  <2>2. DOMAIN made = 1..Len(made) /\ Len(made) \in Nat
    BY <1>1, LenProperties
  <2>3. \A k \in i..j : made[k] \in C
    <3> TAKE k \in i..j
    <3>1. k \in 1..Len(made)
      BY <2>2
    <3> QED
      BY <1>1, <3>1, ElementOfSeq
  <2>4. i \in Int /\ j \in Int
    BY <2>2
  <2>5. text' \in Seq(C)
    BY <2>1, <2>3, <2>4, SubSeqProperties
  <2>6. MadeAsDated'
    BY <1>1, <2>1 DEF MadeAsDated
  <2> QED
    BY <1>1, <1>3, <2>1, <2>5, <2>6
<1>8. ASSUME NEW i \in DOMAIN made, NEW c \in {0, 1, Dot, Percent}, Change(i, c)
      PROVE  /\ now' \in Api!Clock
             /\ name' \in Seq(NameBytes) /\ Len(name') <= MaxName
             /\ token' \in Tokens /\ made' \in Seq(C) /\ text' \in Seq(P)
             /\ MadeAsDated'
  <2>1. text' = [made EXCEPT ![i] = c] /\ UNCHANGED <<now, name, token, made>>
    BY <1>8 DEF Change
  <2>2. c \in P
    BY DEF P, Sextet
  <2>3. made \in Seq(P) /\ i \in 1..Len(made)
    BY <1>1, <1>3, LenProperties
  <2>4. text' \in Seq(P)
    BY <2>1, <2>2, <2>3, ExceptSeq
  <2>5. MadeAsDated'
    BY <1>1, <2>1 DEF MadeAsDated
  <2> QED
    BY <1>1, <2>1, <2>4, <2>5
<1>9. ASSUME TimePasses \/ UNCHANGED vars
      PROVE  /\ now' \in Api!Clock
             /\ name' \in Seq(NameBytes) /\ Len(name') <= MaxName
             /\ token' \in Tokens /\ made' \in Seq(C) /\ text' \in Seq(P)
             /\ MadeAsDated'
  <2>1. UNCHANGED <<name, token, made, text>>
    BY <1>9 DEF TimePasses, vars
  <2>2. now' \in Api!Clock
    BY <1>1, <1>9, ClockStep
  <2>3. MadeAsDated'
    BY <1>1, <2>1 DEF MadeAsDated
  <2> QED
    BY <1>1, <2>1, <2>2, <2>3
<1>10. \/ \E byte \in NameBytes : Type(byte)
       \/ \E sec \in 0..MaxSecond : Create(sec)
       \/ \E b \in Builders, key \in Keys : SignElsewhere(b, key)
       \/ \E i, j \in DOMAIN made : i <= j /\ Cut(i, j)
       \/ \E i \in DOMAIN made, c \in {0, 1, Dot, Percent} : Change(i, c)
       \/ TimePasses \/ UNCHANGED vars
  BY Zenon DEF Next
<1> QED
  BY <1>4, <1>5, <1>6, <1>7, <1>8, <1>9, <1>10

THEOREM TokenTextsTyped == Spec => []InductiveInv
BY InitHolds, StepHolds, PTL DEF Spec

THEOREM TokenTextsTypeOK == Spec => []TypeOK
<1>1. InductiveInv => TypeOK
  BY DEF InductiveInv
<1> QED
  BY <1>1, TokenTextsTyped, PTL

(* A token of CreateToken that nobody has touched is accepted by Verify    *)
(* exactly between the dates it was made for, whatever the name in it, the *)
(* lifetime and the clock: the texts that CreateToken and Verify exchange  *)
(* carry what the handler takes for granted of a token.                    *)
THEOREM VerifiedAsPromised == Spec => []VerifyAsPromised
<1>1. InductiveInv => VerifyAsPromised
  <2> SUFFICES ASSUME InductiveInv, Whole
               PROVE  verify(Verifier, text, now)
                        = IF Api!Valid(token, now) THEN {"ok"} ELSE {"token_expired"}
    BY DEF VerifyAsPromised
  <2>1. token.of = "CreateToken" /\ text = made
    BY DEF Whole
  <2>2. PICK sec \in 0..MaxSecond : /\ made = CreateToken(name, token.iat, sec)
                                    /\ token.exp = sec + Lifetime
    BY <2>1 DEF InductiveInv, MadeAsDated
  <2>3. name \in Names
    BY NameTyped DEF InductiveInv, TypeOK
  <2>4. PICK iat : iat = token.iat
    OBVIOUS
  <2>5. iat \in 0..MaxSecond /\ iat \in Nat /\ sec \in Nat
    BY <2>4, TokenAssumption DEF InductiveInv, TypeOK
  <2>6. now \in [sec: Nat, late: BOOLEAN]
    <3>1. now \in [sec: 0..MaxSecond, late: BOOLEAN]
      BY DEF InductiveInv, TypeOK, Api!Clock, Api!Seconds
    <3> QED
      BY <3>1, TokenAssumption
  <2>7. Authentic({hs256(Secret)}, text) /\ payload_claims(text) = Created(name, iat, sec).payload
    BY <2>1, <2>2, <2>3, <2>4, <2>5, CreatedRead
  <2>8. PICK dates : dates = [iat |-> iat, exp |-> sec + Lifetime]
    OBVIOUS
  <2>9. Verify(text, now) = IF Api!Valid(dates, now) THEN {"ok"} ELSE {"token_expired"}
    <3>1. LET d == [iat |-> iat, exp |-> sec + Lifetime]
          IN  Verify(text, now) = IF Api!Valid(d, now) THEN {"ok"} ELSE {"token_expired"}
      BY ONLY <2>5, <2>6, <2>7, DatesDecide, SMTT(60)
    <3> QED
      BY <2>8, <3>1
  <2>10. Api!Valid(dates, now) <=> Api!Valid(token, now)
    <3>1. dates.iat = token.iat /\ dates.exp = token.exp
      BY <2>2, <2>4, <2>8
    <3> QED
      BY <3>1 DEF Api!Valid, Api!Expired, Api!NotYetIssued
  <2> QED
    BY <2>9, <2>10 DEF Verify
<1> QED
  BY <1>1, TokenTextsTyped, PTL

(* The codecs give back every name, and the two of them agree on it.       *)
THEOREM CodecsGiveBack == Spec => []CodecsAgree
<1>1. InductiveInv => CodecsAgree
  <2> SUFFICES ASSUME InductiveInv PROVE CodecsAgree
    OBVIOUS
  <2>1. name \in Seq(Byte)
    <3>1. name \in Seq(NameBytes) /\ NameBytes \subseteq Byte
      BY TokenAssumption DEF InductiveInv, TypeOK
    <3> QED
      BY <3>1, SeqMonotonic
  <2> QED
    BY <2>1, CodecsGive
<1> QED
  BY <1>1, TokenTextsTyped, PTL
=============================================================================
