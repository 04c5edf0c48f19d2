--------------------------- MODULE UrlTextProofs ----------------------------
(***************************************************************************)
(* Theorems about the texts of UrlText: what the parser makes of any text, *)
(* and what it makes of the one that the builder writes.                   *)
(*                                                                         *)
(* decode undoes encode and decode_plus encode_query, whatever the mask;   *)
(* normalize_path leaves an orderly path alone; and parts that are sound   *)
(* are read back from the text that build_url writes of them (ReadBack).   *)
(* The theorems about IPv6 addresses, and that parse_url and the setters   *)
(* make sound parts, are in UrlObjectProofs.                               *)
(*                                                                         *)
(* UrlText is written with folds and sets of places.  What a fold makes of *)
(* a text is shown along a run of it, by induction over numbers or over    *)
(* sequences; both are lemmas about sets (UpTo, Appendwise), which rest on *)
(* the numbers being well-founded.                                         *)
(***************************************************************************)
EXTENDS UrlObject, SequenceTheorems, FiniteSetTheorems, WellFoundedInduction, TLAPS

-----------------------------------------------------------------------------
(* Folds of sequences from the left: what they go through, step by step.   *)

LEMMA Least ==
  ASSUME NEW T \in SUBSET Nat, T # {}
  PROVE \E n \in T : \A m \in T : n <= m
<1> DEFINE R == {ss \in Nat \X Nat : ss[1] < ss[2]}
<1>1. IsWellFoundedOn(R, Nat)
  BY NatLessThanWellFounded DEF OpToRel
<1>2. \E x \in T : \A y \in T : ~ (<<y, x>> \in R)
  <2> HIDE DEF R
  <2> QED
    BY <1>1, WFMin
<1>3. PICK x \in T : \A y \in T : ~ (<<y, x>> \in R)
  BY <1>2
<1>4. \A y \in T : ~(y < x)
  BY <1>3
<1> QED
  BY <1>4

(* Induction up to a number, for sets.                                     *)
LEMMA Upwards ==
  ASSUME NEW n \in Nat, NEW S, 0 \in S, \A k \in Nat : k < n /\ k \in S => k + 1 \in S
  PROVE  0..n \subseteq S
<1> DEFINE T == (0..n) \ S
<1>1. SUFFICES ASSUME T # {} PROVE FALSE
  OBVIOUS
<1>2. PICK k \in T : \A m \in T : k <= m
  <2>1. T \in SUBSET Nat
    OBVIOUS
  <2> QED
    BY ONLY <1>1, <2>1, Least
<1>3. k - 1 \in Nat /\ k - 1 \notin T /\ k - 1 < n
  BY <1>2
<1>4. k - 1 \in S
  BY <1>2, <1>3
<1>5. k - 1 + 1 \in S /\ k - 1 + 1 = k
  BY <1>2, <1>3, <1>4
<1> QED
  BY <1>2, <1>5

LEMMA MaxIs ==
  ASSUME NEW S \in SUBSET Int, NEW x \in S, \A y \in S : x >= y
  PROVE  Max(S) = x
<1>1. \E z \in S : \A y \in S : z >= y
  OBVIOUS
<1>2. Max(S) \in S /\ \A y \in S : Max(S) >= y
  BY <1>1, Zenon DEF Max
<1>3. Max(S) <= x /\ x <= Max(S) /\ Max(S) \in Int
  BY <1>2
<1> QED
  BY <1>3

LEMMA FiniteMax ==
  ASSUME NEW n \in Nat, NEW s \in SUBSET (1..n), s # {}
  PROVE  \E z \in s : \A y \in s : z >= y
<1> DEFINE T == {n - z : z \in s}
<1>1. T \in SUBSET Nat /\ T # {}
  <2>1. \A z \in s : n - z \in Nat
    OBVIOUS
  <2> QED
    BY <2>1
<1>2. PICK d \in T : \A m \in T : d <= m
  BY ONLY <1>1, Least
<1>3. PICK z \in s : d = n - z
  OBVIOUS
<1>4. \A y \in s : n - z <= n - y
  BY <1>2, <1>3
<1> QED
  BY <1>4

LEMMA LastOfFirst ==
  ASSUME NEW k \in Nat, k # 0
  PROVE  /\ Max(1..k) = k /\ (1..k) \ {k} = 1..(k - 1) /\ 1..k # {}
<1>1. 1..k \in SUBSET Int /\ k \in 1..k /\ \A y \in 1..k : k >= y
  OBVIOUS
<1>2. Max(1..k) = k
  BY ONLY <1>1, MaxIs
<1>3. (1..k) \ {k} = 1..(k - 1) /\ 1..k # {}
  OBVIOUS
<1> QED
  BY <1>2, <1>3

(* What a fold from the left goes through exists.                          *)
IsFold(F, X, base, g, n) ==
  /\ F \in [SUBSET (1..n) -> X]
  /\ \A s \in SUBSET (1..n) :
       F[s] = IF s = {} THEN base ELSE g[<<F[s \ {Max(s)}], Max(s)>>]

LEMMA FoldExists ==
  ASSUME NEW X, NEW base \in X, NEW g \in [X \X Nat -> X], NEW n \in Nat
  PROVE  \E F : IsFold(F, X, base, g, n)
<1> DEFINE Fold(F, m) ==
      \A s \in SUBSET (1..m) :
        F[s] = IF s = {} THEN base ELSE g[<<F[s \ {Max(s)}], Max(s)>>]
           S == {m \in Nat : \E F \in [SUBSET (1..m) -> X] : Fold(F, m)}
<1>1. 0 \in S
  <2> DEFINE F == [s \in SUBSET (1..0) |-> base]
  <2>1. 1..0 = {} /\ F \in [SUBSET (1..0) -> X]
    OBVIOUS
  <2>2. \A s \in SUBSET (1..0) : s = {} /\ F[s] = base
    OBVIOUS
  <2> HIDE DEF F
  <2>3. Fold(F, 0)
    BY <2>2
  <2> QED
    BY <2>1, <2>3
<1>2. ASSUME NEW m \in Nat, m < n, m \in S PROVE m + 1 \in S
  <2>1. PICK F \in [SUBSET (1..m) -> X] : Fold(F, m)
    BY <1>2
  <2> DEFINE l == m + 1
             G == [s \in SUBSET (1..l) |->
                     IF l \in s THEN g[<<F[s \ {l}], l>>] ELSE F[s]]
  <2>2. l \in Nat /\ \A s \in SUBSET (1..l) : s \ {l} \in SUBSET (1..m)
    OBVIOUS
  <2>3. \A s \in SUBSET (1..l) : l \notin s => s \in SUBSET (1..m)
    OBVIOUS
  <2>4. G \in [SUBSET (1..l) -> X]
    <3>1. ASSUME NEW s \in SUBSET (1..l) PROVE G[s] \in X
      <4> HIDE DEF l
      <4>1. CASE l \in s
        <5>1. F[s \ {l}] \in X
          BY <2>2
        <5>2. G[s] = g[<<F[s \ {l}], l>>]
          BY <4>1
        <5> QED
          BY <2>2, <5>1, <5>2
      <4>2. CASE l \notin s
        BY <2>3, <4>2
      <4> QED
        BY <4>1, <4>2
    <3> QED
      BY <3>1
  <2>5. ASSUME NEW s \in SUBSET (1..l)
        PROVE  G[s] = IF s = {} THEN base ELSE g[<<G[s \ {Max(s)}], Max(s)>>]
    <3>1. CASE l \in s
      <4>1. s \in SUBSET Int /\ \A y \in s : l >= y
        OBVIOUS
      <4> HIDE DEF l
      <4>2. Max(s) = l
        BY <3>1, <4>1, MaxIs
      <4>3. G[s] = g[<<F[s \ {l}], l>>]
        BY <3>1
      <4>4. s \ {l} \in SUBSET (1..l) /\ l \notin s \ {l}
        OBVIOUS
      <4>5. G[s \ {l}] = F[s \ {l}]
        BY <4>4
      <4> HIDE DEF G
      <4> QED
        BY <3>1, <4>2, <4>3, <4>5
    <3>2. CASE l \notin s
      <4>1. s \in SUBSET (1..m) /\ s \ {Max(s)} \in SUBSET (1..l) /\ l \notin s \ {Max(s)}
        BY <2>3, <3>2
      <4>2. G[s] = F[s] /\ G[s \ {Max(s)}] = F[s \ {Max(s)}]
        <5> HIDE DEF l
        <5> QED
          BY <3>2, <4>1
      <4>3. F[s] = IF s = {} THEN base ELSE g[<<F[s \ {Max(s)}], Max(s)>>]
        BY <2>1, <4>1
      <4> HIDE DEF G
      <4> QED
        BY <4>2, <4>3
    <3> QED
      BY <3>1, <3>2
  <2>6. Fold(G, l)
    <3> HIDE DEF G, l
    <3> QED
      BY <2>5
  <2>7. l \in S
    <3> HIDE DEF G, l
    <3> QED
      BY <2>2, <2>4, <2>6
  <2> QED
    BY <2>7
<1>3. 0..n \subseteq S
  <2> HIDE DEF S
  <2> QED
    BY <1>1, <1>2, Upwards
<1>4. n \in 0..n
  OBVIOUS
<1>5. PICK F \in [SUBSET (1..n) -> X] : Fold(F, n)
  BY <1>3, <1>4
<1>6. IsFold(F, X, base, g, n)
  BY <1>5 DEF IsFold
<1> QED
  BY <1>6

-----------------------------------------------------------------------------
(* A text and the pieces between the characters that part it: Fields takes *)
(* apart what Joined puts together.                                        *)

(* One more character of a text, as Fields takes it.                       *)
Further(pieces, c, chars) ==
  IF c \in chars THEN Append(pieces, << >>)
  ELSE [pieces EXCEPT ![Len(pieces)] = Append(@, c)]

(* Pieces of a text: one at least, none with a character that ends one.    *)
Pieces(C) == Seq(Seq(C)) \ {<< >>}

LEMMA FurtherTyped ==
  ASSUME NEW C, NEW chars, NEW pieces \in Pieces(C \ chars), NEW c \in C
  PROVE  /\ Further(pieces, c, chars) \in Pieces(C \ chars)
<1> DEFINE D == C \ chars
           n == Len(pieces)
<1>1. pieces \in Seq(Seq(D)) /\ pieces # << >>
  BY DEF Pieces
<1>2. n \in Nat /\ n # 0 /\ n \in 1..n /\ pieces[n] \in Seq(D)
  BY <1>1
<1>3. CASE c \in chars
  <2>1. << >> \in Seq(D)
    OBVIOUS
  <2> HIDE DEF D
  <2>2. Append(pieces, << >>) \in Seq(Seq(D)) /\ Len(Append(pieces, << >>)) = n + 1
    BY <1>1, <2>1
  <2> QED
    BY <1>2, <1>3, <2>2 DEF Further, Pieces, D
<1>4. CASE c \notin chars
  <2>1. Append(pieces[n], c) \in Seq(D)
    BY <1>2, <1>4
  <2> HIDE DEF D
  <2>2. /\ [pieces EXCEPT ![n] = Append(@, c)] \in Seq(Seq(D))
        /\ Len([pieces EXCEPT ![n] = Append(@, c)]) = n
    BY <1>1, <1>2, <2>1
  <2> HIDE DEF n
  <2>3. [pieces EXCEPT ![n] = Append(@, c)] # << >>
    BY <1>2, <2>2
  <2> QED
    BY <1>4, <2>2, <2>3 DEF Further, Pieces, D, n
<1> QED
  BY <1>3, <1>4

(* What Fields goes through.                                               *)
LEMMA FieldsRun ==
  ASSUME NEW C, NEW chars, NEW t \in Seq(C)
  PROVE  \E r \in [0..Len(t) -> Pieces(C \ chars)] :
           /\ r[0] = << << >> >>
           /\ \A k \in 1..Len(t) : r[k] = Further(r[k - 1], t[k], chars)
           /\ Fields(t, chars) = r[Len(t)]
<1> DEFINE X == Pieces(C \ chars)
           n == Len(t)
           base == << << >> >>
           P(F) == F = [s \in SUBSET DOMAIN t |->
                          IF s = {} THEN base
                          ELSE Further(F[s \ {Max(s)}], t[Max(s)], chars)]
           g == [p \in X \X Nat |-> IF p[2] \in 1..n THEN Further(p[1], t[p[2]], chars)
                                    ELSE p[1]]
<1>1. n \in Nat /\ DOMAIN t = 1..n /\ \A k \in 1..n : t[k] \in C
  BY LenProperties, ElementOfSeq
<1>2. base \in X
  BY DEF Pieces
<1>3. g \in [X \X Nat -> X]
  <2>1. ASSUME NEW p \in X \X Nat PROVE g[p] \in X
    <3>1. p[1] \in X
      OBVIOUS
    <3>2. CASE p[2] \in 1..n
      <4>1. Further(p[1], t[p[2]], chars) \in X
        BY <1>1, <3>1, <3>2, FurtherTyped
      <4> QED
        BY <3>2, <4>1
    <3> QED
      BY <3>1, <3>2
  <2> QED
    BY <2>1
<1>4. \A x \in X, k \in 1..n : g[<<x, k>>] = Further(x, t[k], chars)
  BY <1>1
<1>5. \E F : P(F)
  <2> HIDE DEF g, X, base
  <2>1. PICK F \in [SUBSET (1..n) -> X] :
          \A s \in SUBSET (1..n) :
            F[s] = IF s = {} THEN base ELSE g[<<F[s \ {Max(s)}], Max(s)>>]
    <3>1. \E F : IsFold(F, X, base, g, n)
      BY <1>1, <1>2, <1>3, FoldExists
    <3> QED
      BY <3>1 DEF IsFold
  <2>2. ASSUME NEW s \in SUBSET DOMAIN t
        PROVE  F[s] = IF s = {} THEN base ELSE Further(F[s \ {Max(s)}], t[Max(s)], chars)
    <3>1. CASE s # {}
      <4>1. Max(s) \in s
        <5>1. \E z \in s : \A y \in s : z >= y
          BY <1>1, <3>1, FiniteMax
        <5> QED
          BY <5>1, Zenon DEF Max
      <4>2. Max(s) \in 1..n /\ s \ {Max(s)} \in SUBSET (1..n)
        BY <1>1, <4>1
      <4>3. F[s \ {Max(s)}] \in X
        BY <4>2
      <4> QED
        BY <1>1, <1>4, <2>1, <3>1, <4>2, <4>3
    <3>2. CASE s = {}
      BY <1>1, <2>1, <3>2
    <3> QED
      BY <3>1, <3>2
  <2>3. F = [s \in SUBSET DOMAIN t |-> F[s]]
    BY <1>1
  <2>4. P(F)
    BY <2>2, <2>3
  <2> QED
    BY <2>4
<1> DEFINE H == CHOOSE F : P(F)
<1>6. P(H)
  <2> HIDE DEF P
  <2> QED
    BY <1>5, Zenon
<1>7. Fields(t, chars) = H[DOMAIN t]
  BY Zenon DEF Fields, FoldLeft, MapThenFoldSet, Further
<1> HIDE DEF H
<1> DEFINE r == [k \in 0..n |-> H[1..k]]
<1>8. r[0] = base
  <2>1. 1..0 = {} /\ {} \in SUBSET DOMAIN t
    OBVIOUS
  <2>2. H[{}] = base
    BY <1>6, <2>1
  <2> QED
    BY <1>1, <2>1, <2>2
<1>9. ASSUME NEW k \in 1..n PROVE r[k] = Further(r[k - 1], t[k], chars)
  <2>1. k \in Nat /\ k # 0 /\ 1..k \in SUBSET DOMAIN t /\ k \in 0..n /\ k - 1 \in 0..n
    BY <1>1
  <2>2. Max(1..k) = k /\ (1..k) \ {k} = 1..(k - 1) /\ 1..k # {}
    BY <2>1, LastOfFirst
  <2>3. H[1..k] = Further(H[1..(k - 1)], t[k], chars)
    BY <1>6, <2>1, <2>2
  <2> QED
    BY <2>1, <2>3
<1>10. r \in [0..n -> X]
  <2> DEFINE S == {k \in 0..n : r[k] \in X}
  <2>1. 0 \in S
    BY <1>1, <1>2, <1>8
  <2>2. ASSUME NEW k \in Nat, k < n, k \in S PROVE k + 1 \in S
    <3>1. k + 1 \in 1..n /\ k + 1 - 1 = k /\ k + 1 \in 0..n
      BY <1>1, <2>2
    <3> DEFINE l == k + 1
    <3>2. r[k] \in X /\ t[l] \in C
      BY <1>1, <2>2, <3>1
    <3>3. r[l] = Further(r[k], t[l], chars)
      <4>1. l \in 1..n /\ l - 1 = k
        BY <3>1
      <4> HIDE DEF l
      <4>2. r[l] = Further(r[l - 1], t[l], chars)
        BY <1>9, <4>1
      <4> QED
        BY <4>1, <4>2
    <3> HIDE DEF r, l
    <3>4. r[l] \in X
      BY <3>2, <3>3, FurtherTyped
    <3> QED
      BY <3>1, <3>4 DEF l
  <2>3. 0..n \subseteq S
    <3> HIDE DEF S
    <3> QED
      BY <1>1, <2>1, <2>2, Upwards
  <2> HIDE DEF X
  <2> QED
    BY <2>3
<1>11. Fields(t, chars) = r[n]
  BY <1>1, <1>7
<1> HIDE DEF r
<1> QED
  BY <1>8, <1>9, <1>10, <1>11

Longer(a, v, c) == a \o Append(v, c)

LEMMA AppendLast ==
  ASSUME NEW C, NEW a \in Seq(C), NEW v \in Seq(C), NEW c \in C
  PROVE  Append(a \o v, c) = Longer(a, v, c)
<1>1. a \o v \in Seq(C) /\ <<c>> \in Seq(C)
  BY ConcatProperties
<1>2. Append(a \o v, c) = (a \o v) \o <<c>> /\ Append(v, c) = v \o <<c>>
  BY <1>1, AppendIsConcat
<1>3. (a \o v) \o <<c>> = a \o (v \o <<c>>)
  BY <1>1, ConcatAssociative
<1> QED
  BY <1>2, <1>3 DEF Longer

LEMMA FieldsTyped ==
  ASSUME NEW C, NEW chars, NEW t \in Seq(C)
  PROVE  Fields(t, chars) \in Pieces(C \ chars)
<1>1. PICK r \in [0..Len(t) -> Pieces(C \ chars)] :
           /\ r[0] = << << >> >>
           /\ \A k \in 1..Len(t) : r[k] = Further(r[k - 1], t[k], chars)
           /\ Fields(t, chars) = r[Len(t)]
  BY FieldsRun
<1>2. Len(t) \in 0..Len(t)
  BY LenProperties
<1> QED
  BY <1>1, <1>2

LEMMA FieldsOfNone ==
  ASSUME NEW chars
  PROVE  Fields(<< >>, chars) = << << >> >>
<1>1. << >> \in Seq({}) /\ Len(<< >>) = 0
  OBVIOUS
<1>2. PICK C, t : C = {} /\ t = << >>
  OBVIOUS
<1>3. t \in Seq(C)
  BY <1>1, <1>2
<1>4. PICK r \in [0..Len(t) -> Pieces(C \ chars)] :
           /\ r[0] = << << >> >>
           /\ \A k \in 1..Len(t) : r[k] = Further(r[k - 1], t[k], chars)
           /\ Fields(t, chars) = r[Len(t)]
  BY <1>3, FieldsRun
<1> QED
  BY ONLY <1>1, <1>2, <1>4

(* Fields takes one character after the other.                             *)
LEMMA FieldsFurther ==
  ASSUME NEW C, NEW chars, NEW t \in Seq(C), NEW c \in C
  PROVE  Fields(Append(t, c), chars) = Further(Fields(t, chars), c, chars)
<1> DEFINE n == Len(t)
           u == Append(t, c)
<1>1. /\ n \in Nat /\ u \in Seq(C) /\ Len(u) = n + 1 /\ u[n + 1] = c
      /\ \A k \in 1..n : u[k] = t[k]
  BY AppendProperties, LenProperties
<1>2. PICK r \in [0..n -> Pieces(C \ chars)] :
           /\ r[0] = << << >> >>
           /\ \A k \in 1..n : r[k] = Further(r[k - 1], t[k], chars)
           /\ Fields(t, chars) = r[n]
  BY FieldsRun
<1> HIDE DEF u
<1>3. PICK q \in [0..Len(u) -> Pieces(C \ chars)] :
           /\ q[0] = << << >> >>
           /\ \A k \in 1..Len(u) : q[k] = Further(q[k - 1], u[k], chars)
           /\ Fields(u, chars) = q[Len(u)]
  BY <1>1, FieldsRun
<1> HIDE DEF n
<1> DEFINE S == {k \in 0..n : q[k] = r[k]}
<1>4. 0 \in S
  BY <1>1, <1>2, <1>3
<1>5. ASSUME NEW k \in Nat, k < n, k \in S PROVE k + 1 \in S
  <2> DEFINE l == k + 1
  <2>1. l \in 1..n /\ l - 1 = k /\ l \in 1..Len(u) /\ l \in 0..n
    BY <1>1, <1>5
  <2> HIDE DEF l
  <2>2. q[l] = Further(q[l - 1], u[l], chars)
    BY <1>3, <2>1
  <2>3. r[l] = Further(r[l - 1], t[l], chars)
    BY <1>2, <2>1
  <2>4. q[l] = r[l]
    BY <1>1, <1>5, <2>1, <2>2, <2>3
  <2>5. l \in S
    BY <2>1, <2>4
  <2> QED
    BY <2>5 DEF l
<1>6. 0..n \subseteq S
  <2> HIDE DEF S
  <2> QED
    BY <1>1, <1>4, <1>5, Upwards
<1>7. q[n] = r[n]
  BY <1>1, <1>6
<1>8. q[n + 1] = Further(q[n], u[n + 1], chars)
  <2> DEFINE l == n + 1
  <2>1. l \in 1..Len(u) /\ l - 1 = n
    BY <1>1
  <2> HIDE DEF l
  <2>2. q[l] = Further(q[l - 1], u[l], chars)
    BY <1>3, <2>1
  <2> QED
    BY <2>1, <2>2 DEF l
<1> QED
  BY <1>1, <1>2, <1>3, <1>7, <1>8 DEF u

(* The last piece grows by a text in which no piece ends.                  *)
Grown(pieces, u) == [pieces EXCEPT ![Len(pieces)] = @ \o u]

LEMMA FieldsGrow ==
  ASSUME NEW C, NEW chars, NEW t \in Seq(C), NEW u \in Seq(C \ chars)
  PROVE  Fields(t \o u, chars) = Grown(Fields(t, chars), u)
<1> DEFINE n == Len(u)
           f == Fields(t, chars)
           S == {k \in 0..n : Fields(t \o SubSeq(u, 1, k), chars)
                                = Grown(f, SubSeq(u, 1, k))}
<1>1. n \in Nat /\ f \in Seq(Seq(C)) /\ f # << >> /\ Len(f) \in 1..Len(f)
  <2>1. f \in Pieces(C \ chars)
    BY FieldsTyped
  <2>2. f \in Seq(Seq(C \ chars)) /\ f # << >>
    BY <2>1 DEF Pieces
  <2>3. Seq(C \ chars) \subseteq Seq(C)
    BY SeqMonotonic
  <2>4. Seq(Seq(C \ chars)) \subseteq Seq(Seq(C))
    BY <2>3, SeqMonotonic
  <2> HIDE DEF f
  <2> QED
    BY <2>2, <2>4
<1>2. 0 \in S
  <2>1. SubSeq(u, 1, 0) = << >> /\ t \o << >> = t
    OBVIOUS
  <2>2. Grown(f, << >>) = f
    <3>1. f[Len(f)] \in Seq(C)
      BY <1>1
    <3>2. f[Len(f)] \o << >> = f[Len(f)]
      BY <3>1
    <3> HIDE DEF f
    <3> QED
      BY <1>1, <3>2 DEF Grown
  <2>3. Fields(t \o SubSeq(u, 1, 0), chars) = Grown(f, SubSeq(u, 1, 0))
    BY <2>1, <2>2
  <2> HIDE DEF f
  <2>4. 0 \in 0..n
    BY <1>1
  <2> QED
    BY <2>3, <2>4
<1>3. ASSUME NEW k \in Nat, k < n, k \in S PROVE k + 1 \in S
  <2> DEFINE v == SubSeq(u, 1, k)
             w == SubSeq(u, 1, k + 1)
             c == u[k + 1]
  <2>1. /\ v \in Seq(C \ chars) /\ c \in C \ chars /\ w = Append(v, c)
    <3>1. k + 1 \in 1..n
      BY <1>1, <1>3
    <3>2. c \in C \ chars
      BY <3>1
    <3>3. w = Append(v, c) /\ v \in Seq(C \ chars)
      BY <1>1, <3>1
    <3> QED
      BY <3>2, <3>3
  <2>2. v \in Seq(C) /\ c \in C /\ c \notin chars
    <3>1. Seq(C \ chars) \subseteq Seq(C)
      BY SeqMonotonic
    <3> HIDE DEF v, c
    <3> QED
      BY <2>1, <3>1
  <2>3. Fields(t \o v, chars) = Grown(f, v)
    BY <1>3
  <2> HIDE DEF v, w, c, n, S
  <2>4. t \o w = Append(t \o v, c) /\ t \o v \in Seq(C)
    BY <2>1, <2>2
  <2>5. Fields(t \o w, chars) = Further(Grown(f, v), c, chars)
    <3>1. Fields(Append(t \o v, c), chars) = Further(Fields(t \o v, chars), c, chars)
      BY <2>2, <2>4, FieldsFurther
    <3> QED
      BY <2>3, <2>4, <3>1
  <2>6. Further(Grown(f, v), c, chars) = Grown(f, w)
    <3> DEFINE m == Len(f)
    <3>1. m \in 1..m /\ f[m] \in Seq(C)
      BY <1>1
    <3> HIDE DEF f
    <3>2. Len(Grown(f, v)) = m /\ Grown(f, v) = [f EXCEPT ![m] = f[m] \o v]
      BY <1>1 DEF Grown
    <3>3. Further(Grown(f, v), c, chars) = [f EXCEPT ![m] = Append(f[m] \o v, c)]
      BY <1>1, <2>2, <3>1, <3>2 DEF Further
    <3>4. Append(f[m] \o v, c) = f[m] \o w
      <4>1. PICK b : b = f[m]
        OBVIOUS
      <4>2. b \in Seq(C)
        BY <3>1, <4>1
      <4>3. Append(b \o v, c) = Longer(b, v, c)
        BY <2>2, <4>2, AppendLast
      <4> QED
        BY <2>1, <4>1, <4>3 DEF Longer
    <3> QED
      BY <3>3, <3>4 DEF Grown
  <2>7. k + 1 \in 0..n
    BY <1>1, <1>3
  <2> QED
    BY <2>5, <2>6, <2>7 DEF S, w
<1>4. 0..n \subseteq S
  <2> HIDE DEF S
  <2> QED
    BY <1>1, <1>2, <1>3, Upwards
<1>5. n \in S
  BY <1>1, <1>4
<1>6. SubSeq(u, 1, n) = u
  OBVIOUS
<1> QED
  BY <1>5, <1>6

(* A text, a character that ends a piece and a text without such.          *)
Glued(t, glue, u) == t \o <<glue>> \o u
GluedOn(C, chars, t, glue, u) ==
  /\ Glued(t, glue, u) \in Seq(C)
  /\ Fields(Glued(t, glue, u), chars) = Append(Fields(t, chars), u)

LEMMA FieldsGlued ==
  ASSUME NEW C, NEW chars, NEW t \in Seq(C), NEW glue \in C, glue \in chars,
         NEW u \in Seq(C \ chars)
  PROVE  GluedOn(C, chars, t, glue, u)
<1>1. t \o <<glue>> = Append(t, glue) /\ Append(t, glue) \in Seq(C)
  OBVIOUS
<1>2. Fields(Append(t, glue), chars) = Append(Fields(t, chars), << >>)
  BY FieldsFurther DEF Further
<1>3. Fields(Append(t, glue) \o u, chars) = Grown(Fields(Append(t, glue), chars), u)
  <2>1. PICK a : a = Append(t, glue)
    OBVIOUS
  <2>2. a \in Seq(C)
    BY <1>1, <2>1
  <2>3. Fields(a \o u, chars) = Grown(Fields(a, chars), u)
    BY <2>2, FieldsGrow
  <2> QED
    BY <2>1, <2>3
<1>4. PICK f : f = Fields(t, chars)
  OBVIOUS
<1>5. f \in Seq(Seq(C))
  <2>1. f \in Seq(Seq(C \ chars))
    BY <1>4, FieldsTyped DEF Pieces
  <2>2. Seq(C \ chars) \subseteq Seq(C)
    BY SeqMonotonic
  <2>3. Seq(Seq(C \ chars)) \subseteq Seq(Seq(C))
    BY <2>2, SeqMonotonic
  <2> QED
    BY <2>1, <2>3
<1>6. u \in Seq(C)
  <2>1. Seq(C \ chars) \subseteq Seq(C)
    BY SeqMonotonic
  <2> QED
    BY <2>1
<1>7. Grown(Append(f, << >>), u) = Append(f, u)
  <2>1. << >> \o u = u /\ << >> \in Seq(C)
    OBVIOUS
  <2>2. PICK e, m : e = Append(f, << >>) /\ m = Len(f)
    OBVIOUS
  <2>3. /\ e \in Seq(Seq(C)) /\ Len(e) = m + 1 /\ e[m + 1] = << >> /\ m \in Nat
        /\ \A i \in 1..m : e[i] = f[i]
    BY <1>5, <2>1, <2>2, AppendProperties, LenProperties
  <2>4. Grown(e, u) = [e EXCEPT ![m + 1] = u]
    BY <2>1, <2>3 DEF Grown
  <2>5. PICK x, y : x = [e EXCEPT ![m + 1] = u] /\ y = Append(f, u)
    OBVIOUS
  <2>6. /\ x \in Seq(Seq(C)) /\ Len(x) = m + 1 /\ x[m + 1] = u
        /\ \A i \in 1..m : x[i] = f[i]
    BY <1>6, <2>3, <2>5
  <2>7. /\ y \in Seq(Seq(C)) /\ Len(y) = m + 1 /\ y[m + 1] = u
        /\ \A i \in 1..m : y[i] = f[i]
    BY <1>5, <1>6, <2>2, <2>5, AppendProperties
  <2>8. \A i \in 1..(m + 1) : x[i] = y[i]
    <3> TAKE i \in 1..(m + 1)
    <3>1. CASE i = m + 1
      BY <2>6, <2>7, <3>1
    <3>2. CASE i # m + 1
      <4>1. i \in 1..m
        BY <2>3, <3>2
      <4> QED
        BY <2>6, <2>7, <4>1
    <3> QED
      BY <3>1, <3>2
  <2>9. x = y
    BY <2>6, <2>7, <2>8, SeqEqual
  <2> QED
    BY <2>2, <2>4, <2>5, <2>9
<1>8. Append(t, glue) \o u \in Seq(C)
  BY <1>1, <1>6
<1> QED
  BY <1>1, <1>2, <1>3, <1>4, <1>7, <1>8 DEF Glued, GluedOn

LEMMA NothingJoined ==
  ASSUME NEW glue
  PROVE  Joined(<< >>, glue) = << >>
<1> DEFINE none == [i \in DOMAIN << >> |-> i]
           glued(s, g) == IF none[Max(s)] = 1 THEN << >>[1]
                          ELSE g[s \ {Max(s)}] \o glue \o << >>[none[Max(s)]]
           P(g) == g = [s \in SUBSET DOMAIN none |-> IF s = {} THEN << >> ELSE glued(s, g)]
<1>1. DOMAIN none = {}
  OBVIOUS
<1>2. P([s \in SUBSET DOMAIN none |-> << >>])
  <2>1. \A s \in SUBSET DOMAIN none : s = {}
    BY <1>1
  <2> QED
    BY <2>1
<1>3. P(CHOOSE g : P(g))
  <2> HIDE DEF P
  <2> QED
    BY <1>2, Zenon
<1>4. (CHOOSE g : P(g))[{}] = << >>
  <2>1. {} \in SUBSET DOMAIN none
    OBVIOUS
  <2> QED
    BY <1>3, <2>1
<1>5. Joined(<< >>, glue) = (CHOOSE g : P(g))[DOMAIN none]
  BY Zenon DEF Joined, FoldLeftDomain, FoldLeft, MapThenFoldSet
<1> QED
  BY <1>1, <1>4, <1>5

LEMMA GluedTyped ==
  ASSUME NEW C, NEW t \in Seq(C), NEW glue \in C, NEW u \in Seq(C)
  PROVE  /\ Glued(t, glue, u) \in Seq(C)
         /\ t # << >> => Glued(t, glue, u) # << >> /\ Glued(t, glue, u)[1] = t[1]
<1>1. /\ t \o <<glue>> \in Seq(C) /\ Len(t \o <<glue>>) = Len(t) + 1
      /\ \A i \in 1..Len(t) : (t \o <<glue>>)[i] = t[i]
  OBVIOUS
<1>2. PICK v : v = t \o <<glue>>
  OBVIOUS
<1>3. v \in Seq(C) /\ Len(v) = Len(t) + 1 /\ \A i \in 1..Len(t) : v[i] = t[i]
  BY <1>1, <1>2
<1>4. /\ v \o u \in Seq(C) /\ Len(v \o u) = Len(v) + Len(u)
      /\ \A i \in 1..(Len(v) + Len(u)) :
           (v \o u)[i] = IF i <= Len(v) THEN v[i] ELSE u[i - Len(v)]
  BY <1>3, ConcatProperties
<1>5. ASSUME t # << >> PROVE v \o u # << >> /\ (v \o u)[1] = t[1]
  <2>1. Len(t) \in Nat /\ Len(t) # 0 /\ Len(u) \in Nat
    BY <1>5, LenProperties, EmptySeq
  <2>2. 1 \in 1..(Len(v) + Len(u)) /\ 1 <= Len(v) /\ 1 \in 1..Len(t) /\ Len(v \o u) # 0
    BY <1>3, <1>4, <2>1
  <2>3. (v \o u)[1] = t[1]
    BY <1>3, <1>4, <2>2
  <2> QED
    BY <2>2, <2>3
<1> QED
  BY <1>2, <1>4, <1>5 DEF Glued

(* What Joined goes through.                                               *)
LEMMA JoinedRun ==
  ASSUME NEW C, NEW glue \in C, NEW es \in Seq(Seq(C))
  PROVE  \E r \in [0..Len(es) -> Seq(C)] :
           /\ r[0] = << >>
           /\ \A k \in 1..Len(es) :
                r[k] = IF k = 1 THEN es[1] ELSE Glued(r[k - 1], glue, es[k])
           /\ Joined(es, <<glue>>) = r[Len(es)]
<1> DEFINE X == Seq(C)
           n == Len(es)
           next(x, k) == IF k = 1 THEN es[1] ELSE Glued(x, glue, es[k])
           d == [i \in DOMAIN es |-> i]
           P(F) == F = [s \in SUBSET DOMAIN d |->
                          IF s = {} THEN << >>
                          ELSE next(F[s \ {Max(s)}], d[Max(s)])]
           g == [p \in X \X Nat |-> IF p[2] \in 1..n THEN next(p[1], p[2]) ELSE p[1]]
<1>1. n \in Nat /\ DOMAIN es = 1..n /\ \A k \in 1..n : es[k] \in X
  BY LenProperties, ElementOfSeq
<1>2. << >> \in X
  OBVIOUS
<1>3. \A x \in X, k \in 1..n : next(x, k) \in X
  BY <1>1, GluedTyped
<1> HIDE DEF next
<1>4. g \in [X \X Nat -> X]
  <2> HIDE DEF X
  <2> QED
    BY <1>3
<1>5. \A x \in X, k \in 1..n : g[<<x, k>>] = next(x, k)
  BY <1>1
<1>6. DOMAIN d = 1..n /\ \A k \in 1..n : d[k] = k
  BY <1>1
<1> HIDE DEF d
<1>7. \E F : P(F)
  <2> HIDE DEF g, X
  <2>1. PICK F \in [SUBSET (1..n) -> X] :
          \A s \in SUBSET (1..n) :
            F[s] = IF s = {} THEN << >> ELSE g[<<F[s \ {Max(s)}], Max(s)>>]
    <3>1. \E F : IsFold(F, X, << >>, g, n)
      BY <1>1, <1>2, <1>4, FoldExists
    <3> QED
      BY <3>1 DEF IsFold
  <2>2. ASSUME NEW s \in SUBSET DOMAIN d
        PROVE  F[s] = IF s = {} THEN << >> ELSE next(F[s \ {Max(s)}], d[Max(s)])
    <3>1. CASE s # {}
      <4>1. Max(s) \in s
        <5>1. \E z \in s : \A y \in s : z >= y
          BY <1>1, <1>6, <3>1, FiniteMax
        <5> QED
          BY <5>1, Zenon DEF Max
      <4>2. Max(s) \in 1..n /\ s \ {Max(s)} \in SUBSET (1..n)
        BY <1>6, <4>1
      <4>3. F[s \ {Max(s)}] \in X
        BY <4>2
      <4> QED
        BY <1>5, <1>6, <2>1, <3>1, <4>2, <4>3
    <3>2. CASE s = {}
      BY <1>6, <2>1, <3>2
    <3> QED
      BY <3>1, <3>2
  <2>3. F = [s \in SUBSET DOMAIN d |-> F[s]]
    BY <1>6
  <2>4. P(F)
    BY <2>2, <2>3
  <2> QED
    BY <2>4
<1> DEFINE H == CHOOSE F : P(F)
<1>8. P(H)
  <2> HIDE DEF P
  <2> QED
    BY <1>7, Zenon
<1>9. Joined(es, <<glue>>) = H[DOMAIN d]
  BY Zenon DEF Joined, FoldLeftDomain, FoldLeft, MapThenFoldSet, Glued, next, d
<1> HIDE DEF H
<1> DEFINE r == [k \in 0..n |-> H[1..k]]
<1>10. r[0] = << >>
  <2>1. 1..0 = {} /\ {} \in SUBSET DOMAIN d
    OBVIOUS
  <2>2. H[{}] = << >>
    BY <1>8, <2>1
  <2> QED
    BY <1>1, <2>1, <2>2
<1>11. ASSUME NEW k \in 1..n PROVE r[k] = next(r[k - 1], k)
  <2>1. k \in Nat /\ k # 0 /\ 1..k \in SUBSET DOMAIN d /\ k \in 0..n /\ k - 1 \in 0..n
    BY <1>1, <1>6
  <2>2. Max(1..k) = k /\ (1..k) \ {k} = 1..(k - 1) /\ 1..k # {}
    BY <2>1, LastOfFirst
  <2>3. H[1..k] = next(H[1..(k - 1)], d[k])
    BY <1>8, <2>1, <2>2
  <2> QED
    BY <1>6, <2>1, <2>3
<1>12. r \in [0..n -> X]
  <2> DEFINE S == {k \in 0..n : r[k] \in X}
  <2>1. 0 \in S
    <3> HIDE DEF r, X
    <3> QED
      BY <1>1, <1>2, <1>10
  <2>2. ASSUME NEW k \in Nat, k < n, k \in S PROVE k + 1 \in S
    <3> DEFINE l == k + 1
    <3>1. l \in 1..n /\ l - 1 = k /\ l \in 0..n
      BY <1>1, <2>2
    <3>2. r[k] \in X
      BY <2>2
    <3> HIDE DEF l
    <3>3. r[l] = next(r[l - 1], l)
      BY <1>11, <3>1
    <3> HIDE DEF r, X
    <3>4. r[l] \in X
      BY <1>3, <3>1, <3>2, <3>3
    <3> QED
      BY <3>1, <3>4 DEF l
  <2>3. 0..n \subseteq S
    <3> HIDE DEF S
    <3> QED
      BY <1>1, <2>1, <2>2, Upwards
  <2> HIDE DEF X
  <2> QED
    BY <2>3
<1>13. Joined(es, <<glue>>) = r[n]
  BY <1>1, <1>6, <1>9
<1> HIDE DEF r
<1> QED
  BY <1>10, <1>11, <1>12, <1>13 DEF next

(* Pieces that are joined are the fields of the text; and it starts as the *)
(* first of them.                                                          *)
LEMMA FieldsOfJoined ==
  ASSUME NEW C, NEW glue \in C, NEW es \in Seq(Seq(C \ {glue})), es # << >>
  PROVE  /\ Joined(es, <<glue>>) \in Seq(C)
         /\ Fields(Joined(es, <<glue>>), {glue}) = es
         /\ es[1] # << >> => ~Starts(Joined(es, <<glue>>), glue)
         /\ Len(es) = 1 => Joined(es, <<glue>>) = es[1]
<1> DEFINE n == Len(es)
<1>1. /\ n \in Nat /\ n # 0
      /\ \A k \in 1..n : es[k] \in Seq(C \ {glue}) /\ es[k] \in Seq(C)
      /\ es \in Seq(Seq(C))
  <2>1. Seq(C \ {glue}) \subseteq Seq(C)
    BY SeqMonotonic
  <2>2. Seq(Seq(C \ {glue})) \subseteq Seq(Seq(C))
    BY <2>1, SeqMonotonic
  <2>3. n \in Nat /\ n # 0
    BY LenProperties, EmptySeq
  <2>4. \A k \in 1..n : es[k] \in Seq(C \ {glue})
    BY ElementOfSeq
  <2> QED
    BY <2>1, <2>2, <2>3, <2>4
<1>2. PICK r \in [0..n -> Seq(C)] :
           /\ r[0] = << >>
           /\ \A k \in 1..n :
                r[k] = IF k = 1 THEN es[1] ELSE Glued(r[k - 1], glue, es[k])
           /\ Joined(es, <<glue>>) = r[n]
  BY <1>1, JoinedRun
<1> HIDE DEF n
<1> DEFINE S == {k \in 0..(n - 1) :
                   /\ Fields(r[k + 1], {glue}) = SubSeq(es, 1, k + 1)
                   /\ es[1] # << >> => r[k + 1] # << >> /\ r[k + 1][1] = es[1][1]}
<1>3. r[1] = es[1] /\ 1 \in 1..n
  BY <1>1, <1>2
<1>4. 0 \in S
  <2>1. << >> \in Seq(C) /\ << >> \o es[1] = es[1]
    BY <1>1, <1>3
  <2>2. Fields(<< >> \o es[1], {glue}) = Grown(Fields(<< >>, {glue}), es[1])
    <3>1. PICK t, u : t = << >> /\ u = es[1]
      OBVIOUS
    <3>2. t \in Seq(C) /\ u \in Seq(C \ {glue})
      BY <1>1, <1>3, <3>1
    <3>3. Fields(t \o u, {glue}) = Grown(Fields(t, {glue}), u)
      BY <3>2, FieldsGrow
    <3> QED
      BY <3>1, <3>3
  <2>3. Grown(<< << >> >>, es[1]) = <<es[1]>>
    BY <2>1 DEF Grown
  <2>4. SubSeq(es, 1, 1) = <<es[1]>>
    <3>1. SubSeq(es, 1, 0) = << >>
      OBVIOUS
    <3>2. SubSeq(es, 1, 1) = Append(SubSeq(es, 1, 0), es[1])
      BY <1>1, <1>3 DEF n
    <3>3. PICK e : e = es[1]
      OBVIOUS
    <3>4. Append(<< >>, e) = <<e>>
      OBVIOUS
    <3> QED
      BY ONLY <3>1, <3>2, <3>3, <3>4
  <2>5. Fields(r[1], {glue}) = SubSeq(es, 1, 1)
    BY <1>3, <2>1, <2>2, <2>3, <2>4, FieldsOfNone
  <2>6. 0 \in 0..(n - 1) /\ 0 + 1 = 1
    BY <1>1
  <2>7. Fields(r[0 + 1], {glue}) = SubSeq(es, 1, 0 + 1) /\ r[0 + 1] = es[1]
    BY ONLY <1>3, <2>5, <2>6
  <2> QED
    BY ONLY <2>6, <2>7
<1>5. ASSUME NEW k \in Nat, k < n - 1, k \in S PROVE k + 1 \in S
  <2> DEFINE l == k + 1
  <2>1. /\ l \in 1..n /\ l + 1 \in 1..n /\ l + 1 # 1 /\ l + 1 - 1 = l /\ l \in 0..(n - 1)
        /\ l + 1 \in 0..n /\ l \in 0..n
    <3>1. n \in Nat /\ l \in Nat /\ l < n /\ l # 0 /\ l = k + 1
      BY <1>1, <1>5
    <3> HIDE DEF l, n
    <3> QED
      BY ONLY <3>1
  <2>2. /\ Fields(r[l], {glue}) = SubSeq(es, 1, l)
        /\ es[1] # << >> => r[l] # << >> /\ r[l][1] = es[1][1]
    BY <1>5
  <2> HIDE DEF l
  <2>3. PICK m : m = l + 1
    OBVIOUS
  <2>4. r[m] = Glued(r[l], glue, es[m])
    <3>1. m \in 1..n /\ m # 1 /\ m - 1 = l
      BY <2>1, <2>3
    <3>2. r[m] = IF m = 1 THEN es[1] ELSE Glued(r[m - 1], glue, es[m])
      BY <1>2, <3>1
    <3> QED
      BY <3>1, <3>2
  <2>5. r[l] \in Seq(C) /\ es[m] \in Seq(C \ {glue}) /\ es[m] \in Seq(C)
    BY <1>1, <1>2, <2>1, <2>3
  <2>6. Fields(r[m], {glue}) = Append(SubSeq(es, 1, l), es[m])
    <3>1. glue \in C \cap {glue}
      OBVIOUS
    <3>2. Fields(Glued(r[l], glue, es[m]), {glue}) = Append(Fields(r[l], {glue}), es[m])
      <4>1. PICK t, u, ends : t = r[l] /\ u = es[m] /\ ends = {glue}
        OBVIOUS
      <4>2. t \in Seq(C) /\ u \in Seq(C \ ends) /\ glue \in C /\ glue \in ends
        BY <2>5, <3>1, <4>1
      <4>3. GluedOn(C, ends, t, glue, u)
        BY <4>2, FieldsGlued
      <4> QED
        BY <4>1, <4>3 DEF GluedOn
    <3> QED
      BY <2>2, <2>4, <3>2
  <2>7. Append(SubSeq(es, 1, l), es[m]) = SubSeq(es, 1, m)
    BY <1>1, <2>1, <2>3 DEF n
  <2>8. es[1] # << >> => r[m] # << >> /\ r[m][1] = es[1][1]
    <3>1. PICK t, u : t = r[l] /\ u = es[m]
      OBVIOUS
    <3>2. t \in Seq(C) /\ u \in Seq(C)
      BY <2>5, <3>1
    <3>3. t # << >> => Glued(t, glue, u) # << >> /\ Glued(t, glue, u)[1] = t[1]
      BY <3>2, GluedTyped
    <3> QED
      BY <2>2, <2>4, <3>1, <3>3
  <2>9. l \in S
    BY <2>1, <2>3, <2>6, <2>7, <2>8
  <2> QED
    BY <2>9 DEF l
<1>6. 0..(n - 1) \subseteq S
  <2>1. n - 1 \in Nat
    BY <1>1
  <2> HIDE DEF S
  <2> QED
    BY <1>4, <1>5, <2>1, Upwards
<1>7. /\ Fields(r[n], {glue}) = SubSeq(es, 1, n)
      /\ es[1] # << >> => r[n] # << >> /\ r[n][1] = es[1][1]
  <2>1. n - 1 \in 0..(n - 1) /\ n - 1 + 1 = n
    BY <1>1
  <2>2. n - 1 \in S
    BY <1>6, <2>1
  <2> QED
    BY <2>1, <2>2
<1>8. SubSeq(es, 1, n) = es
  BY <1>1 DEF n
<1>9. r[n] \in Seq(C)
  BY <1>1, <1>2
<1>10. es[1] # << >> => es[1][1] # glue
  <2> SUFFICES ASSUME es[1] # << >> PROVE es[1][1] # glue
    OBVIOUS
  <2>1. PICK u : u = es[1]
    OBVIOUS
  <2>2. u \in Seq(C \ {glue}) /\ u # << >>
    BY <1>1, <1>3, <2>1
  <2>3. 1 \in 1..Len(u)
    BY <2>2
  <2>4. u[1] \in C \ {glue}
    BY <2>2, <2>3, ElementOfSeq
  <2> QED
    BY <2>1, <2>4
<1>11. es[1] # << >> => ~Starts(r[n], glue)
  BY <1>7, <1>9, <1>10 DEF Starts
<1> QED
  BY <1>2, <1>3, <1>7, <1>8, <1>9, <1>11 DEF n

-----------------------------------------------------------------------------
(* normalize_path: what is left of a path has no dot segment and no empty  *)
(* segment but the last.                                                   *)

(* A segment that stays: no dots, and not empty.                           *)
Kept(C) == Seq(C \ {"/"}) \ {<< >>, <<".">>, <<".", ".">>}

LEMMA DotsApart == <<".", ".">> \notin {<< >>, <<".">>} /\ <<".">> # << >>
<1>1. PICK a, b, c : a = << >> /\ b = <<".">> /\ c = <<".", ".">>
  OBVIOUS
<1>2. Len(a) = 0
  BY <1>1
<1>3. Len(b) = 1
  BY <1>1
<1>4. Len(c) = 2
  BY <1>1
<1>5. a # b /\ a # c /\ b # c
  BY ONLY <1>2, <1>3, <1>4
<1> QED
  BY <1>1, <1>5

LEMMA NextSegmentTyped ==
  ASSUME NEW C, NEW stack \in Seq(Kept(C)), NEW f \in Seq(C \ {"/"})
  PROVE  NextSegment(stack, f) \in Seq(Kept(C))
<1>1. CASE f \in {<< >>, <<".">>}
  <2>1. f # <<".", ".">>
    BY <1>1, DotsApart
  <2> QED
    BY <1>1, <2>1 DEF NextSegment
<1>2. CASE f = <<".", ".">>
  <2>1. f \notin {<< >>, <<".">>}
    BY <1>2, DotsApart
  <2>2. CASE stack = << >>
    BY <1>2, <2>1, <2>2 DEF NextSegment
  <2>3. CASE stack # << >>
    <3>1. NextSegment(stack, f) = SubSeq(stack, 1, Len(stack) - 1)
      BY <1>2, <2>1, <2>3 DEF NextSegment, Front
    <3>2. SubSeq(stack, 1, Len(stack) - 1) \in Seq(Kept(C))
      <4> DEFINE K == Kept(C)
      <4> HIDE DEF K
      <4>1. stack \in Seq(K)
        BY DEF K
      <4>2. SubSeq(stack, 1, Len(stack) - 1) \in Seq(K)
        BY <4>1
      <4> QED
        BY <4>2 DEF K
    <3> QED
      BY <3>1, <3>2
  <2> QED
    BY <2>2, <2>3
<1>3. CASE f \notin {<< >>, <<".">>, <<".", ".">>}
  <2>1. f \in Kept(C)
    BY <1>3 DEF Kept
  <2>2. NextSegment(stack, f) = Append(stack, f)
    BY <1>3 DEF NextSegment
  <2> DEFINE K == Kept(C)
  <2>3. stack \in Seq(K) /\ f \in K
    BY <2>1
  <2> HIDE DEF K
  <2>4. Append(stack, f) \in Seq(K)
    BY <2>3, AppendProperties
  <2> QED
    BY <2>2, <2>4 DEF K
<1> QED
  BY <1>1, <1>2, <1>3

LEMMA SegmentsBefore ==
  ASSUME NEW C, NEW fs \in Seq(Seq(C \ {"/"}))
  PROVE  FoldLeft(NextSegment, << >>, fs) \in Seq(Kept(C))
<1> DEFINE X == Seq(Kept(C))
           n == Len(fs)
           P(F) == F = [s \in SUBSET DOMAIN fs |->
                          IF s = {} THEN << >>
                          ELSE NextSegment(F[s \ {Max(s)}], fs[Max(s)])]
           g == [p \in X \X Nat |-> IF p[2] \in 1..n THEN NextSegment(p[1], fs[p[2]])
                                    ELSE p[1]]
<1>1. n \in Nat /\ DOMAIN fs = 1..n /\ \A k \in 1..n : fs[k] \in Seq(C \ {"/"})
  BY LenProperties, ElementOfSeq
<1>2. << >> \in X
  OBVIOUS
<1>3. \A x \in X, k \in 1..n : NextSegment(x, fs[k]) \in X
  BY <1>1, NextSegmentTyped
<1>4. g \in [X \X Nat -> X]
  <2> HIDE DEF X
  <2> QED
    BY <1>3
<1>5. \A x \in X, k \in 1..n : g[<<x, k>>] = NextSegment(x, fs[k])
  BY <1>1
<1>6. \E F : P(F)
  <2> HIDE DEF g, X
  <2>1. PICK F \in [SUBSET (1..n) -> X] :
          \A s \in SUBSET (1..n) :
            F[s] = IF s = {} THEN << >> ELSE g[<<F[s \ {Max(s)}], Max(s)>>]
    <3>1. \E F : IsFold(F, X, << >>, g, n)
      BY <1>1, <1>2, <1>4, FoldExists
    <3> QED
      BY <3>1 DEF IsFold
  <2>2. ASSUME NEW s \in SUBSET DOMAIN fs
        PROVE  F[s] = IF s = {} THEN << >> ELSE NextSegment(F[s \ {Max(s)}], fs[Max(s)])
    <3>1. CASE s # {}
      <4>1. Max(s) \in s
        <5>1. \E z \in s : \A y \in s : z >= y
          BY <1>1, <3>1, FiniteMax
        <5> QED
          BY <5>1, Zenon DEF Max
      <4>2. Max(s) \in 1..n /\ s \ {Max(s)} \in SUBSET (1..n)
        BY <1>1, <4>1
      <4>3. F[s \ {Max(s)}] \in X
        BY <4>2
      <4> QED
        BY <1>1, <1>5, <2>1, <3>1, <4>2, <4>3
    <3>2. CASE s = {}
      BY <1>1, <2>1, <3>2
    <3> QED
      BY <3>1, <3>2
  <2>3. F = [s \in SUBSET DOMAIN fs |-> F[s]]
    BY <1>1
  <2>4. P(F)
    BY <2>2, <2>3
  <2> QED
    BY <2>4
<1> DEFINE H == CHOOSE F : P(F)
<1>7. P(H)
  <2> HIDE DEF P
  <2> QED
    BY <1>6, Zenon
<1>8. FoldLeft(NextSegment, << >>, fs) = H[DOMAIN fs]
  BY Zenon DEF FoldLeft, MapThenFoldSet
<1> HIDE DEF H
<1> DEFINE S == {k \in 0..n : H[1..k] \in X}
<1>9. 0 \in S
  <2>1. 1..0 = {} /\ {} \in SUBSET DOMAIN fs
    OBVIOUS
  <2>2. H[{}] = << >>
    BY <1>7, <2>1
  <2>3. 0 \in 0..n
    BY <1>1
  <2> HIDE DEF X
  <2>4. H[1..0] \in X
    BY <1>2, <2>1, <2>2
  <2> QED
    BY <2>3, <2>4
<1>10. ASSUME NEW k \in Nat, k < n, k \in S PROVE k + 1 \in S
  <2> DEFINE l == k + 1
  <2>1. /\ l \in Nat /\ l # 0 /\ 1..l \in SUBSET DOMAIN fs /\ l \in 1..n /\ l \in 0..n
        /\ l - 1 = k
    BY <1>1, <1>10
  <2>2. H[1..k] \in X
    BY <1>10
  <2> HIDE DEF l, X
  <2>3. Max(1..l) = l /\ (1..l) \ {l} = 1..k /\ 1..l # {}
    BY <2>1, LastOfFirst
  <2>4. H[1..l] = NextSegment(H[1..k], fs[l])
    BY <1>7, <2>1, <2>3
  <2>5. H[1..l] \in X
    BY <1>3, <2>1, <2>2, <2>4
  <2> QED
    BY <2>1, <2>5 DEF l
<1>11. 0..n \subseteq S
  <2> HIDE DEF S
  <2> QED
    BY <1>1, <1>9, <1>10, Upwards
<1>12. H[1..n] \in X
  BY <1>1, <1>11
<1> QED
  BY <1>1, <1>8, <1>12

(* No dots are among the segments, and only the last may be empty.         *)
Ordered(es) ==
  \A k \in 1..Len(es) : /\ es[k] \notin {<<".">>, <<".", ".">>}
                        /\ es[k] = << >> => k = Len(es)

LEMMA KeptOrdered ==
  ASSUME NEW C, NEW es \in Seq(Kept(C))
  PROVE  /\ es \in Seq(Seq(C \ {"/"})) /\ Ordered(es)
<1>1. Kept(C) \subseteq Seq(C \ {"/"})
  BY DEF Kept
<1>2. es \in Seq(Seq(C \ {"/"}))
  BY <1>1, SeqMonotonic
<1>3. \A k \in 1..Len(es) : es[k] \in Kept(C)
  BY ElementOfSeq
<1> QED
  BY <1>2, <1>3 DEF Kept, Ordered

LEMMA LastOrdered ==
  ASSUME NEW C, NEW es \in Seq(Kept(C)), NEW f \in Seq(C \ {"/"}),
         f \notin {<<".">>, <<".", ".">>}
  PROVE  /\ Append(es, f) \in Seq(Seq(C \ {"/"})) /\ Ordered(Append(es, f))
<1>1. es \in Seq(Seq(C \ {"/"})) /\ Ordered(es)
  BY KeptOrdered
<1>2. PICK w : w = Append(es, f)
  OBVIOUS
<1>3. /\ w \in Seq(Seq(C \ {"/"})) /\ Len(w) = Len(es) + 1 /\ w[Len(es) + 1] = f
      /\ \A k \in 1..Len(es) : w[k] = es[k]
  BY <1>1, <1>2, AppendProperties
<1>4. \A k \in 1..Len(es) : es[k] \in Kept(C)
  BY ElementOfSeq
<1>5. Len(es) \in Nat
  BY LenProperties
<1>6. ASSUME NEW k \in 1..Len(w)
      PROVE  /\ w[k] \notin {<<".">>, <<".", ".">>}
             /\ w[k] = << >> => k = Len(w)
  <2>1. CASE k = Len(es) + 1
    BY <1>3, <2>1
  <2>2. CASE k # Len(es) + 1
    <3>1. k \in 1..Len(es)
      BY <1>3, <1>5, <2>2
    <3>2. w[k] \in Kept(C)
      BY <1>3, <1>4, <3>1
    <3> QED
      BY <3>2 DEF Kept
  <2> QED
    BY <2>1, <2>2
<1> QED
  BY <1>2, <1>3, <1>6 DEF Ordered

LEMMA SegmentsOrdered ==
  ASSUME NEW C, NEW t \in Seq(C)
  PROVE  Segments(t) \in Seq(Seq(C \ {"/"})) /\ Ordered(Segments(t))
<1> DEFINE D == C \ {"/"}
           all == Fields(t, {"/"})
           tail == Last(all)
           before == FoldLeft(NextSegment, << >>, Front(all))
<1>1. all \in Seq(Seq(D)) /\ all # << >>
  BY FieldsTyped DEF Pieces
<1>2. Front(all) \in Seq(Seq(D)) /\ tail \in Seq(D)
  <2> HIDE DEF all, D
  <2>1. Len(all) \in Nat /\ Len(all) # 0
    BY <1>1, LenProperties, EmptySeq
  <2>2. Len(all) \in 1..Len(all)
    BY <2>1
  <2>3. all[Len(all)] \in Seq(D)
    BY <1>1, <2>2, ElementOfSeq
  <2>4. SubSeq(all, 1, Len(all) - 1) \in Seq(Seq(D))
    BY <1>1
  <2> QED
    BY <2>3, <2>4 DEF Front, Last
<1>3. before \in Seq(Kept(C))
  BY <1>2, SegmentsBefore
<1>4. Segments(t) = CASE tail = <<".">> -> Append(before, << >>)
                      [] tail = <<".", ".">> -> NextSegment(before, tail)
                      [] OTHER -> Append(before, tail)
  BY DEF Segments
<1> HIDE DEF before, tail, all
<1>5. CASE tail = <<".">>
  <2>1. Segments(t) = Append(before, << >>)
    BY <1>4, <1>5, DotsApart
  <2>2. << >> \in Seq(D) /\ << >> \notin {<<".">>, <<".", ".">>}
    BY DotsApart
  <2> QED
    BY <1>3, <2>1, <2>2, LastOrdered
<1>6. CASE tail = <<".", ".">>
  <2>1. Segments(t) = NextSegment(before, tail)
    BY <1>4, <1>6, DotsApart
  <2>2. Segments(t) \in Seq(Kept(C))
    BY <1>2, <1>3, <2>1, NextSegmentTyped
  <2> QED
    BY <2>2, KeptOrdered
<1>7. CASE tail \notin {<<".">>, <<".", ".">>}
  <2>1. Segments(t) = Append(before, tail)
    BY <1>4, <1>7
  <2> QED
    BY <1>2, <1>3, <1>7, <2>1, LastOrdered
<1> QED
  BY <1>5, <1>6, <1>7

LEMMA PathOrderly ==
  ASSUME NEW C, "/" \in C, NEW t \in Seq(C)
  PROVE  Orderly(normalize_path(t))
<1>1. PICK es : es = Segments(t)
  OBVIOUS
<1>2. es \in Seq(Seq(C \ {"/"})) /\ Ordered(es)
  BY <1>1, SegmentsOrdered
<1>3. PICK j : j = Joined(es, <<"/">>)
  OBVIOUS
<1>4. /\ j \in Seq(C) /\ ~Starts(j, "/")
      /\ \A k \in DOMAIN Fields(j, {"/"}) :
           /\ Fields(j, {"/"})[k] \notin {<<".">>, <<".", ".">>}
           /\ Fields(j, {"/"})[k] = << >> => k = Len(Fields(j, {"/"}))
  <2>1. CASE es = << >>
    <3>1. j = << >>
      BY <1>3, <2>1, NothingJoined
    <3>2. PICK f : f = Fields(j, {"/"})
      OBVIOUS
    <3>3. f = << << >> >>
      BY <3>1, <3>2, FieldsOfNone
    <3>4. DOMAIN f = {1} /\ f[1] = << >> /\ Len(f) = 1
      BY <3>3
    <3>5. j \in Seq(C) /\ ~Starts(j, "/")
      BY <3>1 DEF Starts
    <3> QED
      BY <3>2, <3>4, <3>5, DotsApart
  <2>2. CASE es # << >>
    <3>1. /\ j \in Seq(C) /\ Fields(j, {"/"}) = es
          /\ es[1] # << >> => ~Starts(j, "/")
          /\ Len(es) = 1 => j = es[1]
      BY <1>2, <1>3, <2>2, FieldsOfJoined
    <3>2. Len(es) \in Nat /\ Len(es) # 0 /\ DOMAIN es = 1..Len(es)
      BY <1>2, <2>2, LenProperties, EmptySeq
    <3>3. ASSUME es[1] = << >> PROVE ~Starts(j, "/")
      <4>1. 1 \in 1..Len(es)
        BY <3>2
      <4>2. Len(es) = 1
        BY <1>2, <3>3, <4>1 DEF Ordered
      <4> QED
        BY <3>1, <3>3, <4>2 DEF Starts
    <3> QED
      BY <1>2, <3>1, <3>2, <3>3 DEF Ordered
  <2> QED
    BY <2>1, <2>2
<1>5. CASE Starts(t, "/")
  <2>1. PICK p : p = <<"/">> \o j
    OBVIOUS
  <2>2. normalize_path(t) = p
    BY <1>1, <1>3, <1>5, <2>1 DEF normalize_path
  <2>3. /\ p \in Seq(C) /\ Len(p) = Len(j) + 1 /\ p[1] = "/"
        /\ \A i \in 1..Len(j) : p[i + 1] = j[i]
    <3>1. PICK s : s = <<"/">>
      OBVIOUS
    <3>2. s \in Seq(C) /\ Len(s) = 1 /\ s[1] = "/"
      BY <3>1
    <3>3. /\ s \o j \in Seq(C) /\ Len(s \o j) = Len(s) + Len(j)
          /\ \A i \in 1..(Len(s) + Len(j)) :
               (s \o j)[i] = IF i <= Len(s) THEN s[i] ELSE j[i - Len(s)]
      BY <1>4, <3>2, ConcatProperties
    <3>4. Len(j) \in Nat
      BY <1>4, LenProperties
    <3>5. \A i \in 1..Len(j) : i + 1 \in 1..(1 + Len(j)) /\ ~(i + 1 <= 1) /\ i + 1 - 1 = i
      BY <3>4
    <3>6. p = s \o j
      BY <2>1, <3>1
    <3>7. 1 \in 1..(1 + Len(j))
      BY <3>4
    <3> QED
      BY ONLY <3>2, <3>3, <3>4, <3>5, <3>6, <3>7
  <2>4. Starts(p, "/")
    <3>1. p # << >>
      BY <1>4, <2>3, LenProperties, EmptySeq
    <3> QED
      BY <2>3, <3>1 DEF Starts
  <2>5. Rest(p, 1) = j
    <3>1. PICK q : q = SubSeq(p, 2, Len(p))
      OBVIOUS
    <3>2. Len(j) \in Nat
      BY <1>4, LenProperties
    <3>3. q \in Seq(C) /\ Len(q) = Len(j) /\ \A i \in 1..Len(j) : q[i] = p[i + 1]
      BY <2>3, <3>1, <3>2
    <3>4. q = j
      BY <1>4, <2>3, <3>3, SeqEqual
    <3>5. Rest(p, 1) = q
      BY <3>1 DEF Rest
    <3> QED
      BY <3>4, <3>5
  <2> QED
    BY <1>4, <2>2, <2>4, <2>5 DEF Orderly
<1>6. CASE ~Starts(t, "/")
  <2>1. normalize_path(t) = << >> \o j
    BY <1>1, <1>3, <1>6 DEF normalize_path
  <2>2. << >> \o j = j
    BY <1>4
  <2> QED
    BY <1>4, <2>1, <2>2 DEF Orderly
<1> QED
  BY <1>5, <1>6

-----------------------------------------------------------------------------
(* parse_url: the path is a piece of the text, decoded.                    *)

(* Where the first of some characters is, and the parts of a text before   *)
(* and after it.                                                           *)
LEMMA FirstOf ==
  ASSUME NEW C, NEW t \in Seq(C), NEW chars
  PROVE  find_first_of(t, chars) \in 1..(Len(t) + 1)
<1> DEFINE T == {i \in DOMAIN t : t[i] \in chars} \cup {Len(t) + 1}
<1>1. Len(t) \in Nat /\ DOMAIN t = 1..Len(t)
  BY LenProperties
<1>2. T \in SUBSET Nat /\ T # {} /\ T \subseteq 1..(Len(t) + 1)
  BY <1>1
<1>3. \E x \in T : \A y \in T : x <= y
  BY ONLY <1>2, Least
<1>4. Min(T) \in T
  <2> HIDE DEF T
  <2> QED
    BY <1>3, Zenon DEF Min
<1> QED
  BY <1>2, <1>4 DEF find_first_of

LEMMA PartsOfText ==
  ASSUME NEW C, NEW t \in Seq(C), NEW chars, NEW n \in Nat
  PROVE  /\ Upto(t, chars) \in Seq(C) /\ Onward(t, chars) \in Seq(C)
         /\ Rest(t, n) \in Seq(C)
<1>1. PICK f : f = find_first_of(t, chars)
  OBVIOUS
<1>2. f \in 1..(Len(t) + 1) /\ Len(t) \in Nat
  BY <1>1, FirstOf, LenProperties
<1>3. SubSeq(t, 1, f - 1) \in Seq(C)
  BY <1>2
<1>4. SubSeq(t, f, Len(t)) \in Seq(C)
  BY <1>2
<1>5. SubSeq(t, n + 1, Len(t)) \in Seq(C)
  BY <1>2
<1> QED
  BY <1>1, <1>3, <1>4, <1>5 DEF Upto, Onward, Rest

LEMMA PathTyped ==
  ASSUME NEW C, NEW t \in Seq(C)
  PROVE  Path(t) \in Seq(C)
<1>1. SchemeEnd(t) \in Nat
  <2>1. find_first_of(t, {":", "/", "?", "#"}) \in Nat
    BY FirstOf
  <2> QED
    BY <2>1 DEF SchemeEnd
<1>2. PICK a : a = AfterScheme(t) /\ a \in Seq(C)
  BY <1>1, PartsOfText DEF AfterScheme
<1>3. PICK b : b = Rest(a, 2) /\ b \in Seq(C)
  BY <1>2, PartsOfText
<1>4. PICK e : e = Onward(b, {"/", "?", "#"}) /\ e \in Seq(C)
  BY <1>3, PartsOfText
<1>5. PICK p : p = (IF HasAuthority(t) THEN e ELSE a) /\ p \in Seq(C)
  BY <1>2, <1>4
<1>6. Path(t) = Upto(p, {"?", "#"})
  BY <1>2, <1>3, <1>4, <1>5 DEF Path
<1> QED
  BY <1>5, <1>6, PartsOfText

(* What decode does at one character.                                      *)
Spelled(t, i) == Char(16 * get_hex_digit(t[i + 1]) + get_hex_digit(t[i + 2]))

DecodeStep(t, x, i) ==
  CASE i \in Escapes(t) -> Append(x, Spelled(t, i))
    [] {i - 1, i - 2} \cap Escapes(t) # {} -> x
    [] OTHER -> Append(x, t[i])

LEMMA DecodeRun ==
  ASSUME NEW C, NEW t \in Seq(C), \A i \in Escapes(t) : Spelled(t, i) \in C
  PROVE  \E r \in [0..Len(t) -> Seq(C)] :
           /\ r[0] = << >>
           /\ \A k \in 1..Len(t) : r[k] = DecodeStep(t, r[k - 1], k)
           /\ decode(t) = r[Len(t)]
<1> DEFINE X == Seq(C)
           n == Len(t)
           next(x, i) ==
             CASE i \in Escapes(t) ->
                    Append(x, Char(16 * get_hex_digit(t[i + 1]) + get_hex_digit(t[i + 2])))
               [] {i - 1, i - 2} \cap Escapes(t) # {} -> x
               [] OTHER -> Append(x, t[i])
           d == [i \in DOMAIN t |-> i]
           P(F) == F = [s \in SUBSET DOMAIN d |->
                          IF s = {} THEN << >>
                          ELSE next(F[s \ {Max(s)}], d[Max(s)])]
           g == [p \in X \X Nat |-> IF p[2] \in 1..n THEN next(p[1], p[2]) ELSE p[1]]
<1>1. n \in Nat /\ DOMAIN t = 1..n /\ \A k \in 1..n : t[k] \in C
  BY LenProperties, ElementOfSeq
<1>2. << >> \in X
  OBVIOUS
<1>a. \A x, k : next(x, k) = DecodeStep(t, x, k)
  BY DEF DecodeStep, Spelled
<1>3. ASSUME NEW x \in X, NEW k \in 1..n PROVE next(x, k) \in X
  <2>1. PICK a : a = Spelled(t, k)
    OBVIOUS
  <2>2. k \in Escapes(t) => Append(x, a) \in X
    BY <2>1, AppendProperties
  <2>3. Append(x, t[k]) \in X
    BY <1>1, AppendProperties
  <2>4. /\ k \in Escapes(t) => DecodeStep(t, x, k) \in {Append(x, a), x}
        /\ k \notin Escapes(t) => DecodeStep(t, x, k) \in {Append(x, t[k]), x}
    <3>1. CASE k \in Escapes(t)
      <4>1. DecodeStep(t, x, k) \in {Append(x, a), x}
        <5>1. CASE {k - 1, k - 2} \cap Escapes(t) # {}
          BY <2>1, <3>1, <5>1 DEF DecodeStep
        <5>2. CASE ~({k - 1, k - 2} \cap Escapes(t) # {})
          BY <2>1, <3>1, <5>2 DEF DecodeStep
        <5> QED
          BY <5>1, <5>2
      <4> QED
        BY <3>1, <4>1
    <3>2. CASE k \notin Escapes(t) /\ {k - 1, k - 2} \cap Escapes(t) # {}
      BY <3>2 DEF DecodeStep
    <3>3. CASE k \notin Escapes(t) /\ ~({k - 1, k - 2} \cap Escapes(t) # {})
      BY <3>3 DEF DecodeStep
    <3> QED
      BY <3>1, <3>2, <3>3
  <2> HIDE DEF next, X
  <2> QED
    BY <1>a, <2>2, <2>3, <2>4
<1> HIDE DEF next
<1>4. g \in [X \X Nat -> X]
  <2> HIDE DEF X
  <2> QED
    BY <1>3
<1>5. \A x \in X, k \in 1..n : g[<<x, k>>] = next(x, k)
  BY <1>1
<1>6. DOMAIN d = 1..n /\ \A k \in 1..n : d[k] = k
  BY <1>1
<1> HIDE DEF d
<1>7. \E F : P(F)
  <2> HIDE DEF g, X
  <2>1. PICK F \in [SUBSET (1..n) -> X] :
          \A s \in SUBSET (1..n) :
            F[s] = IF s = {} THEN << >> ELSE g[<<F[s \ {Max(s)}], Max(s)>>]
    <3>1. \E F : IsFold(F, X, << >>, g, n)
      BY <1>1, <1>2, <1>4, FoldExists
    <3> QED
      BY <3>1 DEF IsFold
  <2>2. ASSUME NEW s \in SUBSET DOMAIN d
        PROVE  F[s] = IF s = {} THEN << >> ELSE next(F[s \ {Max(s)}], d[Max(s)])
    <3>1. CASE s # {}
      <4>1. Max(s) \in s
        <5>1. \E z \in s : \A y \in s : z >= y
          BY <1>1, <1>6, <3>1, FiniteMax
        <5> QED
          BY <5>1, Zenon DEF Max
      <4>2. Max(s) \in 1..n /\ s \ {Max(s)} \in SUBSET (1..n)
        BY <1>6, <4>1
      <4>3. F[s \ {Max(s)}] \in X
        BY <4>2
      <4> QED
        BY <1>5, <1>6, <2>1, <3>1, <4>2, <4>3
    <3>2. CASE s = {}
      BY <1>6, <2>1, <3>2
    <3> QED
      BY <3>1, <3>2
  <2>3. F = [s \in SUBSET DOMAIN d |-> F[s]]
    BY <1>6
  <2>4. P(F)
    BY <2>2, <2>3
  <2> QED
    BY <2>4
<1> DEFINE H == CHOOSE F : P(F)
<1>8. P(H)
  <2> HIDE DEF P
  <2> QED
    BY <1>7, Zenon
<1>9. decode(t) = H[DOMAIN d]
  BY Zenon DEF decode, FoldLeftDomain, FoldLeft, MapThenFoldSet, next, d
<1> HIDE DEF H
<1> DEFINE r == [k \in 0..n |-> H[1..k]]
<1>10. r[0] = << >>
  <2>1. 1..0 = {} /\ {} \in SUBSET DOMAIN d
    OBVIOUS
  <2>2. H[{}] = << >>
    BY <1>8, <2>1
  <2> QED
    BY <1>1, <2>1, <2>2
<1>11. ASSUME NEW k \in 1..n PROVE r[k] = next(r[k - 1], k)
  <2>1. k \in Nat /\ k # 0 /\ 1..k \in SUBSET DOMAIN d /\ k \in 0..n /\ k - 1 \in 0..n
    BY <1>1, <1>6
  <2>2. Max(1..k) = k /\ (1..k) \ {k} = 1..(k - 1) /\ 1..k # {}
    BY <2>1, LastOfFirst
  <2>3. H[1..k] = next(H[1..(k - 1)], d[k])
    BY <1>8, <2>1, <2>2
  <2> QED
    BY <1>6, <2>1, <2>3
<1>12. r \in [0..n -> X]
  <2> DEFINE S == {k \in 0..n : r[k] \in X}
  <2>1. 0 \in S
    <3> HIDE DEF r, X
    <3> QED
      BY <1>1, <1>2, <1>10
  <2>2. ASSUME NEW k \in Nat, k < n, k \in S PROVE k + 1 \in S
    <3> DEFINE l == k + 1
    <3>1. l \in 1..n /\ l - 1 = k /\ l \in 0..n /\ r[k] \in X
      BY <1>1, <2>2
    <3> HIDE DEF r, l, X
    <3>2. r[l] = next(r[l - 1], l)
      BY <1>11, <3>1
    <3>3. r[l] \in X
      BY <1>3, <3>1, <3>2
    <3> QED
      BY <3>1, <3>3 DEF l
  <2>3. 0..n \subseteq S
    <3> HIDE DEF S
    <3> QED
      BY <1>1, <2>1, <2>2, Upwards
  <2> HIDE DEF X
  <2> QED
    BY <2>3
<1>13. decode(t) = r[n]
  BY <1>1, <1>6, <1>9
<1> HIDE DEF r, X
<1>14. \A k \in 1..n : r[k] = DecodeStep(t, r[k - 1], k)
  BY <1>a, <1>11
<1> QED
  BY <1>10, <1>12, <1>13, <1>14 DEF X

LEMMA DecodeTyped ==
  ASSUME NEW C, NEW t \in Seq(C), \A i \in Escapes(t) : Spelled(t, i) \in C
  PROVE  decode(t) \in Seq(C)
<1>1. PICK r \in [0..Len(t) -> Seq(C)] : decode(t) = r[Len(t)]
  BY DecodeRun
<1>2. Len(t) \in 0..Len(t)
  BY LenProperties
<1> QED
  BY <1>1, <1>2

-----------------------------------------------------------------------------
(* to_lower leaves no capitals.                                            *)

Capitals ==
  {"A", "B", "C", "D", "E", "F", "G", "H", "I", "J", "K", "L", "M",
   "N", "O", "P", "Q", "R", "S", "T", "U", "V", "W", "X", "Y", "Z"}

LEMMA AsciiBelow ==
  /\ Ascii[1] = " " /\ Ascii[2] = "!" /\ Ascii[3] = "\"" /\ Ascii[4] = "#"
  /\ Ascii[5] = "$" /\ Ascii[6] = "%" /\ Ascii[7] = "&" /\ Ascii[8] = "'"
  /\ Ascii[9] = "(" /\ Ascii[10] = ")" /\ Ascii[11] = "*" /\ Ascii[12] = "+"
  /\ Ascii[13] = "," /\ Ascii[14] = "-" /\ Ascii[15] = "." /\ Ascii[16] = "/"
  /\ Ascii[17] = "0" /\ Ascii[18] = "1" /\ Ascii[19] = "2" /\ Ascii[20] = "3"
  /\ Ascii[21] = "4" /\ Ascii[22] = "5" /\ Ascii[23] = "6" /\ Ascii[24] = "7"
  /\ Ascii[25] = "8" /\ Ascii[26] = "9" /\ Ascii[27] = ":" /\ Ascii[28] = ";"
  /\ Ascii[29] = "<" /\ Ascii[30] = "=" /\ Ascii[31] = ">" /\ Ascii[32] = "?"
  /\ Ascii[33] = "@"
  BY DEF Ascii

LEMMA AsciiCapitals ==
  /\ Ascii[34] = "A" /\ Ascii[35] = "B" /\ Ascii[36] = "C" /\ Ascii[37] = "D"
  /\ Ascii[38] = "E" /\ Ascii[39] = "F" /\ Ascii[40] = "G" /\ Ascii[41] = "H"
  /\ Ascii[42] = "I" /\ Ascii[43] = "J" /\ Ascii[44] = "K" /\ Ascii[45] = "L"
  /\ Ascii[46] = "M" /\ Ascii[47] = "N" /\ Ascii[48] = "O" /\ Ascii[49] = "P"
  /\ Ascii[50] = "Q" /\ Ascii[51] = "R" /\ Ascii[52] = "S" /\ Ascii[53] = "T"
  /\ Ascii[54] = "U" /\ Ascii[55] = "V" /\ Ascii[56] = "W" /\ Ascii[57] = "X"
  /\ Ascii[58] = "Y" /\ Ascii[59] = "Z"
  BY DEF Ascii

LEMMA AsciiBetween ==
  /\ Ascii[60] = "[" /\ Ascii[61] = "\\" /\ Ascii[62] = "]" /\ Ascii[63] = "^"
  /\ Ascii[64] = "_" /\ Ascii[65] = "grave"
  BY DEF Ascii

LEMMA AsciiSmall ==
  /\ Ascii[66] = "a" /\ Ascii[67] = "b" /\ Ascii[68] = "c" /\ Ascii[69] = "d"
  /\ Ascii[70] = "e" /\ Ascii[71] = "f" /\ Ascii[72] = "g" /\ Ascii[73] = "h"
  /\ Ascii[74] = "i" /\ Ascii[75] = "j" /\ Ascii[76] = "k" /\ Ascii[77] = "l"
  /\ Ascii[78] = "m" /\ Ascii[79] = "n" /\ Ascii[80] = "o" /\ Ascii[81] = "p"
  /\ Ascii[82] = "q" /\ Ascii[83] = "r" /\ Ascii[84] = "s" /\ Ascii[85] = "t"
  /\ Ascii[86] = "u" /\ Ascii[87] = "v" /\ Ascii[88] = "w" /\ Ascii[89] = "x"
  /\ Ascii[90] = "y" /\ Ascii[91] = "z"
  BY DEF Ascii

LEMMA AsciiAbove ==
  /\ Ascii[92] = "{" /\ Ascii[93] = "|" /\ Ascii[94] = "}" /\ Ascii[95] = "~"
  BY DEF Ascii

LEMMA InBelow == \A k \in 1..33 : Ascii[k] \notin Capitals
<1>1. \A k \in 1..33 : k = 1 \/ k = 2 \/ k = 3 \/ k = 4 \/ k = 5 \/ k = 6 \/
                       k = 7 \/ k = 8 \/ k = 9 \/ k = 10 \/ k = 11 \/ k = 12 \/
                       k = 13 \/ k = 14 \/ k = 15 \/ k = 16 \/ k = 17 \/ k = 18 \/
                       k = 19 \/ k = 20 \/ k = 21 \/ k = 22 \/ k = 23 \/ k = 24 \/
                       k = 25 \/ k = 26 \/ k = 27 \/ k = 28 \/ k = 29 \/ k = 30 \/
                       k = 31 \/ k = 32 \/ k = 33
  OBVIOUS
<1> QED
  BY <1>1, AsciiBelow DEF Capitals

LEMMA InCapitals == \A k \in 34..59 : Ascii[k] \in Capitals
<1>1. \A k \in 34..59 : k = 34 \/ k = 35 \/ k = 36 \/ k = 37 \/ k = 38 \/ k = 39 \/
                        k = 40 \/ k = 41 \/ k = 42 \/ k = 43 \/ k = 44 \/ k = 45 \/
                        k = 46 \/ k = 47 \/ k = 48 \/ k = 49 \/ k = 50 \/ k = 51 \/
                        k = 52 \/ k = 53 \/ k = 54 \/ k = 55 \/ k = 56 \/ k = 57 \/
                        k = 58 \/ k = 59
  OBVIOUS
<1> QED
  BY <1>1, AsciiCapitals DEF Capitals

LEMMA InBetween == \A k \in 60..65 : Ascii[k] \notin Capitals
<1>1. \A k \in 60..65 : k = 60 \/ k = 61 \/ k = 62 \/ k = 63 \/ k = 64 \/ k = 65
  OBVIOUS
<1> QED
  BY <1>1, AsciiBetween DEF Capitals

LEMMA InSmall == \A k \in 66..91 : Ascii[k] \notin Capitals
<1>1. \A k \in 66..91 : k = 66 \/ k = 67 \/ k = 68 \/ k = 69 \/ k = 70 \/ k = 71 \/
                        k = 72 \/ k = 73 \/ k = 74 \/ k = 75 \/ k = 76 \/ k = 77 \/
                        k = 78 \/ k = 79 \/ k = 80 \/ k = 81 \/ k = 82 \/ k = 83 \/
                        k = 84 \/ k = 85 \/ k = 86 \/ k = 87 \/ k = 88 \/ k = 89 \/
                        k = 90 \/ k = 91
  OBVIOUS
<1> QED
  BY <1>1, AsciiSmall DEF Capitals

LEMMA InAbove == \A k \in 92..95 : Ascii[k] \notin Capitals
<1>1. \A k \in 92..95 : k = 92 \/ k = 93 \/ k = 94 \/ k = 95
  OBVIOUS
<1> QED
  BY <1>1, AsciiAbove DEF Capitals

LEMMA UpperIs == Upper = {Ascii[m] : m \in 34..59}
  BY DEF Upper, Char

LEMMA UpperIn == Upper \subseteq Capitals
  BY UpperIs, InCapitals

(* The code of a capital is that of a capital.                             *)
LEMMA CodeOfCapital ==
  ASSUME NEW c \in Upper
  PROVE  Code(c) \in 65..90
<1>1. PICK n \in 65..90 : c = Ascii[n - 31]
  BY DEF Upper, Char
<1>2. Code(c) \in 32..126 /\ Ascii[Code(c) - 31] = c
  <2>1. \E m \in 32..126 : Ascii[m - 31] = c
    BY <1>1
  <2> QED
    BY <2>1, Zenon DEF Code
<1>3. PICK k : k = Code(c) - 31
  OBVIOUS
<1>4. k \in 1..95 /\ Ascii[k] \in Capitals
  BY <1>2, <1>3, UpperIn
<1>5. k \in 34..59
  BY <1>4, InBelow, InBetween, InSmall, InAbove
<1> QED
  BY <1>2, <1>3, <1>5

LEMMA NoCapitals ==
  ASSUME NEW t
  PROVE  Range(to_lower(t)) \cap Upper = {}
<1>1. ASSUME NEW i \in DOMAIN t
      PROVE  to_lower(t)[i] \notin Upper
  <2>1. CASE t[i] \in Upper
    <3>1. PICK n : n = Code(t[i]) + 32
      OBVIOUS
    <3>2. n - 31 \in 66..91
      BY <2>1, <3>1, CodeOfCapital
    <3>3. to_lower(t)[i] = Ascii[n - 31]
      <4>1. to_lower(t)[i] = Char(n)
        BY <2>1, <3>1 DEF to_lower
      <4> QED
        BY <4>1 DEF Char
    <3> QED
      BY <3>2, <3>3, InSmall, UpperIn
  <2>2. CASE t[i] \notin Upper
    BY <2>2 DEF to_lower
  <2> QED
    BY <2>1, <2>2
<1>2. DOMAIN to_lower(t) = DOMAIN t
  BY DEF to_lower
<1> QED
  BY <1>1, <1>2 DEF Range

-----------------------------------------------------------------------------
(* Characters, hex digits and masks.                                       *)

LEMMA CodeIs ==
  ASSUME NEW c \in Chars
  PROVE  /\ Code(c) \in 32..126 /\ Char(Code(c)) = c
<1>1. DOMAIN Ascii = 1..95
  BY DEF Ascii
<1>2. PICK k \in 1..95 : c = Ascii[k]
  BY <1>1 DEF Chars, Range
<1>3. k + 31 \in 32..126 /\ Ascii[(k + 31) - 31] = c
  BY <1>2
<1> QED
  BY <1>3, Zenon DEF Code, Char

LEMMA CharIn ==
  ASSUME NEW n \in 32..126
  PROVE  Char(n) \in Chars
<1>1. DOMAIN Ascii = 1..95
  BY DEF Ascii
<1>2. n - 31 \in 1..95
  OBVIOUS
<1> QED
  BY <1>1, <1>2 DEF Char, Chars, Range

LEMMA UpperHexAt ==
  /\ UpperHex[1] = "0" /\ UpperHex[2] = "1" /\ UpperHex[3] = "2" /\ UpperHex[4] = "3"
  /\ UpperHex[5] = "4" /\ UpperHex[6] = "5" /\ UpperHex[7] = "6" /\ UpperHex[8] = "7"
  /\ UpperHex[9] = "8" /\ UpperHex[10] = "9" /\ UpperHex[11] = "A" /\ UpperHex[12] = "B"
  /\ UpperHex[13] = "C" /\ UpperHex[14] = "D" /\ UpperHex[15] = "E" /\ UpperHex[16] = "F"
  BY DEF UpperHex

LEMMA LowerHexAt ==
  /\ LowerHex[1] = "0" /\ LowerHex[2] = "1" /\ LowerHex[3] = "2" /\ LowerHex[4] = "3"
  /\ LowerHex[5] = "4" /\ LowerHex[6] = "5" /\ LowerHex[7] = "6" /\ LowerHex[8] = "7"
  /\ LowerHex[9] = "8" /\ LowerHex[10] = "9" /\ LowerHex[11] = "a" /\ LowerHex[12] = "b"
  /\ LowerHex[13] = "c" /\ LowerHex[14] = "d" /\ LowerHex[15] = "e" /\ LowerHex[16] = "f"
  BY DEF LowerHex

HexSet == {"0", "1", "2", "3", "4", "5", "6", "7", "8", "9", "A", "B", "C", "D", "E", "F",
           "a", "b", "c", "d", "e", "f"}

LEMMA Sixteen ==
  ASSUME NEW n \in 0..15
  PROVE  n = 0 \/ n = 1 \/ n = 2 \/ n = 3 \/ n = 4 \/ n = 5 \/ n = 6 \/ n = 7 \/ n = 8
         \/ n = 9 \/ n = 10 \/ n = 11 \/ n = 12 \/ n = 13 \/ n = 14 \/ n = 15
  OBVIOUS

LEMMA HexDigitsAre ==
  /\ HexDigits = HexSet
  /\ \A n \in 0..15 : UpperHex[n + 1] \in HexSet /\ LowerHex[n + 1] \in HexSet
<1>1. DOMAIN UpperHex = 1..16 /\ DOMAIN LowerHex = 1..16
  BY DEF UpperHex, LowerHex
<1>2. \A n \in 0..15 : UpperHex[n + 1] \in HexSet /\ LowerHex[n + 1] \in HexSet
  BY Sixteen, UpperHexAt, LowerHexAt DEF HexSet
<1>3. HexDigits \subseteq HexSet
  <2>1. ASSUME NEW c \in HexDigits PROVE c \in HexSet
    <3>1. PICK k \in 1..16 : c \in {UpperHex[k], LowerHex[k]}
      BY <1>1 DEF HexDigits, Range
    <3>2. k - 1 \in 0..15 /\ (k - 1) + 1 = k
      OBVIOUS
    <3> QED
      BY <1>2, <3>1, <3>2
  <2> QED
    BY <2>1
<1>4. \A k \in 1..16 : UpperHex[k] \in HexDigits /\ LowerHex[k] \in HexDigits
  BY <1>1 DEF HexDigits, Range
<1>5. HexSet \subseteq HexDigits
  BY <1>4, UpperHexAt, LowerHexAt DEF HexSet
<1> QED
  BY <1>2, <1>3, <1>5

(* The value of a digit that encode writes, or std::hex.                   *)
LEMMA HexDigitIs ==
  ASSUME NEW n \in 0..15
  PROVE  get_hex_digit(UpperHex[n + 1]) = n /\ get_hex_digit(LowerHex[n + 1]) = n
<1>1. \A m \in 0..15 : UpperHex[n + 1] \in {UpperHex[m + 1], LowerHex[m + 1]} => m = n
  BY Sixteen, UpperHexAt, LowerHexAt
<1>2. \A m \in 0..15 : LowerHex[n + 1] \in {UpperHex[m + 1], LowerHex[m + 1]} => m = n
  BY Sixteen, UpperHexAt, LowerHexAt
<1> QED
  BY <1>1, <1>2 DEF get_hex_digit

LEMMA HexDigitTyped ==
  ASSUME NEW c \in HexDigits
  PROVE  get_hex_digit(c) \in 0..15
<1>1. \E n \in 0..15 : c \in {UpperHex[n + 1], LowerHex[n + 1]}
  <2>1. c \in HexSet
    BY HexDigitsAre
  <2>2. 0 \in 0..15 /\ 1 \in 0..15 /\ 2 \in 0..15 /\ 3 \in 0..15 /\ 4 \in 0..15
        /\ 5 \in 0..15 /\ 6 \in 0..15 /\ 7 \in 0..15 /\ 8 \in 0..15 /\ 9 \in 0..15
        /\ 10 \in 0..15 /\ 11 \in 0..15 /\ 12 \in 0..15 /\ 13 \in 0..15 /\ 14 \in 0..15
        /\ 15 \in 0..15
    OBVIOUS
  <2> QED
    BY <2>1, <2>2, UpperHexAt, LowerHexAt DEF HexSet
<1> QED
  BY <1>1, Zenon DEF get_hex_digit

(* Single characters.                                                      *)
LEMMA AsciiIn == \A k \in 1..95 : Ascii[k] \in Chars
<1>1. DOMAIN Ascii = 1..95
  BY DEF Ascii
<1> QED
  BY <1>1 DEF Chars, Range

LEMMA SignsIn ==
  {" ", "#", "%", "&", "+", ",", "-", ".", "/", ":", ";", "=", "?", "@", "[", "]", "v"}
    \subseteq Chars
<1>1. {" ", "#", "%", "&", "+", ",", "-"} \subseteq Chars
  <2>1. 1 \in 1..95 /\ 4 \in 1..95 /\ 6 \in 1..95 /\ 7 \in 1..95
        /\ 12 \in 1..95 /\ 13 \in 1..95 /\ 14 \in 1..95
    OBVIOUS
  <2>2. Ascii[1] \in Chars /\ Ascii[4] \in Chars /\ Ascii[6] \in Chars
        /\ Ascii[7] \in Chars /\ Ascii[12] \in Chars /\ Ascii[13] \in Chars
        /\ Ascii[14] \in Chars
    BY <2>1, AsciiIn
  <2>3. Ascii[1] = " " /\ Ascii[4] = "#" /\ Ascii[6] = "%" /\ Ascii[7] = "&"
        /\ Ascii[12] = "+" /\ Ascii[13] = "," /\ Ascii[14] = "-"
    BY AsciiBelow
  <2>4. " " \in Chars /\ "#" \in Chars /\ "%" \in Chars /\ "&" \in Chars
        /\ "+" \in Chars /\ "," \in Chars /\ "-" \in Chars
    BY ONLY <2>2, <2>3
  <2> QED
    BY ONLY <2>4
<1>2. {".", "/", ":", ";", "=", "?", "@"} \subseteq Chars
  <2>1. 15 \in 1..95 /\ 16 \in 1..95 /\ 27 \in 1..95 /\ 28 \in 1..95
        /\ 30 \in 1..95 /\ 32 \in 1..95 /\ 33 \in 1..95
    OBVIOUS
  <2>2. Ascii[15] \in Chars /\ Ascii[16] \in Chars /\ Ascii[27] \in Chars
        /\ Ascii[28] \in Chars /\ Ascii[30] \in Chars /\ Ascii[32] \in Chars
        /\ Ascii[33] \in Chars
    BY <2>1, AsciiIn
  <2>3. Ascii[15] = "." /\ Ascii[16] = "/" /\ Ascii[27] = ":"
        /\ Ascii[28] = ";" /\ Ascii[30] = "=" /\ Ascii[32] = "?"
        /\ Ascii[33] = "@"
    BY AsciiBelow
  <2>4. "." \in Chars /\ "/" \in Chars /\ ":" \in Chars /\ ";" \in Chars
        /\ "=" \in Chars /\ "?" \in Chars /\ "@" \in Chars
    BY ONLY <2>2, <2>3
  <2> QED
    BY ONLY <2>4
<1>3. {"[", "]", "v"} \subseteq Chars
  <2>1. 60 \in 1..95 /\ 62 \in 1..95 /\ 87 \in 1..95
    OBVIOUS
  <2>2. Ascii[60] \in Chars /\ Ascii[62] \in Chars /\ Ascii[87] \in Chars
    BY <2>1, AsciiIn
  <2>3. Ascii[60] = "[" /\ Ascii[62] = "]" /\ Ascii[87] = "v"
    BY AsciiBetween, AsciiSmall
  <2>4. "[" \in Chars /\ "]" \in Chars /\ "v" \in Chars
    BY ONLY <2>2, <2>3
  <2> QED
    BY ONLY <2>4
<1> QED
  BY <1>1, <1>2, <1>3

LEMMA HexIn == HexSet \subseteq Chars
<1>1. {"0", "1", "2", "3", "4", "5", "6", "7", "8", "9"} \subseteq Chars
  <2>1. 17 \in 1..95 /\ 18 \in 1..95 /\ 19 \in 1..95 /\ 20 \in 1..95
        /\ 21 \in 1..95 /\ 22 \in 1..95 /\ 23 \in 1..95 /\ 24 \in 1..95
        /\ 25 \in 1..95 /\ 26 \in 1..95
    OBVIOUS
  <2>2. Ascii[17] \in Chars /\ Ascii[18] \in Chars /\ Ascii[19] \in Chars
        /\ Ascii[20] \in Chars /\ Ascii[21] \in Chars /\ Ascii[22] \in Chars
        /\ Ascii[23] \in Chars /\ Ascii[24] \in Chars /\ Ascii[25] \in Chars
        /\ Ascii[26] \in Chars
    BY <2>1, AsciiIn
  <2>3. Ascii[17] = "0" /\ Ascii[18] = "1" /\ Ascii[19] = "2"
        /\ Ascii[20] = "3" /\ Ascii[21] = "4" /\ Ascii[22] = "5"
        /\ Ascii[23] = "6" /\ Ascii[24] = "7" /\ Ascii[25] = "8"
        /\ Ascii[26] = "9"
    BY AsciiBelow
  <2>4. "0" \in Chars /\ "1" \in Chars /\ "2" \in Chars /\ "3" \in Chars
        /\ "4" \in Chars /\ "5" \in Chars /\ "6" \in Chars /\ "7" \in Chars
        /\ "8" \in Chars /\ "9" \in Chars
    BY ONLY <2>2, <2>3
  <2> QED
    BY ONLY <2>4
<1>2. {"A", "B", "C", "D", "E", "F"} \subseteq Chars
  <2>1. 34 \in 1..95 /\ 35 \in 1..95 /\ 36 \in 1..95 /\ 37 \in 1..95
        /\ 38 \in 1..95 /\ 39 \in 1..95
    OBVIOUS
  <2>2. Ascii[34] \in Chars /\ Ascii[35] \in Chars /\ Ascii[36] \in Chars
        /\ Ascii[37] \in Chars /\ Ascii[38] \in Chars /\ Ascii[39] \in Chars
    BY <2>1, AsciiIn
  <2>3. Ascii[34] = "A" /\ Ascii[35] = "B" /\ Ascii[36] = "C"
        /\ Ascii[37] = "D" /\ Ascii[38] = "E" /\ Ascii[39] = "F"
    BY AsciiCapitals
  <2>4. "A" \in Chars /\ "B" \in Chars /\ "C" \in Chars /\ "D" \in Chars
        /\ "E" \in Chars /\ "F" \in Chars
    BY ONLY <2>2, <2>3
  <2> QED
    BY ONLY <2>4
<1>3. {"a", "b", "c", "d", "e", "f"} \subseteq Chars
  <2>1. 66 \in 1..95 /\ 67 \in 1..95 /\ 68 \in 1..95 /\ 69 \in 1..95
        /\ 70 \in 1..95 /\ 71 \in 1..95
    OBVIOUS
  <2>2. Ascii[66] \in Chars /\ Ascii[67] \in Chars /\ Ascii[68] \in Chars
        /\ Ascii[69] \in Chars /\ Ascii[70] \in Chars /\ Ascii[71] \in Chars
    BY <2>1, AsciiIn
  <2>3. Ascii[66] = "a" /\ Ascii[67] = "b" /\ Ascii[68] = "c"
        /\ Ascii[69] = "d" /\ Ascii[70] = "e" /\ Ascii[71] = "f"
    BY AsciiSmall
  <2>4. "a" \in Chars /\ "b" \in Chars /\ "c" \in Chars /\ "d" \in Chars
        /\ "e" \in Chars /\ "f" \in Chars
    BY ONLY <2>2, <2>3
  <2> QED
    BY ONLY <2>4
<1> QED
  BY <1>1, <1>2, <1>3 DEF HexSet

(* The masks, by what they leave out.                                      *)
LEMMA MasksIn ==
  /\ Mask01 \subseteq Chars /\ Mask05 \subseteq Chars /\ Mask0F \subseteq Chars
  /\ Mask1F \subseteq Chars /\ Mask2F \subseteq Chars /\ Mask3F \subseteq Chars
  /\ Mask01 \subseteq Mask05 /\ Mask05 \subseteq Mask0F /\ Mask0F \subseteq Mask1F
  /\ Mask0F \subseteq Mask2F /\ Mask1F \subseteq Mask3F
  BY SignsIn DEF Mask01, Mask05, Mask0F, Mask1F, Mask2F, Mask3F

LEMMA HexMasked == HexSet \subseteq Mask01 /\ "%" \notin HexSet
  BY HexIn DEF HexSet, Mask01

LEMMA MasksOut ==
  /\ Mask01 \cap {"%", "/", ":", "?", "#", "@", "[", "]"} = {}
  /\ Mask05 \cap {"%", "/", "?", "#", "@", "[", "]"} = {}
  /\ Mask0F \cap {"%", "?", "#", "[", "]"} = {}
  /\ Mask1F \cap {"%", "#", "[", "]"} = {}
  /\ Mask2F = Mask0F \cup {"%"} /\ Mask3F = Mask1F \cup {"%"}
  BY DEF Mask01, Mask05, Mask0F, Mask1F, Mask2F, Mask3F

(* Digits and letters.                                                     *)
Digits == {"0", "1", "2", "3", "4", "5", "6", "7", "8", "9"}
Smalls == {"a", "b", "c", "d", "e", "f", "g", "h", "i", "j", "k", "l", "m",
           "n", "o", "p", "q", "r", "s", "t", "u", "v", "w", "x", "y", "z"}

LEMMA NumIs == Num = {Ascii[m] : m \in 17..26}
  BY DEF Num, Char

LEMMA NumAre == Num = Digits
<1>1. \A k \in 17..26 : k = 17 \/ k = 18 \/ k = 19 \/ k = 20 \/ k = 21 \/ k = 22 \/
                        k = 23 \/ k = 24 \/ k = 25 \/ k = 26
  OBVIOUS
<1>2. \A m \in 17..26 : Ascii[m] \in Digits
  <2>1. PICK A : A = Ascii
    OBVIOUS
  <2>2. /\ A[17] = "0" /\ A[18] = "1" /\ A[19] = "2" /\ A[20] = "3" /\ A[21] = "4"
        /\ A[22] = "5" /\ A[23] = "6" /\ A[24] = "7" /\ A[25] = "8" /\ A[26] = "9"
    BY <2>1, AsciiBelow
  <2>3. \A m \in 17..26 : A[m] \in Digits
    BY ONLY <1>1, <2>2 DEF Digits
  <2> QED
    BY <2>1, <2>3
<1>3. \A c \in Digits : \E m \in 17..26 : c = Ascii[m]
  <2>1. 17 \in 17..26 /\ 18 \in 17..26 /\ 19 \in 17..26 /\ 20 \in 17..26 /\ 21 \in 17..26
        /\ 22 \in 17..26 /\ 23 \in 17..26 /\ 24 \in 17..26 /\ 25 \in 17..26 /\ 26 \in 17..26
    OBVIOUS
  <2>2. PICK A : A = Ascii
    OBVIOUS
  <2>3. /\ A[17] = "0" /\ A[18] = "1" /\ A[19] = "2" /\ A[20] = "3" /\ A[21] = "4"
        /\ A[22] = "5" /\ A[23] = "6" /\ A[24] = "7" /\ A[25] = "8" /\ A[26] = "9"
    BY <2>2, AsciiBelow
  <2>4. \A c \in Digits : \E m \in 17..26 : c = A[m]
    BY <2>1, <2>3 DEF Digits
  <2> QED
    BY <2>2, <2>4
<1> QED
  BY <1>2, <1>3, NumIs

LEMMA SmallsAre == \A k \in 66..91 : Ascii[k] \in Smalls
<1>1. \A k \in 66..91 : k = 66 \/ k = 67 \/ k = 68 \/ k = 69 \/ k = 70 \/ k = 71 \/
                        k = 72 \/ k = 73 \/ k = 74 \/ k = 75 \/ k = 76 \/ k = 77 \/
                        k = 78 \/ k = 79 \/ k = 80 \/ k = 81 \/ k = 82 \/ k = 83 \/
                        k = 84 \/ k = 85 \/ k = 86 \/ k = 87 \/ k = 88 \/ k = 89 \/
                        k = 90 \/ k = 91
  OBVIOUS
<1> QED
  BY <1>1, AsciiSmall DEF Smalls

LEMMA AlphaIn == Alpha \subseteq (Capitals \cup Smalls)
<1>1. ASSUME NEW n \in (65..90) \cup (97..122) PROVE Char(n) \in Capitals \cup Smalls
  <2>1. PICK k : k = n - 31
    OBVIOUS
  <2>2. k \in 34..59 \/ k \in 66..91
    BY <2>1
  <2>3. Char(n) = Ascii[k]
    BY <2>1 DEF Char
  <2> QED
    BY <2>2, <2>3, InCapitals, SmallsAre
<1> QED
  BY <1>1 DEF Alpha

LEMMA AlphaTyped == Alpha \subseteq Chars /\ Num \subseteq Chars /\ Upper \subseteq Alpha
<1>1. Alpha \subseteq Chars /\ Num \subseteq Chars
  BY CharIn DEF Alpha, Num
<1> QED
  BY <1>1 DEF Alpha, Upper

LEMMA LettersApart ==
  (Capitals \cup Smalls \cup Digits) \cap {"%", "/", ":", "?", "#", "@", "[", "]", ".", "+", "-"} = {}
  BY DEF Capitals, Smalls, Digits

(* Small letters for capitals, everything else as it is.                   *)
LEMMA LowerCode ==
  ASSUME NEW c \in Upper
  PROVE  Char(Code(c) + 32) \in Alpha /\ Char(Code(c) + 32) \in Smalls
<1>1. PICK n : n = Code(c) + 32
  OBVIOUS
<1>2. n \in 97..122
  BY <1>1, CodeOfCapital
<1>3. Char(n) \in Alpha
  BY <1>2 DEF Alpha
<1>4. n - 31 \in 66..91 /\ Char(n) = Ascii[n - 31]
  BY <1>2 DEF Char
<1> QED
  BY <1>1, <1>3, <1>4, SmallsAre

LEMMA LowerTyped ==
  ASSUME NEW t \in Seq(Chars)
  PROVE  /\ to_lower(t) \in Seq(Chars) /\ Len(to_lower(t)) = Len(t)
         /\ \A i \in 1..Len(t) :
              to_lower(t)[i] = IF t[i] \in Upper THEN Char(Code(t[i]) + 32) ELSE t[i]
<1>1. Len(t) \in Nat /\ DOMAIN t = 1..Len(t) /\ \A i \in 1..Len(t) : t[i] \in Chars
  BY LenProperties, ElementOfSeq
<1>2. PICK u : u = to_lower(t)
  OBVIOUS
<1>3. u = [i \in 1..Len(t) |-> IF t[i] \in Upper THEN Char(Code(t[i]) + 32) ELSE t[i]]
  BY <1>1, <1>2 DEF to_lower
<1>4. \A i \in 1..Len(t) : u[i] = IF t[i] \in Upper THEN Char(Code(t[i]) + 32) ELSE t[i]
  BY <1>3
<1>5. \A i \in 1..Len(t) : u[i] \in Chars
  BY <1>1, <1>4, LowerCode, AlphaTyped
<1>6. u \in [1..Len(t) -> Chars]
  BY <1>3, <1>5
<1> QED
  BY <1>1, <1>2, <1>4, <1>6, LenProperties

(* What has no capitals is as to_lower leaves it.                          *)
LEMMA LowerIs ==
  ASSUME NEW t \in Seq(Chars), Range(t) \cap Upper = {}
  PROVE  to_lower(t) = t
<1>1. Len(t) \in Nat /\ DOMAIN t = 1..Len(t)
  BY LenProperties
<1>2. \A i \in DOMAIN t : t[i] \notin Upper
  BY DEF Range
<1>3. t = [i \in DOMAIN t |-> t[i]]
  BY <1>1
<1> QED
  BY <1>2, <1>3 DEF to_lower

-----------------------------------------------------------------------------
(* Runs, and texts put together of pieces.                                 *)

(* The same as a run through the numbers.                                  *)
IsRun(r, X, base, g, n) ==
  r \in [0..n -> X] /\ r[0] = base /\ \A k \in 1..n : r[k] = g[<<r[k - 1], k>>]

LEMMA RunExists ==
  ASSUME NEW X, NEW base \in X, NEW g \in [X \X Nat -> X], NEW n \in Nat
  PROVE  \E r : IsRun(r, X, base, g, n)
<1>1. PICK F : IsFold(F, X, base, g, n)
  BY FoldExists
<1>2. F \in [SUBSET (1..n) -> X]
  BY <1>1 DEF IsFold
<1>3. \A s \in SUBSET (1..n) :
        F[s] = IF s = {} THEN base ELSE g[<<F[s \ {Max(s)}], Max(s)>>]
  BY <1>1 DEF IsFold
<1> DEFINE r == [k \in 0..n |-> F[1..k]]
<1>4. r \in [0..n -> X]
  BY <1>2
<1>5. r[0] = base
  <2>1. 1..0 = {} /\ {} \in SUBSET (1..n) /\ 0 \in 0..n
    OBVIOUS
  <2>2. F[{}] = base
    BY <1>3, <2>1
  <2> QED
    BY <2>1, <2>2
<1>6. ASSUME NEW k \in 1..n PROVE r[k] = g[<<r[k - 1], k>>]
  <2>1. k \in Nat /\ k # 0 /\ 1..k \in SUBSET (1..n) /\ k \in 0..n /\ k - 1 \in 0..n
    OBVIOUS
  <2>2. Max(1..k) = k /\ (1..k) \ {k} = 1..(k - 1) /\ 1..k # {}
    BY <2>1, LastOfFirst
  <2>3. F[1..k] = g[<<F[1..(k - 1)], k>>]
    BY <1>3, <2>1, <2>2
  <2> QED
    BY <2>1, <2>3
<1> HIDE DEF r
<1> QED
  BY <1>4, <1>5, <1>6 DEF IsRun

(* FlattenSeq is the last of the partial concatenations.                   *)
LEMMA FlattenRun ==
  ASSUME NEW C, NEW es \in Seq(Seq(C))
  PROVE  \E r \in [0..Len(es) -> Seq(C)] :
           /\ r[0] = << >>
           /\ \A k \in 1..Len(es) : r[k] = r[k - 1] \o es[k]
           /\ FlattenSeq(es) = r[Len(es)]
<1> DEFINE X == Seq(C)
           n == Len(es)
           next(x, k) == x \o es[k]
           g == [p \in X \X Nat |-> IF p[2] \in 1..n THEN next(p[1], p[2]) ELSE p[1]]
<1>1. n \in Nat /\ \A k \in 1..n : es[k] \in X
  BY LenProperties, ElementOfSeq
<1>2. << >> \in X
  OBVIOUS
<1>b. \A x \in X, k \in 1..n : next(x, k) \in X
  BY <1>1, ConcatProperties
<1> HIDE DEF next, X
<1>3. g \in [X \X Nat -> X]
  BY <1>b
<1>4. \A x \in X, k \in 1..n : g[<<x, k>>] = next(x, k)
  BY <1>1
<1>a. \E r : IsRun(r, X, << >>, g, n)
  <2> HIDE DEF g
  <2> QED
    BY <1>1, <1>2, <1>3, RunExists
<1>5. PICK r \in [0..n -> X] : r[0] = << >> /\ \A k \in 1..n : r[k] = g[<<r[k - 1], k>>]
  BY <1>a DEF IsRun
<1>6. ASSUME NEW k \in 1..n PROVE r[k] = r[k - 1] \o es[k]
  <2> HIDE DEF g
  <2>1. k - 1 \in 0..n
    BY <1>1
  <2> QED
    BY <1>4, <1>5, <2>1 DEF next
<1>7. FlattenSeq(es) = r[n]
  <2>1. CASE n = 0
    <3>1. es = << >>
      BY <2>1, EmptySeq
    <3> QED
      BY <1>5, <2>1, <3>1 DEF FlattenSeq
  <2>2. CASE n # 0
    <3> DEFINE step(f) == [k \in 1..n |-> IF k = 1 THEN es[k] ELSE f[k - 1] \o es[k]]
               flat == CHOOSE f : f = step(f)
               e == [k \in 1..n |-> r[k]]
    <3>1. FlattenSeq(es) = flat[n]
      BY <2>2 DEF FlattenSeq
    <3>2. e = step(e)
      <4>1. ASSUME NEW k \in 1..n PROVE e[k] = step(e)[k]
        <5>1. CASE k = 1
          <6>1. r[1] = r[1 - 1] \o es[1]
            BY <1>6, <5>1
          <6>a. es[1] \in Seq(C)
            BY <1>1, <5>1 DEF X
          <6>2. << >> \o es[1] = es[1]
            BY <6>a, ConcatEmptySeq
          <6>3. r[1 - 1] = << >>
            BY <1>5
          <6>4. e[1] = es[1]
            BY <5>1, <6>1, <6>2, <6>3
          <6> QED
            BY <5>1, <6>4
        <5>2. CASE k # 1
          <6>1. k - 1 \in 1..n
            BY <5>2
          <6> QED
            BY <1>6, <5>2, <6>1
        <5> QED
          BY <5>1, <5>2
      <4> QED
        BY <4>1
    <3>3. flat = step(flat)
      <4> HIDE DEF step, e
      <4> QED
        BY <3>2
    <3> HIDE DEF flat
    <3> DEFINE S == {k \in 0..n : k # 0 => flat[k] = r[k]}
    <3>4. 0 \in S
      BY <1>1
    <3>5. ASSUME NEW k \in Nat, k < n, k \in S PROVE k + 1 \in S
      <4> DEFINE l == k + 1
      <4>1. l \in 1..n /\ l - 1 = k /\ l \in 0..n
        BY <1>1, <3>5
      <4>2. k # 0 => flat[k] = r[k]
        BY <3>5
      <4> HIDE DEF l
      <4>3. flat[l] = IF l = 1 THEN es[l] ELSE flat[l - 1] \o es[l]
        BY <3>3, <4>1
      <4>4. e[l] = IF l = 1 THEN es[l] ELSE e[l - 1] \o es[l]
        BY <3>2, <4>1
      <4>5. e[l] = r[l] /\ (l # 1 => e[l - 1] = r[l - 1])
        BY <4>1
      <4>6. flat[l] = r[l]
        BY <4>1, <4>2, <4>3, <4>4, <4>5
      <4> QED
        BY <4>1, <4>6 DEF l
    <3>6. 0..n \subseteq S
      <4> HIDE DEF S
      <4> QED
        BY <1>1, <3>4, <3>5, Upwards
    <3> QED
      BY <1>1, <2>2, <3>1, <3>6
  <2> QED
    BY <2>1, <2>2
<1> QED
  BY <1>5, <1>6, <1>7 DEF X

LEMMA FlattenTyped ==
  ASSUME NEW C, NEW es \in Seq(Seq(C))
  PROVE  FlattenSeq(es) \in Seq(C)
<1>1. PICK r \in [0..Len(es) -> Seq(C)] : FlattenSeq(es) = r[Len(es)]
  BY FlattenRun
<1>2. Len(es) \in 0..Len(es)
  BY LenProperties
<1> QED
  BY <1>1, <1>2

-----------------------------------------------------------------------------
(* What decode makes of a text, from its beginning on.                     *)

LEMMA EscapesIn ==
  ASSUME NEW C, NEW t \in Seq(C)
  PROVE  \A i : i \in Escapes(t) <=> i \in 1..Len(t) /\ t[i] = "%"
<1>1. DOMAIN t = 1..Len(t)
  BY LenProperties
<1> QED
  BY <1>1 DEF Escapes

(* A text whose escapes are whole is decoded before what follows it.       *)
Begun(C, u, w, r) ==
  /\ r \in [0..Len(w) -> Seq(C)] /\ r[Len(u)] = decode(u)
  /\ \A k \in 1..Len(w) : r[k] = DecodeStep(w, r[k - 1], k)
  /\ decode(w) = r[Len(w)]

LEMMA DecodeBegins ==
  ASSUME NEW C, NEW u \in Seq(C), NEW v \in Seq(C), NEW w, w = u \o v,
         WellEscaped(u), \A i \in Escapes(w) : Spelled(w, i) \in C
  PROVE  \E r : Begun(C, u, w, r)
<1> DEFINE n == Len(u)
           m == Len(w)
<1>1. /\ n \in Nat /\ m \in Nat /\ n <= m /\ w \in Seq(C)
      /\ \A i \in 1..n : w[i] = u[i]
  BY ConcatProperties, LenProperties
<1>2. /\ \A i : i \in Escapes(u) <=> i \in 1..n /\ u[i] = "%"
      /\ \A i : i \in Escapes(w) <=> i \in 1..m /\ w[i] = "%"
  BY <1>1, EscapesIn
<1>3. \A i : i <= n => (i \in Escapes(u) <=> i \in Escapes(w))
  BY <1>1, <1>2
<1>4. \A i \in Escapes(u) : i \in 1..n /\ i + 2 <= n
  BY <1>2 DEF WellEscaped
<1>5. \A i \in Escapes(u) : Spelled(u, i) = Spelled(w, i) /\ i \in Escapes(w)
  <2>1. ASSUME NEW i \in Escapes(u)
        PROVE  i + 1 \in 1..n /\ i + 2 \in 1..n /\ i <= n
    BY <1>1, <1>4
  <2>2. ASSUME NEW i \in Escapes(u) PROVE u[i + 1] = w[i + 1] /\ u[i + 2] = w[i + 2]
    BY <1>1, <2>1
  <2> QED
    BY <1>3, <2>1, <2>2 DEF Spelled
<1>6. \A i \in Escapes(u) : Spelled(u, i) \in C
  BY <1>5
<1>7. PICK q \in [0..n -> Seq(C)] :
           /\ q[0] = << >>
           /\ \A k \in 1..n : q[k] = DecodeStep(u, q[k - 1], k)
           /\ decode(u) = q[n]
  BY <1>6, DecodeRun
<1>8. PICK r \in [0..m -> Seq(C)] :
           /\ r[0] = << >>
           /\ \A k \in 1..m : r[k] = DecodeStep(w, r[k - 1], k)
           /\ decode(w) = r[m]
  BY <1>1, DecodeRun
<1> HIDE DEF n, m
<1>9. ASSUME NEW k \in 1..n, NEW x PROVE DecodeStep(w, x, k) = DecodeStep(u, x, k)
  <2>1. k <= n /\ k - 1 <= n /\ k - 2 <= n
    BY <1>1
  <2>2. /\ k \in Escapes(w) <=> k \in Escapes(u)
        /\ {k - 1, k - 2} \cap Escapes(w) = {k - 1, k - 2} \cap Escapes(u)
    BY <1>3, <2>1
  <2>3. k \in Escapes(u) => Spelled(w, k) = Spelled(u, k)
    BY <1>5
  <2>4. w[k] = u[k]
    BY <1>1
  <2> QED
    BY <2>2, <2>3, <2>4 DEF DecodeStep
<1>10. r[n] = q[n]
  <2> DEFINE S == {k \in 0..n : r[k] = q[k]}
  <2>1. 0 \in S
    BY <1>1, <1>7, <1>8
  <2>2. ASSUME NEW k \in Nat, k < n, k \in S PROVE k + 1 \in S
    <3> DEFINE l == k + 1
    <3>1. l \in 1..n /\ l \in 1..m /\ l - 1 = k /\ l \in 0..n /\ r[k] = q[k]
      BY <1>1, <2>2
    <3> HIDE DEF l
    <3>2. r[l] = DecodeStep(w, r[l - 1], l) /\ q[l] = DecodeStep(u, q[l - 1], l)
      BY <1>7, <1>8, <3>1
    <3>3. r[l] = q[l]
      BY <1>9, <3>1, <3>2
    <3> QED
      BY <3>1, <3>3 DEF l
  <2>3. 0..n \subseteq S
    <3> HIDE DEF S
    <3> QED
      BY <1>1, <2>1, <2>2, Upwards
  <2> QED
    BY <1>1, <2>3
<1> QED
  BY <1>7, <1>8, <1>10 DEF n, m, Begun

(* One character more, and one escape more.                                *)
LEMMA DecodeChar ==
  ASSUME NEW u \in Seq(Chars), WellEscaped(u), NEW c \in Chars, c # "%"
  PROVE  /\ decode(u \o <<c>>) = Append(decode(u), c)
         /\ WellEscaped(u \o <<c>>)
<1>1. PICK w : w = u \o <<c>>
  OBVIOUS
<1>2. PICK n : n = Len(u)
  OBVIOUS
<1>3. /\ n \in Nat /\ w \in Seq(Chars) /\ Len(w) = n + 1 /\ w[n + 1] = c
      /\ \A i \in 1..n : w[i] = u[i]
  BY <1>1, <1>2, ConcatProperties, LenProperties
<1>4. /\ \A i : i \in Escapes(u) <=> i \in 1..n /\ u[i] = "%"
      /\ \A i : i \in Escapes(w) <=> i \in 1..(n + 1) /\ w[i] = "%"
  BY <1>2, <1>3, EscapesIn
<1>5. Escapes(w) = Escapes(u)
  <2>1. \A i : i \in Escapes(w) <=> i \in Escapes(u)
    BY <1>3, <1>4
  <2> QED
    BY <2>1
<1>6. \A i \in Escapes(w) : i \in 1..n /\ i + 2 <= n
  BY <1>2, <1>4, <1>5 DEF WellEscaped
<1>7. WellEscaped(w)
  <2>1. ASSUME NEW i \in Escapes(w)
        PROVE  i + 2 <= Len(w) /\ {w[i + 1], w[i + 2]} \subseteq HexDigits
    <3>1. i + 1 \in 1..n /\ i + 2 \in 1..n
      BY <1>3, <1>6
    <3>2. w[i + 1] = u[i + 1] /\ w[i + 2] = u[i + 2]
      BY <1>3, <3>1
    <3>3. {u[i + 1], u[i + 2]} \subseteq HexDigits
      BY <1>5 DEF WellEscaped
    <3> QED
      BY <1>3, <3>1, <3>2, <3>3
  <2> QED
    BY <2>1 DEF WellEscaped
<1>8. PICK C : C = Chars \cup {Spelled(w, i) : i \in Escapes(w)}
  OBVIOUS
<1>9. /\ u \in Seq(C) /\ <<c>> \in Seq(C) /\ \A i \in Escapes(w) : Spelled(w, i) \in C
  <2>1. u \in Seq(C)
    BY <1>8, SeqMonotonic
  <2>2. c \in C
    BY <1>8
  <2> QED
    BY <1>8, <2>1, <2>2
<1>b. \E r : Begun(C, u, w, r)
  <2>1. PICK v : v = <<c>> /\ v \in Seq(C) /\ w = u \o v
    BY <1>1, <1>9
  <2> QED
    BY <1>9, <2>1, DecodeBegins
<1>10. PICK r : Begun(C, u, w, r)
  BY <1>b
<1>11. PICK k : k = n + 1
  OBVIOUS
<1>12. k \notin Escapes(w) /\ {k - 1, k - 2} \cap Escapes(w) = {}
  BY <1>3, <1>6, <1>11
<1>13. \A x : DecodeStep(w, x, k) = Append(x, w[k])
  BY <1>12 DEF DecodeStep
<1>14. k \in 1..Len(w) /\ k = Len(w) /\ k - 1 = Len(u) /\ w[k] = c
  BY <1>2, <1>3, <1>11
<1>15. decode(w) = Append(decode(u), c)
  BY <1>10, <1>13, <1>14 DEF Begun
<1> QED
  BY <1>1, <1>7, <1>15

LEMMA DecodeEscape ==
  ASSUME NEW u \in Seq(Chars), WellEscaped(u), NEW a \in HexSet, NEW b \in HexSet
  PROVE  /\ decode(u \o <<"%", a, b>>)
              = Append(decode(u), Char(16 * get_hex_digit(a) + get_hex_digit(b)))
         /\ WellEscaped(u \o <<"%", a, b>>)
<1>1. PICK w : w = u \o <<"%", a, b>>
  OBVIOUS
<1>2. PICK n : n = Len(u)
  OBVIOUS
<1>a. <<"%", a, b>> \in Seq(Chars) /\ a # "%" /\ b # "%"
  <2>1. "%" \in Chars
    BY SignsIn
  <2>2. a \in Chars /\ b \in Chars
    BY HexIn
  <2>3. a # "%" /\ b # "%"
    BY HexMasked
  <2> QED
    BY <2>1, <2>2, <2>3
<1>3. /\ n \in Nat /\ w \in Seq(Chars) /\ Len(w) = n + 3
      /\ w[n + 1] = "%" /\ w[n + 2] = a /\ w[n + 3] = b
      /\ \A i \in 1..n : w[i] = u[i]
  <2>1. PICK v : v = <<"%", a, b>>
    OBVIOUS
  <2>2. v \in Seq(Chars) /\ Len(v) = 3 /\ v[1] = "%" /\ v[2] = a /\ v[3] = b
    BY <1>a, <2>1
  <2>3. /\ u \o v \in Seq(Chars) /\ Len(u \o v) = Len(u) + Len(v)
        /\ \A i \in 1..(Len(u) + Len(v)) :
             (u \o v)[i] = IF i <= Len(u) THEN u[i] ELSE v[i - Len(u)]
    BY <2>2, ConcatProperties
  <2>4. w = u \o v /\ n \in Nat
    BY <1>1, <1>2, <2>1, LenProperties
  <2>5. \A i \in 1..(n + 3) : w[i] = IF i <= n THEN u[i] ELSE v[i - n]
    BY <1>2, <2>2, <2>3, <2>4
  <2>6. w[n + 1] = v[1] /\ w[n + 2] = v[2] /\ w[n + 3] = v[3]
    <3>1. /\ n + 1 \in 1..(n + 3) /\ n + 2 \in 1..(n + 3) /\ n + 3 \in 1..(n + 3)
          /\ (n + 1) - n = 1 /\ (n + 2) - n = 2 /\ (n + 3) - n = 3
          /\ ~(n + 1 <= n) /\ ~(n + 2 <= n) /\ ~(n + 3 <= n)
      BY <2>4
    <3> QED
      BY <2>5, <3>1
  <2> QED
    BY <1>2, <2>2, <2>3, <2>4, <2>5, <2>6
<1>4. /\ \A i : i \in Escapes(u) <=> i \in 1..n /\ u[i] = "%"
      /\ \A i : i \in Escapes(w) <=> i \in 1..(n + 3) /\ w[i] = "%"
  BY <1>2, <1>3, EscapesIn
<1>5. \A i : i \in Escapes(w) <=> i \in Escapes(u) \/ i = n + 1
  BY <1>3, <1>4, <1>a
<1>6. \A i \in Escapes(u) : i \in 1..n /\ i + 2 <= n
  BY <1>2, <1>4 DEF WellEscaped
<1>7. WellEscaped(w)
  <2>1. ASSUME NEW i \in Escapes(u)
        PROVE  i + 2 <= Len(w) /\ {w[i + 1], w[i + 2]} \subseteq HexDigits
    <3>1. i + 1 \in 1..n /\ i + 2 \in 1..n
      BY <1>3, <1>6
    <3>2. w[i + 1] = u[i + 1] /\ w[i + 2] = u[i + 2]
      BY <1>3, <3>1
    <3>3. {u[i + 1], u[i + 2]} \subseteq HexDigits
      BY DEF WellEscaped
    <3> QED
      BY <1>3, <3>1, <3>2, <3>3
  <2>2. (n + 1) + 2 <= Len(w) /\ {w[(n + 1) + 1], w[(n + 1) + 2]} \subseteq HexDigits
    BY <1>3, HexDigitsAre
  <2> QED
    BY <1>5, <2>1, <2>2 DEF WellEscaped
<1>8. PICK C : C = Chars \cup {Spelled(w, i) : i \in Escapes(w)}
  OBVIOUS
<1>9. /\ u \in Seq(C) /\ <<"%", a, b>> \in Seq(C) /\ \A i \in Escapes(w) : Spelled(w, i) \in C
  BY <1>8, <1>a, SeqMonotonic
<1>b. \E r : Begun(C, u, w, r)
  <2>1. PICK v : v = <<"%", a, b>> /\ v \in Seq(C) /\ w = u \o v
    BY <1>1, <1>9
  <2> QED
    BY <1>9, <2>1, DecodeBegins
<1>10. PICK r : Begun(C, u, w, r)
  BY <1>b
<1>11. PICK k : k = n + 1
  OBVIOUS
<1>12. /\ k \in Escapes(w) /\ {k - 1, k - 2} \cap Escapes(w) = {}
       /\ k + 1 \notin Escapes(w) /\ (k + 1) - 1 = k
       /\ k + 2 \notin Escapes(w) /\ (k + 2) - 2 = k
  <2>1. \A i \in Escapes(u) : i < k - 2
    BY <1>3, <1>6, <1>11
  <2>2. k \in Nat
    BY <1>3, <1>11
  <2>3. /\ k - 1 \notin Escapes(u) /\ k - 2 \notin Escapes(u) /\ k + 1 \notin Escapes(u)
        /\ k + 2 \notin Escapes(u)
    BY <2>1, <2>2
  <2>4. k - 1 # k /\ k - 2 # k /\ k + 1 # k /\ k + 2 # k /\ (k + 1) - 1 = k /\ (k + 2) - 2 = k
    BY <2>2
  <2> QED
    BY <1>5, <1>11, <2>3, <2>4
<1>13. \A x : DecodeStep(w, x, k) = Append(x, Spelled(w, k))
  BY <1>12 DEF DecodeStep
<1>14. \A x : DecodeStep(w, x, k + 1) = x
  <2>1. {(k + 1) - 1, (k + 1) - 2} \cap Escapes(w) # {}
    BY <1>12
  <2> QED
    BY <1>12, <2>1 DEF DecodeStep
<1>15. \A x : DecodeStep(w, x, k + 2) = x
  <2>1. {(k + 2) - 1, (k + 2) - 2} \cap Escapes(w) # {}
    BY <1>12
  <2> QED
    BY <1>12, <2>1 DEF DecodeStep
<1>16. /\ k \in 1..Len(w) /\ k + 1 \in 1..Len(w) /\ k + 2 \in 1..Len(w) /\ k - 1 = Len(u)
       /\ (k + 1) - 1 = k /\ (k + 2) - 1 = k + 1 /\ Len(w) = k + 2
  BY <1>2, <1>3, <1>11
<1>17. r[k] = Append(decode(u), Spelled(w, k))
  BY <1>10, <1>13, <1>16 DEF Begun
<1>18. r[k + 1] = r[k]
  BY <1>10, <1>14, <1>16 DEF Begun
<1>19. r[k + 2] = r[k + 1]
  BY <1>10, <1>15, <1>16 DEF Begun
<1>20. Spelled(w, k) = Char(16 * get_hex_digit(a) + get_hex_digit(b))
  <2>1. w[k + 1] = a /\ w[k + 2] = b
    BY <1>3, <1>11
  <2> QED
    BY <2>1 DEF Spelled
<1> QED
  BY <1>1, <1>7, <1>10, <1>16, <1>17, <1>18, <1>19, <1>20 DEF Begun

-----------------------------------------------------------------------------
(* Texts put together.                                                     *)

(* Induction over sequences, for sets.                                     *)
LEMMA Appendwise ==
  ASSUME NEW C, NEW S, << >> \in S,
         \A u \in Seq(C), c \in C : u \in S => Append(u, c) \in S
  PROVE  Seq(C) \subseteq S
<1>1. SUFFICES ASSUME NEW t \in Seq(C) PROVE t \in S
  OBVIOUS
<1> DEFINE n == Len(t)
           T == {k \in 0..n : SubSeq(t, 1, k) \in S}
<1>2. n \in Nat
  BY LenProperties
<1>3. 0 \in T
  <2>1. SubSeq(t, 1, 0) = << >> /\ 0 \in 0..n
    BY <1>2
  <2> QED
    BY <2>1
<1>4. ASSUME NEW k \in Nat, k < n, k \in T PROVE k + 1 \in T
  <2>1. PICK u : u = SubSeq(t, 1, k)
    OBVIOUS
  <2>2. k + 1 \in 1..n /\ k \in 0..n
    BY <1>2, <1>4
  <2>3. u \in Seq(C) /\ u \in S /\ t[k + 1] \in C
    BY <1>2, <1>4, <2>1, <2>2
  <2>4. SubSeq(t, 1, k + 1) = Append(u, t[k + 1])
    BY <1>2, <2>1, <2>2
  <2>5. SubSeq(t, 1, k + 1) \in S
    BY <2>3, <2>4
  <2> QED
    BY <1>2, <2>2, <2>5
<1>5. 0..n \subseteq T
  <2> HIDE DEF T
  <2> QED
    BY <1>2, <1>3, <1>4, Upwards
<1>6. SubSeq(t, 1, n) = t
  BY <1>2
<1>7. n \in T
  BY <1>2, <1>5
<1> QED
  BY <1>6, <1>7

Regrouped(a, b, d) == (a \o b) \o d = a \o (b \o d)

LEMMA Regroup ==
  ASSUME NEW C, NEW a \in Seq(C), NEW b \in Seq(C), NEW d \in Seq(C)
  PROVE  Regrouped(a, b, d)
  BY ConcatAssociative DEF Regrouped

-----------------------------------------------------------------------------
(* What encode and its like write for each character.                      *)
Spelling(pc) ==
  /\ pc \in [Chars -> Seq(Chars)]
  /\ \A c \in Chars : pc[c] = Escape(c) \/ (pc[c] = <<c>> /\ c # "%")

Spelt(pc, t) == FlattenSeq([i \in DOMAIN t |-> pc[t[i]]])

LEMMA PiecesTyped ==
  ASSUME NEW pc \in [Chars -> Seq(Chars)], NEW t \in Seq(Chars)
  PROVE  /\ [i \in DOMAIN t |-> pc[t[i]]] \in Seq(Seq(Chars))
         /\ Len([i \in DOMAIN t |-> pc[t[i]]]) = Len(t)
<1>1. Len(t) \in Nat /\ DOMAIN t = 1..Len(t) /\ \A i \in 1..Len(t) : t[i] \in Chars
  BY LenProperties, ElementOfSeq
<1>2. PICK es : es = [i \in 1..Len(t) |-> pc[t[i]]]
  OBVIOUS
<1>3. es \in [1..Len(t) -> Seq(Chars)]
  BY <1>1, <1>2
<1> QED
  BY <1>1, <1>2, <1>3

LEMMA SpeltRun ==
  ASSUME NEW pc \in [Chars -> Seq(Chars)], NEW t \in Seq(Chars)
  PROVE  \E r \in [0..Len(t) -> Seq(Chars)] :
           /\ r[0] = << >>
           /\ \A k \in 1..Len(t) : r[k] = r[k - 1] \o pc[t[k]]
           /\ Spelt(pc, t) = r[Len(t)]
<1>1. PICK es : es = [i \in DOMAIN t |-> pc[t[i]]]
  OBVIOUS
<1>2. es \in Seq(Seq(Chars)) /\ Len(es) = Len(t) /\ \A k \in 1..Len(t) : es[k] = pc[t[k]]
  <2>1. DOMAIN t = 1..Len(t)
    BY LenProperties
  <2> QED
    BY <1>1, <2>1, PiecesTyped
<1>3. PICK r \in [0..Len(es) -> Seq(Chars)] :
           /\ r[0] = << >>
           /\ \A k \in 1..Len(es) : r[k] = r[k - 1] \o es[k]
           /\ FlattenSeq(es) = r[Len(es)]
  BY <1>2, FlattenRun
<1> QED
  BY <1>1, <1>2, <1>3 DEF Spelt

LEMMA SpeltTyped ==
  ASSUME NEW pc \in [Chars -> Seq(Chars)], NEW t \in Seq(Chars)
  PROVE  Spelt(pc, t) \in Seq(Chars)
  BY PiecesTyped, FlattenTyped DEF Spelt

LEMMA NothingSpelt ==
  ASSUME NEW pc \in [Chars -> Seq(Chars)]
  PROVE  Spelt(pc, << >>) = << >>
<1>1. PICK t : t = << >>
  OBVIOUS
<1>2. t \in Seq(Chars) /\ Len(t) = 0
  BY <1>1
<1>3. PICK r \in [0..Len(t) -> Seq(Chars)] : r[0] = << >> /\ Spelt(pc, t) = r[Len(t)]
  BY <1>2, SpeltRun
<1> QED
  BY <1>1, <1>2, <1>3

(* One character more.                                                     *)
LEMMA SpeltFurther ==
  ASSUME NEW pc \in [Chars -> Seq(Chars)], NEW t \in Seq(Chars), NEW c \in Chars
  PROVE  Spelt(pc, Append(t, c)) = Spelt(pc, t) \o pc[c]
<1> DEFINE n == Len(t)
<1>1. PICK w : w = Append(t, c)
  OBVIOUS
<1>2. /\ n \in Nat /\ w \in Seq(Chars) /\ Len(w) = n + 1 /\ w[n + 1] = c
      /\ \A i \in 1..n : w[i] = t[i]
  BY <1>1, AppendProperties, LenProperties
<1> HIDE DEF n
<1>3. PICK q \in [0..n -> Seq(Chars)] :
           /\ q[0] = << >>
           /\ \A k \in 1..n : q[k] = q[k - 1] \o pc[t[k]]
           /\ Spelt(pc, t) = q[n]
  BY SpeltRun DEF n
<1>4. PICK r \in [0..(n + 1) -> Seq(Chars)] :
           /\ r[0] = << >>
           /\ \A k \in 1..(n + 1) : r[k] = r[k - 1] \o pc[w[k]]
           /\ Spelt(pc, w) = r[n + 1]
  <2>1. \E r \in [0..Len(w) -> Seq(Chars)] :
           /\ r[0] = << >>
           /\ \A k \in 1..Len(w) : r[k] = r[k - 1] \o pc[w[k]]
           /\ Spelt(pc, w) = r[Len(w)]
    BY <1>2, SpeltRun
  <2> QED
    BY <1>2, <2>1
<1> DEFINE S == {k \in 0..n : r[k] = q[k]}
<1>5. 0 \in S
  BY <1>2, <1>3, <1>4
<1>6. ASSUME NEW k \in Nat, k < n, k \in S PROVE k + 1 \in S
  <2> DEFINE l == k + 1
  <2>1. l \in 1..n /\ l \in 1..(n + 1) /\ l - 1 = k /\ l \in 0..n /\ r[k] = q[k]
    BY <1>2, <1>6
  <2> HIDE DEF l
  <2>2. r[l] = r[l - 1] \o pc[w[l]] /\ q[l] = q[l - 1] \o pc[t[l]] /\ w[l] = t[l]
    BY <1>2, <1>3, <1>4, <2>1
  <2>3. r[l] = q[l]
    BY <2>1, <2>2
  <2> QED
    BY <2>1, <2>3 DEF l
<1>7. 0..n \subseteq S
  <2> HIDE DEF S
  <2> QED
    BY <1>2, <1>5, <1>6, Upwards
<1>8. r[n] = q[n]
  BY <1>2, <1>7
<1>9. PICK m : m = n + 1
  OBVIOUS
<1>10. m \in 1..(n + 1) /\ m - 1 = n
  BY <1>2, <1>9
<1>11. r[m] = r[m - 1] \o pc[w[m]]
  BY <1>4, <1>10
<1> QED
  BY <1>1, <1>2, <1>3, <1>4, <1>8, <1>9, <1>10, <1>11

LEMMA SpeltConcat ==
  ASSUME NEW pc \in [Chars -> Seq(Chars)], NEW t \in Seq(Chars), NEW u \in Seq(Chars)
  PROVE  Spelt(pc, t \o u) = Spelt(pc, t) \o Spelt(pc, u)
<1> DEFINE S == {v \in Seq(Chars) : Spelt(pc, t \o v) = Spelt(pc, t) \o Spelt(pc, v)}
<1>1. << >> \in S
  <2>1. t \o << >> = t /\ Spelt(pc, t) \in Seq(Chars)
    BY ConcatEmptySeq, SpeltTyped
  <2>2. Spelt(pc, t) \o << >> = Spelt(pc, t)
    BY <2>1, ConcatEmptySeq
  <2> QED
    BY <2>1, <2>2, NothingSpelt
<1>2. ASSUME NEW v \in Seq(Chars), NEW c \in Chars, v \in S PROVE Append(v, c) \in S
  <2>1. PICK a, b, d : a = Spelt(pc, t) /\ b = Spelt(pc, v) /\ d = pc[c]
    OBVIOUS
  <2>2. a \in Seq(Chars) /\ b \in Seq(Chars) /\ d \in Seq(Chars) /\ t \o v \in Seq(Chars)
    BY <2>1, SpeltTyped, ConcatProperties
  <2>3. t \o Append(v, c) = Append(t \o v, c) /\ Append(v, c) \in Seq(Chars)
    BY AppendLast, AppendProperties DEF Longer
  <2>4. Spelt(pc, Append(t \o v, c)) = Spelt(pc, t \o v) \o d
    BY <2>1, <2>2, SpeltFurther
  <2>5. Spelt(pc, Append(v, c)) = b \o d
    BY <2>1, SpeltFurther
  <2>6. Spelt(pc, t \o v) = a \o b
    BY <1>2, <2>1
  <2>7. Regrouped(a, b, d)
    BY <2>2, Regroup
  <2>8. Spelt(pc, t \o Append(v, c)) = a \o Spelt(pc, Append(v, c))
    BY <2>3, <2>4, <2>5, <2>6, <2>7 DEF Regrouped
  <2> QED
    BY <2>1, <2>3, <2>8
<1>3. Seq(Chars) \subseteq S
  <2> HIDE DEF S
  <2> QED
    BY <1>1, <1>2, Appendwise
<1> QED
  BY <1>3

LEMMA EscapeIs ==
  ASSUME NEW c \in Chars
  PROVE  \E a, b : /\ a \in HexSet /\ b \in HexSet /\ Escape(c) = <<"%", a, b>>
                   /\ Char(16 * get_hex_digit(a) + get_hex_digit(b)) = c
<1>1. PICK n : n = Code(c)
  OBVIOUS
<1>2. n \in 32..126 /\ Char(n) = c
  BY <1>1, CodeIs
<1>3. PICK h, l : h = n \div 16 /\ l = n % 16
  OBVIOUS
<1>4. h \in 0..15 /\ l \in 0..15 /\ 16 * h + l = n
  BY <1>2, <1>3
<1>5. PICK a, b : a = UpperHex[h + 1] /\ b = UpperHex[l + 1]
  OBVIOUS
<1>6. a \in HexSet /\ b \in HexSet /\ get_hex_digit(a) = h /\ get_hex_digit(b) = l
  BY <1>4, <1>5, HexDigitsAre, HexDigitIs
<1>7. Escape(c) = <<"%", a, b>>
  BY <1>1, <1>3, <1>5 DEF Escape
<1> QED
  BY <1>2, <1>4, <1>6, <1>7

-----------------------------------------------------------------------------
(* encode, undone by decode.                                               *)

LEMMA One ==
  ASSUME NEW C, NEW c \in C
  PROVE  <<c>> \in Seq(C) /\ Len(<<c>>) = 1 /\ <<c>>[1] = c
<1>1. <<c>> \in Seq(C)
  OBVIOUS
<1>2. Len(<<c>>) = 1
  OBVIOUS
<1>3. <<c>>[1] = c
  OBVIOUS
<1> QED
  BY <1>1, <1>2, <1>3

LEMMA None == ASSUME NEW C PROVE << >> \in Seq(C) /\ Len(<< >>) = 0
  OBVIOUS

LEMMA NothingDecoded == decode(<< >>) = << >> /\ WellEscaped(<< >>)
<1>1. PICK t : t = << >>
  OBVIOUS
<1>2. t \in Seq(Chars) /\ Len(t) = 0 /\ DOMAIN t = {}
  BY <1>1
<1>3. Escapes(t) = {}
  BY <1>2 DEF Escapes
<1>4. PICK r \in [0..Len(t) -> Seq(Chars)] : r[0] = << >> /\ decode(t) = r[Len(t)]
  BY <1>2, <1>3, DecodeRun
<1> QED
  BY <1>1, <1>2, <1>3, <1>4 DEF WellEscaped

(* What is written so is well escaped and decoded to what it was.          *)
LEMMA SpeltBack ==
  ASSUME NEW pc, Spelling(pc), NEW t \in Seq(Chars)
  PROVE  decode(Spelt(pc, t)) = t /\ WellEscaped(Spelt(pc, t))
<1>1. pc \in [Chars -> Seq(Chars)]
  BY DEF Spelling
<1> DEFINE S == {v \in Seq(Chars) : decode(Spelt(pc, v)) = v /\ WellEscaped(Spelt(pc, v))}
<1>2. << >> \in S
  BY <1>1, NothingSpelt, NothingDecoded
<1>3. ASSUME NEW v \in Seq(Chars), NEW c \in Chars, v \in S PROVE Append(v, c) \in S
  <2>1. PICK u : u = Spelt(pc, v)
    OBVIOUS
  <2>2. u \in Seq(Chars) /\ WellEscaped(u) /\ decode(u) = v
    BY <1>1, <1>3, <2>1, SpeltTyped
  <2>3. Spelt(pc, Append(v, c)) = u \o pc[c]
    BY <1>1, <2>1, SpeltFurther
  <2>4. decode(u \o pc[c]) = Append(v, c) /\ WellEscaped(u \o pc[c])
    <3>1. CASE pc[c] = <<c>> /\ c # "%"
      BY <2>2, <3>1, DecodeChar
    <3>2. CASE pc[c] = Escape(c)
      <4>1. PICK a, b : /\ a \in HexSet /\ b \in HexSet /\ Escape(c) = <<"%", a, b>>
                        /\ Char(16 * get_hex_digit(a) + get_hex_digit(b)) = c
        BY EscapeIs
      <4> QED
        BY <2>2, <3>2, <4>1, DecodeEscape
    <3> QED
      BY <3>1, <3>2 DEF Spelling
  <2>5. Append(v, c) \in Seq(Chars)
    BY AppendProperties
  <2> QED
    BY <2>3, <2>4, <2>5
<1>4. Seq(Chars) \subseteq S
  <2> HIDE DEF S
  <2> QED
    BY <1>2, <1>3, Appendwise
<1> QED
  BY <1>4

(* The characters that are written.                                        *)
LEMMA SpeltOver ==
  ASSUME NEW D, NEW pc \in [Chars -> Seq(Chars)], \A c \in Chars : pc[c] \in Seq(D),
         NEW t \in Seq(Chars)
  PROVE  Spelt(pc, t) \in Seq(D)
<1> DEFINE S == {v \in Seq(Chars) : Spelt(pc, v) \in Seq(D)}
<1>1. << >> \in S
  <2>1. << >> \in Seq(Chars) /\ << >> \in Seq(D)
    BY None
  <2> QED
    BY <2>1, NothingSpelt
<1>2. ASSUME NEW v \in Seq(Chars), NEW c \in Chars, v \in S PROVE Append(v, c) \in S
  <2>1. Spelt(pc, Append(v, c)) = Spelt(pc, v) \o pc[c]
    BY SpeltFurther
  <2>2. Spelt(pc, v) \o pc[c] \in Seq(D)
    BY <1>2, ConcatProperties
  <2> QED
    BY <2>1, <2>2, AppendProperties
<1>3. Seq(Chars) \subseteq S
  <2> HIDE DEF S
  <2> QED
    BY <1>1, <1>2, Appendwise
<1> QED
  BY <1>3

LEMMA EscapeOver ==
  ASSUME NEW D, HexSet \subseteq D, "%" \in D, NEW c \in Chars
  PROVE  Escape(c) \in Seq(D)
<1>1. PICK a, b : a \in HexSet /\ b \in HexSet /\ Escape(c) = <<"%", a, b>>
  BY EscapeIs
<1>2. a \in D /\ b \in D
  BY <1>1
<1> QED
  BY <1>1, <1>2

(* encode.                                                                 *)
PieceOf(mask) == [c \in Chars |-> IF c \in mask THEN <<c>> ELSE Escape(c)]

LEMMA EscapeTyped ==
  ASSUME NEW c \in Chars
  PROVE  Escape(c) \in Seq(Chars)
<1>1. PICK a, b : a \in HexSet /\ b \in HexSet /\ Escape(c) = <<"%", a, b>>
  BY EscapeIs
<1>2. a \in Chars /\ b \in Chars /\ "%" \in Chars
  <2>1. "%" \in Chars
    BY SignsIn
  <2> QED
    BY <1>1, <2>1, HexIn
<1> QED
  BY <1>1, <1>2

LEMMA PieceSpelling ==
  ASSUME NEW mask, "%" \notin mask
  PROVE  /\ Spelling(PieceOf(mask)) /\ PieceOf(mask) \in [Chars -> Seq(Chars)]
         /\ \A c \in Chars : PieceOf(mask)[c] = IF c \in mask THEN <<c>> ELSE Escape(c)
<1>1. \A c \in Chars : (IF c \in mask THEN <<c>> ELSE Escape(c)) \in Seq(Chars)
  BY EscapeTyped
<1>2. PieceOf(mask) \in [Chars -> Seq(Chars)]
  BY <1>1 DEF PieceOf
<1>3. \A c \in Chars : PieceOf(mask)[c] = IF c \in mask THEN <<c>> ELSE Escape(c)
  BY DEF PieceOf
<1>4. \A c \in Chars : PieceOf(mask)[c] = Escape(c) \/ (PieceOf(mask)[c] = <<c>> /\ c # "%")
  <2>1. PICK pc : pc = PieceOf(mask)
    OBVIOUS
  <2>2. ASSUME NEW c \in Chars PROVE pc[c] = Escape(c) \/ (pc[c] = <<c>> /\ c # "%")
    <3>1. CASE c \in mask
      <4>1. c # "%"
        BY <3>1
      <4>2. pc[c] = <<c>>
        BY <1>3, <2>1, <3>1
      <4> QED
        BY <4>1, <4>2
    <3>2. CASE ~(c \in mask)
      <4>1. PieceOf(mask)[c] = Escape(c)
        BY <3>2 DEF PieceOf
      <4> QED
        BY <2>1, <4>1
    <3> QED
      BY <3>1, <3>2
  <2> QED
    BY <2>1, <2>2
<1> QED
  BY <1>2, <1>3, <1>4 DEF Spelling

LEMMA EncodeSpelt ==
  ASSUME NEW mask, NEW t \in Seq(Chars)
  PROVE  encode(t, mask) = Spelt(PieceOf(mask), t)
<1>1. \A i \in DOMAIN t : t[i] \in Chars
  BY LenProperties, ElementOfSeq
<1>2. \A i \in DOMAIN t : PieceOf(mask)[t[i]]
                            = IF t[i] \in mask THEN <<t[i]>> ELSE Escape(t[i])
  BY <1>1 DEF PieceOf
<1>3. [i \in DOMAIN t |-> IF t[i] \in mask THEN <<t[i]>> ELSE Escape(t[i])]
        = [i \in DOMAIN t |-> PieceOf(mask)[t[i]]]
  BY <1>2
<1> QED
  BY <1>3 DEF encode, Spelt

(* Whatever is escaped, decode gives back what encode was given, for every *)
(* text and every mask that leaves out the '%': path, user and fragment.   *)
THEOREM EscapesUndone ==
  ASSUME NEW mask, "%" \notin mask, NEW t \in Seq(Chars)
  PROVE  /\ decode(encode(t, mask)) = t
         /\ encode(t, mask) \in Seq((mask \cap Chars) \cup {"%"} \cup HexSet)
         /\ WellEscaped(encode(t, mask))
<1>1. encode(t, mask) = Spelt(PieceOf(mask), t)
  BY EncodeSpelt
<1>2. Spelling(PieceOf(mask)) /\ PieceOf(mask) \in [Chars -> Seq(Chars)]
  BY PieceSpelling
<1>3. decode(Spelt(PieceOf(mask), t)) = t /\ WellEscaped(Spelt(PieceOf(mask), t))
  BY <1>2, SpeltBack
<1>4. PICK M : M = mask \cap Chars
  OBVIOUS
<1>5. \A c \in Chars : PieceOf(mask)[c] = Escape(c) \/ (PieceOf(mask)[c] = <<c>> /\ c \in M)
  <2>1. PICK pc : pc = PieceOf(mask)
    OBVIOUS
  <2>2. \A c \in Chars : pc[c] = IF c \in mask THEN <<c>> ELSE Escape(c)
    BY <2>1, PieceSpelling
  <2>3. ASSUME NEW c \in Chars PROVE pc[c] = Escape(c) \/ (pc[c] = <<c>> /\ c \in M)
    <3>1. CASE c \in mask
      <4>1. c \in M
        BY <1>4, <3>1
      <4>2. pc[c] = <<c>>
        BY <2>2, <3>1
      <4> QED
        BY <4>1, <4>2
    <3>2. CASE ~(c \in mask)
      <4>1. PieceOf(mask)[c] = Escape(c)
        BY <3>2 DEF PieceOf
      <4> QED
        BY <2>1, <4>1
    <3> QED
      BY <3>1, <3>2
  <2> QED
    BY <2>1, <2>3
<1> DEFINE D == M \cup {"%"} \cup HexSet
<1>6. Spelt(PieceOf(mask), t) \in Seq(D)
  <2>1. HexSet \subseteq D /\ "%" \in D /\ M \subseteq D
    OBVIOUS
  <2> HIDE DEF D
  <2>2. ASSUME NEW c \in Chars PROVE PieceOf(mask)[c] \in Seq(D)
    <3>1. CASE PieceOf(mask)[c] = Escape(c)
      BY <2>1, <3>1, EscapeOver
    <3>2. CASE PieceOf(mask)[c] = <<c>> /\ c \in M
      <4>1. c \in D
        BY <2>1, <3>2
      <4> QED
        BY <3>2, <4>1
    <3> QED
      BY <1>5, <3>1, <3>2
  <2> QED
    BY <1>2, <2>2, SpeltOver
<1> QED
  BY <1>1, <1>3, <1>4, <1>6

-----------------------------------------------------------------------------
(* A query: blanks are written as '+'.                                     *)
Unplus(t) == [i \in DOMAIN t |-> IF t[i] = "+" THEN " " ELSE t[i]]

Blanked(special) ==
  [c \in Chars |-> CASE c = " " -> <<"+">>
                     [] c # " " /\ c \in special -> Escape(c)
                     [] OTHER -> PieceOf(Mask1F)[c]]

Unblanked(special) ==
  [c \in Chars |-> CASE c = " " -> <<" ">>
                     [] c # " " /\ c \in special -> Escape(c)
                     [] OTHER -> PieceOf(Mask1F)[c]]

LEMMA FunctionIsSeq ==
  ASSUME NEW n \in Nat, NEW S, NEW f \in [1..n -> S]
  PROVE  f \in Seq(S) /\ Len(f) = n /\ DOMAIN f = 1..n
<1>1. f \in Seq(S)
  BY SeqDef
<1>2. DOMAIN f = 1..n
  OBVIOUS
<1>3. Len(f) \in Nat /\ DOMAIN f = 1..Len(f)
  BY <1>1, LenProperties
<1> QED
  BY <1>1, <1>2, <1>3

LEMMA UnplusTyped ==
  ASSUME NEW t \in Seq(Chars)
  PROVE  /\ Unplus(t) \in Seq(Chars) /\ Len(Unplus(t)) = Len(t)
         /\ \A i \in 1..Len(t) : Unplus(t)[i] = IF t[i] = "+" THEN " " ELSE t[i]
<1>1. Len(t) \in Nat /\ DOMAIN t = 1..Len(t) /\ \A i \in 1..Len(t) : t[i] \in Chars
  BY LenProperties, ElementOfSeq
<1>2. PICK u : u = Unplus(t)
  OBVIOUS
<1>3. u = [i \in 1..Len(t) |-> IF t[i] = "+" THEN " " ELSE t[i]]
  BY <1>1, <1>2 DEF Unplus
<1>4. \A i \in 1..Len(t) : u[i] = IF t[i] = "+" THEN " " ELSE t[i]
  BY <1>3
<1>5. " " \in Chars
  BY SignsIn
<1>6. u \in [1..Len(t) -> Chars]
  BY <1>1, <1>3, <1>4, <1>5
<1>7. u \in Seq(Chars) /\ Len(u) = Len(t)
  BY <1>1, <1>6, FunctionIsSeq
<1> QED
  BY <1>2, <1>4, <1>7

LEMMA UnplusConcat ==
  ASSUME NEW t \in Seq(Chars), NEW u \in Seq(Chars)
  PROVE  Unplus(t \o u) = Unplus(t) \o Unplus(u)
<1>1. PICK w : w = t \o u
  OBVIOUS
<1>2. PICK a, b : a = Unplus(t) /\ b = Unplus(u)
  OBVIOUS
<1>3. PICK n, m : n = Len(t) /\ m = Len(u)
  OBVIOUS
<1>4. /\ w \in Seq(Chars) /\ Len(w) = n + m /\ n \in Nat /\ m \in Nat
      /\ \A i \in 1..(n + m) : w[i] = IF i <= n THEN t[i] ELSE u[i - n]
  BY <1>1, <1>3, ConcatProperties, LenProperties
<1>5. /\ a \in Seq(Chars) /\ b \in Seq(Chars) /\ Len(a) = n /\ Len(b) = m
      /\ \A i \in 1..n : a[i] = IF t[i] = "+" THEN " " ELSE t[i]
      /\ \A i \in 1..m : b[i] = IF u[i] = "+" THEN " " ELSE u[i]
  BY <1>2, <1>3, UnplusTyped
<1>6. /\ Unplus(w) \in Seq(Chars) /\ Len(Unplus(w)) = n + m
      /\ \A i \in 1..(n + m) : Unplus(w)[i] = IF w[i] = "+" THEN " " ELSE w[i]
  BY <1>4, UnplusTyped
<1>7. /\ a \o b \in Seq(Chars) /\ Len(a \o b) = n + m
      /\ \A i \in 1..(n + m) : (a \o b)[i] = IF i <= n THEN a[i] ELSE b[i - n]
  BY <1>5, ConcatProperties
<1>8. \A i \in 1..(n + m) : Unplus(w)[i] = (a \o b)[i]
  <2>1. ASSUME NEW i \in 1..(n + m) PROVE Unplus(w)[i] = (a \o b)[i]
    <3>1. CASE i <= n
      <4>1. i \in 1..n
        BY <1>4, <3>1
      <4> QED
        BY <1>4, <1>5, <1>6, <1>7, <3>1, <4>1
    <3>2. CASE ~(i <= n)
      <4>1. i - n \in 1..m
        BY <1>4, <3>2
      <4> QED
        BY <1>4, <1>5, <1>6, <1>7, <3>2, <4>1
    <3> QED
      BY <3>1, <3>2
  <2> QED
    BY <2>1
<1>9. Unplus(w) = a \o b
  BY <1>6, <1>7, <1>8, SeqEqual
<1> QED
  BY <1>1, <1>2, <1>9

-----------------------------------------------------------------------------
(* Keys and values, undone by decode_plus.                                 *)

LEMMA FewPlaces ==
  /\ 1..0 = {} /\ 1..1 = {1}
  /\ \A i \in 1..3 : i = 1 \/ i = 2 \/ i = 3
<1>1. 1..0 = {}
  OBVIOUS
<1>2. 1..1 = {1}
  OBVIOUS
<1>3. \A i \in 1..3 : i = 1 \/ i = 2 \/ i = 3
  OBVIOUS
<1> QED
  BY <1>1, <1>2, <1>3

LEMMA UnplusWell ==
  ASSUME NEW t \in Seq(Chars), WellEscaped(Unplus(t))
  PROVE  WellEscaped(t)
<1>1. PICK u : u = Unplus(t)
  OBVIOUS
<1>2. /\ u \in Seq(Chars) /\ Len(u) = Len(t) /\ Len(t) \in Nat
      /\ \A i \in 1..Len(t) : u[i] = IF t[i] = "+" THEN " " ELSE t[i]
  BY <1>1, UnplusTyped, LenProperties
<1>3. " " \notin HexDigits
  BY HexDigitsAre DEF HexSet
<1>4. ASSUME NEW i \in Escapes(t)
      PROVE i + 2 <= Len(t) /\ {t[i + 1], t[i + 2]} \subseteq HexDigits
  <2>1. i \in 1..Len(t) /\ t[i] = "%"
    BY EscapesIn
  <2>2. u[i] = "%"
    BY <1>2, <2>1
  <2>3. i \in Escapes(u)
    BY <1>2, <2>1, <2>2, EscapesIn
  <2>4. i + 2 <= Len(t) /\ u[i + 1] \in HexDigits /\ u[i + 2] \in HexDigits
    BY <1>1, <1>2, <2>3 DEF WellEscaped
  <2>5. i + 1 \in 1..Len(t) /\ i + 2 \in 1..Len(t)
    <3>1. PICK n : n = Len(t)
      OBVIOUS
    <3>2. n \in Nat /\ i \in 1..n /\ i + 2 <= n
      BY <1>2, <2>1, <2>4, <3>1
    <3>3. i + 1 \in 1..n /\ i + 2 \in 1..n
      BY ONLY <3>2
    <3> QED
      BY <3>1, <3>3
  <2>6. t[i + 1] = u[i + 1] /\ t[i + 2] = u[i + 2]
    BY <1>2, <1>3, <2>4, <2>5
  <2> QED
    BY <2>4, <2>6
<1> QED
  BY <1>4 DEF WellEscaped

LEMMA UnplusSame ==
  ASSUME NEW t \in Seq(Chars), \A i \in 1..Len(t) : t[i] # "+"
  PROVE  Unplus(t) = t
<1>1. \A i \in 1..Len(t) : Unplus(t)[i] = t[i]
  BY UnplusTyped
<1> QED
  BY <1>1, UnplusTyped, SeqEqual

(* One character by itself.                                                *)
LEMMA SpeltOne ==
  ASSUME NEW pc \in [Chars -> Seq(Chars)], NEW c \in Chars
  PROVE  Spelt(pc, <<c>>) = pc[c]
<1>1. Append(<< >>, c) = <<c>> /\ << >> \in Seq(Chars)
  OBVIOUS
<1>2. Spelt(pc, <<c>>) = Spelt(pc, << >>) \o pc[c]
  BY <1>1, SpeltFurther
<1>3. << >> \o pc[c] = pc[c]
  BY ConcatEmptySeq
<1> QED
  BY <1>2, <1>3, NothingSpelt

LEMMA BlankedIs ==
  ASSUME NEW special, " " \notin special
  PROVE  /\ Blanked(special)[" "] = <<"+">> /\ Unblanked(special)[" "] = <<" ">>
         /\ \A c \in Chars \cap special :
              Blanked(special)[c] = Escape(c) /\ Unblanked(special)[c] = Escape(c)
         /\ \A c \in Chars : c # " " /\ c \notin special =>
              /\ Blanked(special)[c] = PieceOf(Mask1F)[c]
              /\ Unblanked(special)[c] = PieceOf(Mask1F)[c]
<1>1. " " \in Chars
  BY SignsIn
<1>2. Blanked(special)[" "] = <<"+">> /\ Unblanked(special)[" "] = <<" ">>
  BY <1>1 DEF Blanked, Unblanked
<1>3. ASSUME NEW c \in Chars \cap special
      PROVE Blanked(special)[c] = Escape(c) /\ Unblanked(special)[c] = Escape(c)
  BY <1>3 DEF Blanked, Unblanked
<1>4. ASSUME NEW c \in Chars, c # " ", c \notin special
      PROVE /\ Blanked(special)[c] = PieceOf(Mask1F)[c]
            /\ Unblanked(special)[c] = PieceOf(Mask1F)[c]
  BY <1>4 DEF Blanked, Unblanked
<1> QED
  BY <1>2, <1>3, <1>4

LEMMA UnblankedSpelling ==
  ASSUME NEW special, " " \notin special
  PROVE  Spelling(Unblanked(special)) /\ Unblanked(special) \in [Chars -> Seq(Chars)]
<1>1. PICK pc : pc = Unblanked(special)
  OBVIOUS
<1>2. Spelling(PieceOf(Mask1F)) /\ PieceOf(Mask1F) \in [Chars -> Seq(Chars)]
  BY PieceSpelling, MasksOut
<1>3. \A c \in Chars : pc[c] = Escape(c) \/ (pc[c] = <<c>> /\ c # "%")
  <2>1. ASSUME NEW c \in Chars PROVE pc[c] = Escape(c) \/ (pc[c] = <<c>> /\ c # "%")
    <3>1. CASE c = " "
      BY <1>1, <3>1, BlankedIs
    <3>2. CASE c \in special
      BY <1>1, <3>2, BlankedIs
    <3>3. CASE c # " " /\ c \notin special
      BY <1>1, <1>2, <3>3, BlankedIs DEF Spelling
    <3> QED
      BY <3>1, <3>2, <3>3
  <2> QED
    BY <2>1
<1>4. \A c \in Chars : pc[c] \in Seq(Chars)
  <2>1. ASSUME NEW c \in Chars PROVE pc[c] \in Seq(Chars)
    <3>1. <<c>> \in Seq(Chars) /\ Escape(c) \in Seq(Chars)
      BY One, EscapeTyped
    <3> QED
      BY <1>3, <3>1
  <2> QED
    BY <2>1
<1>5. pc = [c \in Chars |-> pc[c]]
  BY <1>1 DEF Unblanked
<1>6. pc \in [Chars -> Seq(Chars)]
  BY <1>4, <1>5
<1> QED
  BY <1>1, <1>3, <1>6 DEF Spelling

LEMMA BlankedTyped ==
  ASSUME NEW special, " " \notin special
  PROVE  Blanked(special) \in [Chars -> Seq(Chars)]
<1>1. PICK pc : pc = Blanked(special)
  OBVIOUS
<1>2. PieceOf(Mask1F) \in [Chars -> Seq(Chars)]
  BY PieceSpelling, MasksOut
<1>3. ASSUME NEW c \in Chars PROVE pc[c] \in Seq(Chars)
  <2>1. CASE c = " "
    <3>1. "+" \in Chars
      BY SignsIn
    <3>2. <<"+">> \in Seq(Chars)
      BY <3>1, One
    <3> QED
      BY <1>1, <2>1, <3>2, BlankedIs
  <2>2. CASE c \in special
    BY <1>1, <2>2, BlankedIs, EscapeTyped
  <2>3. CASE c # " " /\ c \notin special
    BY <1>1, <1>2, <2>3, BlankedIs
  <2> QED
    BY <2>1, <2>2, <2>3
<1>4. pc = [c \in Chars |-> pc[c]]
  BY <1>1 DEF Blanked
<1> QED
  BY <1>1, <1>3, <1>4

LEMMA QuerySpelt ==
  ASSUME NEW special, " " \notin special, NEW t \in Seq(Chars)
  PROVE  encode_query(t, special) = Spelt(Blanked(special), t)
<1>1. \A i \in DOMAIN t : t[i] \in Chars
  BY LenProperties, ElementOfSeq
<1>2. PICK pc : pc = Blanked(special)
  OBVIOUS
<1>3. ASSUME NEW c \in Chars
      PROVE (CASE c = " " -> <<"+">> [] c \in special -> Escape(c)
               [] OTHER -> encode(<<c>>, Mask1F)) = pc[c]
  <2>1. CASE c = " "
    BY <1>2, <2>1, BlankedIs
  <2>2. CASE c \in special
    <3>1. c # " "
      BY <2>2
    <3> QED
      BY <1>2, <2>2, <3>1, BlankedIs
  <2>3. CASE c # " " /\ c \notin special
    <3>1. encode(<<c>>, Mask1F) = PieceOf(Mask1F)[c]
      <4>1. <<c>> \in Seq(Chars)
        BY One
      <4>2. encode(<<c>>, Mask1F) = Spelt(PieceOf(Mask1F), <<c>>)
        BY <4>1, EncodeSpelt
      <4>3. PieceOf(Mask1F) \in [Chars -> Seq(Chars)]
        BY PieceSpelling, MasksOut
      <4> QED
        BY <4>2, <4>3, SpeltOne
    <3> QED
      BY <1>2, <2>3, <3>1, BlankedIs
  <2> QED
    BY <2>1, <2>2, <2>3
<1>4. [i \in DOMAIN t |-> CASE t[i] = " " -> <<"+">>
                            [] t[i] \in special -> Escape(t[i])
                            [] OTHER -> encode(<<t[i]>>, Mask1F)]
        = [i \in DOMAIN t |-> pc[t[i]]]
  BY <1>1, <1>3
<1> QED
  BY <1>2, <1>4 DEF encode_query, Spelt

LEMMA UnplusPiece ==
  ASSUME NEW special, " " \notin special, "+" \in special, NEW c \in Chars
  PROVE  Unplus(Blanked(special)[c]) = Unblanked(special)[c]
<1>0. ASSUME NEW d \in Chars PROVE Unplus(Escape(d)) = Escape(d)
  <2>1. PICK a, b : a \in HexSet /\ b \in HexSet /\ Escape(d) = <<"%", a, b>>
    BY EscapeIs
  <2>2. PICK u : u = <<"%", a, b>>
    OBVIOUS
  <2>3. "+" \notin HexSet
    BY DEF HexSet
  <2>4. Len(u) = 3 /\ u[1] # "+" /\ u[2] # "+" /\ u[3] # "+"
    BY <2>1, <2>2, <2>3
  <2>5. \A i \in 1..Len(u) : u[i] # "+"
    <3>1. \A i \in 1..3 : i = 1 \/ i = 2 \/ i = 3
      BY FewPlaces
    <3> QED
      BY <2>4, <3>1
  <2>6. u \in Seq(Chars)
    BY <2>1, <2>2, EscapeTyped
  <2> QED
    BY <2>1, <2>2, <2>5, <2>6, UnplusSame
<1>1. CASE c = " "
  <2>1. "+" \in Chars /\ " " \in Chars
    BY SignsIn
  <2>2. PICK t, u : t = <<"+">> /\ u = <<" ">>
    OBVIOUS
  <2>3. /\ t \in Seq(Chars) /\ Len(t) = 1 /\ t[1] = "+"
        /\ u \in Seq(Chars) /\ Len(u) = 1 /\ u[1] = " "
    BY <2>1, <2>2, One
  <2>4. 1 \in 1..Len(t) /\ 1..Len(t) = {1}
    BY <2>3, FewPlaces
  <2>5. Unplus(t) \in Seq(Chars) /\ Len(Unplus(t)) = 1 /\ Unplus(t)[1] = " "
    BY <2>3, <2>4, UnplusTyped
  <2>6. Unplus(t) = u
    BY <2>3, <2>4, <2>5, SeqEqual
  <2> QED
    BY <1>1, <2>2, <2>6, BlankedIs
<1>2. CASE c \in special
  BY <1>0, <1>2, BlankedIs
<1>3. CASE c # " " /\ c \notin special
  <2>1. PieceOf(Mask1F)[c] = Escape(c) \/ PieceOf(Mask1F)[c] = <<c>>
    BY PieceSpelling, MasksOut DEF Spelling
  <2>2. Unplus(<<c>>) = <<c>>
    <3>1. c # "+"
      BY <1>3
    <3>2. PICK u : u = <<c>>
      OBVIOUS
    <3>3. u \in Seq(Chars) /\ Len(u) = 1 /\ u[1] = c
      BY <3>2, One
    <3>4. \A i \in 1..Len(u) : u[i] # "+"
      BY <3>1, <3>3, FewPlaces
    <3> QED
      BY <3>2, <3>3, <3>4, UnplusSame
  <2> QED
    BY <1>0, <1>3, <2>1, <2>2, BlankedIs
<1> QED
  BY <1>1, <1>2, <1>3

(* The blanks that '+' stands for, once they are blanks again.             *)
LEMMA UnplusSpelt ==
  ASSUME NEW special, " " \notin special, "+" \in special, NEW t \in Seq(Chars)
  PROVE  Unplus(Spelt(Blanked(special), t)) = Spelt(Unblanked(special), t)
<1>1. PICK pc, qc : pc = Blanked(special) /\ qc = Unblanked(special)
  OBVIOUS
<1>2. pc \in [Chars -> Seq(Chars)] /\ qc \in [Chars -> Seq(Chars)]
  BY <1>1, BlankedTyped, UnblankedSpelling
<1>3. \A c \in Chars : Unplus(pc[c]) = qc[c]
  BY <1>1, UnplusPiece
<1> DEFINE S == {v \in Seq(Chars) : Unplus(Spelt(pc, v)) = Spelt(qc, v)}
<1>4. << >> \in S
  <2>1. PICK e : e = << >>
    OBVIOUS
  <2>2. e \in Seq(Chars) /\ Len(e) = 0
    BY <2>1, None
  <2>3. Unplus(e) = e
    <3>1. \A i \in 1..Len(e) : e[i] # "+"
      BY <2>2, FewPlaces
    <3> QED
      BY <2>2, <3>1, UnplusSame
  <2>4. Spelt(pc, e) = e /\ Spelt(qc, e) = e
    BY <1>2, <2>1, NothingSpelt
  <2>5. Unplus(Spelt(pc, e)) = Spelt(qc, e)
    BY <2>3, <2>4
  <2>6. e \in S
    BY <2>2, <2>5
  <2> QED
    BY <2>1, <2>6
<1>5. ASSUME NEW v \in Seq(Chars), NEW c \in Chars, v \in S PROVE Append(v, c) \in S
  <2>1. /\ Spelt(pc, Append(v, c)) = Spelt(pc, v) \o pc[c]
        /\ Spelt(qc, Append(v, c)) = Spelt(qc, v) \o qc[c]
    BY <1>2, SpeltFurther
  <2>2. Spelt(pc, v) \in Seq(Chars) /\ pc[c] \in Seq(Chars)
    BY <1>2, SpeltTyped
  <2>3. Unplus(Spelt(pc, v) \o pc[c]) = Unplus(Spelt(pc, v)) \o Unplus(pc[c])
    BY <2>2, UnplusConcat
  <2> QED
    BY <1>3, <1>5, <2>1, <2>3, AppendProperties
<1>6. Seq(Chars) \subseteq S
  <2> HIDE DEF S
  <2> QED
    BY <1>4, <1>5, Appendwise
<1> QED
  BY <1>1, <1>6

(* The characters of a query's keys and values.                            *)
QueryChars(special) == (Mask1F \ special) \cup {"+", "%"} \cup HexSet

LEMMA QueryTyped ==
  ASSUME NEW special, " " \notin special, NEW t \in Seq(Chars)
  PROVE  encode_query(t, special) \in Seq(QueryChars(special))
<1>1. PICK D : D = QueryChars(special)
  OBVIOUS
<1>2. HexSet \subseteq D /\ "%" \in D /\ "+" \in D /\ \A c \in Mask1F : c \notin special => c \in D
  BY <1>1 DEF QueryChars
<1>3. PICK pc : pc = Blanked(special)
  OBVIOUS
<1>4. ASSUME NEW c \in Chars PROVE pc[c] \in Seq(D)
  <2>1. CASE c = " "
    <3>1. <<"+">> \in Seq(D)
      BY <1>2, One
    <3> QED
      BY <1>3, <2>1, <3>1, BlankedIs
  <2>2. CASE c \in special
    BY <1>2, <1>3, <2>2, BlankedIs, EscapeOver
  <2>3. CASE c # " " /\ c \notin special /\ c \in Mask1F
    <3>1. pc[c] = <<c>>
      BY <1>3, <2>3, BlankedIs DEF PieceOf
    <3>2. c \in D
      BY <1>2, <2>3
    <3> QED
      BY <3>1, <3>2, One
  <2>4. CASE c # " " /\ c \notin special /\ c \notin Mask1F
    <3>1. pc[c] = Escape(c)
      BY <1>3, <2>4, BlankedIs DEF PieceOf
    <3> QED
      BY <1>2, <3>1, EscapeOver
  <2> QED
    BY <2>1, <2>2, <2>3, <2>4
<1>5. Spelt(pc, t) \in Seq(D)
  BY <1>3, <1>4, BlankedTyped, SpeltOver
<1> QED
  BY <1>1, <1>3, <1>5, QuerySpelt

(* A key or a value comes back from the query as it was, blanks, '+' and   *)
(* the characters that delimit entries included.                           *)
THEOREM QueryUndone ==
  ASSUME NEW special, " " \notin special, "+" \in special, NEW t \in Seq(Chars)
  PROVE  /\ decode_plus(encode_query(t, special)) = t
         /\ WellEscaped(encode_query(t, special))
         /\ encode_query(t, special) \in Seq(QueryChars(special))
<1>1. PICK u : u = encode_query(t, special)
  OBVIOUS
<1>2. Unplus(u) = Spelt(Unblanked(special), t)
  BY <1>1, QuerySpelt, UnplusSpelt
<1>3. decode(Unplus(u)) = t /\ WellEscaped(Unplus(u))
  BY <1>2, UnblankedSpelling, SpeltBack
<1>4. decode_plus(u) = t
  BY <1>3 DEF decode_plus, Unplus
<1>5. u \in Seq(Chars)
  BY <1>1, QuerySpelt, SpeltTyped, BlankedTyped
<1>6. WellEscaped(u)
  BY <1>3, <1>5, UnplusWell
<1> QED
  BY <1>1, <1>4, <1>6, QueryTyped

-----------------------------------------------------------------------------
(* Where a text is cut.                                                    *)

(* Cutting a text in two.                                                  *)
LEMMA MinIs ==
  ASSUME NEW S \in SUBSET Int, NEW x \in S, \A y \in S : x <= y
  PROVE  Min(S) = x
<1>1. \E z \in S : \A y \in S : z <= y
  OBVIOUS
<1>2. Min(S) \in S /\ \A y \in S : Min(S) <= y
  BY <1>1, Zenon DEF Min
<1>3. Min(S) <= x /\ x <= Min(S) /\ Min(S) \in Int
  BY <1>2
<1> QED
  BY <1>3

LEMMA FirstIs ==
  ASSUME NEW C, NEW t \in Seq(C), NEW chars, NEW n \in 1..(Len(t) + 1),
         \A i \in 1..Len(t) : i < n => t[i] \notin chars,
         n = Len(t) + 1 \/ t[n] \in chars
  PROVE  find_first_of(t, chars) = n
<1> DEFINE T == {i \in DOMAIN t : t[i] \in chars} \cup {Len(t) + 1}
<1>1. Len(t) \in Nat /\ DOMAIN t = 1..Len(t)
  BY LenProperties
<1>2. T \in SUBSET Int
  BY <1>1
<1>3. n \in T
  BY <1>1
<1>4. \A y \in T : n <= y
  BY <1>1
<1>5. Min(T) = n
  <2> HIDE DEF T
  <2> QED
    BY <1>2, <1>3, <1>4, MinIs
<1> QED
  BY <1>5 DEF find_first_of

LEMMA SliceIs ==
  ASSUME NEW C, NEW t \in Seq(C), NEW a \in 1..(Len(t) + 1), NEW b \in (a - 1)..Len(t)
  PROVE  /\ SubSeq(t, a, b) \in Seq(C) /\ Len(SubSeq(t, a, b)) = b - a + 1
         /\ \A i \in 1..(b - a + 1) : SubSeq(t, a, b)[i] = t[i + a - 1]
<1>1. Len(t) \in Nat
  BY LenProperties
<1>2. a \in Int /\ b \in Int /\ \A i \in a..b : i \in 1..Len(t)
  BY <1>1
<1>3. \A i \in a..b : t[i] \in C
  BY <1>2, ElementOfSeq
<1>4. /\ SubSeq(t, a, b) \in Seq(C)
      /\ Len(SubSeq(t, a, b)) = IF a <= b THEN b - a + 1 ELSE 0
      /\ \A i \in 1..(b - a + 1) : SubSeq(t, a, b)[i] = t[a + i - 1]
  BY <1>2, <1>3, SubSeqProperties
<1>5. \A i \in 1..(b - a + 1) : a + i - 1 = i + a - 1
  BY <1>2
<1>6. (IF a <= b THEN b - a + 1 ELSE 0) = b - a + 1
  BY <1>1
<1> QED
  BY <1>4, <1>5, <1>6

(* A text whose first such character is where the second part begins.      *)
LEMMA CutAt ==
  ASSUME NEW C, NEW u \in Seq(C), NEW v \in Seq(C), NEW chars,
         \A i \in 1..Len(u) : u[i] \notin chars,
         v = << >> \/ v[1] \in chars
  PROVE  Upto(u \o v, chars) = u /\ Onward(u \o v, chars) = v
<1>1. PICK w, n, m : w = u \o v /\ n = Len(u) /\ m = Len(v)
  OBVIOUS
<1>2. /\ n \in Nat /\ m \in Nat /\ w \in Seq(C) /\ Len(w) = n + m
      /\ \A i \in 1..(n + m) : w[i] = IF i <= n THEN u[i] ELSE v[i - n]
  BY <1>1, ConcatProperties, LenProperties
<1>3. find_first_of(w, chars) = n + 1
  <2>1. n + 1 \in 1..(Len(w) + 1)
    BY <1>2
  <2>2. \A i \in 1..Len(w) : i < n + 1 => w[i] \notin chars
    BY <1>1, <1>2
  <2>3. n + 1 = Len(w) + 1 \/ w[n + 1] \in chars
    <3>1. CASE v = << >>
      <4>1. m = 0
        BY <1>1, <3>1, None
      <4> QED
        BY <1>2, <4>1
    <3>2. CASE v # << >>
      <4>1. m # 0
        BY <1>1, <3>2, EmptySeq
      <4>2. n + 1 \in 1..(n + m) /\ ~(n + 1 <= n) /\ (n + 1) - n = 1
        BY <1>2, <4>1
      <4> QED
        BY <1>2, <3>2, <4>2
    <3> QED
      BY <3>1, <3>2
  <2> QED
    BY <1>2, <2>1, <2>2, <2>3, FirstIs
<1>4. SubSeq(w, 1, n) = u
  <2>1. 1 \in 1..(Len(w) + 1) /\ n \in (1 - 1)..Len(w)
    BY <1>2
  <2>2. /\ SubSeq(w, 1, n) \in Seq(C) /\ Len(SubSeq(w, 1, n)) = n - 1 + 1
        /\ \A i \in 1..(n - 1 + 1) : SubSeq(w, 1, n)[i] = w[i + 1 - 1]
    BY <1>2, <2>1, SliceIs
  <2>3. n - 1 + 1 = n /\ \A i \in 1..n : i + 1 - 1 = i /\ i \in 1..(n + m) /\ i <= n
    BY <1>2
  <2>4. \A i \in 1..n : SubSeq(w, 1, n)[i] = u[i]
    BY <1>2, <2>2, <2>3
  <2> QED
    BY <1>1, <2>2, <2>3, <2>4, SeqEqual
<1>5. SubSeq(w, n + 1, Len(w)) = v
  <2>1. n + 1 \in 1..(Len(w) + 1) /\ Len(w) \in ((n + 1) - 1)..Len(w)
    BY <1>2
  <2>2. /\ SubSeq(w, n + 1, Len(w)) \in Seq(C)
        /\ Len(SubSeq(w, n + 1, Len(w))) = Len(w) - (n + 1) + 1
        /\ \A i \in 1..(Len(w) - (n + 1) + 1) :
             SubSeq(w, n + 1, Len(w))[i] = w[i + (n + 1) - 1]
    BY <1>2, <2>1, SliceIs
  <2>3. Len(w) - (n + 1) + 1 = m
    BY <1>2
  <2>4. \A i \in 1..m : /\ i + (n + 1) - 1 = n + i /\ n + i \in 1..(n + m)
                        /\ ~(n + i <= n) /\ (n + i) - n = i
    BY <1>2
  <2>5. \A i \in 1..m : SubSeq(w, n + 1, Len(w))[i] = v[i]
    BY <1>2, <2>2, <2>3, <2>4
  <2> QED
    BY <1>1, <2>2, <2>3, <2>5, SeqEqual
<1>6. n + 1 - 1 = n
  BY <1>2
<1> QED
  BY <1>1, <1>3, <1>4, <1>5, <1>6 DEF Upto, Onward

(* Every text is so cut.                                                   *)
CutOf(C, t, chars, u, v) ==
  /\ u \in Seq(C) /\ v \in Seq(C) /\ t = u \o v
  /\ u = Upto(t, chars) /\ v = Onward(t, chars)
  /\ \A i \in 1..Len(u) : u[i] \notin chars
  /\ v = << >> \/ v[1] \in chars

LEMMA FirstFound ==
  ASSUME NEW C, NEW t \in Seq(C), NEW chars
  PROVE  /\ find_first_of(t, chars) \in 1..(Len(t) + 1)
         /\ \A i \in 1..Len(t) : i < find_first_of(t, chars) => t[i] \notin chars
         /\ \/ find_first_of(t, chars) = Len(t) + 1
            \/ t[find_first_of(t, chars)] \in chars
<1> DEFINE T == {i \in DOMAIN t : t[i] \in chars} \cup {Len(t) + 1}
<1>1. Len(t) \in Nat /\ DOMAIN t = 1..Len(t)
  BY LenProperties
<1>2. T \in SUBSET Nat /\ T # {} /\ T \subseteq 1..(Len(t) + 1)
  BY <1>1
<1>3. \E x \in T : \A y \in T : x <= y
  BY ONLY <1>2, Least
<1>4. Min(T) \in T /\ \A y \in T : Min(T) <= y
  <2> HIDE DEF T
  <2> QED
    BY <1>3, Zenon DEF Min
<1>5. PICK f : f = Min(T)
  OBVIOUS
<1>6. \A i \in 1..Len(t) : i < f => t[i] \notin chars
  <2>1. ASSUME NEW i \in 1..Len(t), i < f, t[i] \in chars PROVE FALSE
    <3>1. i \in T /\ i \in Int /\ f \in Int
      BY <1>1, <1>2, <1>4, <1>5, <2>1
    <3>2. f <= i
      BY <1>4, <1>5, <3>1
    <3> QED
      BY <2>1, <3>1, <3>2
  <2> QED
    BY <2>1
<1>7. f \in 1..(Len(t) + 1) /\ (f = Len(t) + 1 \/ t[f] \in chars)
  BY <1>2, <1>4, <1>5
<1> QED
  BY <1>5, <1>6, <1>7 DEF find_first_of

LEMMA CutExists ==
  ASSUME NEW C, NEW t \in Seq(C), NEW chars
  PROVE  CutOf(C, t, chars, Upto(t, chars), Onward(t, chars))
<1>1. PICK f, n : f = find_first_of(t, chars) /\ n = Len(t)
  OBVIOUS
<1>2. /\ n \in Nat /\ f \in 1..(n + 1) /\ \A i \in 1..n : i < f => t[i] \notin chars
      /\ f = n + 1 \/ t[f] \in chars
  BY <1>1, FirstFound, LenProperties
<1>3. PICK u, v : u = SubSeq(t, 1, f - 1) /\ v = SubSeq(t, f, n)
  OBVIOUS
<1>4. u = Upto(t, chars) /\ v = Onward(t, chars)
  BY <1>1, <1>3 DEF Upto, Onward
<1>5. /\ u \in Seq(C) /\ Len(u) = f - 1
      /\ \A i \in 1..(f - 1) : u[i] = t[i]
  <2>1. 1 \in 1..(n + 1) /\ f - 1 \in (1 - 1)..n
    BY <1>2
  <2>2. /\ u \in Seq(C) /\ Len(u) = (f - 1) - 1 + 1
        /\ \A i \in 1..((f - 1) - 1 + 1) : u[i] = t[i + 1 - 1]
    BY <1>1, <1>3, <2>1, SliceIs
  <2>3. (f - 1) - 1 + 1 = f - 1 /\ \A i \in 1..(f - 1) : i + 1 - 1 = i
    BY <1>2
  <2> QED
    BY <2>2, <2>3
<1>6. /\ v \in Seq(C) /\ Len(v) = n - f + 1
      /\ \A i \in 1..(n - f + 1) : v[i] = t[i + f - 1]
  <2>1. n \in (f - 1)..n
    BY <1>2
  <2> QED
    BY <1>1, <1>2, <1>3, <2>1, SliceIs
<1>7. t = u \o v
  <2>1. 1 \in 1..(Len(t) + 1) /\ f - 1 \in (1 - 1)..Len(t) /\ Len(t) \in (f - 1)..Len(t)
    BY <1>1, <1>2
  <2>2. SubSeq(t, 1, f - 1) \o SubSeq(t, (f - 1) + 1, Len(t)) = SubSeq(t, 1, Len(t))
    BY <2>1, ConcatAdjacentSubSeq
  <2>3. (f - 1) + 1 = f
    BY <1>2
  <2> QED
    BY <1>1, <1>3, <2>2, <2>3, SubSeqFull
<1>8. \A i \in 1..Len(u) : u[i] \notin chars
  <2>1. \A i \in 1..(f - 1) : i \in 1..n /\ i < f
    BY <1>2
  <2> QED
    BY <1>2, <1>5, <2>1
<1>9. v = << >> \/ v[1] \in chars
  <2>1. CASE f = n + 1
    <3>1. Len(v) = 0
      BY <1>2, <1>6, <2>1
    <3> QED
      BY <1>6, <3>1, EmptySeq
  <2>2. CASE f # n + 1
    <3>1. 1 \in 1..(n - f + 1) /\ 1 + f - 1 = f
      BY <1>2, <2>2
    <3> QED
      BY <1>2, <1>6, <2>2, <3>1
  <2> QED
    BY <2>1, <2>2
<1>10. CutOf(C, t, chars, u, v)
  BY <1>4, <1>5, <1>6, <1>7, <1>8, <1>9 DEF CutOf
<1> QED
  BY <1>4, <1>10

LEMMA RestIs ==
  ASSUME NEW C, NEW u \in Seq(C), NEW v \in Seq(C)
  PROVE  Rest(u \o v, Len(u)) = v
<1>1. PICK w, n, m : w = u \o v /\ n = Len(u) /\ m = Len(v)
  OBVIOUS
<1>2. /\ n \in Nat /\ m \in Nat /\ w \in Seq(C) /\ Len(w) = n + m
      /\ \A i \in 1..(n + m) : w[i] = IF i <= n THEN u[i] ELSE v[i - n]
  BY <1>1, ConcatProperties, LenProperties
<1>3. n + 1 \in 1..(Len(w) + 1) /\ Len(w) \in ((n + 1) - 1)..Len(w)
  BY <1>2
<1>4. /\ SubSeq(w, n + 1, Len(w)) \in Seq(C)
      /\ Len(SubSeq(w, n + 1, Len(w))) = Len(w) - (n + 1) + 1
      /\ \A i \in 1..(Len(w) - (n + 1) + 1) :
           SubSeq(w, n + 1, Len(w))[i] = w[i + (n + 1) - 1]
  BY <1>2, <1>3, SliceIs
<1>5. Len(w) - (n + 1) + 1 = m
  BY <1>2
<1>6. \A i \in 1..m : /\ i + (n + 1) - 1 = n + i /\ n + i \in 1..(n + m)
                      /\ ~(n + i <= n) /\ (n + i) - n = i
  BY <1>2
<1>7. \A i \in 1..m : SubSeq(w, n + 1, Len(w))[i] = v[i]
  BY <1>2, <1>4, <1>5, <1>6
<1>8. SubSeq(w, n + 1, Len(w)) = v
  BY <1>1, <1>4, <1>5, <1>7, SeqEqual
<1> QED
  BY <1>1, <1>8 DEF Rest

(* What a text begins with.                                                *)
LEMMA StartsIs ==
  ASSUME NEW C, NEW t \in Seq(C), NEW c
  PROVE  Starts(t, c) <=> t # << >> /\ t[1] = c
<1>1. t # << >> => Head(t) = t[1]
  OBVIOUS
<1> QED
  BY <1>1 DEF Starts

LEMMA FirstOfTwo ==
  ASSUME NEW C, NEW u \in Seq(C), NEW v \in Seq(C), u # << >>
  PROVE  u \o v # << >> /\ (u \o v)[1] = u[1] /\ u \o v \in Seq(C)
<1>1. Len(u) \in Nat /\ Len(u) # 0 /\ Len(v) \in Nat
  BY LenProperties, EmptySeq
<1>2. 1 \in 1..(Len(u) + Len(v)) /\ 1 <= Len(u)
  BY <1>1
<1>3. Len(u \o v) # 0
  BY <1>1, ConcatProperties
<1>4. u \o v # << >>
  BY <1>3, None
<1> QED
  BY <1>2, <1>4, ConcatProperties

LEMMA StartsOne ==
  ASSUME NEW C, NEW c \in C, NEW v \in Seq(C)
  PROVE  /\ <<c>> \o v \in Seq(C) /\ <<c>> \o v # << >> /\ (<<c>> \o v)[1] = c
         /\ Rest(<<c>> \o v, 1) = v
         /\ \A d : Starts(<<c>> \o v, d) <=> d = c
<1>1. PICK u : u = <<c>>
  OBVIOUS
<1>2. u \in Seq(C) /\ Len(u) = 1 /\ u[1] = c
  BY <1>1, One
<1>3. u # << >>
  <2>1. Len(u) # 0
    BY <1>2
  <2> QED
    BY <2>1, None
<1>4. u \o v # << >> /\ (u \o v)[1] = c /\ u \o v \in Seq(C)
  BY <1>2, <1>3, FirstOfTwo
<1>5. Rest(u \o v, 1) = v
  BY <1>2, RestIs
<1>6. \A d : Starts(u \o v, d) <=> d = c
  BY <1>4, StartsIs
<1> QED
  BY <1>1, <1>4, <1>5, <1>6

LEMMA NotEmptyStarts ==
  ASSUME NEW C, NEW c
  PROVE  ~Starts(<< >>, c)
  BY DEF Starts

-----------------------------------------------------------------------------
(* Segments of a path that are all kept.                                   *)

LEMMA SegmentsRun ==
  ASSUME NEW C, NEW fs \in Seq(Seq(C \ {"/"}))
  PROVE  \E r \in [0..Len(fs) -> Seq(Kept(C))] :
           /\ r[0] = << >>
           /\ \A k \in 1..Len(fs) : r[k] = NextSegment(r[k - 1], fs[k])
           /\ FoldLeft(NextSegment, << >>, fs) = r[Len(fs)]
<1> DEFINE X == Seq(Kept(C))
           n == Len(fs)
           next(x, k) == NextSegment(x, fs[k])
           P(F) == F = [s \in SUBSET DOMAIN fs |->
                          IF s = {} THEN << >>
                          ELSE next(F[s \ {Max(s)}], Max(s))]
           g == [p \in X \X Nat |-> IF p[2] \in 1..n THEN next(p[1], p[2]) ELSE p[1]]
<1>1. n \in Nat /\ DOMAIN fs = 1..n /\ \A k \in 1..n : fs[k] \in Seq(C \ {"/"})
  BY LenProperties, ElementOfSeq
<1>2. << >> \in X
  OBVIOUS
<1>3. \A x \in X, k \in 1..n : next(x, k) \in X
  BY <1>1, NextSegmentTyped
<1> HIDE DEF next
<1>4. g \in [X \X Nat -> X]
  <2> HIDE DEF X
  <2> QED
    BY <1>3
<1>5. \A x \in X, k \in 1..n : g[<<x, k>>] = next(x, k)
  BY <1>1
<1>6. DOMAIN fs = 1..n
  BY <1>1
<1>7. \E F : P(F)
  <2> HIDE DEF g, X
  <2>1. PICK F \in [SUBSET (1..n) -> X] :
          \A s \in SUBSET (1..n) :
            F[s] = IF s = {} THEN << >> ELSE g[<<F[s \ {Max(s)}], Max(s)>>]
    <3>1. \E F : IsFold(F, X, << >>, g, n)
      BY <1>1, <1>2, <1>4, FoldExists
    <3> QED
      BY <3>1 DEF IsFold
  <2>2. ASSUME NEW s \in SUBSET DOMAIN fs
        PROVE  F[s] = IF s = {} THEN << >> ELSE next(F[s \ {Max(s)}], Max(s))
    <3>1. CASE s # {}
      <4>1. Max(s) \in s
        <5>1. \E z \in s : \A y \in s : z >= y
          BY <1>1, <1>6, <3>1, FiniteMax
        <5> QED
          BY <5>1, Zenon DEF Max
      <4>2. Max(s) \in 1..n /\ s \ {Max(s)} \in SUBSET (1..n)
        BY <1>6, <4>1
      <4>3. F[s \ {Max(s)}] \in X
        BY <4>2
      <4> QED
        BY <1>5, <1>6, <2>1, <3>1, <4>2, <4>3
    <3>2. CASE s = {}
      BY <1>6, <2>1, <3>2
    <3> QED
      BY <3>1, <3>2
  <2>3. F = [s \in SUBSET DOMAIN fs |-> F[s]]
    BY <1>6
  <2>4. P(F)
    BY <2>2, <2>3
  <2> QED
    BY <2>4
<1> DEFINE H == CHOOSE F : P(F)
<1>8. P(H)
  <2> HIDE DEF P
  <2> QED
    BY <1>7, Zenon
<1>9. FoldLeft(NextSegment, << >>, fs) = H[DOMAIN fs]
  BY Zenon DEF FoldLeft, MapThenFoldSet, next
<1> HIDE DEF H
<1> DEFINE r == [k \in 0..n |-> H[1..k]]
<1>10. r[0] = << >>
  <2>1. 1..0 = {} /\ {} \in SUBSET DOMAIN fs
    OBVIOUS
  <2>2. H[{}] = << >>
    BY <1>8, <2>1
  <2> QED
    BY <1>1, <2>1, <2>2
<1>11. ASSUME NEW k \in 1..n PROVE r[k] = next(r[k - 1], k)
  <2>1. k \in Nat /\ k # 0 /\ 1..k \in SUBSET DOMAIN fs /\ k \in 0..n /\ k - 1 \in 0..n
    BY <1>1, <1>6
  <2>2. Max(1..k) = k /\ (1..k) \ {k} = 1..(k - 1) /\ 1..k # {}
    BY <2>1, LastOfFirst
  <2>3. H[1..k] = next(H[1..(k - 1)], k)
    BY <1>8, <2>1, <2>2
  <2> QED
    BY <1>6, <2>1, <2>3
<1>12. r \in [0..n -> X]
  <2> DEFINE S == {k \in 0..n : r[k] \in X}
  <2>1. 0 \in S
    <3> HIDE DEF r, X
    <3> QED
      BY <1>1, <1>2, <1>10
  <2>2. ASSUME NEW k \in Nat, k < n, k \in S PROVE k + 1 \in S
    <3> DEFINE l == k + 1
    <3>1. l \in 1..n /\ l - 1 = k /\ l \in 0..n
      BY <1>1, <2>2
    <3>2. r[k] \in X
      BY <2>2
    <3> HIDE DEF l
    <3>3. r[l] = next(r[l - 1], l)
      BY <1>11, <3>1
    <3> HIDE DEF r, X
    <3>4. r[l] \in X
      BY <1>3, <3>1, <3>2, <3>3
    <3> QED
      BY <3>1, <3>4 DEF l
  <2>3. 0..n \subseteq S
    <3> HIDE DEF S
    <3> QED
      BY <1>1, <2>1, <2>2, Upwards
  <2> HIDE DEF X
  <2> QED
    BY <2>3
<1>13. FoldLeft(NextSegment, << >>, fs) = r[n]
  BY <1>1, <1>6, <1>9
<1> HIDE DEF r
<1> QED
  BY <1>10, <1>11, <1>12, <1>13 DEF next

(* Runs that begin alike and go on alike.                                  *)
LEMMA RunsAgree ==
  ASSUME NEW n \in Nat, NEW r, NEW q, r[0] = q[0],
         \A k \in 1..n : r[k - 1] = q[k - 1] => r[k] = q[k]
  PROVE  r[n] = q[n]
<1> DEFINE S == {k \in 0..n : r[k] = q[k]}
<1>1. 0 \in S
  OBVIOUS
<1>2. ASSUME NEW k \in Nat, k < n, k \in S PROVE k + 1 \in S
  <2> DEFINE l == k + 1
  <2>1. l \in 1..n /\ l - 1 = k /\ l \in 0..n /\ r[k] = q[k]
    BY <1>2
  <2> HIDE DEF l
  <2>2. r[l] = q[l]
    BY <2>1
  <2> QED
    BY <2>1, <2>2 DEF l
<1>3. 0..n \subseteq S
  <2> HIDE DEF S
  <2> QED
    BY <1>1, <1>2, Upwards
<1> QED
  BY <1>3

LEMMA SegmentsFurther ==
  ASSUME NEW C, NEW fs \in Seq(Seq(C \ {"/"})), NEW f \in Seq(C \ {"/"})
  PROVE  FoldLeft(NextSegment, << >>, Append(fs, f))
           = NextSegment(FoldLeft(NextSegment, << >>, fs), f)
<1>1. PICK w, n : w = Append(fs, f) /\ n = Len(fs)
  OBVIOUS
<1>2. /\ n \in Nat /\ w \in Seq(Seq(C \ {"/"})) /\ Len(w) = n + 1 /\ w[n + 1] = f
      /\ \A i \in 1..n : w[i] = fs[i]
  BY <1>1, AppendProperties, LenProperties
<1>3. PICK q \in [0..n -> Seq(Kept(C))] :
           /\ q[0] = << >>
           /\ \A k \in 1..n : q[k] = NextSegment(q[k - 1], fs[k])
           /\ FoldLeft(NextSegment, << >>, fs) = q[n]
  BY <1>1, SegmentsRun
<1>4. PICK r \in [0..(n + 1) -> Seq(Kept(C))] :
           /\ r[0] = << >>
           /\ \A k \in 1..(n + 1) : r[k] = NextSegment(r[k - 1], w[k])
           /\ FoldLeft(NextSegment, << >>, w) = r[n + 1]
  <2>1. \E r \in [0..Len(w) -> Seq(Kept(C))] :
           /\ r[0] = << >>
           /\ \A k \in 1..Len(w) : r[k] = NextSegment(r[k - 1], w[k])
           /\ FoldLeft(NextSegment, << >>, w) = r[Len(w)]
    BY <1>2, SegmentsRun
  <2> QED
    BY <1>2, <2>1
<1>5. \A k \in 1..n : r[k - 1] = q[k - 1] => r[k] = q[k]
  <2>1. \A k \in 1..n : k \in 1..(n + 1)
    BY <1>2
  <2> QED
    BY <1>2, <1>3, <1>4, <2>1
<1>6. r[n] = q[n]
  <2>1. r[0] = q[0] /\ n \in Nat
    BY <1>2, <1>3, <1>4
  <2> QED
    BY <1>5, <2>1, RunsAgree
<1>7. n + 1 \in 1..(n + 1) /\ (n + 1) - 1 = n
  BY <1>2
<1>8. r[n + 1] = NextSegment(r[n], w[n + 1])
  BY <1>4, <1>7
<1> QED
  BY <1>1, <1>2, <1>3, <1>4, <1>6, <1>8

LEMMA NoSegments == FoldLeft(NextSegment, << >>, << >>) = << >>
<1>1. PICK C : C = {}
  OBVIOUS
<1>2. PICK fs : fs = << >>
  OBVIOUS
<1>3. fs \in Seq(Seq(C \ {"/"})) /\ Len(fs) = 0
  BY <1>2, None
<1>4. PICK r \in [0..Len(fs) -> Seq(Kept(C))] :
           r[0] = << >> /\ FoldLeft(NextSegment, << >>, fs) = r[Len(fs)]
  BY <1>3, SegmentsRun
<1> QED
  BY <1>2, <1>3, <1>4

(* Segments that are kept stay as they are, after an empty one too.        *)
LEMMA KeptStay ==
  ASSUME NEW C, NEW first \in {<< >>, << << >> >>}, NEW es \in Seq(Kept(C))
  PROVE  FoldLeft(NextSegment, << >>, first \o es) = es
<1> DEFINE D == Seq(C \ {"/"})
           S == {v \in Seq(Kept(C)) : FoldLeft(NextSegment, << >>, first \o v) = v}
<1>1. << >> \in D /\ first \in Seq(D)
  <2>1. << >> \in D
    BY None
  <2> HIDE DEF D
  <2>2. << >> \in Seq(D) /\ << << >> >> \in Seq(D)
    BY <2>1, None, One
  <2> QED
    BY <2>1, <2>2
<1>2. Kept(C) \subseteq D
  BY DEF Kept
<1>3. << >> \in S
  <2>1. first \o << >> = first
    BY <1>1, ConcatEmptySeq
  <2>2. FoldLeft(NextSegment, << >>, first) = << >>
    <3>1. CASE first = << >>
      BY <3>1, NoSegments
    <3>2. CASE first = << << >> >>
      <4>1. PICK fs, f : fs = << >> /\ f = << >>
        OBVIOUS
      <4>2. Append(fs, f) = first
        BY <3>2, <4>1
      <4>3. fs \in Seq(D) /\ f \in D
        BY <4>1, <1>1, None
      <4>4. FoldLeft(NextSegment, << >>, Append(fs, f))
              = NextSegment(FoldLeft(NextSegment, << >>, fs), f)
        BY <4>3, SegmentsFurther
      <4>5. NextSegment(<< >>, << >>) = << >>
        BY DEF NextSegment
      <4> QED
        BY <4>1, <4>2, <4>4, <4>5, NoSegments
    <3> QED
      BY <3>1, <3>2
  <2>3. << >> \in Seq(Kept(C))
    BY None
  <2> QED
    BY <2>1, <2>2, <2>3
<1>4. ASSUME NEW v \in Seq(Kept(C)), NEW e \in Kept(C), v \in S PROVE Append(v, e) \in S
  <2> HIDE DEF D
  <2>1. v \in Seq(D) /\ e \in D
    BY <1>2, SeqMonotonic
  <2>2. first \o Append(v, e) = Append(first \o v, e)
    <3>1. Append(first \o v, e) = Longer(first, v, e)
      BY <1>1, <2>1, AppendLast
    <3> QED
      BY <3>1 DEF Longer
  <2>3. first \o v \in Seq(D)
    BY <1>1, <2>1, ConcatProperties
  <2>4. FoldLeft(NextSegment, << >>, Append(first \o v, e))
          = NextSegment(FoldLeft(NextSegment, << >>, first \o v), e)
    BY <2>1, <2>3, SegmentsFurther DEF D
  <2>5. NextSegment(v, e) = Append(v, e)
    BY DEF NextSegment, Kept
  <2>6. Append(v, e) \in Seq(Kept(C))
    BY AppendProperties
  <2> QED
    BY <1>4, <2>2, <2>4, <2>5, <2>6
<1>5. Seq(Kept(C)) \subseteq S
  <2>1. PICK K : K = Kept(C)
    OBVIOUS
  <2>2. << >> \in S /\ \A u \in Seq(K), c \in K : u \in S => Append(u, c) \in S
    BY <1>3, <1>4, <2>1
  <2> HIDE DEF S
  <2>3. Seq(K) \subseteq S
    BY <2>2, Appendwise
  <2> QED
    BY <2>1, <2>3
<1> QED
  BY <1>5

-----------------------------------------------------------------------------
(* Fields of texts put together.                                           *)

LEMMA FrontLast ==
  ASSUME NEW C, NEW es \in Seq(C), NEW c \in C
  PROVE  Front(Append(es, c)) = es /\ Last(Append(es, c)) = c
<1>1. PICK w, n : w = Append(es, c) /\ n = Len(es)
  OBVIOUS
<1>2. /\ n \in Nat /\ w \in Seq(C) /\ Len(w) = n + 1 /\ w[n + 1] = c
      /\ \A i \in 1..n : w[i] = es[i]
  BY <1>1, AppendProperties, LenProperties
<1>3. SubSeq(w, 1, n) = es
  <2>1. 1 \in 1..(Len(w) + 1) /\ n \in (1 - 1)..Len(w)
    BY <1>2
  <2>2. /\ SubSeq(w, 1, n) \in Seq(C) /\ Len(SubSeq(w, 1, n)) = n - 1 + 1
        /\ \A i \in 1..(n - 1 + 1) : SubSeq(w, 1, n)[i] = w[i + 1 - 1]
    BY <1>2, <2>1, SliceIs
  <2>3. n - 1 + 1 = n /\ \A i \in 1..n : i + 1 - 1 = i
    BY <1>2
  <2>4. \A i \in 1..n : SubSeq(w, 1, n)[i] = es[i]
    BY <1>2, <2>2, <2>3
  <2> QED
    BY <1>1, <2>2, <2>3, <2>4, SeqEqual
<1>4. Len(w) - 1 = n
  BY <1>2
<1> QED
  BY <1>1, <1>2, <1>3, <1>4 DEF Front, Last

LEMMA EndsIn ==
  ASSUME NEW C, NEW es \in Seq(C), es # << >>
  PROVE  /\ Front(es) \in Seq(C) /\ Last(es) \in C
         /\ es = Append(Front(es), Last(es))
         /\ Len(es) = Len(Front(es)) + 1
<1>1. PICK f \in Seq(C), c \in C : es = Append(f, c)
  BY SequenceEmptyOrAppend
<1>2. Front(es) = f /\ Last(es) = c
  BY <1>1, FrontLast
<1> QED
  BY <1>1, <1>2, AppendProperties

-----------------------------------------------------------------------------
(* Fields of texts.                                                        *)

LEMMA FieldsPlain ==
  ASSUME NEW C, NEW chars, NEW u \in Seq(C \ chars)
  PROVE  Fields(u, chars) = <<u>>
<1>1. PICK e : e = << >>
  OBVIOUS
<1>2. e \in Seq(C) /\ u \in Seq(C)
  BY <1>1, None, SeqMonotonic
<1>3. Fields(e \o u, chars) = Grown(Fields(e, chars), u)
  BY <1>2, FieldsGrow
<1>4. e \o u = u
  BY <1>1, <1>2, ConcatEmptySeq
<1>5. Fields(e, chars) = << << >> >>
  BY <1>1, FieldsOfNone
<1>6. Grown(<< << >> >>, u) = <<u>>
  <2>1. PICK w : w = << << >> >>
    OBVIOUS
  <2>2. << >> \in Seq(C \ chars)
    BY None
  <2>3. w \in Seq(Seq(C \ chars)) /\ Len(w) = 1 /\ w[1] = << >>
    BY <2>1, <2>2, One
  <2>4. Grown(w, u) = [w EXCEPT ![1] = << >> \o u]
    BY <2>3 DEF Grown
  <2>5. << >> \o u = u
    BY ConcatEmptySeq
  <2>6. 1 \in 1..Len(w)
    BY <2>3
  <2>7. /\ [w EXCEPT ![1] = u] \in Seq(Seq(C \ chars)) /\ Len([w EXCEPT ![1] = u]) = 1
        /\ \A j \in 1..Len(w) : [w EXCEPT ![1] = u][j] = IF j = 1 THEN u ELSE w[j]
    <3>1. PICK D, i : D = Seq(C \ chars) /\ i = 1
      OBVIOUS
    <3>2. w \in Seq(D) /\ i \in 1..Len(w) /\ u \in D
      BY <2>3, <2>6, <3>1
    <3>3. /\ [w EXCEPT ![i] = u] \in Seq(D) /\ Len([w EXCEPT ![i] = u]) = Len(w)
          /\ \A j \in 1..Len(w) : [w EXCEPT ![i] = u][j] = IF j = i THEN u ELSE w[j]
      BY <3>2, ExceptSeq
    <3> QED
      BY <2>3, <3>1, <3>3
  <2>8. <<u>> \in Seq(Seq(C \ chars)) /\ Len(<<u>>) = 1 /\ <<u>>[1] = u
    BY One
  <2>9. \A j \in 1..1 : [w EXCEPT ![1] = u][j] = <<u>>[j]
    BY <2>3, <2>7, <2>8, FewPlaces
  <2>10. [w EXCEPT ![1] = u] = <<u>>
    BY <2>7, <2>8, <2>9, SeqEqual
  <2> QED
    BY <2>1, <2>4, <2>5, <2>10
<1> QED
  BY <1>3, <1>4, <1>5, <1>6

(* Only the characters that a text may have count.                         *)
LEMMA FieldsNarrow ==
  ASSUME NEW C, NEW more, NEW chars, \A c \in C : c \in more <=> c \in chars,
         NEW t \in Seq(C)
  PROVE  Fields(t, more) = Fields(t, chars)
<1> DEFINE S == {v \in Seq(C) : Fields(v, more) = Fields(v, chars)}
<1>1. << >> \in S
  BY FieldsOfNone, None
<1>2. ASSUME NEW v \in Seq(C), NEW c \in C, v \in S PROVE Append(v, c) \in S
  <2>1. /\ Fields(Append(v, c), more) = Further(Fields(v, more), c, more)
        /\ Fields(Append(v, c), chars) = Further(Fields(v, chars), c, chars)
    BY FieldsFurther
  <2>2. Further(Fields(v, chars), c, more) = Further(Fields(v, chars), c, chars)
    BY DEF Further
  <2> QED
    BY <1>2, <2>1, <2>2, AppendProperties
<1>3. Seq(C) \subseteq S
  <2> HIDE DEF S
  <2> QED
    BY <1>1, <1>2, Appendwise
<1> QED
  BY <1>3

LEMMA FurtherRight ==
  ASSUME NEW C, NEW a \in Seq(Seq(C)), NEW b \in Seq(Seq(C)), b # << >>, NEW c \in C,
         NEW chars
  PROVE  Further(a \o b, c, chars) = a \o Further(b, c, chars)
<1>1. PICK w, n, m : w = a \o b /\ n = Len(a) /\ m = Len(b)
  OBVIOUS
<1>2. /\ n \in Nat /\ m \in Nat /\ m # 0 /\ w \in Seq(Seq(C)) /\ Len(w) = n + m
      /\ \A i \in 1..(n + m) : w[i] = IF i <= n THEN a[i] ELSE b[i - n]
  BY <1>1, ConcatProperties, LenProperties, EmptySeq
<1>3. CASE c \in chars
  <2>1. PICK e : e = << >>
    OBVIOUS
  <2>2. e \in Seq(C)
    BY <2>1, None
  <2>3. Append(a \o b, e) = Longer(a, b, e)
    BY <2>2, AppendLast
  <2> QED
    BY <1>3, <2>1, <2>3 DEF Further, Longer
<1>4. CASE c \notin chars
  <2>1. PICK x : x = Append(b[m], c)
    OBVIOUS
  <2>2. m \in 1..m /\ m \in 1..Len(b)
    BY <1>1, <1>2
  <2>3. x \in Seq(C)
    BY <2>1, <2>2, ElementOfSeq, AppendProperties
  <2>4. PICK l : l = n + m
    OBVIOUS
  <2>5. l \in 1..l /\ l \in Nat /\ ~(l <= n) /\ l - n = m /\ l = Len(w)
    BY <1>2, <2>4
  <2>6. w[l] = b[m]
    BY <1>2, <2>4, <2>5
  <2>7. PICK y, z : y = [w EXCEPT ![l] = x] /\ z = [b EXCEPT ![m] = x]
    OBVIOUS
  <2>8. /\ y \in Seq(Seq(C)) /\ Len(y) = l
        /\ \A i \in 1..l : y[i] = IF i = l THEN x ELSE w[i]
    BY <1>2, <2>3, <2>5, <2>7, ExceptSeq
  <2>9. /\ z \in Seq(Seq(C)) /\ Len(z) = m
        /\ \A i \in 1..m : z[i] = IF i = m THEN x ELSE b[i]
    BY <1>1, <2>2, <2>3, <2>7, ExceptSeq
  <2>10. /\ a \o z \in Seq(Seq(C)) /\ Len(a \o z) = l
         /\ \A i \in 1..l : (a \o z)[i] = IF i <= n THEN a[i] ELSE z[i - n]
    <3>1. PICK D : D = Seq(C)
      OBVIOUS
    <3>2. a \in Seq(D) /\ z \in Seq(D)
      BY <2>9, <3>1
    <3>3. /\ a \o z \in Seq(D) /\ Len(a \o z) = Len(a) + Len(z)
          /\ \A i \in 1..(Len(a) + Len(z)) :
               (a \o z)[i] = IF i <= Len(a) THEN a[i] ELSE z[i - Len(a)]
      BY <3>2, ConcatProperties
    <3>4. Len(a) + Len(z) = l /\ Len(a) = n
      BY <1>1, <2>4, <2>9
    <3> QED
      BY <3>1, <3>3, <3>4
  <2>11. ASSUME NEW i \in 1..l PROVE y[i] = (a \o z)[i]
    <3>1. CASE i <= n
      <4>1. i # l
        BY <1>2, <2>5, <3>1
      <4> QED
        BY <1>2, <2>4, <2>8, <2>10, <3>1, <4>1
    <3>2. CASE ~(i <= n)
      <4>1. i - n \in 1..m /\ (i = l <=> i - n = m)
        BY <1>2, <2>4, <3>2
      <4> QED
        BY <1>2, <2>4, <2>8, <2>9, <2>10, <3>2, <4>1
    <3> QED
      BY <3>1, <3>2
  <2>12. y = a \o z
    BY <2>8, <2>10, <2>11, SeqEqual
  <2>13. Further(w, c, chars) = y
    BY <1>4, <2>1, <2>5, <2>6, <2>7 DEF Further
  <2>14. Further(b, c, chars) = z
    BY <1>1, <1>4, <2>1, <2>7 DEF Further
  <2> QED
    BY <1>1, <2>12, <2>13, <2>14
<1> QED
  BY <1>3, <1>4

(* What follows a character that ends a field has the further fields.      *)
FieldsApart(t, glue, x, chars) ==
  Fields(t \o (<<glue>> \o x), chars) = Fields(t, chars) \o Fields(x, chars)

LEMMA FieldsConcat ==
  ASSUME NEW C, NEW chars, NEW t \in Seq(C), NEW glue \in C, glue \in chars, NEW x \in Seq(C)
  PROVE  FieldsApart(t, glue, x, chars)
<1>1. PICK a, e : a = Append(t, glue) /\ e = << >>
  OBVIOUS
<1>2. a \in Seq(C) /\ e \in Seq(C)
  BY <1>1, AppendProperties, None
<1>3. PICK f : f = Fields(t, chars)
  OBVIOUS
<1>4. f \in Seq(Seq(C))
  <2>1. f \in Seq(Seq(C \ chars))
    BY <1>3, FieldsTyped DEF Pieces
  <2>2. Seq(C \ chars) \subseteq Seq(C)
    BY SeqMonotonic
  <2> QED
    BY <2>1, <2>2, SeqMonotonic
<1> DEFINE S == {v \in Seq(C) : Fields(a \o v, chars) = f \o Fields(v, chars)}
<1>5. e \in S
  <2>1. Fields(a, chars) = Append(f, e)
    BY <1>1, <1>3, FieldsFurther DEF Further
  <2>2. Append(f, e) = f \o <<e>>
    BY <1>2, <1>4, AppendIsConcat
  <2>3. a \o e = a
    BY <1>1, <1>2, ConcatEmptySeq
  <2>4. Fields(e, chars) = <<e>>
    BY <1>1, FieldsOfNone
  <2> QED
    BY <1>2, <2>1, <2>2, <2>3, <2>4
<1>6. ASSUME NEW v \in Seq(C), NEW c \in C, v \in S PROVE Append(v, c) \in S
  <2>1. a \o Append(v, c) = Append(a \o v, c)
    <3>1. Append(a \o v, c) = Longer(a, v, c)
      BY <1>2, AppendLast
    <3> QED
      BY <3>1 DEF Longer
  <2>2. a \o v \in Seq(C)
    BY <1>2, ConcatProperties
  <2>3. Fields(Append(a \o v, c), chars) = Further(f \o Fields(v, chars), c, chars)
    BY <1>6, <2>2, FieldsFurther
  <2>4. PICK b : b = Fields(v, chars)
    OBVIOUS
  <2>5. b \in Seq(Seq(C)) /\ b # << >>
    <3>1. b \in Seq(Seq(C \ chars)) /\ b # << >>
      BY <2>4, FieldsTyped DEF Pieces
    <3>2. Seq(C \ chars) \subseteq Seq(C)
      BY SeqMonotonic
    <3> QED
      BY <3>1, <3>2, SeqMonotonic
  <2>6. Further(f \o b, c, chars) = f \o Further(b, c, chars)
    BY <1>4, <2>5, FurtherRight
  <2>7. Further(b, c, chars) = Fields(Append(v, c), chars)
    BY <2>4, FieldsFurther
  <2> QED
    BY <2>1, <2>3, <2>4, <2>6, <2>7, AppendProperties
<1>7. Seq(C) \subseteq S
  <2> HIDE DEF S
  <2> QED
    BY <1>1, <1>5, <1>6, Appendwise
<1>8. t \o (<<glue>> \o x) = a \o x
  <2>1. <<glue>> \in Seq(C)
    BY One
  <2>2. Regrouped(t, <<glue>>, x)
    BY <2>1, Regroup
  <2>3. t \o <<glue>> = a
    BY <1>1, AppendIsConcat
  <2> QED
    BY <2>2, <2>3 DEF Regrouped
<1> QED
  BY <1>3, <1>7, <1>8 DEF FieldsApart

-----------------------------------------------------------------------------
(* Fields joined again, and paths that stay.                               *)

JoinRun(r, C, glue, es, n) ==
  /\ r \in [0..n -> Seq(C)] /\ r[0] = << >>
  /\ \A k \in 1..n : r[k] = IF k = 1 THEN es[1] ELSE Glued(r[k - 1], glue, es[k])
  /\ Joined(es, <<glue>>) = r[n]

LEMMA JoinRunExists ==
  ASSUME NEW C, NEW glue \in C, NEW es \in Seq(Seq(C))
  PROVE  \E r : JoinRun(r, C, glue, es, Len(es))
<1>1. PICK r \in [0..Len(es) -> Seq(C)] :
           /\ r[0] = << >>
           /\ \A k \in 1..Len(es) :
                r[k] = IF k = 1 THEN es[1] ELSE Glued(r[k - 1], glue, es[k])
           /\ Joined(es, <<glue>>) = r[Len(es)]
  BY JoinedRun
<1>2. JoinRun(r, C, glue, es, Len(es))
  BY <1>1 DEF JoinRun
<1> QED
  BY <1>2

LEMMA JoinedFurther ==
  ASSUME NEW C, NEW glue \in C, NEW es \in Seq(Seq(C)), NEW e \in Seq(C)
  PROVE  /\ Joined(es, <<glue>>) \in Seq(C)
         /\ Joined(Append(es, e), <<glue>>)
              = IF es = << >> THEN e ELSE Glued(Joined(es, <<glue>>), glue, e)
<1>1. PICK w, n : w = Append(es, e) /\ n = Len(es)
  OBVIOUS
<1>2. /\ n \in Nat /\ w \in Seq(Seq(C)) /\ Len(w) = n + 1 /\ w[n + 1] = e
      /\ \A i \in 1..n : w[i] = es[i]
  BY <1>1, AppendProperties, LenProperties
<1>3. PICK q : JoinRun(q, C, glue, es, n)
  BY <1>1, JoinRunExists
<1>4. PICK r : JoinRun(r, C, glue, w, n + 1)
  BY <1>2, JoinRunExists
<1>5. \A k \in 1..n : r[k - 1] = q[k - 1] => r[k] = q[k]
  <2>1. ASSUME NEW k \in 1..n, r[k - 1] = q[k - 1] PROVE r[k] = q[k]
    <3>1. k \in 1..(n + 1) /\ w[k] = es[k]
      BY <1>2
    <3>2. CASE k = 1
      BY <1>3, <1>4, <3>1, <3>2 DEF JoinRun
    <3>3. CASE k # 1
      <4>1. r[k] = Glued(r[k - 1], glue, w[k])
        BY <1>4, <3>1, <3>3 DEF JoinRun
      <4>2. q[k] = Glued(q[k - 1], glue, es[k])
        BY <1>3, <3>3 DEF JoinRun
      <4> QED
        BY <2>1, <3>1, <4>1, <4>2
    <3> QED
      BY <3>2, <3>3
  <2> QED
    BY <2>1
<1>6. r[n] = q[n]
  <2>1. r[0] = q[0] /\ n \in Nat
    BY <1>2, <1>3, <1>4 DEF JoinRun
  <2> QED
    BY <1>5, <2>1, RunsAgree
<1>7. /\ q[n] \in Seq(C) /\ Joined(es, <<glue>>) = q[n]
      /\ Joined(w, <<glue>>) = r[n + 1]
  BY <1>2, <1>3, <1>4 DEF JoinRun
<1>8. CASE es = << >>
  <2>1. n = 0
    BY <1>1, <1>8, None
  <2>2. r[1] = w[1] /\ n + 1 = 1
    <3>1. 1 \in 1..(n + 1) /\ n + 1 = 1
      BY <2>1
    <3> QED
      BY <1>4, <3>1 DEF JoinRun
  <2> QED
    BY <1>1, <1>2, <1>7, <1>8, <2>2
<1>9. CASE es # << >>
  <2>1. n # 0
    BY <1>1, <1>9, EmptySeq
  <2>2. n + 1 \in 1..(n + 1) /\ (n + 1) - 1 = n /\ n + 1 # 1
    BY <1>2, <2>1
  <2>3. r[n + 1] = Glued(r[n], glue, w[n + 1])
    BY <1>4, <2>2 DEF JoinRun
  <2> QED
    BY <1>1, <1>2, <1>6, <1>7, <1>9, <2>3
<1> QED
  BY <1>8, <1>9

LastFurther(es, e, c, chars) ==
  Further(Append(es, e), c, chars) = Append(es, Append(e, c))

LEMMA FurtherLast ==
  ASSUME NEW C, NEW chars, NEW es \in Seq(Seq(C)), NEW e \in Seq(C), NEW c \in C, c \notin chars
  PROVE  LastFurther(es, e, c, chars)
<1>1. PICK b, d : b = <<e>> /\ d = <<Append(e, c)>>
  OBVIOUS
<1>2. Append(e, c) \in Seq(C)
  BY AppendProperties
<1>3. /\ b \in Seq(Seq(C)) /\ Len(b) = 1 /\ b[1] = e
      /\ d \in Seq(Seq(C)) /\ Len(d) = 1 /\ d[1] = Append(e, c)
  BY <1>1, <1>2, One
<1>4. b # << >>
  <2>1. Len(b) # 0
    BY <1>3
  <2> QED
    BY <2>1, None
<1>5. Append(es, e) = es \o b /\ Append(es, Append(e, c)) = es \o d
  BY <1>1, <1>2, AppendIsConcat
<1>6. Further(es \o b, c, chars) = es \o Further(b, c, chars)
  BY <1>3, <1>4, FurtherRight
<1>7. Further(b, c, chars) = d
  <2>1. Further(b, c, chars) = [b EXCEPT ![1] = Append(e, c)]
    BY <1>3 DEF Further
  <2>2. PICK D, i, x : D = Seq(C) /\ i = 1 /\ x = Append(e, c)
    OBVIOUS
  <2>3. b \in Seq(D) /\ i \in 1..Len(b) /\ x \in D /\ d \in Seq(D)
    BY <1>2, <1>3, <2>2
  <2>4. /\ [b EXCEPT ![i] = x] \in Seq(D) /\ Len([b EXCEPT ![i] = x]) = Len(b)
        /\ \A j \in 1..Len(b) : [b EXCEPT ![i] = x][j] = IF j = i THEN x ELSE b[j]
    BY <2>3, ExceptSeq
  <2>5. \A j \in 1..Len(b) : [b EXCEPT ![i] = x][j] = d[j]
    BY <1>3, <2>2, <2>4, FewPlaces
  <2>6. [b EXCEPT ![i] = x] = d
    BY <1>3, <2>3, <2>4, <2>5, SeqEqual
  <2> QED
    BY <2>1, <2>2, <2>6
<1> QED
  BY <1>5, <1>6, <1>7 DEF LastFurther

(* A text is what its fields make when they are joined.                    *)
LEMMA JoinedFields ==
  ASSUME NEW C, NEW glue \in C, NEW t \in Seq(C)
  PROVE  Joined(Fields(t, {glue}), <<glue>>) = t
<1> DEFINE S == {v \in Seq(C) : Joined(Fields(v, {glue}), <<glue>>) = v}
<1>1. \A v \in Seq(C) : /\ Fields(v, {glue}) \in Seq(Seq(C)) /\ Fields(v, {glue}) # << >>
  <2>1. ASSUME NEW v \in Seq(C)
        PROVE Fields(v, {glue}) \in Seq(Seq(C)) /\ Fields(v, {glue}) # << >>
    <3>1. /\ Fields(v, {glue}) \in Seq(Seq(C \ {glue}))
          /\ Fields(v, {glue}) # << >>
      BY FieldsTyped DEF Pieces
    <3>2. Seq(C \ {glue}) \subseteq Seq(C)
      BY SeqMonotonic
    <3> QED
      BY <3>1, <3>2, SeqMonotonic
  <2> QED
    BY <2>1
<1>2. << >> \in S
  <2>1. PICK es, e : es = << >> /\ e = << >>
    OBVIOUS
  <2>2. Append(es, e) = << << >> >> /\ es \in Seq(Seq(C)) /\ e \in Seq(C)
    BY <2>1, None
  <2>3. Joined(Append(es, e), <<glue>>)
          = IF es = << >> THEN e ELSE Glued(Joined(es, <<glue>>), glue, e)
    BY <2>2, JoinedFurther
  <2> QED
    BY <2>1, <2>2, <2>3, FieldsOfNone
<1>3. ASSUME NEW v \in Seq(C), NEW c \in C, v \in S PROVE Append(v, c) \in S
  <2>1. PICK f : f = Fields(v, {glue})
    OBVIOUS
  <2>2. f \in Seq(Seq(C)) /\ f # << >> /\ Joined(f, <<glue>>) = v
    BY <1>1, <1>3, <2>1
  <2>3. Fields(Append(v, c), {glue}) = Further(f, c, {glue})
    BY <2>1, FieldsFurther
  <2>4. CASE c = glue
    <3>1. PICK e : e = << >>
      OBVIOUS
    <3>2. e \in Seq(C) /\ Further(f, c, {glue}) = Append(f, e)
      BY <2>4, <3>1, None DEF Further
    <3>3. Joined(Append(f, e), <<glue>>) = Glued(v, glue, e)
      BY <2>2, <3>2, JoinedFurther
    <3>4. Glued(v, glue, e) = Append(v, c)
      <4>1. v \o <<glue>> = Append(v, glue) /\ Append(v, glue) \in Seq(C)
        BY AppendIsConcat, AppendProperties
      <4>2. Append(v, glue) \o e = Append(v, glue)
        BY <3>1, <4>1, ConcatEmptySeq
      <4> QED
        BY <2>4, <4>1, <4>2 DEF Glued
    <3> QED
      BY <2>3, <3>2, <3>3, <3>4, AppendProperties
  <2>5. CASE c # glue
    <3>1. PICK fr \in Seq(Seq(C)), la \in Seq(C) : f = Append(fr, la)
      BY <2>2, EndsIn
    <3>2. Further(f, c, {glue}) = Append(fr, Append(la, c))
      <4>1. PICK chars : chars = {glue}
        OBVIOUS
      <4>2. c \notin chars
        BY <2>5, <4>1
      <4>3. Further(Append(fr, la), c, chars) = Append(fr, Append(la, c))
        <5>1. fr \in Seq(Seq(C)) /\ la \in Seq(C)
          BY <3>1
        <5>2. LastFurther(fr, la, c, chars)
          BY <4>2, <5>1, FurtherLast
        <5> QED
          BY <5>2 DEF LastFurther
      <4> QED
        BY <3>1, <4>1, <4>3
    <3>3. Append(la, c) \in Seq(C)
      BY AppendProperties
    <3>4. CASE fr = << >>
      <4>1. v = la
        BY <2>2, <3>1, <3>4, JoinedFurther
      <4>2. Joined(Append(fr, Append(la, c)), <<glue>>) = Append(la, c)
        BY <3>3, <3>4, JoinedFurther
      <4> QED
        BY <2>3, <3>2, <3>3, <4>1, <4>2
    <3>5. CASE fr # << >>
      <4>1. PICK j : j = Joined(fr, <<glue>>)
        OBVIOUS
      <4>2. j \in Seq(C) /\ v = Glued(j, glue, la)
        BY <2>2, <3>1, <3>5, <4>1, JoinedFurther
      <4>3. Joined(Append(fr, Append(la, c)), <<glue>>) = Glued(j, glue, Append(la, c))
        BY <3>3, <3>5, <4>1, JoinedFurther
      <4>4. PICK a : a = j \o <<glue>>
        OBVIOUS
      <4>5. a \in Seq(C)
        BY <4>2, <4>4, One, ConcatProperties
      <4>6. Append(a \o la, c) = Longer(a, la, c)
        BY <4>5, AppendLast
      <4> QED
        BY <2>3, <3>2, <4>2, <4>3, <4>4, <4>6, AppendProperties DEF Glued, Longer
    <3> QED
      BY <3>4, <3>5
  <2> QED
    BY <2>4, <2>5
<1>4. Seq(C) \subseteq S
  <2> HIDE DEF S
  <2> QED
    BY <1>2, <1>3, Appendwise
<1> QED
  BY <1>4

-----------------------------------------------------------------------------
(* Paths.                                                                  *)

LEMMA StartSplit ==
  ASSUME NEW C, NEW t \in Seq(C), NEW c, Starts(t, c)
  PROVE  c \in C /\ Rest(t, 1) \in Seq(C) /\ t = <<c>> \o Rest(t, 1)
<1>1. t # << >> /\ t[1] = c
  BY StartsIs
<1>2. PICK n : n = Len(t)
  OBVIOUS
<1>3. n \in Nat /\ n # 0
  BY <1>1, <1>2, LenProperties, EmptySeq
<1>4. 1 \in 1..n
  BY <1>3
<1>5. c \in C
  BY <1>1, <1>2, <1>4, ElementOfSeq
<1>6. SubSeq(t, 1, n) = <<t[1]>> \o SubSeq(t, 1 + 1, n)
  <2>1. 1 \in 1..Len(t) /\ n \in 1..Len(t)
    BY <1>2, <1>3
  <2> QED
    BY <2>1, SubSeqRecursiveFirst
<1>7. SubSeq(t, 1, n) = t
  BY <1>2, SubSeqFull
<1>8. Rest(t, 1) \in Seq(C)
  BY PartsOfText
<1> QED
  BY <1>1, <1>2, <1>5, <1>6, <1>7, <1>8 DEF Rest

LEMMA OrderedKept ==
  ASSUME NEW C, NEW f \in Seq(Seq(C \ {"/"})), f # << >>, Ordered(f)
  PROVE  Front(f) \in Seq(Kept(C)) /\ Last(f) \notin {<<".">>, <<".", ".">>}
<1>1. PICK fr, la, n : fr = Front(f) /\ la = Last(f) /\ n = Len(fr)
  OBVIOUS
<1>2. /\ fr \in Seq(Seq(C \ {"/"})) /\ la \in Seq(C \ {"/"}) /\ f = Append(fr, la)
      /\ Len(f) = n + 1 /\ n \in Nat
  BY <1>1, EndsIn, LenProperties
<1>3. f[n + 1] = la /\ \A i \in 1..n : f[i] = fr[i]
  <2>1. PICK D : D = Seq(C \ {"/"})
    OBVIOUS
  <2>2. fr \in Seq(D) /\ la \in D
    BY <1>2, <2>1
  <2>3. /\ Append(fr, la)[Len(fr) + 1] = la
        /\ \A i \in 1..Len(fr) : Append(fr, la)[i] = fr[i]
    BY <2>2, AppendProperties
  <2> QED
    BY <1>1, <1>2, <2>3
<1>4. n + 1 \in 1..Len(f) /\ \A i \in 1..n : i \in 1..Len(f) /\ i # Len(f)
  BY <1>2
<1>5. la \notin {<<".">>, <<".", ".">>}
  BY <1>3, <1>4 DEF Ordered
<1>6. \A i \in 1..n : fr[i] \in Kept(C)
  <2>1. ASSUME NEW i \in 1..n PROVE fr[i] \in Kept(C)
    <3>1. f[i] \notin {<<".">>, <<".", ".">>} /\ f[i] # << >>
      BY <1>4 DEF Ordered
    <3>2. fr[i] \in Seq(C \ {"/"})
      BY <1>1, <1>2, ElementOfSeq
    <3> QED
      BY <1>3, <3>1, <3>2 DEF Kept
  <2> QED
    BY <2>1
<1>7. fr \in Seq(Kept(C))
  <2>1. fr \in [1..n -> Seq(C \ {"/"})]
    BY <1>1, <1>2, LenProperties
  <2>2. fr = [i \in 1..n |-> fr[i]]
    BY <2>1
  <2>3. fr \in [1..n -> Kept(C)]
    BY <1>6, <2>2
  <2> QED
    BY <1>2, <2>3, FunctionIsSeq
<1> QED
  BY <1>1, <1>5, <1>7

(* The segments of an orderly path are its fields, the first empty one     *)
(* aside.                                                                  *)
LEMMA SegmentsStay ==
  ASSUME NEW C, NEW t, NEW first \in {<< >>, << << >> >>},
         NEW f \in Seq(Seq(C \ {"/"})), f # << >>, Ordered(f),
         Fields(t, {"/"}) = first \o f
  PROVE  Segments(t) = f
<1>1. PICK fr, la : fr = Front(f) /\ la = Last(f)
  OBVIOUS
<1>2. /\ fr \in Seq(Seq(C \ {"/"})) /\ la \in Seq(C \ {"/"}) /\ f = Append(fr, la)
      /\ fr \in Seq(Kept(C)) /\ la \notin {<<".">>, <<".", ".">>}
  BY <1>1, EndsIn, OrderedKept
<1>3. first \in Seq(Seq(C \ {"/"}))
  <2>1. << >> \in Seq(C \ {"/"})
    BY None
  <2>2. << << >> >> \in Seq(Seq(C \ {"/"})) /\ << >> \in Seq(Seq(C \ {"/"}))
    BY <2>1, None, One
  <2> QED
    BY <2>2
<1>4. PICK a : a = first \o fr
  OBVIOUS
<1>5. a \in Seq(Seq(C \ {"/"}))
  BY <1>2, <1>3, <1>4, ConcatProperties
<1>6. first \o f = Append(a, la)
  <2>1. Append(first \o fr, la) = Longer(first, fr, la)
    BY <1>2, <1>3, AppendLast
  <2> QED
    BY <1>2, <1>4, <2>1 DEF Longer
<1>7. Front(Append(a, la)) = a /\ Last(Append(a, la)) = la
  BY <1>2, <1>5, FrontLast
<1>8. FoldLeft(NextSegment, << >>, a) = fr
  BY <1>2, <1>4, KeptStay
<1>9. Segments(t) = CASE la = <<".">> -> Append(fr, << >>)
                      [] la = <<".", ".">> -> NextSegment(fr, la)
                      [] OTHER -> Append(fr, la)
  BY <1>6, <1>7, <1>8 DEF Segments
<1> QED
  BY <1>2, <1>9

(* normalize_path leaves an orderly path as it is: a path it has made is   *)
(* not changed by making it again.                                         *)
THEOREM PathStays ==
  ASSUME NEW C, NEW t \in Seq(C), Orderly(t)
  PROVE  normalize_path(t) = t
<1> DEFINE D == C \cup {"/"}
<1>1. PICK q : q = IF Starts(t, "/") THEN Rest(t, 1) ELSE t
  OBVIOUS
<1>2. t \in Seq(D) /\ "/" \in D
  BY SeqMonotonic
<1> HIDE DEF D
<1>3. q \in Seq(D)
  BY <1>1, <1>2, PartsOfText
<1>4. PICK f : f = Fields(q, {"/"})
  OBVIOUS
<1>5. f \in Seq(Seq(D \ {"/"})) /\ f # << >>
  BY <1>3, <1>4, FieldsTyped DEF Pieces
<1>6. Ordered(f)
  <2>1. DOMAIN f = 1..Len(f)
    BY <1>5, LenProperties
  <2> QED
    BY <1>1, <1>4, <2>1 DEF Orderly, Ordered
<1>7. Joined(f, <<"/">>) = q
  BY <1>2, <1>3, <1>4, JoinedFields
<1>8. CASE Starts(t, "/")
  <2>1. t = <<"/">> \o q
    BY <1>1, <1>2, <1>8, StartSplit
  <2>2. PICK e : e = << >>
    OBVIOUS
  <2>3. e \in Seq(D) /\ e \o (<<"/">> \o q) = <<"/">> \o q
    <3>1. <<"/">> \o q \in Seq(D)
      BY <1>2, <1>3, One, ConcatProperties
    <3> QED
      BY <2>2, <3>1, None, ConcatEmptySeq
  <2>4. Fields(e \o (<<"/">> \o q), {"/"}) = Fields(e, {"/"}) \o f
    <3>1. PICK chars, g : chars = {"/"} /\ g = "/"
      OBVIOUS
    <3>2. g \in D /\ g \in chars /\ e \in Seq(D) /\ q \in Seq(D)
      BY <1>2, <1>3, <2>3, <3>1
    <3>3. FieldsApart(e, g, q, chars)
      BY <3>2, FieldsConcat
    <3> QED
      BY <1>4, <3>1, <3>3 DEF FieldsApart
  <2>5. Fields(t, {"/"}) = << << >> >> \o f
    BY <2>1, <2>2, <2>3, <2>4, FieldsOfNone
  <2>6. Segments(t) = f
    BY <1>5, <1>6, <2>5, SegmentsStay
  <2> QED
    BY <1>7, <1>8, <2>1, <2>6 DEF normalize_path
<1>9. CASE ~Starts(t, "/")
  <2>1. q = t
    BY <1>1, <1>9
  <2>2. << >> \o f = f
    BY <1>5, ConcatEmptySeq
  <2>3. Segments(t) = f
    BY <1>4, <1>5, <1>6, <2>1, <2>2, SegmentsStay
  <2>4. << >> \o t = t
    BY ConcatEmptySeq
  <2> QED
    BY <1>7, <1>9, <2>1, <2>3, <2>4 DEF normalize_path
<1> QED
  BY <1>8, <1>9

LEMMA PathInSeq ==
  ASSUME NEW C, "/" \in C, NEW t \in Seq(C)
  PROVE  normalize_path(t) \in Seq(C)
<1>1. Segments(t) \in Seq(Seq(C \ {"/"}))
  BY SegmentsOrdered
<1>2. Segments(t) \in Seq(Seq(C))
  <2>1. Seq(C \ {"/"}) \subseteq Seq(C)
    BY SeqMonotonic
  <2> QED
    BY <1>1, <2>1, SeqMonotonic
<1>3. << >> \in Seq(C) /\ <<"/">> \in Seq(C)
  BY None, One
<1>4. Joined(Segments(t), <<"/">>) \in Seq(C)
  BY <1>2, <1>3, JoinedFurther
<1> QED
  BY <1>3, <1>4, ConcatProperties DEF normalize_path

-----------------------------------------------------------------------------
(* Parts in normal form.                                                   *)

NormalParts(p) ==
  /\ p = [f \in DOMAIN NoParts |-> p[f]]
  /\ Orderly(p.path)
  /\ p.ip_v = 0 => Range(p.host) \cap Upper = {}

(* normalize_path gives such a path, of any text.                          *)
LEMMA PathNormal ==
  ASSUME NEW C, NEW t \in Seq(C)
  PROVE  Orderly(normalize_path(t))
<1> DEFINE D == C \cup {"/"}
<1>1. "/" \in D /\ t \in Seq(D)
  BY SeqMonotonic
<1> HIDE DEF D
<1> QED
  BY <1>1, PathOrderly

LEMMA NoPartsNormal == NormalParts(NoParts)
<1>1. Orderly(<< >>)
  <2>1. PICK f : f = Fields(<< >>, {"/"})
    OBVIOUS
  <2>2. f = << << >> >>
    BY <2>1, FieldsOfNone
  <2>3. DOMAIN f = {1} /\ f[1] = << >> /\ Len(f) = 1
    BY <2>2
  <2> QED
    BY <2>1, <2>3, DotsApart DEF Orderly, Starts
<1> QED
  BY <1>1 DEF NormalParts, NoParts

LEMMA PartsNormal ==
  ASSUME NEW t \in Seq(Chars)
  PROVE  NormalParts(Parts(t))
<1>1. PICK h : h = HostPart(AfterUser(Authority(t)))
  OBVIOUS
<1>2. PICK host, ip_v, path :
        /\ host = (IF HasAuthority(t) THEN NormalHost(h) ELSE << >>)
        /\ ip_v = (IF HasAuthority(t) THEN h.ip_v ELSE -1)
        /\ path = normalize_path(decode(Path(t)))
  OBVIOUS
<1>3. Orderly(path)
  <2>1. PICK p : p = Path(t) /\ p \in Seq(Chars)
    BY PathTyped
  <2>2. PICK C : C = Chars \cup {Spelled(p, i) : i \in Escapes(p)}
    OBVIOUS
  <2>3. p \in Seq(C) /\ \A i \in Escapes(p) : Spelled(p, i) \in C
    BY <2>1, <2>2, SeqMonotonic
  <2>4. decode(p) \in Seq(C)
    BY <2>3, DecodeTyped
  <2> QED
    BY <1>2, <2>1, <2>4, PathNormal
<1>4. ip_v = 0 => Range(host) \cap Upper = {}
  BY <1>2, NoCapitals DEF NormalHost
<1>5. PICK scheme, user, port, query, fragment :
        Parts(t) = [scheme |-> scheme, user |-> user, host |-> host, ip_v |-> ip_v,
                    port |-> port, path |-> path, query |-> query, fragment |-> fragment]
  BY <1>1, <1>2 DEF Parts
<1> QED
  BY <1>3, <1>4, <1>5 DEF NormalParts, NoParts

-----------------------------------------------------------------------------
(* A URL without parts has the empty text.                                 *)

LEMMA NothingEncoded == ASSUME NEW mask PROVE encode(<< >>, mask) = << >>
  BY DEF encode, FlattenSeq

LEMMA NoPartsBuild == Builds(NoParts) /\ Build(NoParts) = << >>
  BY NothingEncoded, NothingJoined DEF Builds, Build, NoParts, Prefixed, Onward, Starts

-----------------------------------------------------------------------------
(* What comes before and behind the place of a cut, and which cut it is.   *)

(* A text is cut where the first of the characters is.                     *)
Heads(v, chars) == v = << >> \/ v[1] \in chars

Apart(u, v, chars) == /\ find_first_of(u \o v, chars) = Len(u) + 1
                      /\ Upto(u \o v, chars) = u /\ Onward(u \o v, chars) = v

LEMMA CutClean ==
  ASSUME NEW C, NEW chars, NEW u \in Seq(C \ chars), NEW v \in Seq(C), Heads(v, chars)
  PROVE  Apart(u, v, chars)
<1>1. u \in Seq(C) /\ \A i \in 1..Len(u) : u[i] \notin chars
  <2>1. \A i \in 1..Len(u) : u[i] \in C \ chars
    BY ElementOfSeq
  <2> QED
    BY <2>1, SeqMonotonic
<1>2. Upto(u \o v, chars) = u /\ Onward(u \o v, chars) = v
  BY <1>1, CutAt DEF Heads
<1>3. PICK t, n, m : t = u \o v /\ n = Len(u) /\ m = Len(v)
  OBVIOUS
<1>4. /\ n \in Nat /\ m \in Nat /\ t \in Seq(C) /\ Len(t) = n + m
      /\ \A i \in 1..(n + m) : t[i] = IF i <= n THEN u[i] ELSE v[i - n]
  BY <1>1, <1>3, ConcatProperties, LenProperties
<1>5. n + 1 \in 1..(Len(t) + 1)
  BY <1>4
<1>6. \A i \in 1..Len(t) : i < n + 1 => t[i] \notin chars
  BY <1>1, <1>3, <1>4
<1>7. n + 1 = Len(t) + 1 \/ t[n + 1] \in chars
  <2>1. CASE v = << >>
    BY <1>3, <1>4, <2>1, None
  <2>2. CASE v # << >> /\ v[1] \in chars
    <3>1. m # 0
      BY <1>3, <2>2, EmptySeq
    <3>2. n + 1 \in 1..(n + m) /\ ~(n + 1 <= n) /\ (n + 1) - n = 1
      BY <1>4, <3>1
    <3> QED
      BY <1>4, <2>2, <3>2
  <2> QED
    BY <2>1, <2>2 DEF Heads
<1>8. find_first_of(t, chars) = n + 1
  BY <1>4, <1>5, <1>6, <1>7, FirstIs
<1> QED
  BY <1>2, <1>3, <1>8 DEF Apart

SchemeEnds == {":", "/", "?", "#"}

LEMMA SchemeCut ==
  ASSUME NEW s \in Seq(Chars \ SchemeEnds), NEW x \in Seq(Chars),
         NEW t, t = (s \o <<":">>) \o x
  PROVE  SchemeEnd(t) > 0 /\ Scheme(t) = s /\ AfterScheme(t) = x
<1>1. PICK D, y : D = Chars /\ y = <<":">> \o x
  OBVIOUS
<1>2. ":" \in D /\ x \in Seq(D) /\ s \in Seq(D)
  BY <1>1, SignsIn, SeqMonotonic
<1>3. y \in Seq(D) /\ y # << >> /\ y[1] = ":"
  BY <1>1, <1>2, StartsOne
<1>4. t = s \o y
  <2>1. <<":">> \in Seq(D)
    BY <1>2, One
  <2> QED
    BY <1>1, <1>2, <2>1, Regroup DEF Regrouped
<1>5. Apart(s, y, SchemeEnds)
  BY <1>1, <1>3, CutClean DEF Heads, SchemeEnds
<1>6. PICK n, m : n = Len(s) /\ m = Len(y)
  OBVIOUS
<1>7. n \in Nat /\ m \in Nat /\ m # 0
  BY <1>2, <1>3, <1>6, LenProperties, EmptySeq
<1>8. Len(t) = n + m /\ t[n + 1] = ":"
  <2>1. PICK w : w = s \o y
    OBVIOUS
  <2>2. /\ Len(w) = n + m
        /\ \A i \in 1..(n + m) : w[i] = IF i <= n THEN s[i] ELSE y[i - n]
    BY ONLY <1>2, <1>3, <1>6, <2>1, ConcatProperties
  <2>3. n + 1 \in 1..(n + m) /\ ~(n + 1 <= n) /\ (n + 1) - n = 1
    BY <1>7
  <2> QED
    BY <1>3, <1>4, <2>1, <2>2, <2>3
<1>9. SchemeEnd(t) = n + 1
  <2>1. find_first_of(t, {":", "/", "?", "#"}) = n + 1
    BY <1>4, <1>5, <1>6 DEF Apart, SchemeEnds
  <2>2. n + 1 <= Len(t)
    BY <1>7, <1>8
  <2> QED
    BY <1>8, <2>1, <2>2 DEF SchemeEnd
<1>10. Scheme(t) = s
  <2>1. SubSeq(t, 1, find_first_of(t, SchemeEnds) - 1) = s
    BY <1>4, <1>5 DEF Apart, Upto
  <2>2. find_first_of(t, SchemeEnds) = n + 1
    BY <1>4, <1>5, <1>6 DEF Apart
  <2> QED
    BY <1>9, <2>1, <2>2 DEF Scheme
<1>11. AfterScheme(t) = x
  <2>1. PICK u : u = s \o <<":">>
    OBVIOUS
  <2>2. u \in Seq(D) /\ Len(u) = n + 1
    BY <1>2, <1>6, <2>1, One, ConcatProperties
  <2>3. Rest(u \o x, Len(u)) = x
    BY <1>2, <2>2, RestIs
  <2> QED
    BY <1>9, <2>1, <2>2, <2>3 DEF AfterScheme
<1> QED
  BY <1>7, <1>9, <1>10, <1>11

LEMMA NoScheme ==
  ASSUME NEW u \in Seq(Chars \ SchemeEnds), NEW v \in Seq(Chars),
         Heads(v, {"/", "?", "#"}), NEW t, t = u \o v
  PROVE  SchemeEnd(t) = 0 /\ Scheme(t) = << >> /\ AfterScheme(t) = t
<1>1. PICK D : D = Chars
  OBVIOUS
<1>2. v \in Seq(D) /\ u \in Seq(D)
  BY <1>1, SeqMonotonic
<1>3. Apart(u, v, SchemeEnds)
  BY CutClean DEF Heads, SchemeEnds
<1>4. PICK n, m : n = Len(u) /\ m = Len(v)
  OBVIOUS
<1>5. /\ n \in Nat /\ m \in Nat /\ t \in Seq(D) /\ Len(t) = n + m
      /\ \A i \in 1..(n + m) : t[i] = IF i <= n THEN u[i] ELSE v[i - n]
  BY <1>2, <1>4, ConcatProperties, LenProperties
<1>6. n + 1 <= Len(t) => t[n + 1] # ":"
  <2>1. ASSUME n + 1 <= Len(t) PROVE t[n + 1] # ":"
    <3>1. n + 1 \in 1..(n + m) /\ ~(n + 1 <= n) /\ (n + 1) - n = 1 /\ m # 0
      BY <1>5, <2>1
    <3>2. v # << >>
      BY <1>4, <3>1, None
    <3> QED
      BY <1>5, <3>1, <3>2 DEF Heads
  <2> QED
    BY <2>1
<1>7. SchemeEnd(t) = 0
  <2>1. find_first_of(t, {":", "/", "?", "#"}) = n + 1
    BY <1>3, <1>4 DEF Apart, SchemeEnds
  <2> QED
    BY <1>6, <2>1 DEF SchemeEnd
<1>8. Scheme(t) = << >>
  <2>1. SubSeq(t, 1, 0 - 1) = << >>
    BY SubSeqEmpty
  <2> QED
    BY <1>7, <2>1 DEF Scheme
<1>9. AfterScheme(t) = t
  <2>1. SubSeq(t, 0 + 1, Len(t)) = t
    BY <1>5, SubSeqFull
  <2> QED
    BY <1>7, <2>1 DEF AfterScheme, Rest
<1> QED
  BY <1>7, <1>8, <1>9

(* The authority, between "//" and the path, and the path behind it.       *)
AuthorityEnds == {"/", "?", "#"}

LEMMA AuthorityCut ==
  ASSUME NEW a \in Seq(Chars \ AuthorityEnds), NEW y \in Seq(Chars), Heads(y, AuthorityEnds),
         NEW t, AfterScheme(t) = (<<"/", "/">> \o a) \o y
  PROVE  /\ HasAuthority(t) /\ Authority(t) = a
         /\ Path(t) = Upto(y, {"?", "#"})
<1>1. PICK D, w, x : D = Chars /\ w = AfterScheme(t) /\ x = a \o y
  OBVIOUS
<1>2. "/" \in D /\ a \in Seq(D) /\ y \in Seq(D)
  BY <1>1, SignsIn, SeqMonotonic
<1>3. PICK b, g : b = <<"/">> /\ g = <<"/", "/">>
  OBVIOUS
<1>4. b \in Seq(D) /\ g \in Seq(D) /\ g = b \o b /\ x \in Seq(D)
  BY <1>1, <1>2, <1>3, One, ConcatProperties
<1>5. Len(g) = 2
  BY <1>3
<1>6. w = g \o x
  BY <1>1, <1>2, <1>3, <1>4, Regroup DEF Regrouped
<1>7. w = b \o (b \o x)
  BY <1>4, <1>6, Regroup DEF Regrouped
<1>8. /\ Starts(b \o x, "/") /\ b \o x \in Seq(D)
  BY <1>2, <1>3, <1>4, StartsOne
<1>9. Starts(w, "/") /\ Rest(w, 1) = b \o x
  <2>1. PICK z : z = b \o x
    OBVIOUS
  <2>2. z \in Seq(D) /\ w = <<"/">> \o z
    BY <1>3, <1>7, <1>8, <2>1
  <2>3. Starts(w, "/") /\ Rest(w, 1) = z
    BY <1>2, <2>2, StartsOne
  <2> QED
    BY <2>1, <2>3
<1>10. Rest(w, 2) = x
  BY <1>4, <1>5, <1>6, RestIs
<1>11. HasAuthority(t)
  BY <1>1, <1>8, <1>9 DEF HasAuthority
<1>12. Apart(a, y, AuthorityEnds)
  BY CutClean
<1>13. Upto(x, {"/", "?", "#"}) = a /\ Onward(x, {"/", "?", "#"}) = y
  BY <1>1, <1>12 DEF Apart, AuthorityEnds
<1> QED
  BY <1>1, <1>10, <1>11, <1>13 DEF Authority, Path

LEMMA NoAuthority ==
  ASSUME NEW t, NEW C, AfterScheme(t) \in Seq(C),
         ~(Starts(AfterScheme(t), "/") /\ Starts(Rest(AfterScheme(t), 1), "/"))
  PROVE  /\ ~HasAuthority(t) /\ Authority(t) = << >>
         /\ Path(t) = Upto(AfterScheme(t), {"?", "#"})
<1>1. ~HasAuthority(t)
  BY DEF HasAuthority
<1> QED
  BY <1>1 DEF Authority, Path

(* Query and fragment, behind the path.                                    *)
LEMMA FragmentCut ==
  ASSUME NEW u \in Seq(Chars \ {"#"}), NEW f \in Seq(Chars), NEW v,
         v = Prefixed(<<"#">>, f),
         NEW t, AfterScheme(t) = u \o v
  PROVE  /\ v \in Seq(Chars) /\ Heads(v, {"#"})
         /\ Fragment(t) = f
<1>1. PICK D : D = Chars
  OBVIOUS
<1>2. f \in Seq(D) /\ "#" \in D
  BY <1>1, SignsIn
<1>3. CASE f = << >>
  <2>1. v = << >>
    BY <1>3 DEF Prefixed
  <2>2. Apart(u, v, {"#"})
    BY <2>1, None, CutClean DEF Heads
  <2>3. Rest(v, 1) = << >>
    <3>1. Len(v) = 0
      BY <2>1, None
    <3>2. SubSeq(v, 1 + 1, 0) = << >>
      BY SubSeqEmpty
    <3> QED
      BY <3>1, <3>2 DEF Rest
  <2> QED
    BY <1>3, <2>1, <2>2, <2>3, None DEF Apart, Fragment, Heads
<1>4. CASE f # << >>
  <2>1. v = <<"#">> \o f
    BY <1>4 DEF Prefixed
  <2>2. v \in Seq(D) /\ v # << >> /\ v[1] = "#" /\ Rest(v, 1) = f
    BY ONLY <1>2, <2>1, StartsOne
  <2>3. Apart(u, v, {"#"})
    BY <1>1, <2>2, CutClean DEF Heads
  <2> QED
    BY <1>1, <2>2, <2>3 DEF Apart, Fragment, Heads
<1> QED
  BY <1>3, <1>4

QueryEnds == {"?", "#"}
QuerySeen(q, t) == (HasQuery(t) <=> q # << >>) /\ (q # << >> => QueryText(t) = q)

LEMMA QueryCut ==
  ASSUME NEW u \in Seq(Chars \ QueryEnds), NEW q \in Seq(Chars \ {"#"}), NEW r,
         r = Prefixed(<<"?">>, q),
         NEW v \in Seq(Chars), Heads(v, {"#"}),
         NEW t, AfterScheme(t) = u \o (r \o v)
  PROVE  /\ r \o v \in Seq(Chars) /\ Heads(r \o v, QueryEnds)
         /\ QuerySeen(q, t)
<1>1. PICK D, y : D = Chars /\ y = r \o v
  OBVIOUS
<1>2. v \in Seq(D) /\ q \in Seq(D) /\ "?" \in D
  BY <1>1, SignsIn, SeqMonotonic
<1>3. CASE q = << >>
  <2>1. y = v
    <3>1. r = << >>
      BY <1>3 DEF Prefixed
    <3> QED
      BY <1>1, <1>2, <3>1, ConcatEmptySeq
  <2>2. y \in Seq(D) /\ Heads(y, QueryEnds)
    BY <1>2, <2>1 DEF Heads, QueryEnds
  <2>3. Apart(u, y, QueryEnds)
    BY <1>1, <2>2, CutClean
  <2>4. Onward(AfterScheme(t), {"?", "#"}) = y
    BY <1>1, <2>3 DEF Apart, QueryEnds
  <2>5. ~Starts(y, "?")
    BY <1>2, <2>1, StartsIs DEF Heads
  <2> QED
    BY <1>1, <1>3, <2>2, <2>4, <2>5 DEF HasQuery, QuerySeen
<1>4. CASE q # << >>
  <2>1. r = <<"?">> \o q
    BY <1>4 DEF Prefixed
  <2>2. y = <<"?">> \o (q \o v)
    <3>1. PICK h : h = <<"?">>
      OBVIOUS
    <3>2. h \in Seq(D)
      BY <1>2, <3>1, One
    <3>3. Regrouped(h, q, v)
      BY <1>2, <3>2, Regroup
    <3> QED
      BY <1>1, <2>1, <3>1, <3>3 DEF Regrouped
  <2>3. q \o v \in Seq(D)
    BY <1>2, ConcatProperties
  <2>4. /\ y \in Seq(D) /\ y # << >> /\ y[1] = "?" /\ Rest(y, 1) = q \o v
        /\ Starts(y, "?")
    <3>1. PICK z : z = q \o v
      OBVIOUS
    <3>2. z \in Seq(D) /\ y = <<"?">> \o z
      BY <2>2, <2>3, <3>1
    <3>3. /\ y \in Seq(D) /\ y # << >> /\ y[1] = "?" /\ Rest(y, 1) = z
          /\ Starts(y, "?")
      BY <1>2, <3>2, StartsOne
    <3> QED
      BY <3>1, <3>3
  <2>5. Heads(y, QueryEnds)
    BY <2>4 DEF Heads, QueryEnds
  <2>6. Apart(u, y, QueryEnds)
    BY <1>1, <2>4, <2>5, CutClean
  <2>7. Onward(AfterScheme(t), {"?", "#"}) = y
    BY <1>1, <2>6 DEF Apart, QueryEnds
  <2>8. Apart(q, v, {"#"})
    BY CutClean
  <2> QED
    BY <1>1, <1>4, <2>4, <2>5, <2>7, <2>8 DEF HasQuery, QueryText, Apart, QuerySeen
<1> QED
  BY <1>3, <1>4

-----------------------------------------------------------------------------
(* User, IP literal and address, as they are cut off.                      *)

LEMMA CharsSeq ==
  ASSUME NEW C, NEW t \in Seq(C), NEW mask
  PROVE  is_chars(t, mask) <=> t \in Seq(mask)
<1>1. PICK n : n = Len(t)
  OBVIOUS
<1>2. n \in Nat /\ DOMAIN t = 1..n /\ t \in [1..n -> C]
  BY <1>1, LenProperties
<1>3. ASSUME is_chars(t, mask) PROVE t \in Seq(mask)
  <2>1. \A i \in 1..n : t[i] \in mask
    BY <1>2, <1>3 DEF is_chars
  <2>2. t = [i \in 1..n |-> t[i]]
    BY <1>2
  <2>3. t \in [1..n -> mask]
    BY <2>1, <2>2
  <2> QED
    BY <1>2, <2>3, FunctionIsSeq
<1>4. ASSUME t \in Seq(mask) PROVE is_chars(t, mask)
  <2>1. \A i \in 1..n : t[i] \in mask
    BY <1>1, <1>4, ElementOfSeq
  <2> QED
    BY <1>2, <2>1 DEF is_chars
<1> QED
  BY <1>3, <1>4

LEMMA InRange ==
  ASSUME NEW C, NEW t \in Seq(C), NEW c
  PROVE  c \in Range(t) <=> \E i \in 1..Len(t) : t[i] = c
<1>1. DOMAIN t = 1..Len(t)
  BY LenProperties
<1> QED
  BY <1>1 DEF Range

(* A piece, the character behind it and what follows that.                 *)
LEMMA Behind ==
  ASSUME NEW C, NEW u \in Seq(C), NEW c \in C, NEW v \in Seq(C), NEW t,
         t = u \o (<<c>> \o v)
  PROVE  t \in Seq(C) /\ c \in Range(t)
<1>1. PICK y : y = <<c>> \o v
  OBVIOUS
<1>2. y \in Seq(C) /\ y # << >> /\ y[1] = c
  BY <1>1, StartsOne
<1>3. PICK n, m : n = Len(u) /\ m = Len(y)
  OBVIOUS
<1>4. n \in Nat /\ m \in Nat /\ m # 0
  BY <1>2, <1>3, LenProperties, EmptySeq
<1>5. PICK w : w = u \o y
  OBVIOUS
<1>6. /\ w \in Seq(C) /\ Len(w) = n + m
      /\ \A i \in 1..(n + m) : w[i] = IF i <= n THEN u[i] ELSE y[i - n]
  BY ONLY <1>2, <1>3, <1>5, ConcatProperties, u \in Seq(C)
<1>7. n + 1 \in 1..(n + m) /\ ~(n + 1 <= n) /\ (n + 1) - n = 1
  BY <1>4
<1>8. n + 1 \in 1..Len(w) /\ w[n + 1] = c
  BY <1>2, <1>6, <1>7
<1>9. c \in Range(w)
  BY <1>6, <1>8, InRange
<1> QED
  BY <1>1, <1>5, <1>6, <1>9

(* The user, before the host.                                              *)
Signed(user) == IF user = << >> THEN << >> ELSE user \o <<"@">>

LEMMA UserCut ==
  ASSUME NEW user \in Seq(Chars \ {"@"}), NEW h \in Seq(Chars \ {"@"}), NEW u,
         u = Signed(user),
         NEW a, a = u \o h
  PROVE  User(a) = user /\ AfterUser(a) = h
<1>1. PICK D : D = Chars
  OBVIOUS
<1>2. user \in Seq(D) /\ h \in Seq(D) /\ "@" \in D
  BY <1>1, SignsIn, SeqMonotonic
<1>3. CASE user = << >>
  <2>1. a = h
    <3>1. u = << >>
      BY <1>3 DEF Signed
    <3> QED
      BY <1>2, <3>1, ConcatEmptySeq
  <2>2. "@" \notin Range(h)
    <3>1. \A i \in 1..Len(h) : h[i] \in Chars \ {"@"}
      BY ElementOfSeq
    <3> QED
      BY <1>2, <3>1, InRange
  <2> QED
    BY <1>3, <2>1, <2>2 DEF User, AfterUser
<1>4. CASE user # << >>
  <2>1. PICK y, b : y = <<"@">> \o h /\ b = <<"@">>
    OBVIOUS
  <2>2. b \in Seq(D) /\ u = user \o b /\ y = b \o h
    BY <1>2, <1>4, <2>1, One DEF Signed
  <2>3. a = user \o y
    <3>1. Regrouped(user, b, h)
      BY <1>2, <2>2, Regroup
    <3> QED
      BY <2>2, <3>1 DEF Regrouped
  <2>4. "@" \in Range(a)
    BY <1>2, <2>1, <2>3, Behind
  <2>5. y \in Seq(D) /\ y # << >> /\ y[1] = "@" /\ Rest(y, 1) = h
    BY <1>2, <2>1, StartsOne
  <2>6. Heads(y, {"@"})
    BY <2>5 DEF Heads
  <2>7. Apart(user, y, {"@"})
    BY <1>1, <2>5, <2>6, CutClean
  <2> QED
    BY <2>3, <2>4, <2>5, <2>7 DEF User, AfterUser, Apart
<1> QED
  BY <1>3, <1>4

(* A host that is a name or an IPv4 address.                               *)
LEMMA NameCut ==
  ASSUME NEW name \in Seq(Mask01), NEW r \in Seq(Chars), Heads(r, {":"}),
         NEW t, t = name \o r
  PROVE  HostPart(t) = [ok |-> TRUE, host |-> name,
                        ip_v |-> IF is_ipv4(name) THEN 4 ELSE 0, rest |-> r]
<1>1. PICK D : D = Chars
  OBVIOUS
<1>2. name \in Seq(D) /\ name \in Seq(D \ {":"}) /\ r \in Seq(D)
  BY <1>1, MasksIn, MasksOut, SeqMonotonic
<1>3. Apart(name, r, {":"})
  BY <1>1, <1>2, CutClean
<1>4. ~Starts(t, "[")
  <2>1. CASE name = << >>
    <3>1. t = r
      BY <1>2, <2>1, ConcatEmptySeq
    <3> QED
      BY <1>2, <3>1, StartsIs DEF Heads
  <2>2. CASE name # << >>
    <3>1. t \in Seq(D) /\ t[1] = name[1]
      BY <1>2, <2>2, FirstOfTwo
    <3>2. 1 \in 1..Len(name)
      BY <1>2, <2>2, EmptySeq
    <3>3. name[1] \in Mask01
      BY <3>2, ElementOfSeq
    <3> QED
      BY <3>1, <3>3, MasksOut, StartsIs
  <2> QED
    BY <2>1, <2>2
<1>5. is_reg_name(name)
  BY CharsSeq DEF is_reg_name
<1> QED
  BY <1>3, <1>4, <1>5 DEF HostPart, Apart

(* An IP literal, between brackets.                                        *)
LEMMA LiteralCut ==
  ASSUME NEW x \in Seq(Chars \ {"]"}), NEW r \in Seq(Chars),
         NEW t, t = ((<<"[">> \o x) \o <<"]">>) \o r
  PROVE  /\ Starts(t, "[") /\ "]" \in Range(t)
         /\ Upto(Rest(t, 1), {"]"}) = x
         /\ Rest(Onward(t, {"]"}), 1) = r
<1>1. PICK D, b, e, y, z : /\ D = Chars /\ b = <<"[">> /\ e = <<"]">>
                           /\ y = <<"]">> \o r /\ z = x \o y
  OBVIOUS
<1>2. "[" \in D /\ "]" \in D /\ x \in Seq(D) /\ r \in Seq(D)
  BY <1>1, SignsIn, SeqMonotonic
<1>3. b \in Seq(D) /\ e \in Seq(D)
  BY <1>1, <1>2, One
<1>4. /\ y \in Seq(D) /\ y # << >> /\ y[1] = "]" /\ Rest(y, 1) = r
      /\ z \in Seq(D)
  <2>1. y \in Seq(D) /\ y # << >> /\ y[1] = "]" /\ Rest(y, 1) = r
    BY <1>1, <1>2, StartsOne
  <2> QED
    BY <1>1, <1>2, <2>1, ConcatProperties
<1>5. PICK w : w = b \o x
  OBVIOUS
<1>6. w \in Seq(D)
  BY <1>2, <1>3, <1>5, ConcatProperties
<1>7. t = w \o y
  <2>1. Regrouped(w, e, r)
    BY <1>2, <1>3, <1>6, Regroup
  <2> QED
    BY <1>1, <1>5, <2>1 DEF Regrouped
<1>8. t = b \o z
  <2>1. Regrouped(b, x, y)
    BY <1>2, <1>3, <1>4, Regroup
  <2> QED
    BY <1>1, <1>5, <1>7, <2>1 DEF Regrouped
<1>9. Starts(t, "[") /\ Rest(t, 1) = z
  <2>1. t = <<"[">> \o z
    BY <1>1, <1>8
  <2>2. /\ Rest(<<"[">> \o z, 1) = z
        /\ \A d : Starts(<<"[">> \o z, d) <=> d = "["
    BY <1>2, <1>4, StartsOne
  <2> QED
    BY ONLY <2>1, <2>2
<1>10. "]" \in Range(t)
  <2>1. t = w \o (<<"]">> \o r)
    BY <1>1, <1>7
  <2> QED
    BY <1>2, <1>6, <2>1, Behind
<1>11. Heads(y, {"]"})
  BY <1>4 DEF Heads
<1>12. Apart(x, y, {"]"})
  BY <1>1, <1>4, <1>11, CutClean
<1>13. Apart(w, y, {"]"})
  <2>1. w \in Seq(D \ {"]"})
    <3>1. b \in Seq(D \ {"]"})
      BY <1>1, <1>2, One
    <3>2. x \in Seq(D \ {"]"})
      BY <1>1
    <3> QED
      BY <1>5, <3>1, <3>2, ConcatProperties
  <2> QED
    BY <1>4, <1>11, <2>1, CutClean
<1> QED
  BY <1>1, <1>4, <1>7, <1>9, <1>10, <1>12, <1>13 DEF Apart

AddressChars == HexSet \cup {":", "."}

LEMMA AddressMasked ==
  /\ AddressChars \subseteq Mask05 /\ AddressChars \subseteq Chars
  /\ AddressChars \cap {"@", "/", "?", "#", "[", "]", "v"} = {}
<1>1. {":", "."} \subseteq Mask05
  BY SignsIn DEF Mask05, Mask01
<1>2. AddressChars \subseteq Mask05
  BY <1>1, MasksIn, HexMasked DEF AddressChars
<1>3. "v" \notin AddressChars
  BY DEF AddressChars, HexSet
<1> QED
  BY <1>2, <1>3, MasksIn, MasksOut

LEMMA Address6Cut ==
  ASSUME NEW x \in Seq(AddressChars), is_ipv6(x), NEW r \in Seq(Chars),
         NEW t, t = ((<<"[">> \o x) \o <<"]">>) \o r
  PROVE  HostPart(t) = [ok |-> TRUE, host |-> x, ip_v |-> 6, rest |-> r]
<1>1. x \in Seq(Chars \ {"]"})
  BY AddressMasked, SeqMonotonic
<1>2. /\ Starts(t, "[") /\ "]" \in Range(t)
      /\ Upto(Rest(t, 1), {"]"}) = x
      /\ Rest(Onward(t, {"]"}), 1) = r
  BY <1>1, LiteralCut
<1>3. ~Starts(x, "v")
  <2>1. CASE x = << >>
    BY <2>1 DEF Starts
  <2>2. CASE x # << >>
    <3>1. 1 \in 1..Len(x)
      BY <2>2, EmptySeq
    <3>2. x[1] \in AddressChars
      BY <3>1, ElementOfSeq
    <3> QED
      BY <3>2, AddressMasked, StartsIs
  <2> QED
    BY <2>1, <2>2
<1> QED
  BY <1>2, <1>3 DEF HostPart, IPLiteral

-----------------------------------------------------------------------------
(* The version of a literal: a number and its hex digits.                  *)

(* A number and its four digits.                                           *)
Four(n, a, b, c, d) ==
  /\ a \in 0..15 /\ b \in 0..15 /\ c \in 0..15 /\ d \in 0..15
  /\ n = 4096 * a + 256 * b + 16 * c + d
  /\ a = n \div 4096 /\ b = (n \div 256) % 16 /\ c = (n \div 16) % 16 /\ d = n % 16

Fourfold(n) == \E a, b, c, d : Four(n, a, b, c, d)

LEMMA FourDigits ==
  ASSUME NEW n \in Nat, n <= 65535
  PROVE  Fourfold(n)
<1>1. PICK a, b, c, d : /\ a = n \div 4096 /\ b = (n \div 256) % 16
                        /\ c = (n \div 16) % 16 /\ d = n % 16
  OBVIOUS
<1>2. PICK x, y : x = n \div 256 /\ y = n \div 16
  OBVIOUS
<1>3. n \in Nat /\ n <= 65535
  OBVIOUS
<1>4. /\ x \in Nat /\ 256 * x <= n /\ n < 256 * x + 256
      /\ y \in Nat /\ 16 * y <= n /\ n < 16 * y + 16
      /\ a \in Nat /\ 4096 * a <= n /\ n < 4096 * a + 4096
  BY <1>1, <1>2, <1>3
<1>5. d \in 0..15 /\ n = 16 * y + d
  BY <1>1, <1>2, <1>3
<1>6. c \in 0..15 /\ y = 16 * (y \div 16) + c
  BY <1>1, <1>2, <1>4
<1>7. b \in 0..15 /\ x = 16 * (x \div 16) + b
  BY <1>1, <1>2, <1>4
<1>8. y \div 16 = x
  <2>1. PICK q : q = y \div 16
    OBVIOUS
  <2>2. q \in Nat /\ 16 * q <= y /\ y < 16 * q + 16
    BY <1>4, <2>1
  <2> QED
    BY <1>3, <1>4, <2>1, <2>2
<1>9. x \div 16 = a
  <2>1. PICK q : q = x \div 16
    OBVIOUS
  <2>2. q \in Nat /\ 16 * q <= x /\ x < 16 * q + 16
    BY <1>4, <2>1
  <2> QED
    BY <1>3, <1>4, <2>1, <2>2
<1>10. a \in 0..15
  BY <1>3, <1>4
<1>11. n = 4096 * a + 256 * b + 16 * c + d
  BY <1>4, <1>5, <1>6, <1>7, <1>8, <1>9, <1>10
<1>12. Four(n, a, b, c, d)
  BY <1>1, <1>5, <1>6, <1>7, <1>10, <1>11 DEF Four
<1> QED
  BY <1>12 DEF Fourfold

ZerosOf(all) == Min({k \in 1..3 : all[k] # 0} \cup {4}) - 1

DigitsFrom(all, z) == [i \in 1..(4 - z) |-> LowerHex[all[z + i] + 1]]

LEMMA HexZeros ==
  ASSUME NEW n, NEW a, NEW b, NEW c, NEW d, Four(n, a, b, c, d),
         NEW w, w = <<a, b, c, d>>,
         NEW z \in 0..3, \A k \in 1..3 : k <= z => w[k] = 0,
         z < 3 => w[z + 1] # 0
  PROVE  Hex(n) = DigitsFrom(w, z)
<1>1. PICK S : S = {k \in 1..3 : w[k] # 0} \cup {4}
  OBVIOUS
<1>2. z + 1 \in S /\ S \subseteq Int /\ \A y \in S : z + 1 <= y
  BY <1>1
<1>3. Min(S) = z + 1
  BY <1>2, MinIs
<1>4. ZerosOf(w) = z
  BY <1>1, <1>3 DEF ZerosOf
<1>5. a = n \div 4096 /\ b = (n \div 256) % 16 /\ c = (n \div 16) % 16 /\ d = n % 16
  BY DEF Four
<1>6. Hex(n) = DigitsFrom(w, ZerosOf(w))
  BY ONLY <1>5, w = <<a, b, c, d>> DEF Hex, DigitsFrom, ZerosOf
<1> QED
  BY <1>4, <1>6

LEMMA TupleAt ==
  ASSUME NEW a, NEW b, NEW c, NEW d
  PROVE  /\ <<a, b, c, d>>[1] = a /\ <<a, b, c, d>>[2] = b
         /\ <<a, b, c, d>>[3] = c /\ <<a, b, c, d>>[4] = d
  OBVIOUS

LEMMA HexSmall ==
  ASSUME NEW n \in 0..15
  PROVE  Hex(n) = <<LowerHex[n + 1]>>
<1>1. PICK a, b, c, d : Four(n, a, b, c, d)
  <2>1. n \in Nat /\ n <= 65535
    OBVIOUS
  <2>2. Fourfold(n)
    BY <2>1, FourDigits
  <2> QED
    BY <2>2 DEF Fourfold
<1>2. a = 0 /\ b = 0 /\ c = 0 /\ d = n
  BY <1>1 DEF Four
<1>3. PICK w : w = <<a, b, c, d>>
  OBVIOUS
<1>4. w[1] = 0 /\ w[2] = 0 /\ w[3] = 0 /\ w[4] = n
  BY <1>2, <1>3, TupleAt
<1>5. \A k \in 1..3 : k <= 3 => w[k] = 0
  BY <1>4, FewPlaces
<1>6. Hex(n) = DigitsFrom(w, 3)
  BY <1>1, <1>3, <1>5, HexZeros
<1>7. PICK L : L = LowerHex
  OBVIOUS
<1>8. [i \in 1..(4 - 3) |-> L[w[3 + i] + 1]] = <<L[n + 1]>>
  BY ONLY <1>4
<1> QED
  BY <1>6, <1>7, <1>8 DEF DigitsFrom

(* An IPvFuture literal, its version of one digit.                         *)
LEMMA FutureCut ==
  ASSUME NEW x \in Seq(Mask05), NEW v \in 0..15, NEW r \in Seq(Chars),
         NEW t, t = ((((<<"[", "v">> \o Hex(v)) \o <<".">>) \o x) \o <<"]">>) \o r
  PROVE  HostPart(t) = [ok |-> TRUE, host |-> x, ip_v |-> v, rest |-> r]
<1>1. PICK D, c : D = Chars \ {"]"} /\ c = LowerHex[v + 1]
  OBVIOUS
<1>2. /\ c \in HexSet /\ c \in D /\ c \in HexDigits /\ get_hex_digit(c) = v
      /\ "v" \in D /\ "." \in D
  <2>1. c \in HexSet /\ get_hex_digit(c) = v
    BY <1>1, HexDigitsAre, HexDigitIs
  <2> QED
    BY <1>1, <2>1, HexDigitsAre, HexMasked, MasksIn, MasksOut, SignsIn
<1>3. x \in Seq(D)
  BY <1>1, MasksIn, MasksOut, SeqMonotonic
<1>4. PICK y, z : y = <<"v", c, ".">> /\ z = y \o x
  OBVIOUS
<1>5. y \in Seq(D) /\ Len(y) = 3 /\ y[1] = "v" /\ y[2] = c /\ y[3] = "."
  BY <1>2, <1>4
<1>6. /\ z \in Seq(D) /\ Len(z) > 2 /\ z # << >>
      /\ z[1] = "v" /\ z[2] = c /\ z[3] = "."
  <2>1. PICK m : m = Len(x)
    OBVIOUS
  <2>2. /\ m \in Nat /\ z \in Seq(D) /\ Len(z) = 3 + m
        /\ \A i \in 1..(3 + m) : z[i] = IF i <= 3 THEN y[i] ELSE x[i - 3]
    BY <1>3, <1>4, <1>5, <2>1, ConcatProperties, LenProperties
  <2>3. 1 \in 1..(3 + m) /\ 2 \in 1..(3 + m) /\ 3 \in 1..(3 + m) /\ 3 + m > 2
    BY <2>2
  <2>4. Len(z) # 0
    BY <2>2
  <2> QED
    BY <1>5, <2>2, <2>3, <2>4, None
<1>7. Rest(z, 3) = x
  BY <1>3, <1>4, <1>5, RestIs
<1>8. ((<<"[", "v">> \o Hex(v)) \o <<".">>) \o x = <<"[">> \o z
  <2>1. Hex(v) = <<c>>
    BY <1>1, HexSmall
  <2>2. (<<"[", "v">> \o <<c>>) \o <<".">> = <<"[">> \o <<"v", c, ".">>
    OBVIOUS
  <2>3. PICK g, C : g = <<"[">> /\ C = Chars
    OBVIOUS
  <2>4. g \in Seq(C) /\ y \in Seq(C) /\ x \in Seq(C)
    <3>1. "[" \in C /\ D \subseteq C
      BY <1>1, <2>3, SignsIn
    <3> QED
      BY <1>3, <1>5, <2>3, <3>1, One, SeqMonotonic
  <2>5. Regrouped(g, y, x)
    BY <2>4, Regroup
  <2> QED
    BY <1>4, <2>1, <2>2, <2>3, <2>5 DEF Regrouped
<1>9. /\ Starts(t, "[") /\ "]" \in Range(t)
      /\ Upto(Rest(t, 1), {"]"}) = z
      /\ Rest(Onward(t, {"]"}), 1) = r
  <2>1. t = ((<<"[">> \o z) \o <<"]">>) \o r
    BY <1>8
  <2> QED
    BY <1>1, <1>6, <2>1, LiteralCut
<1>10. Starts(z, "v")
  BY <1>6, StartsIs
<1>11. is_chars(x, Mask05)
  BY CharsSeq
<1>12. HostPart(t) = [ok |-> TRUE, host |-> x, ip_v |-> v, rest |-> r]
  <2>1. HostPart(t) = IPLiteral(t)
    BY <1>9 DEF HostPart
  <2>2. IPLiteral(t) = [ok |-> Len(z) > 2 /\ z[2] \in HexDigits /\ z[3] = "."
                               /\ is_chars(Rest(z, 3), Mask05),
                        host |-> Rest(z, 3),
                        ip_v |-> IF Len(z) > 1 THEN get_hex_digit(z[2]) ELSE -1,
                        rest |-> r]
    BY <1>9, <1>10 DEF IPLiteral
  <2>3. Len(z) > 1
    <3>1. Len(z) \in Nat
      BY <1>6, LenProperties
    <3> QED
      BY <1>6, <3>1
  <2> QED
    BY <1>2, <1>6, <1>7, <1>11, <2>1, <2>2, <2>3
<1> QED
  BY <1>12

-----------------------------------------------------------------------------
(* A host of any version but 4 and 6, read again.                          *)

(* A host and a version that are read again as they are.                   *)
HostGood(h, v) ==
  /\ v \in 0..15 /\ h \in Seq(Chars) /\ h # << >>
  /\ v = 0 => h \in Seq(Mask01) /\ ~is_ipv4(h) /\ to_lower(h) = h
  /\ v = 4 => h \in Seq(Mask01) /\ is_ipv4(h)
  /\ v = 6 => h \in Seq(AddressChars) /\ is_ipv6(h) /\ normalize_IPv6(h) = h
  /\ v \notin {0, 4, 6} => h \in Seq(Mask05)

HostRead(h, v, r, t) ==
  /\ HostPart(t).ok /\ HostPart(t).rest = r /\ HostPart(t).ip_v = v
  /\ NormalHost(HostPart(t)) = h
  /\ v = 6 => is_ipv6(HostPart(t).host)

LEMMA HostBack ==
  ASSUME NEW p, HostGood(p.host, p.ip_v), NEW r \in Seq(Chars), Heads(r, {":"}),
         NEW t, t = HostText(p) \o r
  PROVE  HostRead(p.host, p.ip_v, r, t)
<1>1. PICK h, v : h = p.host /\ v = p.ip_v
  OBVIOUS
<1>2. HostGood(h, v)
  BY <1>1
<1>3. CASE v \in {0, 4}
  <2>1. HostText(p) = h
    BY <1>1, <1>3 DEF HostText
  <2>2. h \in Seq(Mask01)
    BY <1>2, <1>3 DEF HostGood
  <2>3. HostPart(t) = [ok |-> TRUE, host |-> h,
                       ip_v |-> IF is_ipv4(h) THEN 4 ELSE 0, rest |-> r]
    BY <2>1, <2>2, NameCut
  <2>4. v = 0 => ~is_ipv4(h) /\ to_lower(h) = h
    BY <1>2 DEF HostGood
  <2>5. v = 4 => is_ipv4(h)
    BY <1>2 DEF HostGood
  <2> QED
    BY <1>1, <1>3, <2>3, <2>4, <2>5 DEF HostRead, NormalHost
<1>4. CASE v = 6
  <2>1. HostText(p) = (<<"[">> \o h) \o <<"]">>
    BY <1>1, <1>4 DEF HostText
  <2>2. h \in Seq(AddressChars) /\ is_ipv6(h) /\ normalize_IPv6(h) = h
    BY <1>2, <1>4 DEF HostGood
  <2>3. HostPart(t) = [ok |-> TRUE, host |-> h, ip_v |-> 6, rest |-> r]
    BY <2>1, <2>2, Address6Cut
  <2> QED
    BY <1>1, <1>4, <2>2, <2>3 DEF HostRead, NormalHost
<1>5. CASE v \notin {0, 4, 6}
  <2>1. HostText(p) = (((<<"[", "v">> \o Hex(v)) \o <<".">>) \o h) \o <<"]">>
    BY <1>1, <1>5 DEF HostText
  <2>2. h \in Seq(Mask05) /\ v \in 0..15
    BY <1>2, <1>5 DEF HostGood
  <2>3. HostPart(t) = [ok |-> TRUE, host |-> h, ip_v |-> v, rest |-> r]
    BY <2>1, <2>2, FutureCut
  <2> QED
    BY <1>1, <1>5, <2>3 DEF HostRead, NormalHost
<1> QED
  BY <1>3, <1>4, <1>5

HostChars == Chars \ {"@", "/", "?", "#"}

LEMMA HostTyped ==
  ASSUME NEW p, HostGood(p.host, p.ip_v)
  PROVE  HostText(p) \in Seq(HostChars)
<1>1. PICK h, v : h = p.host /\ v = p.ip_v
  OBVIOUS
<1>2. HostGood(h, v)
  BY <1>1
<1>3. Mask01 \subseteq HostChars /\ Mask05 \subseteq HostChars /\ AddressChars \subseteq HostChars
      /\ {"[", "]", "v", "."} \subseteq HostChars /\ HexSet \subseteq HostChars
  BY MasksIn, MasksOut, AddressMasked, HexMasked, SignsIn DEF HostChars
<1>4. h \in Seq(HostChars)
  BY <1>2, <1>3, SeqMonotonic DEF HostGood
<1>5. PICK b, e : b = <<"[">> /\ e = <<"]">>
  OBVIOUS
<1>6. b \in Seq(HostChars) /\ e \in Seq(HostChars)
  BY <1>3, <1>5, One
<1>7. CASE v \in {0, 4}
  BY <1>1, <1>4, <1>7 DEF HostText
<1>8. CASE v = 6
  <2>1. HostText(p) = (b \o h) \o e
    BY <1>1, <1>5, <1>8 DEF HostText
  <2>2. b \o h \in Seq(HostChars)
    BY <1>4, <1>6, ConcatProperties
  <2> QED
    BY <1>6, <2>1, <2>2, ConcatProperties
<1>9. CASE v \notin {0, 4, 6}
  <2>1. PICK g, d, x, c : g = <<"[", "v">> /\ d = <<".">> /\ x = Hex(v) /\ c = LowerHex[v + 1]
    OBVIOUS
  <2>2. v \in 0..15
    BY <1>2 DEF HostGood
  <2>3. x = <<c>> /\ c \in HostChars
    BY <1>3, <2>1, <2>2, HexSmall, HexDigitsAre
  <2>4. g \in Seq(HostChars) /\ d \in Seq(HostChars) /\ x \in Seq(HostChars)
    BY <1>3, <2>1, <2>3, One
  <2>5. HostText(p) = (((g \o x) \o d) \o h) \o e
    BY <1>1, <1>5, <1>9, <2>1 DEF HostText
  <2>6. g \o x \in Seq(HostChars)
    BY <2>4, ConcatProperties
  <2>7. (g \o x) \o d \in Seq(HostChars)
    BY <2>4, <2>6, ConcatProperties
  <2>8. ((g \o x) \o d) \o h \in Seq(HostChars)
    BY <1>4, <2>7, ConcatProperties
  <2> QED
    BY <1>6, <2>5, <2>8, ConcatProperties
<1> QED
  BY <1>7, <1>8, <1>9

(* A port has digits only, a scheme no character that would end it.        *)
LEMMA PortDigits ==
  ASSUME NEW t \in Seq(Chars), is_port(t)
  PROVE  t # << >> /\ t \in Seq(HostChars)
<1>1. PICK n, D, X : n = Len(t) /\ D = Chars /\ X = Chars \ Num
  OBVIOUS
<1>2. n \in Nat /\ n # 0 /\ t \in Seq(D) /\ t # << >>
  <2>1. t # << >>
    BY DEF is_port
  <2> QED
    BY <1>1, <2>1, EmptySeq, LenProperties
<1>3. Num \subseteq HostChars /\ "0" \in HostChars
  BY AlphaTyped, NumAre, LettersApart DEF Digits, HostChars
<1>4. PICK u : u = IF Starts(t, "0") THEN <<"0">> ELSE Upto(t, X)
  OBVIOUS
<1>5. Len(u) = n
  <2>1. is_uint(t, 65535) = n
    BY <1>1 DEF is_port
  <2>2. is_uint(t, 65535) \in {0, Len(u)}
    BY <1>1, <1>4 DEF is_uint
  <2> QED
    BY <1>2, <2>1, <2>2
<1>6. \A i \in 1..n : t[i] \in HostChars
  <2>1. CASE Starts(t, "0")
    <3>1. Len(u) = 1
      BY <1>4, <2>1
    <3>2. t[1] = "0"
      BY <1>2, <2>1, StartsIs
    <3> QED
      BY <1>3, <1>5, <3>1, <3>2, FewPlaces
  <2>2. CASE ~Starts(t, "0")
    <3>1. u = Upto(t, X)
      BY <1>4, <2>2
    <3>2. PICK v : v = Onward(t, X)
      OBVIOUS
    <3>3. /\ u \in Seq(D) /\ v \in Seq(D) /\ t = u \o v
          /\ \A i \in 1..Len(u) : u[i] \notin X
      BY <1>2, <3>1, <3>2, CutExists DEF CutOf
    <3>4. \A i \in 1..n : t[i] = u[i]
      <4>1. PICK m : m = Len(v)
        OBVIOUS
      <4>2. m \in Nat
        BY <3>3, <4>1, LenProperties
      <4>3. \A i \in 1..(Len(u) + Len(v)) :
              (u \o v)[i] = IF i <= Len(u) THEN u[i] ELSE v[i - Len(u)]
        BY <3>3, ConcatProperties
      <4>4. \A i \in 1..n : i \in 1..(n + m) /\ i <= n
        BY <1>2, <4>2
      <4> QED
        BY <1>5, <3>3, <4>1, <4>3, <4>4
    <3>5. \A i \in 1..n : t[i] \in D
      BY <1>1, <1>2, ElementOfSeq
    <3> QED
      BY <1>1, <1>3, <1>5, <3>3, <3>4, <3>5
  <2> QED
    BY <2>1, <2>2
<1>7. is_chars(t, HostChars)
  <2>1. DOMAIN t = 1..n
    BY <1>1, <1>2, LenProperties
  <2> QED
    BY <1>6, <2>1 DEF is_chars
<1> QED
  BY <1>2, <1>7, CharsSeq

LEMMA SchemeLetters ==
  ASSUME NEW t \in Seq(Chars), is_scheme(t)
  PROVE  t # << >> /\ t \in Seq(Chars \ SchemeEnds)
<1>1. Alpha \cup Num \cup {"+", "-", "."} \subseteq Chars \ SchemeEnds
  <2>1. Alpha \cup Num \subseteq Chars \ SchemeEnds
    BY AlphaTyped, AlphaIn, NumAre, LettersApart DEF SchemeEnds
  <2>2. {"+", "-", "."} \subseteq Chars \ SchemeEnds
    BY SignsIn DEF SchemeEnds
  <2> QED
    BY <2>1, <2>2
<1>2. is_chars(t, Chars \ SchemeEnds)
  BY <1>1 DEF is_scheme, is_chars
<1> QED
  BY <1>2, CharsSeq DEF is_scheme

LEMMA NameMasked ==
  ASSUME NEW t \in Seq(Chars)
  PROVE  /\ is_reg_name(t) => t \in Seq(Mask01)
         /\ is_ipv4(t) => t \in Seq(Mask01)
<1>1. Num \cup {"."} \subseteq Mask01
  <2>1. Num \subseteq HexSet
    BY NumAre DEF Digits, HexSet
  <2>2. "." \in Mask01
    BY SignsIn DEF Mask01
  <2> QED
    BY <2>1, <2>2, HexMasked
<1>2. is_ipv4(t) => t \in Seq(Num \cup {"."})
  BY CharsSeq DEF is_ipv4
<1>3. is_reg_name(t) => t \in Seq(Mask01)
  BY CharsSeq DEF is_reg_name
<1> QED
  BY <1>1, <1>2, <1>3, SeqMonotonic

-----------------------------------------------------------------------------
(* Texts whose escapes are whole, and an entry of a query read again.      *)

LEMMA WellConcat ==
  ASSUME NEW u \in Seq(Chars), NEW v \in Seq(Chars), WellEscaped(u), WellEscaped(v)
  PROVE  u \o v \in Seq(Chars) /\ WellEscaped(u \o v)
<1>1. PICK D, w, n, m : D = Chars /\ w = u \o v /\ n = Len(u) /\ m = Len(v)
  OBVIOUS
<1>2. u \in Seq(D) /\ v \in Seq(D)
  BY <1>1
<1>3. /\ n \in Nat /\ m \in Nat /\ w \in Seq(D) /\ Len(w) = n + m
      /\ \A i \in 1..(n + m) : w[i] = IF i <= n THEN u[i] ELSE v[i - n]
  BY <1>1, <1>2, ConcatProperties, LenProperties
<1>4. ASSUME NEW i \in Escapes(w)
      PROVE  i + 2 <= Len(w) /\ {w[i + 1], w[i + 2]} \subseteq HexDigits
  <2>1. i \in 1..(n + m) /\ w[i] = "%"
    BY <1>3, EscapesIn
  <2>2. CASE i <= n
    <3>1. i \in Escapes(u)
      <4>1. i \in 1..n
        BY <1>3, <2>1, <2>2
      <4>2. u[i] = "%"
        BY <1>3, <2>1, <2>2
      <4> QED
        BY <1>1, <1>2, <4>1, <4>2, EscapesIn
    <3>2. i + 2 <= n /\ {u[i + 1], u[i + 2]} \subseteq HexDigits
      BY <1>1, <3>1 DEF WellEscaped
    <3>3. /\ i + 1 \in 1..(n + m) /\ i + 1 <= n
          /\ i + 2 \in 1..(n + m) /\ i + 2 <= n /\ i + 2 <= n + m
      BY <1>3, <2>1, <3>2
    <3> QED
      BY <1>3, <3>2, <3>3
  <2>3. CASE ~(i <= n)
    <3>1. PICK j : j = i - n
      OBVIOUS
    <3>2. j \in 1..m /\ i = j + n
      BY <1>3, <2>1, <2>3, <3>1
    <3>3. v[j] = "%"
      BY <1>3, <2>1, <2>3, <3>1
    <3>4. j \in Escapes(v)
      BY <1>1, <1>2, <3>2, <3>3, EscapesIn
    <3>5. j + 2 <= m /\ {v[j + 1], v[j + 2]} \subseteq HexDigits
      BY <1>1, <3>4 DEF WellEscaped
    <3>6. /\ i + 1 \in 1..(n + m) /\ ~(i + 1 <= n) /\ (i + 1) - n = j + 1
          /\ i + 2 \in 1..(n + m) /\ ~(i + 2 <= n) /\ (i + 2) - n = j + 2 /\ i + 2 <= n + m
      BY <1>3, <3>2, <3>5
    <3> QED
      BY <1>3, <3>5, <3>6
  <2> QED
    BY <2>2, <2>3
<1>5. WellEscaped(w)
  BY <1>4 DEF WellEscaped
<1> QED
  BY <1>1, <1>3, <1>5

LEMMA WellOne ==
  ASSUME NEW c \in Chars, c # "%"
  PROVE  <<c>> \in Seq(Chars) /\ WellEscaped(<<c>>)
<1>1. PICK t : t = <<c>>
  OBVIOUS
<1>2. t \in Seq(Chars) /\ Len(t) = 1 /\ t[1] = c
  BY <1>1, One
<1>3. \A i \in 1..1 : t[i] # "%"
  BY <1>2, FewPlaces
<1>4. Escapes(t) = {}
  BY <1>2, <1>3, EscapesIn
<1> QED
  BY <1>1, <1>2, <1>4 DEF WellEscaped

Escaped == {x \in Seq(Chars) : WellEscaped(x)}

LEMMA WellJoined ==
  ASSUME NEW es \in Seq(Escaped)
  PROVE  WellEscaped(Joined(es, <<"&">>))
<1>1. PICK D : D = Chars
  OBVIOUS
<1>2. "&" \in D /\ "&" # "%"
  BY <1>1, SignsIn
<1> DEFINE S == {v \in Seq(Escaped) : WellEscaped(Joined(v, <<"&">>))}
<1>3. << >> \in S
  BY NothingJoined, NothingDecoded, None
<1>4. ASSUME NEW v \in Seq(Escaped), NEW e \in Escaped, v \in S PROVE Append(v, e) \in S
  <2>1. v \in Seq(Seq(D)) /\ e \in Seq(D) /\ WellEscaped(e)
    BY <1>1, SeqMonotonic DEF Escaped
  <2>2. PICK j : j = Joined(v, <<"&">>)
    OBVIOUS
  <2>3. /\ j \in Seq(D)
        /\ Joined(Append(v, e), <<"&">>) = IF v = << >> THEN e ELSE Glued(j, "&", e)
    BY <1>2, <2>1, <2>2, JoinedFurther
  <2>4. WellEscaped(j)
    BY <1>4, <2>2
  <2>5. WellEscaped(Glued(j, "&", e))
    <3>1. PICK b : b = <<"&">>
      OBVIOUS
    <3>2. b \in Seq(Chars) /\ WellEscaped(b)
      BY <1>1, <1>2, <3>1, WellOne
    <3>3. j \o b \in Seq(Chars) /\ WellEscaped(j \o b)
      BY <1>1, <2>3, <2>4, <3>2, WellConcat
    <3>4. WellEscaped((j \o b) \o e)
      BY <1>1, <2>1, <3>3, WellConcat
    <3> QED
      BY <3>1, <3>4 DEF Glued
  <2>6. WellEscaped(Joined(Append(v, e), <<"&">>))
    BY <2>1, <2>3, <2>5
  <2> QED
    BY <2>6, AppendProperties
<1>5. Seq(Escaped) \subseteq S
  <2> HIDE DEF S
  <2> QED
    BY <1>3, <1>4, Appendwise
<1> QED
  BY <1>5

-----------------------------------------------------------------------------
(* Entries of a query.                                                     *)

KeySpecial == {"+", "=", "&", ";"}
ValSpecial == {"+", "&", ";"}
EntryChars == QueryChars(ValSpecial)

LEMMA EntryCharsAre ==
  /\ EntryChars \subseteq Chars /\ EntryChars \subseteq Mask3F
  /\ EntryChars \cap {"&", ";", "#"} = {} /\ "=" \in EntryChars
  /\ QueryChars(KeySpecial) \subseteq EntryChars \ {"="}
  /\ "&" \in Mask3F
<1>1. "=" \in Mask1F /\ "&" \in Mask3F /\ "+" \in Mask3F
  BY SignsIn DEF Mask3F, Mask1F, Mask0F, Mask05, Mask01
<1>2. {"&", ";", "#", "="} \cap HexSet = {}
  BY DEF HexSet
<1>3. EntryChars = (Mask1F \ ValSpecial) \cup {"+", "%"} \cup HexSet
  BY DEF EntryChars, QueryChars
<1>4. QueryChars(KeySpecial) = (Mask1F \ KeySpecial) \cup {"+", "%"} \cup HexSet
  BY DEF QueryChars
<1>5. HexSet \subseteq Mask3F /\ Mask1F \subseteq Mask3F /\ "%" \in Mask3F /\ Mask3F \subseteq Chars
      /\ "#" \notin Mask1F
  BY HexMasked, MasksIn, MasksOut
<1>6. EntryChars \subseteq Mask3F
  BY <1>1, <1>3, <1>5
<1>7. EntryChars \cap {"&", ";", "#"} = {} /\ "=" \in EntryChars
  BY <1>1, <1>2, <1>3, <1>5 DEF ValSpecial
<1>8. QueryChars(KeySpecial) \subseteq EntryChars \ {"="}
  BY <1>2, <1>3, <1>4 DEF ValSpecial, KeySpecial
<1> QED
  BY <1>1, <1>5, <1>6, <1>7, <1>8

LEMMA PlusNothing == decode_plus(<< >>) = << >>
<1>1. Unplus(<< >>) = << >>
  <2>1. << >> \in Seq(Chars) /\ Len(<< >>) = 0
    BY None
  <2>2. Unplus(<< >>) \in Seq(Chars) /\ Len(Unplus(<< >>)) = 0
    BY <2>1, UnplusTyped
  <2> QED
    BY <2>2, EmptySeq
<1> QED
  BY <1>1, NothingDecoded DEF decode_plus, Unplus

EntryRead(t, e) ==
  /\ decode_plus(Upto(t, {"="})) = e.key
  /\ decode_plus(Rest(Onward(t, {"="}), 1)) = e.val

LEMMA EntryBack ==
  ASSUME NEW e \in Entry
  PROVE  /\ EntryText(e) \in Seq(EntryChars) /\ WellEscaped(EntryText(e))
         /\ EntryRead(EntryText(e), e)
         /\ e.key # << >> => EntryText(e) # << >>
<1>1. e.key \in Seq(Chars) /\ e.val \in Seq(Chars)
  BY DEF Entry
<1>2. PICK a, b, C : a = encode_query_key(e.key) /\ b = encode_query_val(e.val) /\ C = EntryChars
  OBVIOUS
<1>3. /\ decode_plus(a) = e.key /\ WellEscaped(a) /\ a \in Seq(QueryChars(KeySpecial))
  <2>1. " " \notin KeySpecial /\ "+" \in KeySpecial
    BY DEF KeySpecial
  <2>2. a = encode_query(e.key, KeySpecial)
    BY <1>2 DEF encode_query_key, KeySpecial
  <2> QED
    BY <1>1, <2>1, <2>2, QueryUndone
<1>4. /\ decode_plus(b) = e.val /\ WellEscaped(b) /\ b \in Seq(C)
  <2>1. " " \notin ValSpecial /\ "+" \in ValSpecial
    BY DEF ValSpecial
  <2>2. b = encode_query(e.val, ValSpecial)
    BY <1>2 DEF encode_query_val, ValSpecial
  <2> QED
    BY <1>1, <1>2, <2>1, <2>2, QueryUndone DEF EntryChars
<1>5. /\ a \in Seq(C \ {"="}) /\ a \in Seq(C) /\ a \in Seq(Chars) /\ b \in Seq(Chars)
      /\ C \subseteq Chars /\ "=" \in C
  BY <1>2, <1>3, <1>4, EntryCharsAre, SeqMonotonic
<1>6. a = << >> => e.key = << >>
  BY <1>3, PlusNothing
<1>7. CASE e.val = << >>
  <2>1. EntryText(e) = a
    <3>1. a \o << >> = a
      BY <1>5, ConcatEmptySeq
    <3> QED
      BY <1>2, <1>7, <3>1 DEF EntryText
  <2>2. Apart(a, << >>, {"="})
    BY <1>5, None, CutClean DEF Heads
  <2>3. Upto(a, {"="}) = a /\ Onward(a, {"="}) = << >>
    <3>1. a \o << >> = a
      BY <1>5, ConcatEmptySeq
    <3> QED
      BY <2>2, <3>1 DEF Apart
  <2>4. Rest(<< >>, 1) = << >>
    <3>1. PICK z : z = << >>
      OBVIOUS
    <3>2. Len(z) = 0
      BY <3>1, None
    <3>3. SubSeq(z, 1 + 1, 0) = << >>
      BY SubSeqEmpty
    <3> QED
      BY <3>1, <3>2, <3>3 DEF Rest
  <2>5. EntryRead(a, e)
    BY <1>3, <1>7, <2>3, <2>4, PlusNothing DEF EntryRead
  <2> QED
    BY <1>2, <1>3, <1>5, <1>6, <2>1, <2>5
<1>8. CASE e.val # << >>
  <2>1. PICK g, y : g = <<"=">> /\ y = <<"=">> \o b
    OBVIOUS
  <2>2. EntryText(e) = a \o y
    BY <1>2, <1>8, <2>1 DEF EntryText
  <2>3. /\ y \in Seq(C) /\ y # << >> /\ y[1] = "=" /\ Rest(y, 1) = b
    BY <1>4, <1>5, <2>1, StartsOne
  <2>4. Heads(y, {"="})
    BY <2>3 DEF Heads
  <2>5. Apart(a, y, {"="})
    BY <1>5, <2>3, <2>4, CutClean
  <2>6. EntryRead(a \o y, e)
    BY <1>3, <1>4, <2>3, <2>5 DEF EntryRead, Apart
  <2>7. a \o y \in Seq(C)
    BY <1>5, <2>3, ConcatProperties
  <2>8. WellEscaped(y) /\ y \in Seq(Chars)
    <3>1. "=" \in Chars /\ "=" # "%"
      BY <1>5
    <3>2. g \in Seq(Chars) /\ WellEscaped(g)
      BY <2>1, <3>1, WellOne
    <3> QED
      BY <1>4, <1>5, <2>1, <3>2, WellConcat
  <2>9. WellEscaped(a \o y)
    BY <1>3, <1>5, <2>8, WellConcat
  <2>10. a \o y # << >>
    BY <1>5, <2>3, ConcatEqualIffEmpty
  <2> QED
    BY <1>2, <2>2, <2>6, <2>7, <2>9, <2>10
<1> QED
  BY <1>7, <1>8

-----------------------------------------------------------------------------
(* A whole query, read again.                                              *)

EntryTexts(q) == [k \in DOMAIN q |-> EntryText(q[k])]
QuerySaid(q) == Joined([k \in DOMAIN q |-> EntryText(q[k])], <<"&">>)

LEMMA EntryTextsAre ==
  ASSUME NEW q \in Seq(Entry)
  PROVE  /\ Len(EntryTexts(q)) = Len(q) /\ DOMAIN EntryTexts(q) = 1..Len(q)
         /\ EntryTexts(q) \in Seq({x \in Seq(EntryChars) : WellEscaped(x)})
         /\ \A k \in 1..Len(q) : EntryTexts(q)[k] = EntryText(q[k])
<1>1. PICK n, S, es : /\ n = Len(q) /\ S = {x \in Seq(EntryChars) : WellEscaped(x)}
                      /\ es = EntryTexts(q)
  OBVIOUS
<1>2. n \in Nat /\ DOMAIN q = 1..n
  BY <1>1, LenProperties
<1>3. \A k \in 1..n : EntryText(q[k]) \in S
  <2>1. \A k \in 1..n : q[k] \in Entry
    BY <1>1, ElementOfSeq
  <2> QED
    BY <1>1, <2>1, EntryBack
<1>4. es = [k \in 1..n |-> EntryText(q[k])]
  BY <1>1, <1>2 DEF EntryTexts
<1>5. es \in [1..n -> S]
  BY <1>3, <1>4
<1>6. es \in Seq(S) /\ Len(es) = n /\ DOMAIN es = 1..n
  BY <1>2, <1>5, FunctionIsSeq
<1> QED
  BY <1>1, <1>4, <1>6

QueryRead(q, j) ==
  [k \in DOMAIN Fields(j, {";", "&"}) |->
     [key |-> decode_plus(Upto(Fields(j, {";", "&"})[k], {"="})),
      val |-> decode_plus(Rest(Onward(Fields(j, {";", "&"})[k], {"="}), 1))]] = q

LEMMA QueryBack ==
  ASSUME NEW q \in Seq(Entry), \A k \in DOMAIN q : q[k].key # << >>
  PROVE  /\ QuerySaid(q) \in Seq(Chars \ {"#"}) /\ Decodes(QuerySaid(q), Mask3F)
         /\ QuerySaid(q) = << >> <=> q = << >>
         /\ q # << >> => QueryRead(q, QuerySaid(q))
<1>1. PICK n, es, j, C : /\ n = Len(q) /\ es = EntryTexts(q) /\ j = QuerySaid(q)
                         /\ C = EntryChars \cup {"&"}
  OBVIOUS
<1>2. n \in Nat /\ DOMAIN q = 1..n
  BY <1>1, LenProperties
<1>3. /\ Len(es) = n /\ DOMAIN es = 1..n
      /\ es \in Seq({x \in Seq(EntryChars) : WellEscaped(x)})
      /\ \A k \in 1..n : es[k] = EntryText(q[k])
  BY <1>1, EntryTextsAre
<1>4. j = Joined(es, <<"&">>)
  BY <1>1 DEF EntryTexts, QuerySaid
<1>5. EntryChars \subseteq Chars /\ "&" \in C /\ C \subseteq Mask3F /\ C \subseteq Chars \ {"#"}
      /\ EntryChars \subseteq C \ {"&"} /\ ";" \notin C
  <2>1. "&" \in Mask3F /\ Mask3F \subseteq Chars
    BY EntryCharsAre, MasksIn
  <2> QED
    BY <1>1, <2>1, EntryCharsAre
<1>6. es \in Seq(Seq(C \ {"&"}))
  <2>1. {x \in Seq(EntryChars) : WellEscaped(x)} \subseteq Seq(C \ {"&"})
    BY <1>5, SeqMonotonic
  <2> QED
    BY <1>3, <2>1, SeqMonotonic
<1>7. es \in Seq(Escaped)
  <2>1. {x \in Seq(EntryChars) : WellEscaped(x)} \subseteq Escaped
    BY <1>5, SeqMonotonic DEF Escaped
  <2> QED
    BY <1>3, <2>1, SeqMonotonic
<1>8. WellEscaped(j)
  BY <1>4, <1>7, WellJoined
<1>9. CASE q = << >>
  <2>1. n = 0
    BY <1>1, <1>9, None
  <2>2. es = << >>
    BY <1>3, <1>6, <2>1, EmptySeq
  <2>3. j = << >>
    BY <1>4, <2>2, NothingJoined
  <2>4. j \in Seq(Chars \ {"#"}) /\ j \in Seq(Mask3F) /\ j \in Seq(Chars)
    BY <2>3, None
  <2>5. is_chars(j, Mask3F)
    BY <2>4, CharsSeq
  <2> QED
    BY <1>1, <1>8, <1>9, <2>3, <2>4, <2>5 DEF Decodes
<1>10. CASE q # << >>
  <2>1. n # 0
    BY <1>1, <1>10, EmptySeq
  <2>2. es # << >>
    BY <1>3, <2>1, None
  <2>3. j \in Seq(C) /\ Fields(j, {"&"}) = es
    BY <1>4, <1>5, <1>6, <2>2, FieldsOfJoined
  <2>4. Fields(j, {";", "&"}) = es
    <3>1. PICK more, chars : more = {";", "&"} /\ chars = {"&"}
      OBVIOUS
    <3>2. \A c \in C : c \in more <=> c \in chars
      BY <1>5, <3>1
    <3>3. Fields(j, more) = Fields(j, chars)
      BY <2>3, <3>2, FieldsNarrow
    <3> QED
      BY <2>3, <3>1, <3>3
  <2>5. j # << >>
    <3>1. 1 \in 1..n
      BY <1>2, <2>1
    <3>2. q[1] \in Entry /\ q[1].key # << >>
      BY <1>1, <1>2, <3>1, ElementOfSeq
    <3>3. es[1] # << >>
      BY <1>3, <3>1, <3>2, EntryBack
    <3>4. ASSUME j = << >> PROVE es[1] = << >>
      <4>1. es = << << >> >>
        BY <2>3, <3>4, FieldsOfNone
      <4> QED
        BY <4>1
    <3> QED
      BY <3>3, <3>4
  <2>6. j \in Seq(Chars \ {"#"}) /\ j \in Seq(Mask3F) /\ j \in Seq(Chars)
    BY <1>5, <2>3, SeqMonotonic
  <2>7. Decodes(j, Mask3F)
    BY <1>8, <2>6, CharsSeq DEF Decodes
  <2>8. QueryRead(q, j)
    <3>1. PICK f : f = [k \in 1..n |-> [key |-> decode_plus(Upto(es[k], {"="})),
                                        val |-> decode_plus(Rest(Onward(es[k], {"="}), 1))]]
      OBVIOUS
    <3>2. ASSUME NEW k \in 1..n PROVE f[k] = q[k]
      <4>1. q[k] \in Entry
        BY <1>1, ElementOfSeq
      <4>2. EntryRead(es[k], q[k])
        BY <1>3, <4>1, EntryBack
      <4>3. q[k] = [key |-> q[k].key, val |-> q[k].val]
        BY <4>1 DEF Entry
      <4>4. f[k] = [key |-> q[k].key, val |-> q[k].val]
        BY <3>1, <4>2 DEF EntryRead
      <4> QED
        BY <4>3, <4>4
    <3>3. q = [k \in 1..n |-> q[k]]
      <4>1. q \in [1..n -> Entry]
        BY <1>1, LenProperties
      <4> QED
        BY <4>1
    <3>4. f = [k \in 1..n |-> q[k]]
      BY <3>1, <3>2
    <3>5. f = q
      BY <3>3, <3>4
    <3> QED
      BY <1>3, <2>4, <3>1, <3>5 DEF QueryRead
  <2> QED
    BY <1>1, <1>10, <2>5, <2>6, <2>7, <2>8
<1> QED
  BY <1>9, <1>10

-----------------------------------------------------------------------------
(* What encode makes of two texts, and of the first character of one.      *)

LEMMA EncodeTyped ==
  ASSUME NEW mask, "%" \notin mask, mask \subseteq Chars, NEW t \in Seq(Chars)
  PROVE  encode(t, mask) \in Seq(mask \cup {"%"} \cup HexSet) /\ encode(t, mask) \in Seq(Chars)
<1>1. mask \cap Chars = mask
  OBVIOUS
<1>2. encode(t, mask) \in Seq((mask \cap Chars) \cup {"%"} \cup HexSet)
  BY EscapesUndone
<1>3. mask \cup {"%"} \cup HexSet \subseteq Chars
  BY HexIn, SignsIn
<1> QED
  BY <1>1, <1>2, <1>3, SeqMonotonic

LEMMA EncodeConcat ==
  ASSUME NEW mask, "%" \notin mask, NEW t \in Seq(Chars), NEW u \in Seq(Chars)
  PROVE  encode(t \o u, mask) = encode(t, mask) \o encode(u, mask)
<1>1. PieceOf(mask) \in [Chars -> Seq(Chars)]
  BY PieceSpelling
<1>2. t \o u \in Seq(Chars)
  BY ConcatProperties
<1>3. /\ encode(t \o u, mask) = Spelt(PieceOf(mask), t \o u)
      /\ encode(t, mask) = Spelt(PieceOf(mask), t)
      /\ encode(u, mask) = Spelt(PieceOf(mask), u)
  BY <1>2, EncodeSpelt
<1>4. Spelt(PieceOf(mask), t \o u) = Spelt(PieceOf(mask), t) \o Spelt(PieceOf(mask), u)
  BY <1>1, SpeltConcat
<1> QED
  BY ONLY <1>3, <1>4

LEMMA EncodeOne ==
  ASSUME NEW mask, "%" \notin mask, NEW c \in Chars
  PROVE  encode(<<c>>, mask) = IF c \in mask THEN <<c>> ELSE Escape(c)
<1>1. /\ PieceOf(mask) \in [Chars -> Seq(Chars)]
      /\ PieceOf(mask)[c] = IF c \in mask THEN <<c>> ELSE Escape(c)
  BY PieceSpelling
<1>2. PICK t : t = <<c>>
  OBVIOUS
<1>3. t \in Seq(Chars)
  BY <1>2, One
<1>4. encode(t, mask) = Spelt(PieceOf(mask), t)
  BY <1>3, EncodeSpelt
<1>5. Spelt(PieceOf(mask), <<c>>) = PieceOf(mask)[c]
  BY <1>1, SpeltOne
<1> QED
  BY <1>1, <1>2, <1>4, <1>5

(* A mask may leave out what a text does not have.                         *)
LEMMA EncodeNarrow ==
  ASSUME NEW mask, NEW out, NEW t \in Seq(Chars \ out)
  PROVE  encode(t, mask) = encode(t, mask \ out)
<1>1. DOMAIN t = 1..Len(t)
  BY LenProperties
<1>2. \A i \in DOMAIN t : t[i] \in mask <=> t[i] \in mask \ out
  <2>1. \A i \in 1..Len(t) : t[i] \in Chars \ out
    BY ElementOfSeq
  <2> QED
    BY <1>1, <2>1
<1>3. [i \in DOMAIN t |-> IF t[i] \in mask THEN <<t[i]>> ELSE Escape(t[i])]
        = [i \in DOMAIN t |-> IF t[i] \in mask \ out THEN <<t[i]>> ELSE Escape(t[i])]
  BY <1>2
<1> QED
  BY <1>3 DEF encode

(* What begins a text begins it when it is encoded, if it is let through.  *)
EncodedHead(t, mask, u) ==
  /\ u # << >> /\ (u[1] = t[1] \/ u[1] = "%")
  /\ t[1] \in mask => u[1] = t[1]

LEMMA EncodeHead ==
  ASSUME NEW mask, "%" \notin mask, NEW t \in Seq(Chars), t # << >>
  PROVE  EncodedHead(t, mask, encode(t, mask))
<1>1. PICK c, w, D : c = t[1] /\ w = Rest(t, 1) /\ D = Chars
  OBVIOUS
<1>2. Starts(t, c)
  BY <1>1, StartsIs
<1>3. c \in D /\ w \in Seq(D) /\ t = <<c>> \o w
  BY <1>1, <1>2, StartSplit
<1>4. PICK b : b = <<c>>
  OBVIOUS
<1>5. b \in Seq(D) /\ t = b \o w
  BY <1>3, <1>4, One
<1>6. encode(t, mask) = encode(b, mask) \o encode(w, mask)
  BY <1>1, <1>3, <1>5, EncodeConcat
<1>7. encode(w, mask) \in Seq(D)
  <2>1. encode(w, mask) \in Seq((mask \cap Chars) \cup {"%"} \cup HexSet)
    BY <1>1, <1>3, EscapesUndone
  <2>2. (mask \cap Chars) \cup {"%"} \cup HexSet \subseteq D
    BY <1>1, HexIn, SignsIn
  <2> QED
    BY <2>1, <2>2, SeqMonotonic
<1>8. encode(b, mask) = IF c \in mask THEN <<c>> ELSE Escape(c)
  BY <1>1, <1>3, <1>4, EncodeOne
<1>9. /\ encode(b, mask) \in Seq(D) /\ encode(b, mask) # << >>
      /\ encode(b, mask)[1] = IF c \in mask THEN c ELSE "%"
  <2>1. CASE c \in mask
    <3>1. b \in Seq(D) /\ Len(b) = 1 /\ b[1] = c
      BY <1>3, <1>4, One
    <3>2. b # << >>
      <4>1. Len(b) # 0
        BY <3>1
      <4> QED
        BY <4>1, None
    <3> QED
      BY <1>4, <1>8, <2>1, <3>1, <3>2
  <2>2. CASE c \notin mask
    <3>1. PICK x, y : /\ x \in HexSet /\ y \in HexSet /\ Escape(c) = <<"%", x, y>>
                      /\ Char(16 * get_hex_digit(x) + get_hex_digit(y)) = c
      BY <1>1, <1>3, EscapeIs
    <3>2. PICK e : e = <<"%", x, y>>
      OBVIOUS
    <3>3. e \in Seq(D) /\ Len(e) = 3 /\ e[1] = "%"
      <4>1. x \in D /\ y \in D /\ "%" \in D
        BY <1>1, <3>1, HexIn, SignsIn
      <4> QED
        BY <3>2, <4>1
    <3>4. e # << >>
      <4>1. Len(e) # 0
        BY <3>3
      <4> QED
        BY <4>1, None
    <3> QED
      BY <1>8, <2>2, <3>1, <3>2, <3>3, <3>4
  <2> QED
    BY <2>1, <2>2
<1>10. PICK u, v, s : u = encode(b, mask) /\ v = encode(w, mask) /\ s = u \o v
  OBVIOUS
<1>11. s # << >> /\ s[1] = u[1]
  BY <1>7, <1>9, <1>10, FirstOfTwo
<1> QED
  BY <1>1, <1>6, <1>9, <1>10, <1>11 DEF EncodedHead

(* An orderly path does not begin with "//".                               *)
LEMMA NoDoubleSlash ==
  ASSUME NEW t \in Seq(Chars), Orderly(t), Starts(t, "/")
  PROVE  ~Starts(Rest(t, 1), "/")
<1>1. PICK D, w : D = Chars /\ w = Rest(t, 1)
  OBVIOUS
<1>2. w \in Seq(D) /\ "/" \in D
  BY <1>1, StartSplit, SignsIn
<1>3. SUFFICES ASSUME Starts(w, "/") PROVE FALSE
  BY <1>1
<1>4. PICK x : x = Rest(w, 1)
  OBVIOUS
<1>5. x \in Seq(D) /\ w = <<"/">> \o x
  BY <1>2, <1>3, <1>4, StartSplit
<1>6. PICK f, g, chars, e, s : /\ f = Fields(w, {"/"}) /\ g = Fields(x, {"/"})
                               /\ chars = {"/"} /\ e = << >> /\ s = "/"
  OBVIOUS
<1>7. e \in Seq(D) /\ e \o (<<s>> \o x) = w
  <2>1. e \in Seq(D)
    BY <1>6, None
  <2>2. <<s>> \o x = w
    BY <1>5, <1>6
  <2>3. e \o w = w
    BY <1>2, <1>6, ConcatEmptySeq
  <2> QED
    BY <2>1, <2>2, <2>3
<1>8. f = << << >> >> \o g
  <2>1. s \in D /\ s \in chars
    BY <1>2, <1>6
  <2>2. FieldsApart(e, s, x, chars)
    BY <1>5, <1>7, <2>1, FieldsConcat
  <2> QED
    BY <1>6, <1>7, <2>2, FieldsOfNone DEF FieldsApart
<1>9. g \in Seq(Seq(D)) /\ Len(g) # 0 /\ Len(g) \in Nat
  <2>1. g \in Seq(Seq(D \ {"/"})) /\ g # << >>
    BY <1>5, <1>6, FieldsTyped DEF Pieces
  <2>2. Seq(D \ {"/"}) \subseteq Seq(D)
    BY SeqMonotonic
  <2>3. g \in Seq(Seq(D))
    BY <2>1, <2>2, SeqMonotonic
  <2> QED
    BY <2>1, <2>3, EmptySeq, LenProperties
<1>10. PICK h : h = << << >> >>
  OBVIOUS
<1>11. h \in Seq(Seq(D)) /\ Len(h) = 1 /\ h[1] = << >>
  <2>1. << >> \in Seq(D)
    BY None
  <2> QED
    BY <1>10, <2>1, One
<1>12. Len(f) = 1 + Len(g) /\ f[1] = << >> /\ DOMAIN f = 1..Len(f)
  <2>1. PICK k : k = h \o g
    OBVIOUS
  <2>2. /\ k \in Seq(Seq(D)) /\ Len(k) = 1 + Len(g)
        /\ \A i \in 1..(1 + Len(g)) : k[i] = IF i <= 1 THEN h[i] ELSE g[i - 1]
    <3>1. PICK E : E = Seq(D)
      OBVIOUS
    <3>2. h \in Seq(E) /\ g \in Seq(E)
      BY <1>9, <1>11, <3>1
    <3>3. /\ k \in Seq(E) /\ Len(k) = Len(h) + Len(g)
          /\ \A i \in 1..(Len(h) + Len(g)) : k[i] = IF i <= Len(h) THEN h[i] ELSE g[i - Len(h)]
      BY ONLY <2>1, <3>2, ConcatProperties
    <3> QED
      BY <1>11, <3>1, <3>3
  <2>3. 1 \in 1..(1 + Len(g)) /\ 1 <= 1
    BY <1>9
  <2>4. k[1] = << >> /\ DOMAIN k = 1..Len(k)
    BY <1>11, <2>2, <2>3, LenProperties
  <2> QED
    BY <1>8, <1>10, <2>1, <2>2, <2>4
<1>13. 1 \in DOMAIN f /\ f[1] = << >> => 1 = Len(f)
  BY <1>1, <1>6 DEF Orderly
<1> QED
  BY <1>9, <1>12, <1>13

-----------------------------------------------------------------------------
(* Query and fragment, read again at the end of a text.                    *)

(* Query and fragment as they are written.                                 *)
QueryWritten(q) == Prefixed(<<"?">>, QuerySaid(q))
FragmentWritten(f) == Prefixed(<<"#">>, encode(f, Mask1F))

LEMMA EncodedNone ==
  ASSUME NEW mask, "%" \notin mask, NEW t \in Seq(Chars), encode(t, mask) = << >>
  PROVE  t = << >>
  BY EscapesUndone, NothingDecoded

LEMMA FragmentTyped ==
  ASSUME NEW f \in Seq(Chars)
  PROVE  /\ encode(f, Mask1F) \in Seq(Chars) /\ Decodes(encode(f, Mask1F), Mask3F)
         /\ decode(encode(f, Mask1F)) = f
<1>1. "%" \notin Mask1F /\ Mask1F \subseteq Chars
  BY MasksOut, MasksIn
<1>2. PICK e : e = encode(f, Mask1F)
  OBVIOUS
<1>3. /\ e \in Seq(Mask1F \cup {"%"} \cup HexSet) /\ e \in Seq(Chars)
      /\ decode(e) = f /\ WellEscaped(e)
  BY <1>1, <1>2, EncodeTyped, EscapesUndone
<1>4. Mask1F \cup {"%"} \cup HexSet \subseteq Mask3F
  BY MasksOut, MasksIn, HexMasked
<1>5. e \in Seq(Mask3F)
  BY <1>3, <1>4, SeqMonotonic
<1>6. is_chars(e, Mask3F)
  BY <1>5, CharsSeq
<1> QED
  BY <1>2, <1>3, <1>6 DEF Decodes

(* What follows the path, as it is read.                                   *)
RearRead(q, f, t) ==
  /\ HasQuery(t) => Decodes(QueryText(t), Mask3F)
  /\ (IF HasQuery(t) THEN QueryEntries(t) ELSE << >>) = q
  /\ Decodes(Fragment(t), Mask3F) /\ decode(Fragment(t)) = f

LEMMA RearTyped ==
  ASSUME NEW q \in Seq(Entry), \A k \in DOMAIN q : q[k].key # << >>, NEW f \in Seq(Chars)
  PROVE  /\ QueryWritten(q) \in Seq(Chars \ {"#"}) /\ FragmentWritten(f) \in Seq(Chars)
         /\ QueryWritten(q) \o FragmentWritten(f) \in Seq(Chars)
         /\ Heads(QueryWritten(q) \o FragmentWritten(f), QueryEnds)
         /\ Heads(FragmentWritten(f), {"#"})
         /\ QueryWritten(q) # << >> => QueryWritten(q)[1] = "?"
<1>1. PICK j, e, r, v, D : /\ j = QuerySaid(q) /\ e = encode(f, Mask1F)
                           /\ r = QueryWritten(q) /\ v = FragmentWritten(f)
                           /\ D = Chars \ {"#"}
  OBVIOUS
<1>2. /\ r = IF j = << >> THEN << >> ELSE <<"?">> \o j
      /\ v = IF e = << >> THEN << >> ELSE <<"#">> \o e
  BY <1>1 DEF QueryWritten, FragmentWritten, Prefixed
<1>3. j \in Seq(D) /\ e \in Seq(Chars) /\ "?" \in D /\ "#" \in Chars
  BY <1>1, QueryBack, FragmentTyped, SignsIn
<1>4. r \in Seq(D) /\ (r # << >> => r[1] = "?")
  BY <1>2, <1>3, StartsOne, None
<1>5. v \in Seq(Chars) /\ (v # << >> => v[1] = "#")
  BY <1>2, <1>3, StartsOne, None
<1>6. r \in Seq(Chars)
  BY <1>1, <1>4, SeqMonotonic
<1>7. PICK z : z = r \o v
  OBVIOUS
<1>8. z \in Seq(Chars)
  BY <1>5, <1>6, <1>7, ConcatProperties
<1>9. Heads(z, QueryEnds)
  <2>1. CASE r = << >>
    <3>1. z = v
      BY <1>5, <1>7, <2>1, ConcatEmptySeq
    <3> QED
      BY <1>5, <3>1 DEF Heads, QueryEnds
  <2>2. CASE r # << >>
    <3>1. z # << >> /\ z[1] = r[1]
      BY <1>5, <1>6, <1>7, <2>2, FirstOfTwo
    <3> QED
      BY <1>4, <2>2, <3>1 DEF Heads, QueryEnds
  <2> QED
    BY <2>1, <2>2
<1>10. Heads(v, {"#"})
  BY <1>5 DEF Heads
<1> QED
  BY <1>1, <1>4, <1>5, <1>7, <1>8, <1>9, <1>10

LEMMA RearBack ==
  ASSUME NEW q \in Seq(Entry), \A k \in DOMAIN q : q[k].key # << >>, NEW f \in Seq(Chars),
         NEW u \in Seq(Chars \ QueryEnds),
         NEW t, AfterScheme(t) = u \o (QueryWritten(q) \o FragmentWritten(f))
  PROVE  RearRead(q, f, t)
<1>1. PICK j, e, r, v, D : /\ j = QuerySaid(q) /\ e = encode(f, Mask1F)
                           /\ r = QueryWritten(q) /\ v = FragmentWritten(f)
                           /\ D = Chars \ {"#"}
  OBVIOUS
<1>2. /\ r = IF j = << >> THEN << >> ELSE <<"?">> \o j
      /\ v = IF e = << >> THEN << >> ELSE <<"#">> \o e
  BY <1>1 DEF QueryWritten, FragmentWritten, Prefixed
<1>3. j \in Seq(D) /\ Decodes(j, Mask3F) /\ (j = << >> <=> q = << >>)
      /\ (q # << >> => QueryRead(q, j))
  BY <1>1, QueryBack
<1>4. r \in Seq(D) /\ v \in Seq(Chars) /\ Heads(v, {"#"})
  BY <1>1, RearTyped
<1>5. AfterScheme(t) = u \o (r \o v)
  BY <1>1
<1>6. (HasQuery(t) <=> j # << >>) /\ (j # << >> => QueryText(t) = j)
  <2>1. u \in Seq(Chars \ QueryEnds) /\ j \in Seq(Chars \ {"#"})
    BY <1>1, <1>3
  <2>2. r = Prefixed(<<"?">>, j)
    BY <1>1 DEF QueryWritten
  <2>3. QuerySeen(j, t)
    BY ONLY <1>4, <1>5, <2>1, <2>2, QueryCut
  <2> QED
    BY <2>3 DEF QuerySeen
<1>7. Fragment(t) = e
  <2>1. PICK w : w = u \o r
    OBVIOUS
  <2>2. u \in Seq(D)
    <3>1. Chars \ QueryEnds \subseteq D
      BY <1>1 DEF QueryEnds
    <3> QED
      BY <3>1, SeqMonotonic
  <2>3. w \in Seq(D)
    BY <1>4, <2>1, <2>2, ConcatProperties
  <2>4. u \in Seq(Chars) /\ r \in Seq(Chars)
    BY <1>1, <1>4, <2>2, SeqMonotonic
  <2>5. AfterScheme(t) = w \o v
    <3>1. Regrouped(u, r, v)
      BY ONLY <1>4, <2>4, Regroup
    <3> QED
      BY <1>5, <2>1, <3>1 DEF Regrouped
  <2>6. e \in Seq(Chars)
    BY <1>1, FragmentTyped
  <2> QED
    <3>1. w \in Seq(Chars \ {"#"}) /\ v = Prefixed(<<"#">>, e)
      BY <1>1, <2>3 DEF FragmentWritten
    <3>2. Fragment(t) = e
      BY ONLY <2>5, <2>6, <3>1, FragmentCut
    <3> QED
      BY <3>2
<1>8. Decodes(Fragment(t), Mask3F) /\ decode(Fragment(t)) = f
  BY <1>1, <1>7, FragmentTyped
<1>9. CASE q = << >>
  <2>1. ~HasQuery(t)
    BY <1>3, <1>6, <1>9
  <2> QED
    BY <1>8, <1>9, <2>1 DEF RearRead
<1>10. CASE q # << >>
  <2>1. HasQuery(t) /\ QueryText(t) = j /\ j # << >>
    BY <1>3, <1>6, <1>10
  <2>2. QueryEntries(t) = q
    BY <1>3, <1>10, <2>1 DEF QueryEntries, QueryRead
  <2> QED
    BY <1>3, <1>8, <2>1, <2>2 DEF RearRead
<1> QED
  BY <1>9, <1>10

-----------------------------------------------------------------------------
(* A path as it is written, and the one of a text that has only a path.    *)

(* A path as it is written, and what comes before the rest of the text.    *)
LEMMA PathWritten ==
  ASSUME NEW path \in Seq(Chars), Orderly(path)
  PROVE  /\ encode(path, Mask0F) \in Seq(Chars \ QueryEnds)
         /\ encode(path, Mask0F) \in Seq(Chars)
         /\ Decodes(encode(path, Mask0F), Mask2F)
         /\ normalize_path(decode(encode(path, Mask0F))) = path
<1>1. "%" \notin Mask0F /\ Mask0F \subseteq Chars
  BY MasksOut, MasksIn
<1>2. PICK e : e = encode(path, Mask0F)
  OBVIOUS
<1>3. /\ e \in Seq(Mask0F \cup {"%"} \cup HexSet) /\ e \in Seq(Chars)
      /\ decode(e) = path /\ WellEscaped(e)
  BY <1>1, <1>2, EncodeTyped, EscapesUndone
<1>4. Mask0F \cup {"%"} \cup HexSet \subseteq Mask2F
  BY MasksOut, MasksIn, HexMasked
<1>5. e \in Seq(Mask2F)
  BY <1>3, <1>4, SeqMonotonic
<1>6. is_chars(e, Mask2F)
  BY <1>5, CharsSeq
<1>7. Mask2F \subseteq Chars \ QueryEnds
  BY MasksOut, MasksIn DEF QueryEnds
<1>8. e \in Seq(Chars \ QueryEnds)
  BY <1>5, <1>7, SeqMonotonic
<1>9. normalize_path(path) = path
  BY PathStays
<1> QED
  BY <1>2, <1>3, <1>6, <1>8, <1>9 DEF Decodes

LEMMA SlashWritten ==
  ASSUME NEW w \in Seq(Chars), NEW z \in Seq(Chars), Heads(z, QueryEnds),
         NEW y, y = encode(w, Mask0F) \o z, Starts(y, "/")
  PROVE  Starts(w, "/")
<1>1. "%" \notin Mask0F /\ Mask0F \subseteq Chars
  BY MasksOut, MasksIn
<1>2. PICK e : e = encode(w, Mask0F)
  OBVIOUS
<1>3. e \in Seq(Chars)
  BY <1>1, <1>2, EncodeTyped
<1>4. e # << >>
  <2>1. SUFFICES ASSUME e = << >> PROVE FALSE
    OBVIOUS
  <2>2. y = z
    BY <1>2, <2>1, ConcatEmptySeq
  <2>3. z # << >> /\ z[1] = "/"
    BY <2>2, StartsIs
  <2> QED
    BY <2>3 DEF Heads, QueryEnds
<1>5. y \in Seq(Chars) /\ y # << >> /\ y[1] = e[1]
  BY <1>2, <1>3, <1>4, FirstOfTwo
<1>6. e[1] = "/"
  BY <1>5, StartsIs
<1>7. w # << >>
  BY <1>2, <1>4, NothingEncoded
<1>8. EncodedHead(w, Mask0F, e)
  BY <1>1, <1>2, <1>7, EncodeHead
<1>9. w[1] = "/"
  BY <1>6, <1>8 DEF EncodedHead
<1> QED
  BY <1>7, <1>9, StartsIs

(* A text without an authority does not begin as if it had one.            *)
LEMMA NoSlashes ==
  ASSUME NEW path \in Seq(Chars), Orderly(path), NEW z \in Seq(Chars), Heads(z, QueryEnds),
         NEW y, y = encode(path, Mask0F) \o z
  PROVE  ~(Starts(y, "/") /\ Starts(Rest(y, 1), "/"))
<1>1. SUFFICES ASSUME Starts(y, "/"), Starts(Rest(y, 1), "/") PROVE FALSE
  OBVIOUS
<1>2. Starts(path, "/")
  BY <1>1, SlashWritten
<1>3. PICK b, w : b = <<"/">> /\ w = Rest(path, 1)
  OBVIOUS
<1>4. "/" \in Chars /\ w \in Seq(Chars) /\ path = b \o w
  BY <1>2, <1>3, StartSplit
<1>5. b \in Seq(Chars)
  BY <1>3, <1>4, One
<1>6. "/" \in Mask0F /\ "%" \notin Mask0F
  BY MasksOut DEF Mask0F
<1>7. encode(b, Mask0F) = b
  BY <1>3, <1>4, <1>6, EncodeOne
<1>8. PICK e : e = encode(w, Mask0F)
  OBVIOUS
<1>9. e \in Seq(Chars)
  <2>1. Mask0F \subseteq Chars
    BY MasksIn
  <2> QED
    BY <1>4, <1>6, <1>8, <2>1, EncodeTyped
<1>10. encode(path, Mask0F) = b \o e
  <2>1. encode(b \o w, Mask0F) = encode(b, Mask0F) \o encode(w, Mask0F)
    BY ONLY <1>4, <1>5, <1>6, EncodeConcat
  <2> QED
    BY <1>4, <1>7, <1>8, <2>1
<1>11. PICK x : x = e \o z
  OBVIOUS
<1>12. x \in Seq(Chars)
  BY <1>9, <1>11, ConcatProperties
<1>13. y = b \o x
  <2>1. Regrouped(b, e, z)
    BY ONLY <1>5, <1>9, z \in Seq(Chars), Regroup
  <2> QED
    BY <1>10, <1>11, <2>1 DEF Regrouped
<1>14. Rest(y, 1) = x
  <2>1. y = <<"/">> \o x
    BY <1>3, <1>13
  <2> QED
    BY ONLY <1>4, <1>12, <2>1, StartsOne
<1>15. Starts(w, "/")
  BY <1>1, <1>4, <1>8, <1>11, <1>14, SlashWritten
<1> QED
  BY <1>2, <1>3, <1>15, NoDoubleSlash

(* Nor does a path by itself begin with a scheme.                          *)
SchemeNone(t) == SchemeEnd(t) = 0 /\ Scheme(t) = << >> /\ AfterScheme(t) = t

LEMMA BarePath ==
  ASSUME NEW path \in Seq(Chars), ~Starts(Onward(path, {":", "/"}), ":"),
         NEW z \in Seq(Chars), Heads(z, QueryEnds),
         NEW t, t = encode(path, Mask0F) \o z
  PROVE  SchemeNone(t)
<1>1. PICK cuts, u, v, D : /\ cuts = {":", "/"} /\ u = Upto(path, cuts)
                           /\ v = Onward(path, cuts) /\ D = Chars
  OBVIOUS
<1>2. CutOf(D, path, cuts, u, v)
  BY <1>1, CutExists
<1>3. u \in Seq(D) /\ v \in Seq(D) /\ path = u \o v
  BY <1>2 DEF CutOf
<1>4. \A i \in 1..Len(u) : u[i] \in D \ cuts
  BY <1>2, <1>3, ElementOfSeq DEF CutOf
<1>5. u \in Seq(Chars \ cuts)
  <2>1. Len(u) \in Nat /\ DOMAIN u = 1..Len(u) /\ u = [i \in 1..Len(u) |-> u[i]]
    BY <1>3, LenProperties
  <2>2. u \in [1..Len(u) -> D \ cuts]
    BY <1>4, <2>1
  <2> QED
    BY <1>1, <2>1, <2>2, FunctionIsSeq
<1>6. PICK a, b : a = encode(u, Mask0F) /\ b = encode(v, Mask0F)
  OBVIOUS
<1>7. Mask0F \subseteq Chars /\ "%" \notin Mask0F /\ "/" \in Mask0F
  BY MasksIn, MasksOut DEF Mask0F
<1>8. encode(path, Mask0F) = a \o b
  BY <1>1, <1>3, <1>6, <1>7, EncodeConcat
<1>9. a \in Seq(Chars \ SchemeEnds) /\ a \in Seq(Chars)
  <2>1. a = encode(u, Mask0F \ cuts)
    BY <1>5, <1>6, EncodeNarrow
  <2>2. "%" \notin Mask0F \ cuts /\ Mask0F \ cuts \subseteq Chars
    BY <1>7
  <2>3. a \in Seq((Mask0F \ cuts) \cup {"%"} \cup HexSet) /\ a \in Seq(Chars)
    BY <1>1, <1>3, <2>1, <2>2, EncodeTyped
  <2>4. (Mask0F \ cuts) \cup {"%"} \cup HexSet \subseteq Chars \ SchemeEnds
    <3>1. HexSet \cap SchemeEnds = {} /\ "%" \notin SchemeEnds
      BY DEF HexSet, SchemeEnds
    <3>2. (Mask0F \ cuts) \cap SchemeEnds = {}
      BY <1>1, MasksOut DEF SchemeEnds
    <3> QED
      BY <1>7, <3>1, <3>2, HexIn, SignsIn
  <2> QED
    BY <2>3, <2>4, SeqMonotonic
<1>10. b \in Seq(Chars)
  BY <1>1, <1>3, <1>6, <1>7, EncodeTyped
<1>11. PICK y : y = b \o z
  OBVIOUS
<1>12. y \in Seq(Chars) /\ Heads(y, {"/", "?", "#"})
  <2>1. CASE v = << >>
    <3>1. b = << >>
      BY <1>6, <2>1, NothingEncoded
    <3>2. y = z
      BY <1>11, <3>1, ConcatEmptySeq
    <3> QED
      BY <3>2 DEF Heads, QueryEnds
  <2>2. CASE v # << >>
    <3>1. v[1] = "/"
      <4>1. v[1] \in cuts
        BY <1>2, <2>2 DEF CutOf
      <4>2. v[1] # ":"
        BY <1>1, <1>3, <2>2, StartsIs
      <4> QED
        BY <1>1, <4>1, <4>2
    <3>2. EncodedHead(v, Mask0F, b)
      BY <1>1, <1>3, <1>6, <1>7, <2>2, EncodeHead
    <3>3. b # << >> /\ b[1] = "/"
      BY <1>7, <3>1, <3>2 DEF EncodedHead
    <3>4. y \in Seq(Chars) /\ y # << >> /\ y[1] = b[1]
      BY <1>10, <1>11, <3>3, FirstOfTwo
    <3> QED
      BY <3>3, <3>4 DEF Heads
  <2> QED
    BY <2>1, <2>2
<1>13. t = a \o y
  <2>1. Regrouped(a, b, z)
    BY ONLY <1>9, <1>10, z \in Seq(Chars), Regroup
  <2> QED
    BY <1>8, <1>11, <2>1 DEF Regrouped
<1>14. SchemeEnd(t) = 0 /\ Scheme(t) = << >> /\ AfterScheme(t) = t
  BY ONLY <1>9, <1>12, <1>13, NoScheme
<1> QED
  BY <1>14 DEF SchemeNone

-----------------------------------------------------------------------------
(* User, host and port, as they are written and read again.                *)

(* What needs no escapes is written as it is.                              *)
LEMMA EncodeKeeps ==
  ASSUME NEW mask, "%" \notin mask, mask \subseteq Chars, NEW t \in Seq(mask)
  PROVE  encode(t, mask) = t
<1>1. PICK pc : pc = PieceOf(mask)
  OBVIOUS
<1>2. pc \in [Chars -> Seq(Chars)] /\ \A c \in mask : pc[c] = <<c>>
  BY <1>1, PieceSpelling
<1>3. PICK S : S = {u \in Seq(Chars) : Spelt(pc, u) = u}
  OBVIOUS
<1>4. << >> \in S
  BY <1>2, <1>3, NothingSpelt, None
<1>5. ASSUME NEW u \in Seq(mask), NEW c \in mask, u \in S PROVE Append(u, c) \in S
  <2>1. u \in Seq(Chars) /\ Spelt(pc, u) = u /\ c \in Chars
    BY <1>3, <1>5
  <2>2. Spelt(pc, Append(u, c)) = Spelt(pc, u) \o pc[c]
    BY <1>2, <2>1, SpeltFurther
  <2>3. u \o <<c>> = Append(u, c)
    BY <2>1, AppendIsConcat
  <2>4. Append(u, c) \in Seq(Chars)
    BY <2>1, AppendProperties
  <2> QED
    BY <1>2, <1>3, <2>1, <2>2, <2>3, <2>4
<1>6. Seq(mask) \subseteq S
  BY <1>4, <1>5, Appendwise
<1>7. t \in Seq(Chars) /\ Spelt(pc, t) = t
  BY <1>3, <1>6
<1> QED
  BY <1>1, <1>7, EncodeSpelt

(* The authority as it is written.                                         *)
UserWritten(p) == IF p.user = << >> THEN << >> ELSE encode(p.user, Mask05) \o <<"@">>
PortWritten(p) == IF DefaultPort(p.scheme, p.port) THEN << >> ELSE Prefixed(<<":">>, p.port)

LEMMA PortRead ==
  ASSUME NEW p, p.port \in Seq(Chars), p.port = << >> \/ is_port(p.port)
  PROVE  /\ PortWritten(p) \in Seq(HostChars) /\ Heads(PortWritten(p), {":"})
         /\ Starts(PortWritten(p), ":") => is_port(PortText(PortWritten(p)))
         /\ PortText(PortWritten(p)) = IF DefaultPort(p.scheme, p.port) THEN << >> ELSE p.port
<1>1. PICK r, x, D : r = PortWritten(p) /\ x = p.port /\ D = HostChars
  OBVIOUS
<1>2. ":" \in D
  BY <1>1, SignsIn DEF HostChars
<1>3. CASE DefaultPort(p.scheme, p.port) \/ x = << >>
  <2>1. r = << >>
    BY <1>1, <1>3 DEF PortWritten, Prefixed
  <2>2. ~Starts(r, ":")
    BY <2>1, NotEmptyStarts
  <2>3. PortText(r) = << >>
    BY <2>2 DEF PortText
  <2>4. r \in Seq(D) /\ Heads(r, {":"})
    BY <2>1, None DEF Heads
  <2> QED
    BY <1>1, <1>3, <2>2, <2>3, <2>4
<1>4. CASE ~DefaultPort(p.scheme, p.port) /\ x # << >>
  <2>1. r = <<":">> \o x
    BY <1>1, <1>4 DEF PortWritten, Prefixed
  <2>2. is_port(x) /\ x \in Seq(D)
    BY <1>1, <1>4, PortDigits
  <2>3. /\ r \in Seq(D) /\ r # << >> /\ r[1] = ":" /\ Rest(r, 1) = x
        /\ Starts(r, ":")
    BY ONLY <1>2, <2>1, <2>2, StartsOne
  <2>4. PortText(r) = x
    BY <2>3 DEF PortText
  <2> QED
    BY <1>1, <1>4, <2>2, <2>3, <2>4 DEF Heads
<1> QED
  BY <1>3, <1>4

AuthorityWritten(p) ==
  ((<<"/", "/">> \o UserWritten(p)) \o HostText(p)) \o PortWritten(p)

AuthorityRead(p, t) ==
  /\ HasAuthority(t)
  /\ is_chars(User(Authority(t)), Mask05) /\ User(Authority(t)) = p.user
  /\ HostRead(p.host, p.ip_v, PortWritten(p), AfterUser(Authority(t)))

LEMMA AuthorityBack ==
  ASSUME NEW p, HostGood(p.host, p.ip_v), p.user \in Seq(Chars), is_chars(p.user, Mask05),
         p.port \in Seq(Chars), p.port = << >> \/ is_port(p.port),
         NEW y \in Seq(Chars), Heads(y, AuthorityEnds),
         NEW t, AfterScheme(t) = AuthorityWritten(p) \o y
  PROVE  AuthorityRead(p, t) /\ Path(t) = Upto(y, {"?", "#"})
<1>1. PICK g, u, h, r, b, a, k, D :
        /\ g = p.user /\ u = UserWritten(p) /\ h = HostText(p) /\ r = PortWritten(p)
        /\ b = <<"/", "/">> /\ k = h \o r /\ a = u \o k /\ D = Chars
  OBVIOUS
<1>2. g \in Seq(Mask05)
  BY <1>1, CharsSeq
<1>3. /\ Mask05 \subseteq Chars \ {"@"} /\ Mask05 \subseteq Chars \ AuthorityEnds
      /\ Mask05 \subseteq Chars /\ "%" \notin Mask05
  BY MasksIn, MasksOut DEF AuthorityEnds
<1>4. encode(g, Mask05) = g
  BY <1>2, <1>3, EncodeKeeps
<1>5. u = Signed(g)
  BY <1>1, <1>4 DEF UserWritten, Signed
<1>6. g \in Seq(Chars \ {"@"}) /\ g \in Seq(Chars \ AuthorityEnds)
  BY <1>2, <1>3, SeqMonotonic
<1>7. "@" \in Chars \ AuthorityEnds
  BY SignsIn DEF AuthorityEnds
<1>8. u \in Seq(Chars \ AuthorityEnds)
  <2>1. PICK e, E : e = <<"@">> /\ E = Chars \ AuthorityEnds
    OBVIOUS
  <2>2. e \in Seq(E)
    BY <1>7, <2>1, One
  <2>3. g \o e \in Seq(E) /\ << >> \in Seq(E)
    BY <1>6, <2>1, <2>2, ConcatProperties, None
  <2> QED
    BY <1>5, <2>1, <2>3 DEF Signed
<1>9. h \in Seq(HostChars) /\ r \in Seq(HostChars) /\ Heads(r, {":"})
  BY <1>1, HostTyped, PortRead
<1>10. k \in Seq(HostChars)
  BY <1>1, <1>9, ConcatProperties
<1>11. /\ HostChars \subseteq Chars \ {"@"} /\ HostChars \subseteq Chars \ AuthorityEnds
       /\ HostChars \subseteq Chars
  BY DEF HostChars, AuthorityEnds
<1>12. k \in Seq(Chars \ {"@"}) /\ k \in Seq(Chars \ AuthorityEnds)
  BY <1>10, <1>11, SeqMonotonic
<1>13. a \in Seq(Chars \ AuthorityEnds)
  BY <1>1, <1>8, <1>12, ConcatProperties
<1>14. AfterScheme(t) = (b \o a) \o y
  <2>1. b \in Seq(D)
    <3>1. "/" \in D
      BY <1>1, SignsIn
    <3> QED
      BY <1>1, <3>1
  <2>2. u \in Seq(D) /\ h \in Seq(D) /\ r \in Seq(D)
    <3>1. Chars \ AuthorityEnds \subseteq D
      BY <1>1
    <3> QED
      BY <1>1, <1>8, <1>9, <1>11, <3>1, SeqMonotonic
  <2>3. PICK bu : bu = b \o u
    OBVIOUS
  <2>4. bu \in Seq(D)
    BY <2>1, <2>2, <2>3, ConcatProperties
  <2>5. (bu \o h) \o r = bu \o k
    <3>1. Regrouped(bu, h, r)
      BY ONLY <2>2, <2>4, Regroup
    <3> QED
      BY <1>1, <3>1 DEF Regrouped
  <2>6. bu \o k = b \o a
    <3>1. k \in Seq(D)
      BY <1>1, <2>2, ConcatProperties
    <3>2. Regrouped(b, u, k)
      BY ONLY <2>1, <2>2, <3>1, Regroup
    <3> QED
      BY <1>1, <2>3, <3>2 DEF Regrouped
  <2>7. AuthorityWritten(p) = (bu \o h) \o r
    BY <1>1, <2>3 DEF AuthorityWritten
  <2> QED
    BY <2>5, <2>6, <2>7
<1>15. HasAuthority(t) /\ Authority(t) = a /\ Path(t) = Upto(y, {"?", "#"})
  <2>1. AfterScheme(t) = (<<"/", "/">> \o a) \o y
    BY <1>1, <1>14
  <2> QED
    BY ONLY <1>13, <2>1, y \in Seq(Chars), Heads(y, AuthorityEnds), AuthorityCut
<1>16. User(a) = g /\ AfterUser(a) = k
  <2>1. a = u \o k
    BY <1>1
  <2> QED
    BY ONLY <1>5, <1>6, <1>12, <2>1, UserCut
<1>17. HostRead(p.host, p.ip_v, r, k)
  <2>1. r \in Seq(Chars)
    BY <1>9, <1>11, SeqMonotonic
  <2>2. k = HostText(p) \o r
    BY <1>1
  <2> QED
    BY <1>9, <2>1, <2>2, HostBack
<1> QED
  BY <1>1, <1>15, <1>16, <1>17 DEF AuthorityRead

-----------------------------------------------------------------------------
(* The scheme, read again; and what makes parts sound.                     *)

SchemeWritten(p) == IF p.scheme = << >> THEN << >> ELSE p.scheme \o <<":">>

SchemeRead(s, x, t) ==
  /\ SchemeEnd(t) > 0 => is_scheme(Scheme(t))
  /\ to_lower(Scheme(t)) = s /\ AfterScheme(t) = x

LEMMA LowerNothing == to_lower(<< >>) = << >>
<1>1. << >> \in Seq(Chars) /\ Range(<< >>) = {}
  BY None DEF Range
<1> QED
  BY <1>1, LowerIs

LEMMA SchemeBack ==
  ASSUME NEW p, p.scheme \in Seq(Chars),
         p.scheme = << >> \/ (is_scheme(p.scheme) /\ to_lower(p.scheme) = p.scheme),
         NEW x \in Seq(Chars), p.scheme = << >> => SchemeNone(x),
         NEW t, t = SchemeWritten(p) \o x
  PROVE  SchemeRead(p.scheme, x, t)
<1>1. PICK s : s = p.scheme
  OBVIOUS
<1>2. CASE s = << >>
  <2>1. t = x
    BY <1>1, <1>2, ConcatEmptySeq DEF SchemeWritten
  <2>2. SchemeNone(t)
    BY <1>1, <1>2, <2>1
  <2> QED
    BY <1>1, <1>2, <2>1, <2>2, LowerNothing DEF SchemeNone, SchemeRead
<1>3. CASE s # << >>
  <2>1. t = (s \o <<":">>) \o x
    BY <1>1, <1>3 DEF SchemeWritten
  <2>2. is_scheme(s) /\ to_lower(s) = s /\ s \in Seq(Chars)
    BY <1>1, <1>3
  <2>3. s \in Seq(Chars \ SchemeEnds)
    BY <2>2, SchemeLetters
  <2>4. Scheme(t) = s /\ AfterScheme(t) = x
    BY ONLY <2>1, <2>3, x \in Seq(Chars), SchemeCut
  <2> QED
    BY <1>1, <2>2, <2>4 DEF SchemeRead
<1> QED
  BY <1>2, <1>3

LEMMA EmptyAuthority ==
  User(<< >>) = << >> /\ PortText(HostPart(AfterUser(<< >>)).rest) = << >>
<1>1. PICK e : e = << >>
  OBVIOUS
<1>2. e \in Seq(Mask01) /\ e \in Seq(Chars)
  BY <1>1, None
<1>3. "@" \notin Range(e)
  BY <1>1 DEF Range
<1>4. User(e) = e /\ AfterUser(e) = e
  BY <1>1, <1>3 DEF User, AfterUser
<1>5. e = e \o e
  BY <1>1, <1>2, ConcatEmptySeq
<1>6. HostPart(e).rest = e
  <2>1. Heads(e, {":"})
    BY <1>1 DEF Heads
  <2>2. HostPart(e) = [ok |-> TRUE, host |-> e,
                       ip_v |-> IF is_ipv4(e) THEN 4 ELSE 0, rest |-> e]
    BY ONLY <1>2, <1>5, <2>1, NameCut
  <2> QED
    BY <2>2
<1>7. ~Starts(e, ":")
  BY <1>1, NotEmptyStarts
<1> QED
  BY <1>1, <1>4, <1>6, <1>7 DEF PortText

(* Parts as objects have them: in normal form, each of the characters it   *)
(* may have.                                                               *)
PartsSet == [scheme : Seq(Chars), user : Seq(Chars), host : Seq(Chars), ip_v : -1..127,
             port : Seq(Chars), path : Seq(Chars), query : Seq(Entry), fragment : Seq(Chars)]

HostSound(h, v) ==
  /\ h # << >> => v # -1
  /\ v = 0 => to_lower(h) = h
  /\ v = 6 /\ is_valid_ipv6(h) => h \in Seq(AddressChars) /\ normalize_IPv6(h) = h
  /\ v \notin {0, 4, 6} => h \in Seq(Mask05)

Sound(p) ==
  /\ p \in PartsSet
  /\ p.scheme = << >> \/ (is_scheme(p.scheme) /\ to_lower(p.scheme) = p.scheme)
  /\ HostSound(p.host, p.ip_v)
  /\ p.port = << >> \/ is_port(p.port)
  /\ Orderly(p.path)

LEMMA SoundHost ==
  ASSUME NEW p, Sound(p), Carried(p), p.host # << >>
  PROVE  HostGood(p.host, p.ip_v)
<1>1. PICK h, v : h = p.host /\ v = p.ip_v
  OBVIOUS
<1>2. h \in Seq(Chars) /\ v \in -1..127 /\ h # << >> /\ HostSound(h, v)
  BY <1>1 DEF Sound, PartsSet
<1>3. v \in 0..15
  <2>1. v # -1
    BY <1>2 DEF HostSound
  <2>2. v <= 15
    BY <1>1 DEF Carried
  <2> QED
    BY <1>2, <2>1, <2>2
<1>4. v = 0 => h \in Seq(Mask01) /\ ~is_ipv4(h) /\ to_lower(h) = h
  <2>1. v = 0 => is_reg_name(h) /\ ~is_ipv4(h)
    BY <1>1 DEF Carried
  <2> QED
    BY <1>2, <2>1, NameMasked DEF HostSound
<1>5. v = 4 => h \in Seq(Mask01) /\ is_ipv4(h)
  <2>1. v = 4 => is_ipv4(h)
    BY <1>1 DEF Carried
  <2> QED
    BY <1>2, <2>1, NameMasked
<1>6. v = 6 => h \in Seq(AddressChars) /\ is_ipv6(h) /\ normalize_IPv6(h) = h
  <2>1. SUFFICES ASSUME v = 6
                 PROVE  h \in Seq(AddressChars) /\ is_ipv6(h) /\ normalize_IPv6(h) = h
    OBVIOUS
  <2>2. is_valid_ipv6(h)
    BY <1>1, <2>1 DEF Carried
  <2>3. h \in Seq(AddressChars) /\ normalize_IPv6(h) = h
    BY <1>2, <2>1, <2>2 DEF HostSound
  <2>4. Len(h) \in 2..39
    BY <2>2 DEF is_valid_ipv6
  <2>5. is_chars(h, HexDigits \cup {":", "."})
    BY <2>3, CharsSeq, HexDigitsAre DEF AddressChars
  <2>6. is_ipv6(h)
    BY <2>4, <2>5 DEF is_ipv6
  <2> QED
    BY <2>3, <2>6
<1>7. v \notin {0, 4, 6} => h \in Seq(Mask05)
  BY <1>2 DEF HostSound
<1> QED
  BY <1>1, <1>2, <1>3, <1>4, <1>5, <1>6, <1>7 DEF HostGood

-----------------------------------------------------------------------------
(* The text that build_url writes, piece by piece.                         *)

Before(p) == IF p.host = << >> THEN << >> ELSE AuthorityWritten(p)
PathText(p) == encode(p.path, Mask0F)
Rear(p) == QueryWritten(p.query) \o FragmentWritten(p.fragment)

LEMMA BeforeTyped ==
  ASSUME NEW p, Sound(p), Carried(p), Builds(p)
  PROVE  /\ Before(p) \in Seq(Chars \ QueryEnds) /\ Before(p) \in Seq(Chars)
         /\ p.host # << >> => Before(p) # << >> /\ Before(p)[1] = "/"
<1>1. PICK D : D = Chars \ QueryEnds
  OBVIOUS
<1>2. D \subseteq Chars
  BY <1>1
<1>3. CASE p.host = << >>
  BY <1>3, None DEF Before
<1>4. CASE p.host # << >>
  <2>1. HostGood(p.host, p.ip_v)
    BY <1>4, SoundHost
  <2>2. p.user \in Seq(Chars) /\ p.port \in Seq(Chars)
    BY DEF Sound, PartsSet
  <2>3. is_chars(p.user, Mask05) /\ (p.port = << >> \/ is_port(p.port))
    BY DEF Sound, Carried
  <2>4. HostChars \subseteq D
    BY <1>1 DEF HostChars, QueryEnds
  <2>5. HostText(p) \in Seq(D) /\ PortWritten(p) \in Seq(D)
    BY <2>1, <2>2, <2>3, <2>4, HostTyped, PortRead, SeqMonotonic
  <2>6. UserWritten(p) \in Seq(D)
    <3>1. p.user \in Seq(Mask05)
      BY <2>2, <2>3, CharsSeq
    <3>2. Mask05 \subseteq D /\ Mask05 \subseteq Chars /\ "%" \notin Mask05
      BY <1>1, MasksIn, MasksOut DEF QueryEnds
    <3>3. encode(p.user, Mask05) = p.user /\ p.user \in Seq(D)
      BY <3>1, <3>2, EncodeKeeps, SeqMonotonic
    <3>4. PICK e : e = <<"@">>
      OBVIOUS
    <3>5. e \in Seq(D)
      <4>1. "@" \in D
        BY <1>1, SignsIn DEF QueryEnds
      <4> QED
        BY <3>4, <4>1, One
    <3>6. p.user \o e \in Seq(D) /\ << >> \in Seq(D)
      BY <3>3, <3>5, ConcatProperties, None
    <3> QED
      BY <3>3, <3>4, <3>6 DEF UserWritten
  <2>7. PICK b : b = <<"/", "/">>
    OBVIOUS
  <2>8. b \in Seq(D)
    <3>1. "/" \in D
      BY <1>1, SignsIn DEF QueryEnds
    <3> QED
      BY <2>7, <3>1
  <2>9. PICK c, d : c = b \o UserWritten(p) /\ d = c \o HostText(p)
    OBVIOUS
  <2>10. c \in Seq(D)
    BY <2>6, <2>8, <2>9, ConcatProperties
  <2>11. d \in Seq(D)
    BY <2>5, <2>9, <2>10, ConcatProperties
  <2>12. PICK w : w = d \o PortWritten(p)
    OBVIOUS
  <2>13. AuthorityWritten(p) = w
    BY <2>7, <2>9, <2>12 DEF AuthorityWritten
  <2>14. w \in Seq(D)
    BY <2>5, <2>11, <2>12, ConcatProperties
  <2>15. b # << >> /\ b[1] = "/"
    <3>1. Len(b) # 0 /\ b[1] = "/"
      BY <2>7
    <3> QED
      BY <3>1, None
  <2>16. c # << >> /\ c[1] = "/"
    BY <2>6, <2>8, <2>9, <2>15, FirstOfTwo
  <2>17. d # << >> /\ d[1] = "/"
    BY <2>5, <2>9, <2>10, <2>16, FirstOfTwo
  <2>18. w # << >> /\ w[1] = "/"
    BY <2>5, <2>11, <2>12, <2>17, FirstOfTwo
  <2> QED
    BY <1>1, <1>2, <1>4, <2>13, <2>14, <2>18, SeqMonotonic DEF Before
<1> QED
  BY <1>3, <1>4

LEMMA BuildIs ==
  ASSUME NEW p, Sound(p), Carried(p), Builds(p)
  PROVE  /\ Build(p) = SchemeWritten(p) \o (Before(p) \o (PathText(p) \o Rear(p)))
         /\ Build(p) = SchemeWritten(p) \o ((Before(p) \o PathText(p)) \o Rear(p))
         /\ PathText(p) \in Seq(Chars \ QueryEnds) /\ PathText(p) \in Seq(Chars)
         /\ Rear(p) \in Seq(Chars) /\ Heads(Rear(p), QueryEnds)
<1>1. PICK s, a, e, q, f, z, D :
        /\ s = SchemeWritten(p) /\ a = Before(p) /\ e = PathText(p)
        /\ q = QueryWritten(p.query) /\ f = FragmentWritten(p.fragment)
        /\ z = Rear(p) /\ D = Chars
  OBVIOUS
<1>2. Build(p) = (((s \o a) \o e) \o q) \o f
  BY <1>1 DEF Build, SchemeWritten, Before, PathText, QueryWritten, FragmentWritten, QuerySaid,
              AuthorityWritten, UserWritten, PortWritten
<1>3. p \in PartsSet
  BY DEF Sound
<1>4. a \in Seq(D)
  BY <1>1, BeforeTyped
<1>5. e \in Seq(D) /\ e \in Seq(Chars \ QueryEnds)
  BY <1>1, <1>3, PathWritten DEF PathText, Sound, PartsSet
<1>6. q \in Seq(D) /\ f \in Seq(D) /\ z \in Seq(D) /\ Heads(z, QueryEnds)
  <2>1. /\ p.query \in Seq(Entry) /\ p.fragment \in Seq(Chars)
        /\ \A k \in DOMAIN p.query : p.query[k].key # << >>
    BY <1>3 DEF PartsSet, Builds
  <2>2. q \in Seq(Chars \ {"#"}) /\ f \in Seq(Chars) /\ z \in Seq(Chars) /\ Heads(z, QueryEnds)
    BY <1>1, <2>1, RearTyped DEF Rear
  <2>3. Chars \ {"#"} \subseteq D
    BY <1>1
  <2> QED
    BY <1>1, <2>2, <2>3, SeqMonotonic
<1>7. s \in Seq(D)
  <2>1. PICK c : c = <<":">>
    OBVIOUS
  <2>2. c \in Seq(D)
    BY <1>1, <2>1, One, SignsIn
  <2>3. p.scheme \in Seq(D)
    BY <1>1, <1>3 DEF PartsSet
  <2>4. p.scheme \o c \in Seq(D) /\ << >> \in Seq(D)
    BY <2>2, <2>3, ConcatProperties, None
  <2> QED
    BY <1>1, <2>1, <2>4 DEF SchemeWritten
<1>8. z = q \o f
  BY <1>1 DEF Rear
<1>9. PICK sa, ae, ez, sae : /\ sa = s \o a /\ ae = a \o e /\ ez = e \o z /\ sae = sa \o e
  OBVIOUS
<1>10. sa \in Seq(D) /\ ae \in Seq(D) /\ ez \in Seq(D)
  BY <1>4, <1>5, <1>6, <1>7, <1>9, ConcatProperties
<1>11. sae \in Seq(D)
  BY <1>5, <1>9, <1>10, ConcatProperties
<1>12. (sae \o q) \o f = sae \o z
  <2>1. Regrouped(sae, q, f)
    BY ONLY <1>6, <1>11, Regroup
  <2> QED
    BY <1>8, <2>1 DEF Regrouped
<1>13. sae = s \o ae
  <2>1. Regrouped(s, a, e)
    BY ONLY <1>4, <1>5, <1>7, Regroup
  <2> QED
    BY <1>9, <2>1 DEF Regrouped
<1>14. (s \o ae) \o z = s \o (ae \o z)
  <2>1. Regrouped(s, ae, z)
    BY ONLY <1>6, <1>7, <1>10, Regroup
  <2> QED
    BY <2>1 DEF Regrouped
<1>15. ae \o z = a \o ez
  <2>1. Regrouped(a, e, z)
    BY ONLY <1>4, <1>5, <1>6, Regroup
  <2> QED
    BY <1>9, <2>1 DEF Regrouped
<1>16. Build(p) = s \o (ae \o z)
  BY <1>2, <1>9, <1>12, <1>13, <1>14
<1>17. Build(p) = s \o (a \o ez)
  BY <1>15, <1>16
<1> QED
  BY <1>1, <1>5, <1>6, <1>9, <1>16, <1>17

(* Everything behind the scheme.                                           *)
AuthorityBackOf(p, t) ==
  IF p.host = << >> THEN ~HasAuthority(t) /\ Authority(t) = << >>
  ELSE AuthorityRead(p, t)

LEMMA TextBack ==
  ASSUME NEW p, Sound(p), Carried(p), Builds(p), NEW t, t = Build(p)
  PROVE  /\ SchemeRead(p.scheme, AfterScheme(t), t) /\ AuthorityBackOf(p, t)
         /\ Path(t) = PathText(p) /\ RearRead(p.query, p.fragment, t)
<1>1. PICK a, e, z, y, x, D :
        /\ a = Before(p) /\ e = PathText(p) /\ z = Rear(p) /\ y = e \o z /\ x = a \o y
        /\ D = Chars
  OBVIOUS
<1>2. /\ e \in Seq(Chars \ QueryEnds) /\ e \in Seq(D) /\ z \in Seq(D) /\ Heads(z, QueryEnds)
      /\ t = SchemeWritten(p) \o x
  BY <1>1, BuildIs
<1>3. a \in Seq(Chars \ QueryEnds) /\ a \in Seq(D)
  BY <1>1, BeforeTyped
<1>4. p \in PartsSet
  BY DEF Sound
<1>5. p.path \in Seq(Chars) /\ Orderly(p.path) /\ e = encode(p.path, Mask0F)
  BY <1>1, <1>4 DEF PartsSet, Sound, PathText
<1>6. y \in Seq(D)
  BY <1>1, <1>2, ConcatProperties
<1>7. x \in Seq(D)
  BY <1>1, <1>3, <1>6, ConcatProperties
<1>8. p.scheme = << >> => SchemeNone(x)
  <2>1. CASE p.host = << >>
    <3>1. x = y
      BY <1>1, <1>6, <2>1, ConcatEmptySeq DEF Before
    <3>2. ~Starts(Onward(p.path, {":", "/"}), ":")
      BY <2>1 DEF Builds
    <3>3. x = encode(p.path, Mask0F) \o z
      BY <1>1, <1>5, <3>1
    <3>4. z \in Seq(Chars) /\ p.path \in Seq(Chars)
      BY <1>1, <1>2, <1>5
    <3> QED
      BY ONLY <1>2, <3>2, <3>3, <3>4, BarePath
  <2>2. CASE p.host # << >>
    <3>1. x # << >> /\ x[1] = "/"
      <4>1. a # << >> /\ a[1] = "/"
        BY <1>1, <2>2, BeforeTyped
      <4> QED
        BY <1>1, <1>3, <1>6, <4>1, FirstOfTwo
    <3>2. Heads(x, {"/", "?", "#"})
      BY <3>1 DEF Heads
    <3>3. PICK n : n = << >>
      OBVIOUS
    <3>4. n \in Seq(Chars \ SchemeEnds) /\ x = n \o x /\ x \in Seq(Chars)
      BY <1>1, <1>7, <3>3, None, ConcatEmptySeq
    <3>5. SchemeEnd(x) = 0 /\ Scheme(x) = << >> /\ AfterScheme(x) = x
      BY ONLY <3>2, <3>4, NoScheme
    <3> QED
      BY <3>5 DEF SchemeNone
  <2> QED
    BY <2>1, <2>2
<1>9. SchemeRead(p.scheme, x, t)
  <2>1. p.scheme \in Seq(Chars) /\ x \in Seq(Chars)
    BY <1>1, <1>4, <1>7 DEF PartsSet
  <2>2. p.scheme = << >> \/ (is_scheme(p.scheme) /\ to_lower(p.scheme) = p.scheme)
    BY DEF Sound
  <2> QED
    BY ONLY <1>2, <1>8, <2>1, <2>2, SchemeBack
<1>10. AfterScheme(t) = x
  BY <1>9 DEF SchemeRead
<1>11. Upto(y, {"?", "#"}) = e
  <2>1. Apart(e, z, QueryEnds)
    BY <1>1, <1>2, CutClean
  <2> QED
    BY <1>1, <2>1 DEF Apart, QueryEnds
<1>12. AuthorityBackOf(p, t) /\ Path(t) = e
  <2>1. CASE p.host = << >>
    <3>1. x = y
      BY <1>1, <1>6, <2>1, ConcatEmptySeq DEF Before
    <3>2. ~(Starts(y, "/") /\ Starts(Rest(y, 1), "/"))
      <4>1. z \in Seq(Chars) /\ y = encode(p.path, Mask0F) \o z
        BY <1>1, <1>2, <1>5
      <4> QED
        BY ONLY <1>2, <1>5, <4>1, NoSlashes
    <3>3. AfterScheme(t) = y /\ AfterScheme(t) \in Seq(D)
      BY <1>6, <1>10, <3>1
    <3>4. /\ ~HasAuthority(t) /\ Authority(t) = << >>
          /\ Path(t) = Upto(AfterScheme(t), {"?", "#"})
      BY <3>2, <3>3, NoAuthority
    <3> QED
      BY <1>11, <2>1, <3>3, <3>4 DEF AuthorityBackOf
  <2>2. CASE p.host # << >>
    <3>1. HostGood(p.host, p.ip_v)
      BY <2>2, SoundHost
    <3>2. p.user \in Seq(Chars) /\ p.port \in Seq(Chars)
      BY <1>4 DEF PartsSet
    <3>3. is_chars(p.user, Mask05) /\ (p.port = << >> \/ is_port(p.port))
      BY DEF Sound, Carried
    <3>4. y \in Seq(Chars) /\ AfterScheme(t) = AuthorityWritten(p) \o y
      BY <1>1, <1>6, <1>10, <2>2 DEF Before
    <3>5. Heads(y, AuthorityEnds)
      <4>1. e = << >> \/ (e # << >> /\ e[1] = "/")
        <5>1. p.path = << >> \/ Starts(p.path, "/")
          BY <2>2 DEF Builds
        <5>2. CASE p.path = << >>
          BY <1>5, <5>2, NothingEncoded
        <5>3. CASE Starts(p.path, "/")
          <6>1. p.path # << >> /\ p.path[1] = "/"
            BY <1>5, <5>3, StartsIs
          <6>2. "%" \notin Mask0F /\ "/" \in Mask0F
            BY MasksOut DEF Mask0F
          <6>3. EncodedHead(p.path, Mask0F, e)
            BY <1>5, <6>1, <6>2, EncodeHead
          <6> QED
            BY <6>1, <6>2, <6>3 DEF EncodedHead
        <5> QED
          BY <5>1, <5>2, <5>3
      <4>2. CASE e = << >>
        <5>1. y = z
          BY <1>1, <1>2, <4>2, ConcatEmptySeq
        <5> QED
          BY <1>2, <5>1 DEF Heads, QueryEnds, AuthorityEnds
      <4>3. CASE e # << >> /\ e[1] = "/"
        <5>1. y # << >> /\ y[1] = "/"
          BY <1>1, <1>2, <4>3, FirstOfTwo
        <5> QED
          BY <5>1 DEF Heads, AuthorityEnds
      <4> QED
        BY <4>1, <4>2, <4>3
    <3>6. AuthorityRead(p, t) /\ Path(t) = Upto(y, {"?", "#"})
      BY ONLY <3>1, <3>2, <3>3, <3>4, <3>5, AuthorityBack
    <3> QED
      BY <1>11, <2>2, <3>6 DEF AuthorityBackOf
  <2> QED
    BY <2>1, <2>2
<1>13. RearRead(p.query, p.fragment, t)
  <2>1. PICK u : u = a \o e
    OBVIOUS
  <2>2. u \in Seq(Chars \ QueryEnds)
    BY <1>2, <1>3, <2>1, ConcatProperties
  <2>3. x = u \o z
    <3>1. Regrouped(a, e, z)
      BY ONLY <1>2, <1>3, Regroup
    <3> QED
      BY <1>1, <2>1, <3>1 DEF Regrouped
  <2>4. AfterScheme(t) = u \o (QueryWritten(p.query) \o FragmentWritten(p.fragment))
    BY <1>1, <1>10, <2>3 DEF Rear
  <2>5. /\ p.query \in Seq(Entry) /\ p.fragment \in Seq(Chars)
        /\ \A k \in DOMAIN p.query : p.query[k].key # << >>
    BY <1>4 DEF PartsSet, Builds
  <2> QED
    BY ONLY <2>2, <2>4, <2>5, RearBack
<1> QED
  BY <1>1, <1>9, <1>10, <1>12, <1>13

-----------------------------------------------------------------------------
(* The parts of a URL are read back from the text it is written as.        *)

(* The host and the port, read again.                                      *)
LEMMA HostReadBack ==
  ASSUME NEW p, Sound(p), Carried(p), Builds(p), NEW t, t = Build(p)
  PROVE  LET h == HostPart(AfterUser(Authority(t)))
         IN  /\ HasAuthority(t) => /\ is_chars(User(Authority(t)), Mask05)
                                   /\ h.ok /\ (h.ip_v = 6 => is_ipv6(h.host))
                                   /\ Starts(h.rest, ":") => is_port(PortText(h.rest))
             /\ User(Authority(t)) = p.user
             /\ (IF HasAuthority(t) THEN NormalHost(h) ELSE << >>) = p.host
             /\ (IF HasAuthority(t) THEN h.ip_v ELSE -1) = IF p.host = << >> THEN -1 ELSE p.ip_v
             /\ PortText(h.rest) = IF DefaultPort(p.scheme, p.port) THEN << >> ELSE p.port
<1>1. PICK a, h : a = Authority(t) /\ h = HostPart(AfterUser(a))
  OBVIOUS
<1>2. AuthorityBackOf(p, t)
  BY TextBack
<1>3. CASE p.host = << >>
  <2>1. ~HasAuthority(t) /\ a = << >>
    BY <1>1, <1>2, <1>3 DEF AuthorityBackOf
  <2>2. p.user = << >> /\ p.port = << >>
    BY <1>3 DEF Builds
  <2>3. User(a) = << >> /\ PortText(h.rest) = << >>
    BY <1>1, <2>1, EmptyAuthority
  <2> QED
    BY <1>1, <1>3, <2>1, <2>2, <2>3
<1>4. CASE p.host # << >>
  <2>1. /\ HasAuthority(t) /\ is_chars(User(a), Mask05) /\ User(a) = p.user
        /\ HostRead(p.host, p.ip_v, PortWritten(p), AfterUser(a))
    BY <1>1, <1>2, <1>4 DEF AuthorityBackOf, AuthorityRead
  <2>2. /\ h.ok /\ h.rest = PortWritten(p) /\ h.ip_v = p.ip_v /\ NormalHost(h) = p.host
        /\ p.ip_v = 6 => is_ipv6(h.host)
    BY <1>1, <2>1 DEF HostRead
  <2>3. p.port \in Seq(Chars) /\ (p.port = << >> \/ is_port(p.port))
    BY DEF Sound, PartsSet
  <2>4. /\ Starts(h.rest, ":") => is_port(PortText(h.rest))
        /\ PortText(h.rest) = IF DefaultPort(p.scheme, p.port) THEN << >> ELSE p.port
    BY <2>2, <2>3, PortRead
  <2> QED
    BY <1>1, <1>4, <2>1, <2>2, <2>4
<1> QED
  BY <1>3, <1>4

LEMMA ReadParses ==
  ASSUME NEW p, Sound(p), Carried(p), Builds(p), NEW t, t = Build(p)
  PROVE  Parses(t)
<1>1. SchemeEnd(t) > 0 => is_scheme(Scheme(t))
  BY TextBack DEF SchemeRead
<1>2. Decodes(Path(t), Mask2F)
  <2>1. Path(t) = encode(p.path, Mask0F)
    BY TextBack DEF PathText
  <2>2. p.path \in Seq(Chars) /\ Orderly(p.path)
    BY DEF Sound, PartsSet
  <2> QED
    BY <2>1, <2>2, PathWritten
<1>3. (HasQuery(t) => Decodes(QueryText(t), Mask3F)) /\ Decodes(Fragment(t), Mask3F)
  BY TextBack DEF RearRead
<1>4. LET h == HostPart(AfterUser(Authority(t)))
      IN  HasAuthority(t) => /\ is_chars(User(Authority(t)), Mask05)
                             /\ h.ok /\ (h.ip_v = 6 => is_ipv6(h.host))
                             /\ Starts(h.rest, ":") => is_port(PortText(h.rest))
  BY HostReadBack
<1> QED
  BY <1>1, <1>2, <1>3, <1>4 DEF Parses

LEMMA ReadParts ==
  ASSUME NEW p, Sound(p), Carried(p), Builds(p), NEW t, t = Build(p)
  PROVE  Parts(t) = Meaning(p)
<1>1. to_lower(Scheme(t)) = p.scheme
  BY TextBack DEF SchemeRead
<1>2. normalize_path(decode(Path(t))) = p.path
  <2>1. Path(t) = encode(p.path, Mask0F)
    BY TextBack DEF PathText
  <2>2. p.path \in Seq(Chars) /\ Orderly(p.path)
    BY DEF Sound, PartsSet
  <2> QED
    BY <2>1, <2>2, PathWritten
<1>3. (IF HasQuery(t) THEN QueryEntries(t) ELSE << >>) = p.query /\ decode(Fragment(t)) = p.fragment
  BY TextBack DEF RearRead
<1>4. LET h == HostPart(AfterUser(Authority(t)))
      IN  /\ User(Authority(t)) = p.user
          /\ (IF HasAuthority(t) THEN NormalHost(h) ELSE << >>) = p.host
          /\ (IF HasAuthority(t) THEN h.ip_v ELSE -1) = IF p.host = << >> THEN -1 ELSE p.ip_v
          /\ PortText(h.rest) = IF DefaultPort(p.scheme, p.port) THEN << >> ELSE p.port
  BY HostReadBack
<1>5. Parts(t) = [scheme |-> p.scheme, user |-> p.user, host |-> p.host,
                  ip_v |-> IF p.host = << >> THEN -1 ELSE p.ip_v,
                  port |-> IF DefaultPort(p.scheme, p.port) THEN << >> ELSE p.port,
                  path |-> p.path, query |-> p.query, fragment |-> p.fragment]
  BY <1>1, <1>2, <1>3, <1>4 DEF Parts
<1>6. p \in PartsSet
  BY DEF Sound
<1>7. PICK x, y : /\ x = (IF DefaultPort(p.scheme, p.port) THEN << >> ELSE p.port)
                  /\ y = (IF p.host = << >> THEN -1 ELSE p.ip_v)
  OBVIOUS
<1>8. Meaning(p) = [p EXCEPT !.port = x, !.ip_v = y]
  BY <1>6, <1>7 DEF Meaning
<1>9. Parts(t) = [scheme |-> p.scheme, user |-> p.user, host |-> p.host, ip_v |-> y,
                  port |-> x, path |-> p.path, query |-> p.query, fragment |-> p.fragment]
  BY <1>5, <1>7
<1>10. [p EXCEPT !.port = x, !.ip_v = y]
         = [scheme |-> p.scheme, user |-> p.user, host |-> p.host, ip_v |-> y,
            port |-> x, path |-> p.path, query |-> p.query, fragment |-> p.fragment]
  <2>1. p = [scheme |-> p.scheme, user |-> p.user, host |-> p.host, ip_v |-> p.ip_v,
             port |-> p.port, path |-> p.path, query |-> p.query, fragment |-> p.fragment]
    BY <1>6 DEF PartsSet
  <2>2. PICK s, u, h, v, o, a, q, f :
          /\ s = p.scheme /\ u = p.user /\ h = p.host /\ v = p.ip_v
          /\ o = p.port /\ a = p.path /\ q = p.query /\ f = p.fragment
    OBVIOUS
  <2>3. p = [scheme |-> s, user |-> u, host |-> h, ip_v |-> v,
             port |-> o, path |-> a, query |-> q, fragment |-> f]
    BY <2>1, <2>2
  <2>4. [p EXCEPT !.port = x, !.ip_v = y]
          = [scheme |-> s, user |-> u, host |-> h, ip_v |-> y,
             port |-> x, path |-> a, query |-> q, fragment |-> f]
    <3>1. PICK r : r = [p EXCEPT !.port = x]
      OBVIOUS
    <3>2. r = [scheme |-> s, user |-> u, host |-> h, ip_v |-> v,
               port |-> x, path |-> a, query |-> q, fragment |-> f]
      BY ONLY <2>3, <3>1, SMT
    <3>3. [r EXCEPT !.ip_v = y] = [scheme |-> s, user |-> u, host |-> h, ip_v |-> y,
                                  port |-> x, path |-> a, query |-> q, fragment |-> f]
      BY ONLY <3>2, SMT
    <3>4. p = [i \in DOMAIN p |-> p[i]]
      BY <2>3
    <3>5. [p EXCEPT !.port = x, !.ip_v = y] = [[p EXCEPT !.port = x] EXCEPT !.ip_v = y]
      BY ONLY <3>4
    <3> QED
      BY <3>1, <3>3, <3>5
  <2> QED
    BY <2>2, <2>4
<1> QED
  BY <1>8, <1>9, <1>10

LEMMA PortsSet == << >> # <<"8", "0">> /\ << >> # <<"4", "4", "3">>
<1>1. Len(<< >>) = 0 /\ Len(<<"8", "0">>) = 2 /\ Len(<<"4", "4", "3">>) = 3
  OBVIOUS
<1> QED
  BY <1>1

LEMMA MeaningTwice ==
  ASSUME NEW p \in PartsSet
  PROVE  Meaning(Meaning(p)) = Meaning(p)
  BY PortsSet DEF Meaning, PartsSet, DefaultPort

(* What build_url writes of sound parts that a text can carry, parse_url   *)
(* takes, and reads as the same URL.                                       *)
THEOREM ReadBack ==
  ASSUME NEW p, Sound(p), Carried(p), Builds(p)
  PROVE  Parses(Build(p)) /\ Meaning(Parts(Build(p))) = Meaning(p)
<1>1. Parses(Build(p)) /\ Parts(Build(p)) = Meaning(p)
  BY ReadParses, ReadParts
<1>2. p \in PartsSet
  BY DEF Sound
<1> QED
  BY <1>1, <1>2, MeaningTwice

=============================================================================
