---------------------------- MODULE ShareQLProofs ----------------------------
(***************************************************************************)
(* Theorems about ShareQL, for any words, characters and documents.        *)
(*                                                                         *)
(* Comparisons of numbers are exact for which numbers; the parser ends on  *)
(* every text, with a condition, an error or a panic; what the evaluator   *)
(* then decides is a decision.                                             *)
(***************************************************************************)
EXTENDS ShareQLStart, SequenceLemmas

-----------------------------------------------------------------------------
(* Numbers: the comparators mean what they say for all of them when they    *)
(* order, and when they test for equality only for those whose character is *)
(* its own small letter and no other's.                                     *)

Exact(comparator, a, b) ==
  CASE comparator = "="  -> a = b
    [] comparator = "!=" -> a # b
    [] comparator = "<"  -> a < b
    [] comparator = ">"  -> a > b
    [] comparator = "<=" -> a <= b
    [] comparator = ">=" -> a >= b

Order   == {"<", ">"}
Numeric == Order \cup {"=", "!=", "<=", ">="}

\* The numbers that toString turns into a character of their own.
Plain ==
  {n \in 0..MaxRune : /\ n \notin Surrogate \cup {Replacement} \cup DOMAIN Lower
                      /\ \A m \in DOMAIN Lower : Lower[m] # n}

LEMMA RuneOfSmall ==
  ASSUME NEW n \in 0..(Modulus - 1)
  PROVE  Rune(n) = IF n <= MaxRune /\ n \notin Surrogate THEN n ELSE Replacement
<1>1. n % Modulus = n
  BY RuneAssumption
<1> QED
  BY <1>1 DEF Rune

LEMMA ToNumberOfNumber ==
  ASSUME NEW n \in Int
  PROVE  toNumber(Number(n)) = [n |-> n, ok |-> TRUE]
  BY DEF toNumber, Number

LEMMA EqualNumbers ==
  ASSUME NEW a \in Int, NEW b \in Int
  PROVE  compareEqual(Number(a), Number(b)) <=> FoldRune(Rune(a)) = FoldRune(Rune(b))
<1>1. /\ toString(Number(a)) = [text |-> <<>>, rune |-> Rune(a)]
      /\ toString(Number(b)) = [text |-> <<>>, rune |-> Rune(b)]
  BY DEF toString, Number
<1> QED
  BY <1>1 DEF compareEqual

LEMMA OrderedNumbers ==
  ASSUME NEW a \in Int, NEW b \in Int
  PROVE  /\ compareLess(Number(a), Number(b)) <=> a < b
         /\ compareGreater(Number(a), Number(b)) <=> a > b
  BY ToNumberOfNumber DEF compareLess, compareGreater

LEMMA PlainIsItself ==
  ASSUME NEW a \in Plain, NEW b \in 0..(Modulus - 1)
  PROVE  FoldRune(Rune(a)) = FoldRune(Rune(b)) <=> a = b
<1>1. a \in 0..(Modulus - 1)
  BY RuneAssumption DEF Plain
<1>2. Rune(a) = a /\ FoldRune(a) = a
  BY <1>1, RuneOfSmall DEF Plain, FoldRune
<1>3. Rune(b) = b \/ (b # a /\ Rune(b) = Replacement)
  BY RuneOfSmall DEF Plain
<1>4. \A r : FoldRune(r) = a => r = a
  BY DEF Plain, FoldRune
<1>5. Replacement # a
  BY DEF Plain
<1> QED
  BY <1>2, <1>3, <1>4, <1>5

\* compareLess and compareGreater go by the numbers, whatever these are.
THEOREM OrderIsExact ==
  \A a, b \in Int, c \in Order : Compare(c, Number(a), Number(b)) <=> Exact(c, a, b)
<1> TAKE a, b \in Int, c \in Order
<1>1. CASE c = "<"
  BY <1>1, OrderedNumbers DEF Compare, Exact
<1>2. CASE c = ">"
  BY <1>2, OrderedNumbers DEF Compare, Exact
<1> QED
  BY <1>1, <1>2 DEF Order

\* A field compared with a plain number is compared as a number: DEPTH, and sizes that
\* are the code of a character without capitals.
THEOREM PlainIsExact ==
  \A a \in Plain, b \in 0..(Modulus - 1), c \in Numeric :
    /\ Compare(c, Number(a), Number(b)) <=> Exact(c, a, b)
    /\ Compare(c, Number(b), Number(a)) <=> Exact(c, b, a)
<1> TAKE a \in Plain, b \in 0..(Modulus - 1), c \in Numeric
<1>1. a \in Int /\ b \in Int
  BY RuneAssumption DEF Plain
<1>2. /\ compareEqual(Number(a), Number(b)) <=> a = b
      /\ compareEqual(Number(b), Number(a)) <=> a = b
  BY <1>1, EqualNumbers, PlainIsItself
<1>3. CASE c \in Order
  BY <1>1, <1>3, OrderIsExact
<1>4. CASE c \in {"=", "!="}
  BY <1>2, <1>4 DEF Compare, Exact
<1>5. CASE c = "<="
  BY <1>1, <1>2, <1>5, OrderedNumbers DEF Compare, Exact
<1>6. CASE c = ">="
  BY <1>1, <1>2, <1>6, OrderedNumbers DEF Compare, Exact
<1> QED
  BY <1>3, <1>4, <1>5, <1>6 DEF Numeric

\* rule.go:184: two sizes that are no character are equal, so that above 0x10FFFF bytes
\* "=" and "IN" hold, and "!=" does not, whatever the two sizes are.
THEOREM LargeSizesAreEqual ==
  \A a, b \in (MaxRune + 1)..(Modulus - 1) :
    /\ Compare("=", Number(a), Number(b))
    /\ ~ Compare("!=", Number(a), Number(b))
    /\ Compare("IN", Number(a), List(<<Number(b)>>))
<1> TAKE a, b \in (MaxRune + 1)..(Modulus - 1)
<1>1. a \in 0..(Modulus - 1) /\ b \in 0..(Modulus - 1)
  BY RuneAssumption
<1>2. Rune(a) = Replacement /\ Rune(b) = Replacement
  BY <1>1, RuneOfSmall, RuneAssumption
<1>3. compareEqual(Number(a), Number(b))
  BY <1>1, <1>2, EqualNumbers
<1>4. compareIn(Number(a), List(<<Number(b)>>))
  BY <1>3 DEF compareIn, List
<1> QED
  BY <1>3, <1>4 DEF Compare

-----------------------------------------------------------------------------
(* Texts and what they are cut into. *)

LEMMA SubText ==
  ASSUME NEW t \in Text, NEW m \in Nat \ {0}, NEW n \in Int, n <= Len(t)
  PROVE  /\ SubSeq(t, m, n) \in Text
         /\ Len(SubSeq(t, m, n)) = IF m <= n THEN n - m + 1 ELSE 0
         /\ \A i \in 1..(n - m + 1) : SubSeq(t, m, n)[i] = t[m + i - 1]
  BY DEF Text

LEMMA BeginsWith ==
  ASSUME NEW t \in Text, NEW p \in Text
  PROVE  Begins(t, p) <=> Len(p) <= Len(t) /\ \A i \in 1..Len(p) : t[i] = p[i]
  BY DEF Text, Begins, IsPrefix

LEMMA LeastOf ==
  ASSUME NEW S \in SUBSET (Nat \ {0})
  PROVE  /\ Least(S) \in Nat
         /\ Least(S) = 0 <=> S = {}
         /\ S # {} => Least(S) \in S /\ \A j \in S : Least(S) <= j
<1>1. CASE S = {}
  BY <1>1 DEF Least
<1>2. CASE S # {}
  <2>1. \E m \in S : \A k \in S : m <= k
    BY <1>2, LeastNatural
  <2> QED
    BY <1>2, <2>1 DEF Least
<1> QED
  BY <1>1, <1>2

LEMMA GreatestOf ==
  ASSUME NEW n \in Nat, NEW S \in SUBSET (1..n)
  PROVE  /\ Greatest(S) = -1 <=> S = {}
         /\ S # {} => Greatest(S) \in S /\ \A j \in S : Greatest(S) >= j
<1>1. CASE S = {}
  BY <1>1 DEF Greatest
<1>2. CASE S # {}
  <2> DEFINE D == {n - i : i \in S}
  <2>1. D \in SUBSET Nat /\ D # {}
    <3>1. \A i \in S : n - i \in Nat
      OBVIOUS
    <3> QED
      BY <1>2, <3>1
  <2>2. PICK m \in D : \A k \in D : m <= k
    BY <2>1, LeastNatural
  <2>3. \E i \in S : \A j \in S : i >= j
    <3>1. PICK i \in S : m = n - i
      OBVIOUS
    <3>2. ASSUME NEW j \in S PROVE i >= j
      <4>1. m <= n - j
        BY <2>2
      <4>2. i \in Int /\ j \in Int
        BY <3>1, <3>2
      <4> QED
        BY <3>1, <4>1, <4>2
    <3> QED
      BY <3>2
  <2>4. Greatest(S) \in S /\ \A j \in S : Greatest(S) >= j
    BY <1>2, <2>3 DEF Greatest
  <2>5. -1 \notin S
    OBVIOUS
  <2> QED
    BY <1>2, <2>4, <2>5
<1> QED
  BY <1>1, <1>2

LEMMA TrimText ==
  ASSUME NEW t \in Text
  PROVE  Trim(t) \in Text /\ Len(Trim(t)) <= Len(t)
<1> DEFINE S == {i \in DOMAIN t : t[i] # " "}
<1>0. DOMAIN t = 1..Len(t) /\ Len(t) \in Nat
  BY DEF Text
<1>1. S \in SUBSET (1..Len(t)) /\ S \in SUBSET (Nat \ {0}) /\ Len(t) \in Nat
  <2>1. S \subseteq DOMAIN t
    OBVIOUS
  <2> HIDE DEF S
  <2> QED
    BY ONLY <1>0, <2>1
<1>2. CASE S = {}
  <2>1. Trim(t) = SubSeq(t, 0, -1)
    BY <1>2 DEF Trim, Least, Greatest
  <2>2. SubSeq(t, 0, -1) = <<>>
    OBVIOUS
  <2>4. Trim(t) = <<>>
    BY <2>1, <2>2
  <2>3. <<>> \in Text /\ Len(<<>>) = 0
    BY DEF Text
  <2> QED
    BY ONLY <1>0, <2>4, <2>3
<1>3. CASE S # {}
  <2>1. Least(S) \in 1..Len(t) /\ Greatest(S) \in 1..Len(t)
    <3> HIDE DEF S
    <3>1. Least(S) \in S
      BY <1>1, <1>3, LeastOf
    <3>2. Greatest(S) \in S
      BY <1>1, <1>3, GreatestOf
    <3> QED
      BY <1>1, <3>1, <3>2
  <2>2. Trim(t) = SubSeq(t, Least(S), Greatest(S))
    BY DEF Trim
  <2> HIDE DEF S
  <2> QED
    BY <1>1, <2>1, <2>2, SubText
<1> QED
  BY <1>2, <1>3

LEMMA CutsText ==
  ASSUME NEW t \in Text, NEW K \in Text, K # <<>>, NEW nested,
         NEW cut, cut = Least(Cuts(t, K, nested)), cut # 0
  PROVE  /\ cut \in 1..Len(t) /\ cut + Len(K) - 1 \in 1..Len(t)
         /\ SubSeq(t, 1, cut - 1) \in Text /\ Len(SubSeq(t, 1, cut - 1)) < Len(t)
         /\ From(t, cut + Len(K)) \in Text /\ Len(From(t, cut + Len(K))) < Len(t)
<1>1. Len(t) \in Nat /\ DOMAIN t = 1..Len(t) /\ Len(K) \in Nat \ {0}
  BY DEF Text
<1>2. Cuts(t, K, nested) \in SUBSET (1..Len(t))
  BY <1>1 DEF Cuts
<1>3. cut \in Cuts(t, K, nested) /\ cut \in 1..Len(t)
  <2>1. Cuts(t, K, nested) \in SUBSET (Nat \ {0})
    BY <1>1, <1>2
  <2> QED
    BY <1>2, <2>1, LeastOf
<1>4. From(t, cut) \in Text /\ Len(From(t, cut)) = Len(t) - cut + 1
  BY <1>1, <1>3, SubText DEF From
<1>5. Begins(From(t, cut), K)
  BY <1>3 DEF Cuts
<1>6. Len(K) <= Len(t) - cut + 1
  BY <1>4, <1>5, BeginsWith
<1>7. SubSeq(t, 1, cut - 1) \in Text /\ Len(SubSeq(t, 1, cut - 1)) < Len(t)
  BY <1>1, <1>3, SubText
<1>8. From(t, cut + Len(K)) \in Text /\ Len(From(t, cut + Len(K))) < Len(t)
  BY <1>1, <1>3, <1>6, SubText DEF From
<1>9. cut + Len(K) - 1 \in 1..Len(t)
  BY ONLY <1>1, <1>3, <1>6
<1> QED
  BY ONLY <1>3, <1>7, <1>8, <1>9

Pieces(t, K, nested) ==
  LET cut == Least(Cuts(t, K, nested))
  IN  IF cut = 0 THEN <<t>>
      ELSE <<SubSeq(t, 1, cut - 1)>> \o Split(From(t, cut + Len(K)), K, nested)

LEMMA SplitIs ==
  ASSUME NEW K \in Text, K # <<>>, NEW nested, NEW t \in Text
  PROVE  Split(t, K, nested) = Pieces(t, K, nested) /\ Split(t, K, nested) \in Seq(Text)
<1> DEFINE c(u) == Least(Cuts(u, K, nested))
           D(g) == [u \in Text |-> IF c(u) = 0 THEN <<u>>
                                   ELSE <<SubSeq(u, 1, c(u) - 1)>> \o g[From(u, c(u) + Len(K))]]
           V == Seq(Text)
           G == [Text -> V]
           F == [g \in G |-> D(g)]
           size == [u \in Text |-> Len(u)]
<1>1. size \in [Text -> Nat] /\ <<>> \in V /\ \A u \in Text : size[u] = Len(u)
  BY DEF Text
<1>2. \A u \in Text : c(u) # 0 => /\ SubSeq(u, 1, c(u) - 1) \in Text
                                  /\ From(u, c(u) + Len(K)) \in Text
                                  /\ size[From(u, c(u) + Len(K))] < size[u]
  BY <1>1, CutsText
<1> HIDE DEF size, c
<1>3. ASSUME NEW g \in G PROVE D(g) \in G
  <2>1. ASSUME NEW u \in Text, c(u) # 0
        PROVE  <<SubSeq(u, 1, c(u) - 1)>> \o g[From(u, c(u) + Len(K))] \in V
    <3>1. g[From(u, c(u) + Len(K))] \in V /\ SubSeq(u, 1, c(u) - 1) \in Text
      BY <1>2, <2>1
    <3> QED
      BY <3>1
  <2>2. \A u \in Text : <<u>> \in V
    OBVIOUS
  <2> HIDE DEF V
  <2> QED
    BY <2>1, <2>2
<1>4. F \in [G -> G] /\ \A g \in G : F[g] = D(g)
  <2> HIDE DEF D, G
  <2> QED
    BY <1>3
<1> HIDE DEF F
<1>5. ASSUME NEW g \in G, NEW h \in G, NEW u \in Text,
             \A w \in Text : size[w] < size[u] => g[w] = h[w]
      PROVE  F[g][u] = F[h][u]
  <2>1. c(u) # 0 => g[From(u, c(u) + Len(K))] = h[From(u, c(u) + Len(K))]
    BY <1>2, <1>5
  <2>2. D(g)[u] = D(h)[u]
    BY <2>1
  <2> HIDE DEF D, G
  <2> QED
    BY <1>4, <1>5, <2>2
<1>6. \E g \in G : g = F[g]
  <2>1. \A g, h \in G : \A u \in Text :
          (\A w \in Text : size[w] < size[u] => g[w] = h[w]) => F[g][u] = F[h][u]
    BY <1>5
  <2>2. Descends(F, Text, V, size)
    BY <1>1, <1>4, <2>1 DEF Descends
  <2> HIDE DEF V
  <2> QED
    BY ONLY <1>1, <2>2, Recursion
<1>7. PICK g \in G : g = D(g)
  BY <1>4, <1>6
<1> DEFINE s == CHOOSE f : f = D(f)
<1>8. s = D(s)
  <2> HIDE DEF D
  <2> QED
    BY <1>7
<1>9. \A u \in Text : Split(u, K, nested) = s[u]
  BY DEF Split, c
<1> HIDE DEF s
<1>10. \A u \in Text : s[u] = IF c(u) = 0 THEN <<u>>
                                   ELSE <<SubSeq(u, 1, c(u) - 1)>> \o s[From(u, c(u) + Len(K))]
  BY <1>8
<1>11. Split(t, K, nested) = Pieces(t, K, nested)
  <2>1. CASE c(t) = 0
    BY <1>9, <1>10, <2>1 DEF Pieces, c
  <2>2. CASE c(t) # 0
    <3>1. From(t, c(t) + Len(K)) \in Text
      BY <1>2, <2>2
    <3> QED
      BY <1>9, <1>10, <2>2, <3>1 DEF Pieces, c
  <2> QED
    BY <2>1, <2>2
<1>12. Text \subseteq {u \in Text : s[u] \in V}
  <2> DEFINE P == {u \in Text : s[u] \in V}
  <2>1. ASSUME NEW u \in Text, \A w \in Text : size[w] < size[u] => w \in P PROVE u \in P
    <3>1. CASE c(u) = 0
      <4>1. <<u>> \in Seq(Text)
        OBVIOUS
      <4> QED
        BY <1>10, <3>1, <4>1
    <3>2. CASE c(u) # 0
      <4>1. From(u, c(u) + Len(K)) \in P /\ SubSeq(u, 1, c(u) - 1) \in Text
        BY <1>2, <2>1, <3>2
      <4>2. <<SubSeq(u, 1, c(u) - 1)>> \o s[From(u, c(u) + Len(K))] \in Seq(Text)
        BY <4>1
      <4> QED
        BY <1>10, <3>2, <4>2
    <3> QED
      BY <3>1, <3>2
  <2>2. size \in [Text -> Nat]
    BY <1>1
  <2> HIDE DEF P, size
  <2>3. Inherits(P, Text, size)
    BY ONLY <2>1, <2>2 DEF Inherits
  <2>4. Text \subseteq P
    BY ONLY <2>3, BySize
  <2> QED
    BY <2>4 DEF P
<1> QED
  BY <1>9, <1>11, <1>12

\* What a text is cut into is shorter, if it is cut.
LEMMA SplitParts ==
  ASSUME NEW K \in Text, K # <<>>, NEW nested, NEW t \in Text
  PROVE  \A i \in DOMAIN Split(t, K, nested) :
           /\ Split(t, K, nested)[i] \in Text
           /\ Len(Split(t, K, nested)[i]) <= Len(t)
           /\ Len(Split(t, K, nested)) > 1 => Len(Split(t, K, nested)[i]) < Len(t)
<1> DEFINE size == [u \in Text |-> Len(u)]
           S(u) == Split(u, K, nested)
           P == {u \in Text : \A i \in DOMAIN S(u) : Len(S(u)[i]) <= Len(u) /\ (Len(S(u)) > 1 => Len(S(u)[i]) < Len(u))}
<1>1. size \in [Text -> Nat] /\ \A u \in Text : size[u] = Len(u)
  BY DEF Text
<1>2. \A u \in Text : S(u) = Pieces(u, K, nested) /\ S(u) \in Seq(Text)
  BY SplitIs
<1>3. ASSUME NEW u \in Text, \A w \in Text : size[w] < size[u] => w \in P PROVE u \in P
  <2> DEFINE cut == Least(Cuts(u, K, nested))
  <2>1. CASE cut = 0
    <3>1. S(u) = <<u>>
      BY <1>2, <2>1 DEF Pieces
    <3> HIDE DEF S
    <3>2. DOMAIN S(u) = {1} /\ Len(S(u)) = 1 /\ S(u)[1] = u
      BY <3>1
    <3>3. Len(u) \in Nat /\ \A i \in DOMAIN S(u) : i = 1
      BY <1>1, <3>2
    <3>4. \A i \in DOMAIN S(u) : Len(S(u)[i]) <= Len(u) /\ ~ Len(S(u)) > 1
      BY ONLY <3>2, <3>3
    <3> QED
      BY ONLY <3>4, u \in Text
  <2>2. CASE cut # 0
    <3> DEFINE p == SubSeq(u, 1, cut - 1)
               q == From(u, cut + Len(K))
    <3>1. p \in Text /\ Len(p) < Len(u) /\ q \in Text /\ Len(q) < Len(u)
      BY <2>2, CutsText
    <3>2. S(u) = <<p>> \o S(q)
      BY <1>2, <2>2 DEF Pieces
    <3>3. q \in P /\ S(q) \in Seq(Text)
      BY <1>1, <1>2, <1>3, <3>1
    <3> HIDE DEF S, p, q, cut
    <3>6. Len(p) \in Nat /\ Len(q) \in Nat /\ Len(u) \in Nat /\ \A i \in DOMAIN S(q) : Len(S(q)[i]) \in Nat
      BY <3>1, <3>3 DEF Text
    <3>4. ASSUME NEW i \in DOMAIN S(u) PROVE Len(S(u)[i]) < Len(u)
      <4>1. i \in 1..(1 + Len(S(q))) /\ Len(S(q)) \in Nat /\ DOMAIN S(q) = 1..Len(S(q))
        BY <3>1, <3>2, <3>3
      <4>2. CASE i = 1
        <5>1. S(u)[i] = p
          BY <3>1, <3>2, <3>3, <4>2
        <5> QED
          BY <3>1, <5>1
      <4>3. CASE i # 1
        <5>1. S(u)[i] = S(q)[i - 1] /\ i - 1 \in DOMAIN S(q)
          BY <3>1, <3>2, <3>3, <4>1, <4>3
        <5>2. Len(S(q)[i - 1]) <= Len(q)
          BY <3>3, <5>1
        <5> QED
          BY <3>1, <3>6, <5>1, <5>2
      <4> QED
        BY <4>2, <4>3
    <3>5. \A i \in DOMAIN S(u) : Len(S(u)[i]) <= Len(u)
      <4>1. ASSUME NEW i \in DOMAIN S(u) PROVE S(u)[i] \in Text
        BY <1>2
      <4> QED
        BY <3>4, <3>6, <4>1 DEF Text
    <3> QED
      BY <3>4, <3>5
  <2> QED
    BY <2>1, <2>2
<1>4. t \in P
  <2> HIDE DEF P, size
  <2>1. Inherits(P, Text, size)
    BY ONLY <1>1, <1>3 DEF Inherits
  <2>2. Text \subseteq P
    BY ONLY <2>1, BySize
  <2> QED
    BY <2>2
<1>5. ASSUME NEW i \in DOMAIN S(t) PROVE S(t)[i] \in Text
  BY <1>2
<1> QED
  BY <1>4, <1>5

LEMMA RecodedText ==
  ASSUME NEW t \in Text
  PROVE  Recoded(t) \in Text /\ DOMAIN Recoded(t) = DOMAIN t /\ Len(Recoded(t)) = Len(t)
<1>1. DOMAIN t = 1..Len(t) /\ Len(t) \in Nat
  BY DEF Text
<1>2. \A i \in 1..Len(t) : (IF t[i] \in DOMAIN Recode THEN Recode[t[i]] ELSE t[i]) \in Token
  BY TokenAssumption DEF Text
<1>3. Recoded(t) = [i \in 1..Len(t) |-> IF t[i] \in DOMAIN Recode THEN Recode[t[i]] ELSE t[i]]
  BY <1>1 DEF Recoded
<1> QED
  BY <1>1, <1>2, <1>3 DEF Text

\* The pieces between keywords, or between commas.
LEMMA KeywordParts ==
  ASSUME NEW K \in Text, K # <<>>, NEW t \in Text
  PROVE  /\ splitAtKeyword(t, K) \in Seq(Text)
         /\ DOMAIN splitAtKeyword(t, K) = DOMAIN Split(t, K, TRUE)
         /\ DOMAIN splitAtKeyword(t, K) = 1..Len(splitAtKeyword(t, K))
         /\ Len(splitAtKeyword(t, K)) = Len(Split(t, K, TRUE))
         /\ Len(splitAtKeyword(t, K)) \in Nat
         /\ \A i \in DOMAIN splitAtKeyword(t, K) :
              /\ splitAtKeyword(t, K)[i] = Recoded(Split(t, K, TRUE)[i])
              /\ splitAtKeyword(t, K)[i] \in Text
              /\ Len(splitAtKeyword(t, K)) > 1 => Len(splitAtKeyword(t, K)[i]) < Len(t)
<1> DEFINE p == Split(t, K, TRUE)
<1>1. p \in Seq(Text)
  BY SplitIs
<1>2. \A i \in DOMAIN p : p[i] \in Text /\ (Len(p) > 1 => Len(p[i]) < Len(t))
  BY SplitParts
<1>3. splitAtKeyword(t, K) = [i \in DOMAIN p |-> Recoded(p[i])]
  BY DEF splitAtKeyword
<1> HIDE DEF p
<1>4. DOMAIN p = 1..Len(p) /\ Len(p) \in Nat
  BY <1>1
<1>5. \A i \in DOMAIN p : Recoded(p[i]) \in Text /\ Len(Recoded(p[i])) = Len(p[i])
  BY <1>2, RecodedText
<1>6. /\ splitAtKeyword(t, K) \in Seq(Text)
      /\ DOMAIN splitAtKeyword(t, K) = DOMAIN p /\ Len(splitAtKeyword(t, K)) = Len(p)
  BY <1>3, <1>4, <1>5
<1>7. \A i \in DOMAIN p : splitAtKeyword(t, K)[i] = Recoded(p[i])
  BY <1>3
<1> HIDE DEF splitAtKeyword
<1>8. \A i \in DOMAIN p : /\ splitAtKeyword(t, K)[i] \in Text
                          /\ Len(p) > 1 => Len(splitAtKeyword(t, K)[i]) < Len(t)
  BY <1>2, <1>5, <1>7
<1> QED
  BY <1>4, <1>6, <1>7, <1>8 DEF p

LEMMA ItemParts ==
  ASSUME NEW t \in Text
  PROVE  /\ splitListItems(t) = Split(t, <<",">>, FALSE) /\ splitListItems(t) \in Seq(Text)
         /\ \A i \in DOMAIN splitListItems(t) :
              splitListItems(t)[i] \in Text /\ Len(splitListItems(t)[i]) <= Len(t)
<1>1. <<",">> \in Text /\ <<",">> # <<>>
  <2>1. "," \in Token
    BY TokenAssumption, Zenon DEF Characters
  <2>2. \A a \in Token : <<a>> \in Text /\ <<a>> # <<>>
    BY DEF Text
  <2> QED
    BY <2>1, <2>2, Zenon
<1>2. splitListItems(t) = Split(t, <<",">>, FALSE)
  BY DEF splitListItems
<1>3. Split(t, <<",">>, FALSE) \in Seq(Text)
  BY <1>1, SplitIs
<1>4. \A i \in DOMAIN Split(t, <<",">>, FALSE) :
        /\ Split(t, <<",">>, FALSE)[i] \in Text
        /\ Len(Split(t, <<",">>, FALSE)[i]) <= Len(t)
  BY <1>1, SplitParts
<1> QED
  BY <1>2, <1>3, <1>4

-----------------------------------------------------------------------------
(* The parser. *)

Result == {Error, Panic} \cup {Condition(h) : h \in [Context -> BOOLEAN]}

LEMMA ErrorIs ==
  /\ Error.ok = FALSE /\ Error.panicked = FALSE /\ Error.holds = [d \in Context |-> FALSE]
  /\ Panic.ok = FALSE /\ Panic.panicked = TRUE /\ Panic.holds = [d \in Context |-> FALSE]
  BY DEF Error, Panic, Failure

LEMMA ConditionIs ==
  \A h : Condition(h).ok = TRUE /\ Condition(h).panicked = FALSE /\ Condition(h).holds = h
  BY DEF Condition

LEMMA ResultIs ==
  ASSUME NEW r \in Result
  PROVE  /\ r.ok \in BOOLEAN /\ r.panicked \in BOOLEAN /\ r.holds \in [Context -> BOOLEAN]
         /\ ~ r.ok => r \in {Error, Panic}
         /\ r.ok => ~ r.panicked /\ r = Condition(r.holds)
<1>1. CASE r \in {Error, Panic}
  <2>1. [d \in Context |-> FALSE] \in [Context -> BOOLEAN]
    OBVIOUS
  <2> QED
    BY <1>1, <2>1, ErrorIs
<1>2. CASE \E h \in [Context -> BOOLEAN] : r = Condition(h)
  BY <1>2, ConditionIs
<1> QED
  BY <1>1, <1>2 DEF Result

LEMMA CompareAnswers ==
  ASSUME NEW k, NEW v, NEW w
  PROVE  Compare(k, v, w) \in BOOLEAN
<1>1. /\ compareEqual(v, w) \in BOOLEAN /\ compareLess(v, w) \in BOOLEAN
      /\ compareGreater(v, w) \in BOOLEAN /\ compareIn(v, w) \in BOOLEAN
      /\ compareMatches(v, w) \in BOOLEAN
  BY Zenon DEF compareEqual, compareLess, compareGreater, compareIn, compareMatches
<1> QED
  BY <1>1 DEF Compare

LEMMA Results ==
  /\ Error \in Result /\ Panic \in Result
  /\ \A h \in [Context -> BOOLEAN] : Condition(h) \in Result
  /\ \A f, k, v : FieldCondition(f, k, v) \in Result
  /\ \A c \in Result : NotCondition(c) \in Result
<1>1. Error \in Result /\ Panic \in Result
  BY DEF Result
<1>2. \A h \in [Context -> BOOLEAN] : Condition(h) \in Result
  BY DEF Result
<1>3. \A f, k, v : FieldCondition(f, k, v) \in Result
  <2> TAKE f, k, v
  <2>1. [c \in Context |-> Compare(k, GetFieldValue(c, f), v)] \in [Context -> BOOLEAN]
    BY CompareAnswers
  <2> QED
    BY <1>2, <2>1 DEF FieldCondition
<1>4. \A c \in Result : NotCondition(c) \in Result
  <2> TAKE c \in Result
  <2>1. [d \in Context |-> ~ c.holds[d]] \in [Context -> BOOLEAN]
    OBVIOUS
  <2> QED
    BY <1>1, <1>2, <2>1 DEF NotCondition
<1> QED
  BY <1>1, <1>2, <1>3, <1>4

LEMMA JoinedResult ==
  ASSUME NEW kind, NEW of, DOMAIN of \subseteq Nat \ {0}, \A i \in DOMAIN of : of[i] \in Result
  PROVE  Joined(kind, of) \in Result
<1> DEFINE failing == {i \in DOMAIN of : ~ of[i].ok}
<1>1. [d \in Context |-> IF kind = "or" THEN \E i \in DOMAIN of : of[i].holds[d]
                         ELSE \A i \in DOMAIN of : of[i].holds[d]] \in [Context -> BOOLEAN]
  BY Zenon
<1>2. ASSUME failing # {} PROVE of[Least(failing)] \in Result
  <2>1. failing \in SUBSET (Nat \ {0}) /\ failing \subseteq DOMAIN of
    OBVIOUS
  <2> HIDE DEF failing
  <2>2. Least(failing) \in failing
    BY <1>2, <2>1, LeastOf
  <2> QED
    BY <2>1, <2>2
<1> QED
  BY <1>1, <1>2, Results DEF Joined

\* panics, with the answers for the items of a list from g.
PanicsBy(g, input) ==
  LET text  == Trim(input)
      parts == splitListItems(Inner(text))
  IN  IF Between(text, "[", "]") THEN \E i \in DOMAIN parts : g[parts[i]]
      ELSE Len(text) = 1 /\ Head(text) \in Quote

LEMMA PanicsByShorter ==
  ASSUME NEW g, NEW h, NEW t \in Text,
         \A u \in Text : Len(u) < Len(t) => g[u] = h[u]
  PROVE  PanicsBy(g, t) = PanicsBy(h, t)
<1> DEFINE text == Trim(t)
           parts == splitListItems(Inner(text))
<1>1. text \in Text /\ Len(text) \in Nat /\ Len(t) \in Nat /\ Len(text) <= Len(t)
  BY TrimText DEF Text
<1>2. ASSUME Between(text, "[", "]"), NEW i \in DOMAIN parts PROVE g[parts[i]] = h[parts[i]]
  <2>1. Len(text) > 1
    BY <1>2 DEF Between
  <2>2. Inner(text) \in Text /\ Len(Inner(text)) < Len(text)
    BY <1>1, <2>1, SubText DEF Inner
  <2>3. parts[i] \in Text /\ Len(parts[i]) <= Len(Inner(text))
    BY <1>2, <2>2, ItemParts
  <2> HIDE DEF parts, text
  <2>4. Len(Inner(text)) \in Nat /\ Len(parts[i]) \in Nat
    BY <2>2, <2>3 DEF Text
  <2> QED
    BY <1>1, <2>2, <2>3, <2>4
<1>3. CASE Between(text, "[", "]")
  BY <1>2, <1>3 DEF PanicsBy
<1>4. CASE ~ Between(text, "[", "]")
  BY <1>4 DEF PanicsBy
<1> QED
  BY <1>3, <1>4

\* Whether the parser panics is settled for every text.
LEMMA PanicsIs ==
  /\ panics \in [Text -> BOOLEAN]
  /\ \A t \in Text : panics[t] = PanicsBy(panics, t)
<1> DEFINE D(g) == [t \in Text |-> PanicsBy(g, t)]
           G == [Text -> BOOLEAN]
           F == [g \in G |-> D(g)]
           size == [u \in Text |-> Len(u)]
<1>1. size \in [Text -> Nat] /\ \A u \in Text : size[u] = Len(u)
  BY DEF Text
<1> HIDE DEF size
<1>0. \A g, t : PanicsBy(g, t) \in BOOLEAN
  BY Zenon DEF PanicsBy
<1>2. F \in [G -> G] /\ \A g \in G : F[g] = D(g)
  <2>1. \A g \in G : D(g) \in G
    BY <1>0
  <2> HIDE DEF D, G
  <2> QED
    BY <2>1
<1> HIDE DEF F
<1>3. \A g, h \in G : \A t \in Text :
        (\A u \in Text : size[u] < size[t] => g[u] = h[u]) => F[g][t] = F[h][t]
  <2> SUFFICES ASSUME NEW g \in G, NEW h \in G, NEW t \in Text,
                      \A u \in Text : size[u] < size[t] => g[u] = h[u]
               PROVE  F[g][t] = F[h][t]
    OBVIOUS
  <2>1. \A u \in Text : Len(u) < Len(t) => g[u] = h[u]
    BY <1>1
  <2>2. PanicsBy(g, t) = PanicsBy(h, t)
    BY <2>1, PanicsByShorter
  <2>3. D(g)[t] = D(h)[t]
    BY <2>2
  <2> HIDE DEF D, G
  <2> QED
    BY <1>2, <2>3
<1>4. Descends(F, Text, BOOLEAN, size)
  BY <1>1, <1>2, <1>3 DEF Descends
<1>5. \E g \in G : g = F[g]
  <2>1. \A V, v : v \in V /\ Descends(F, Text, V, size) => \E g \in [Text -> V] : g = F[g]
    BY ONLY Recursion
  <2>2. TRUE \in BOOLEAN
    OBVIOUS
  <2> QED
    BY ONLY <1>4, <2>1, <2>2, Zenon DEF G
<1>6. PICK g \in G : g = D(g)
  BY <1>2, <1>5
<1> DEFINE s == CHOOSE f : f = D(f)
<1>7. s = D(s)
  <2> HIDE DEF D
  <2> QED
    BY <1>6
<1>8. panics = s
  BY DEF panics, PanicsBy
<1> HIDE DEF s
<1>9. panics = [t \in Text |-> PanicsBy(panics, t)]
  BY <1>7, <1>8
<1> QED
  BY <1>0, <1>9

LEMMA ComparisonResult ==
  ASSUME NEW t
  PROVE  parseComparison(t) \in Result
  BY Results DEF parseComparison, Comparison

\* parseCondition, with the answers for the parts from g.
ConditionBy(g, input) ==
  LET text         == Trim(input)
      first        == splitAtKeyword(text, Keywords[1].text)
      second       == splitAtKeyword(text, Keywords[2].text)
      Parts(parts) == [i \in DOMAIN parts |-> g[parts[i]]]
  IN  IF Len(first) > 1 THEN Joined(Keywords[1].kind, Parts(first))
      ELSE IF Len(second) > 1 THEN Joined(Keywords[2].kind, Parts(second))
      ELSE IF Begins(text, <<"NOT", " ">>) THEN NotCondition(g[From(text, 3)])
      ELSE IF Between(text, "(", ")") THEN g[Inner(text)]
      ELSE parseComparison(text)

LEMMA Words ==
  /\ \A a \in Token : <<a>> \in Text
  /\ \A a, b \in Token : <<a, b>> \in Text
  /\ \A a, b, c \in Token : <<a, b, c>> \in Text
  /\ \A a, b, c, d \in Token : <<a, b, c, d>> \in Text
  BY DEF Text

LEMMA KeywordsAre ==
  \A k \in {1, 2} : Keywords[k].text \in Text /\ Keywords[k].text # <<>>
<1>1. /\ Keywords[1].text = <<" ", "OR", " ">> /\ Keywords[2].text = <<" ", "AND", " ">>
      /\ Keywords[1].kind = "or" /\ Keywords[2].kind = "and"
  BY DEF Keywords
<1>2. <<" ", "OR", " ">> \in Text /\ <<" ", "AND", " ">> \in Text
  BY Words, TokenAssumption DEF Characters, Reserved
<1>3. <<" ", "OR", " ">> # <<>> /\ <<" ", "AND", " ">> # <<>>
  OBVIOUS
<1> QED
  BY <1>1, <1>2, <1>3

LEMMA ConditionByResult ==
  ASSUME NEW g \in [Text -> Result], NEW t \in Text
  PROVE  ConditionBy(g, t) \in Result
<1> DEFINE text == Trim(t)
<1>1. text \in Text /\ Len(text) \in Nat
  BY TrimText DEF Text
<1>2. ASSUME Begins(text, <<"NOT", " ">>) PROVE NotCondition(g[From(text, 3)]) \in Result
  <2>1. From(text, 3) \in Text
    <3> HIDE DEF text
    <3> QED
      BY <1>1, SubText DEF From
  <2> QED
    BY <2>1, Results
<1>3. ASSUME Between(text, "(", ")") PROVE g[Inner(text)] \in Result
  <2>1. Inner(text) \in Text
    BY <1>1, SubText DEF Inner
  <2> QED
    BY <2>1
<1>4. ASSUME NEW k \in {1, 2}, NEW kind
      PROVE  Joined(kind, [i \in DOMAIN splitAtKeyword(text, Keywords[k].text) |->
                             g[splitAtKeyword(text, Keywords[k].text)[i]]]) \in Result
  <2> HIDE DEF text
  <2> DEFINE p == splitAtKeyword(text, Keywords[k].text)
             of == [i \in DOMAIN p |-> g[p[i]]]
  <2>1. /\ p \in Seq(Text) /\ DOMAIN p = 1..Len(p) /\ Len(p) \in Nat
        /\ \A i \in DOMAIN p : p[i] \in Text
    BY <1>1, KeywordsAre, KeywordParts
  <2> HIDE DEF p
  <2>2. DOMAIN of \subseteq Nat \ {0} /\ \A i \in DOMAIN of : of[i] \in Result
    BY <2>1
  <2> HIDE DEF of
  <2>3. Joined(kind, of) \in Result
    BY <2>2, JoinedResult
  <2> QED
    BY <2>3 DEF of, p
<1> HIDE DEF text
<1> QED
  BY <1>2, <1>3, <1>4, ComparisonResult DEF ConditionBy, text

\* The answer for a text depends on those for shorter texts.
LEMMA ConditionByShorter ==
  ASSUME NEW g, NEW h, NEW t \in Text,
         \A u \in Text : Len(u) < Len(t) => g[u] = h[u]
  PROVE  ConditionBy(g, t) = ConditionBy(h, t)
<1> DEFINE text == Trim(t)
           Of(k) == splitAtKeyword(text, Keywords[k].text)
<1>1. text \in Text /\ Len(text) \in Nat /\ Len(t) \in Nat /\ Len(text) <= Len(t)
  BY TrimText DEF Text
<1>2. ASSUME NEW k \in {1, 2}, Len(Of(k)) > 1
      PROVE  [i \in DOMAIN Of(k) |-> g[Of(k)[i]]] = [i \in DOMAIN Of(k) |-> h[Of(k)[i]]]
  <2>1. ASSUME NEW i \in DOMAIN Of(k) PROVE g[Of(k)[i]] = h[Of(k)[i]]
    <3>1. Of(k)[i] \in Text /\ Len(Of(k)[i]) < Len(text)
      BY <1>1, <1>2, KeywordsAre, KeywordParts
    <3> HIDE DEF text, Of
    <3>2. Len(Of(k)[i]) \in Nat
      BY <3>1 DEF Text
    <3> QED
      BY <1>1, <3>1, <3>2
  <2> HIDE DEF Of
  <2> QED
    BY <2>1
<1>3. ASSUME Begins(text, <<"NOT", " ">>) PROVE g[From(text, 3)] = h[From(text, 3)]
  <2>1. Len(text) >= 2
    <3>1. <<"NOT", " ">> \in Text
      BY Words, TokenAssumption DEF Characters, Reserved
    <3> QED
      BY <1>1, <1>3, <3>1, BeginsWith
  <2>2. From(text, 3) \in Text /\ Len(From(text, 3)) < Len(text)
    BY <1>1, <2>1, SubText DEF From
  <2>3. Len(From(text, 3)) \in Nat
    BY <2>2 DEF Text
  <2> HIDE DEF text
  <2> QED
    BY <1>1, <2>2, <2>3
<1>4. ASSUME Between(text, "(", ")") PROVE g[Inner(text)] = h[Inner(text)]
  <2>1. Len(text) > 1
    BY <1>4 DEF Between
  <2>2. Inner(text) \in Text /\ Len(Inner(text)) < Len(text)
    BY <1>1, <2>1, SubText DEF Inner
  <2>3. Len(Inner(text)) \in Nat
    BY <2>2 DEF Text
  <2> HIDE DEF text
  <2> QED
    BY <1>1, <2>2, <2>3
<1>5. CASE Len(Of(1)) > 1
  BY <1>2, <1>5 DEF ConditionBy
<1>6. CASE ~ Len(Of(1)) > 1 /\ Len(Of(2)) > 1
  BY <1>2, <1>6 DEF ConditionBy
<1>7. CASE ~ Len(Of(1)) > 1 /\ ~ Len(Of(2)) > 1
  BY <1>3, <1>4, <1>7 DEF ConditionBy
<1> QED
  BY <1>5, <1>6, <1>7

\* parseCondition ends on every text, well formed or not, with a condition, an error or
\* the panic of a lone quote, and the only parts of a text that it parses are shorter than
\* it (parser.go:127-240).
THEOREM ParserEnds ==
  /\ parseCondition \in [Text -> Result]
  /\ \A t \in Text : parseCondition[t] = ConditionBy(parseCondition, t)
<1> DEFINE D(g) == [t \in Text |-> ConditionBy(g, t)]
           G == [Text -> Result]
           F == [g \in G |-> D(g)]
           size == [u \in Text |-> Len(u)]
<1>1. size \in [Text -> Nat] /\ \A u \in Text : size[u] = Len(u)
  BY DEF Text
<1> HIDE DEF size
<1>2. F \in [G -> G] /\ \A g \in G : F[g] = D(g)
  <2>1. \A g \in G : D(g) \in G
    BY ConditionByResult
  <2> HIDE DEF D, G
  <2> QED
    BY <2>1
<1> HIDE DEF F
<1>3. \A g, h \in G : \A t \in Text :
        (\A u \in Text : size[u] < size[t] => g[u] = h[u]) => F[g][t] = F[h][t]
  <2> SUFFICES ASSUME NEW g \in G, NEW h \in G, NEW t \in Text,
                      \A u \in Text : size[u] < size[t] => g[u] = h[u]
               PROVE  F[g][t] = F[h][t]
    OBVIOUS
  <2>1. \A u \in Text : Len(u) < Len(t) => g[u] = h[u]
    BY <1>1
  <2>2. ConditionBy(g, t) = ConditionBy(h, t)
    BY <2>1, ConditionByShorter
  <2>3. D(g)[t] = D(h)[t]
    BY <2>2
  <2> HIDE DEF D, G
  <2> QED
    BY <1>2, <2>3
<1>4. Descends(F, Text, Result, size)
  BY <1>1, <1>2, <1>3 DEF Descends
<1>5. \E g \in G : g = F[g]
  <2>1. Error \in Result
    BY Results
  <2> QED
    BY ONLY <1>4, <2>1, Recursion
<1>6. PICK g \in G : g = D(g)
  BY <1>2, <1>5
<1> DEFINE s == CHOOSE f : f = D(f)
<1>7. s = D(s)
  <2> HIDE DEF D
  <2> QED
    BY <1>6
<1>8. parseCondition = s
  BY DEF parseCondition, ConditionBy
<1> HIDE DEF s
<1>9. \A t \in Text : parseCondition[t] = ConditionBy(parseCondition, t)
  BY <1>7, <1>8
<1>10. parseCondition = [t \in Text |-> parseCondition[t]]
  BY <1>7, <1>8
<1> DEFINE P == {t \in Text : parseCondition[t] \in Result}
<1>11. \A t \in Text : (\A u \in Text : size[u] < size[t] => u \in P) => t \in P
  <2> SUFFICES ASSUME NEW t \in Text, \A u \in Text : size[u] < size[t] => u \in P
               PROVE  t \in P
    OBVIOUS
  <2> DEFINE g2 == [u \in Text |-> IF u \in P THEN parseCondition[u] ELSE Error]
  <2>1. g2 \in [Text -> Result]
    BY Results
  <2>2. \A u \in Text : Len(u) < Len(t) => parseCondition[u] = g2[u]
    BY <1>1
  <2> HIDE DEF g2
  <2>3. ConditionBy(parseCondition, t) = ConditionBy(g2, t)
    BY <2>2, ConditionByShorter
  <2>4. ConditionBy(g2, t) \in Result
    BY <2>1, ConditionByResult
  <2> QED
    BY <1>9, <2>3, <2>4
<1>12. Text \subseteq P
  <2>1. size \in [Text -> Nat]
    BY <1>1
  <2> HIDE DEF P, size
  <2>2. Inherits(P, Text, size)
    BY ONLY <1>11, <2>1 DEF Inherits
  <2> QED
    BY ONLY <2>2, BySize
<1> QED
  BY <1>9, <1>10, <1>12

-----------------------------------------------------------------------------
(* What may be written is a text. *)

LEMMA Tokens == Characters \subseteq Token /\ Reserved \subseteq Token /\ Field \subseteq Token
  BY TokenAssumption, WritingAssumption

LEMMA ConcatText ==
  ASSUME NEW s \in Text, NEW t \in Text
  PROVE  /\ s \o t \in Text /\ Len(s \o t) = Len(s) + Len(t)
         /\ \A i \in 1..Len(s) : (s \o t)[i] = s[i]
         /\ \A i \in 1..Len(t) : (s \o t)[Len(s) + i] = t[i]
  BY DEF Text

LEMMA TextIs ==
  ASSUME NEW t \in Text
  PROVE  Len(t) \in Nat /\ DOMAIN t = 1..Len(t) /\ \A i \in 1..Len(t) : t[i] \in Token
  BY DEF Text

LEMMA FromText ==
  ASSUME NEW t \in Text, NEW m \in Nat \ {0}
  PROVE  /\ From(t, m) \in Text
         /\ Len(From(t, m)) = IF m <= Len(t) THEN Len(t) - m + 1 ELSE 0
         /\ \A i \in 1..(Len(t) - m + 1) : From(t, m)[i] = t[m + i - 1]
  BY TextIs, SubText DEF From

LEMMA EmptyText == <<>> \in Text /\ Len(<<>>) = 0
  BY DEF Text

LEMMA ComparatorsAre ==
  /\ DOMAIN Comparators = 1..9
  /\ Comparators[1].name = "NOT IN" /\ Comparators[1].text = <<"NOT", " ", "IN">>
  /\ Comparators[2].name = "IN" /\ Comparators[2].text = <<"IN">>
  /\ Comparators[3].name = "MATCHES" /\ Comparators[3].text = <<"MATCHES">>
  /\ Comparators[4].name = "!=" /\ Comparators[4].text = <<"!", "=">>
  /\ Comparators[5].name = "<=" /\ Comparators[5].text = <<"<", "=">>
  /\ Comparators[6].name = ">=" /\ Comparators[6].text = <<">", "=">>
  /\ Comparators[7].name = "=" /\ Comparators[7].text = <<"=">>
  /\ Comparators[8].name = "<" /\ Comparators[8].text = <<"<">>
  /\ Comparators[9].name = ">" /\ Comparators[9].text = <<">">>
<1>1. Comparators[1].name = "NOT IN" /\ Comparators[1].text = <<"NOT", " ", "IN">>
  BY DEF Comparators, Comparator
<1>2. Comparators[2].name = "IN" /\ Comparators[2].text = <<"IN">>
  BY DEF Comparators, Comparator
<1>3. Comparators[3].name = "MATCHES" /\ Comparators[3].text = <<"MATCHES">>
  BY DEF Comparators, Comparator
<1>4. Comparators[4].name = "!=" /\ Comparators[4].text = <<"!", "=">>
  BY DEF Comparators, Comparator
<1>5. Comparators[5].name = "<=" /\ Comparators[5].text = <<"<", "=">>
  BY DEF Comparators, Comparator
<1>6. Comparators[6].name = ">=" /\ Comparators[6].text = <<">", "=">>
  BY DEF Comparators, Comparator
<1>7. Comparators[7].name = "=" /\ Comparators[7].text = <<"=">>
  BY DEF Comparators, Comparator
<1>8. Comparators[8].name = "<" /\ Comparators[8].text = <<"<">>
  BY DEF Comparators, Comparator
<1>9. Comparators[9].name = ">" /\ Comparators[9].text = <<">">>
  BY DEF Comparators, Comparator
<1>10. DOMAIN Comparators = 1..9
  BY DEF Comparators
<1> QED
  BY <1>1, <1>2, <1>3, <1>4, <1>5, <1>6, <1>7, <1>8, <1>9, <1>10

LEMMA ComparatorTexts ==
  \A k \in DOMAIN Comparators : Comparators[k].text \in Text
<1>1. /\ <<"NOT", " ", "IN">> \in Text /\ <<"IN">> \in Text /\ <<"MATCHES">> \in Text
      /\ <<"!", "=">> \in Text /\ <<"<", "=">> \in Text /\ <<">", "=">> \in Text
      /\ <<"=">> \in Text /\ <<"<">> \in Text /\ <<">">> \in Text
  BY Words, Tokens DEF Characters, Reserved
<1> TAKE k \in DOMAIN Comparators
<1>3. k \in 1..9
  BY ComparatorsAre
<1>4. /\ Comparators[1].text \in Text /\ Comparators[2].text \in Text
      /\ Comparators[3].text \in Text /\ Comparators[4].text \in Text
      /\ Comparators[5].text \in Text /\ Comparators[6].text \in Text
      /\ Comparators[7].text \in Text /\ Comparators[8].text \in Text
      /\ Comparators[9].text \in Text
  BY <1>1, ComparatorsAre
<1>5. \A j \in 1..9 : j = 1 \/ j = 2 \/ j = 3 \/ j = 4 \/ j = 5 \/ j = 6 \/ j = 7 \/ j = 8 \/ j = 9
  OBVIOUS
<1> QED
  BY <1>3, <1>4, <1>5

LEMMA PlaceIs ==
  ASSUME NEW name \in {Comparators[k].name : k \in DOMAIN Comparators}
  PROVE  Place(name) \in DOMAIN Comparators /\ Comparators[Place(name)].name = name
  BY DEF Place

LEMMA ScalarText ==
  ASSUME NEW v, NEW kind, CanWrite(v, kind)
  PROVE  WriteScalar(v) \in Text
<1>1. v \in Scalar /\ v.kind = kind
  BY DEF CanWrite
<1>2. CASE kind = "string"
  <2>1. v.text \in Text
    BY <1>1, <1>2 DEF Scalar
  <2>2. <<"'">> \in Text /\ <<"\"">> \in Text
    BY Words, Tokens DEF Characters
  <2>3. Quoted(v.text) \in Text
    BY <2>1, <2>2, ConcatText DEF Quoted
  <2> QED
    BY <1>1, <1>2, <2>3 DEF WriteScalar
<1>3. CASE kind = "number"
  <2>1. \E w \in DOMAIN NumberOf : NumberOf[w] = v.n
    BY <1>1, <1>3 DEF CanWrite
  <2>2. Word(v.n) \in DOMAIN NumberOf
    BY <2>1 DEF Word
  <2>3. <<Word(v.n)>> \in Text
    BY <2>2, Words, WritingAssumption
  <2> QED
    BY <1>1, <1>3, <2>3 DEF WriteScalar
<1>4. CASE kind = "bool"
  <2>1. <<"true">> \in Text /\ <<"false">> \in Text
    BY Words, Tokens DEF Reserved
  <2> QED
    BY <1>1, <1>4, <2>1 DEF WriteScalar
<1> QED
  BY <1>1, <1>2, <1>3, <1>4 DEF Scalar

ItemTexts(items) ==
  [i \in DOMAIN items |-> (IF i = 1 THEN <<>> ELSE <<",", " ">>) \o WriteScalar(items[i])]

LEMMA ItemsText ==
  ASSUME NEW v \in Value, v.kind = "list", NEW kind,
         \A i \in DOMAIN v.items : CanWrite(v.items[i], kind)
  PROVE  ItemTexts(v.items) \in Seq(Text) /\ WriteItems(v.items) \in Text
<1>1. v.items \in Seq(Scalar)
  BY DEF Value, Scalar
<1>2. DOMAIN v.items = 1..Len(v.items) /\ Len(v.items) \in Nat
  BY <1>1
<1>3. ASSUME NEW i \in DOMAIN v.items
      PROVE  (IF i = 1 THEN <<>> ELSE <<",", " ">>) \o WriteScalar(v.items[i]) \in Text
  <2>1. WriteScalar(v.items[i]) \in Text
    BY ScalarText
  <2>2. <<",", " ">> \in Text /\ <<>> \in Text
    BY Words, Tokens, EmptyText DEF Characters
  <2> QED
    BY <2>1, <2>2, ConcatText
<1>4. ItemTexts(v.items) \in Seq(Text)
  <2> DEFINE e(i) == (IF i = 1 THEN <<>> ELSE <<",", " ">>) \o WriteScalar(v.items[i])
  <2>1. \A i \in 1..Len(v.items) : e(i) \in Text
    BY <1>2, <1>3
  <2>2. ItemTexts(v.items) = [i \in 1..Len(v.items) |-> e(i)]
    BY <1>2 DEF ItemTexts
  <2> HIDE DEF e
  <2> QED
    BY <1>2, <2>1, <2>2
<1>5. FlattenSeq(ItemTexts(v.items)) \in Text
  BY <1>4, FlattenInSeq DEF Text
<1> QED
  BY <1>4, <1>5 DEF WriteItems, ItemTexts

LEMMA ValueText ==
  ASSUME NEW k, NEW f, NEW v \in Value, Fits(k, f, v)
  PROVE  WriteValue(v) \in Text
<1>1. CASE v.kind = "list"
  <2>1. ~ CanWrite(v, KindOf(f))
    BY <1>1 DEF CanWrite, Scalar
  <2>2. \A i \in DOMAIN v.items : CanWrite(v.items[i], KindOf(f))
    BY <2>1 DEF Fits
  <2>3. WriteItems(v.items) \in Text
    BY <1>1, <2>2, ItemsText
  <2>4. <<"[">> \in Text /\ <<"]">> \in Text
    BY Words, Tokens DEF Characters
  <2> QED
    BY <1>1, <2>3, <2>4, ConcatText DEF WriteValue
<1>2. CASE v.kind # "list"
  <2>1. CanWrite(v, KindOf(f))
    BY <1>2 DEF Fits
  <2> QED
    BY <1>2, <2>1, ScalarText DEF WriteValue
<1> QED
  BY <1>1, <1>2

LEMMA ComparisonText ==
  ASSUME NEW part \in Part, part.kind = "is", IsComparison(part)
  PROVE  /\ part.field \in Field /\ part.value \in Value
         /\ part.comparator \in {Comparators[k].name : k \in DOMAIN Comparators}
         /\ WriteValue(part.value) \in Text /\ WriteComparison(part) \in Text
<1>1. /\ part.field \in Field /\ part.value \in Value
      /\ part.comparator \in {Comparators[k].name : k \in DOMAIN Comparators}
  BY DEF Part
<1>2. WriteValue(part.value) \in Text
  BY <1>1, ValueText DEF IsComparison
<1>3. Comparators[Place(part.comparator)].text \in Text
  BY <1>1, PlaceIs, ComparatorTexts
<1>4. <<part.field, " ">> \in Text /\ <<" ">> \in Text
  BY <1>1, Words, Tokens DEF Characters
<1> QED
  BY <1>1, <1>2, <1>3, <1>4, ConcatText DEF WriteComparison

\* Write, with the texts of the parts from g.
Shown(g, c, brackets, i, j) ==
  IF brackets \/ Binding(c[j]) < Binding(c[i]) THEN InBrackets(g[j]) ELSE g[j]

Written(g, c, brackets, i) ==
  CASE c[i].kind = "not" -> <<"NOT", " ">> \o Shown(g, c, brackets, i, c[i].of[1])
    [] c[i].kind = "and" -> Shown(g, c, brackets, i, c[i].of[1]) \o <<" ", "AND", " ">>
                              \o Shown(g, c, brackets, i, c[i].of[2])
    [] c[i].kind = "or"  -> Shown(g, c, brackets, i, c[i].of[1]) \o <<" ", "OR", " ">>
                              \o Shown(g, c, brackets, i, c[i].of[2])
    [] c[i].kind = "is"  -> WriteComparison(c[i])
    [] OTHER             -> <<c[i].field>>

\* The parts that a part is made of come before it.
LEMMA PartIs ==
  ASSUME NEW c, IsCondition(c), NEW i \in DOMAIN c
  PROVE  /\ c[i] \in Part /\ DOMAIN c = 1..Len(c) /\ Len(c) \in Nat
         /\ c[i].kind \in {"is", "broken", "not", "and", "or"}
         /\ c[i].kind = "broken" => c[i].field \in Field
         /\ c[i].kind \in {"not", "and", "or"} => c[i].of[1] \in DOMAIN c /\ c[i].of[1] < i
         /\ c[i].kind \in {"and", "or"} => c[i].of[2] \in DOMAIN c /\ c[i].of[2] < i
<1>1. c \in Seq(Part)
  BY DEF IsCondition
<1>2. c[i] \in Part /\ DOMAIN c = 1..Len(c) /\ Len(c) \in Nat
  BY <1>1
<1>3. /\ c[i].kind \in {"is", "broken", "not", "and", "or"}
      /\ c[i].kind = "broken" => c[i].field \in Field
      /\ c[i].kind \in {"not", "and", "or"} => c[i].of \in Seq(Nat)
  BY <1>2 DEF Part
<1>4. Members(c[i]) \subseteq 1..(i - 1)
  BY DEF IsCondition
<1>5. ASSUME c[i].kind \in {"not", "and", "or"}, NEW k \in 1..Len(c[i].of)
      PROVE  c[i].of[k] \in DOMAIN c /\ c[i].of[k] < i
  <2>1. DOMAIN c[i].of = 1..Len(c[i].of)
    BY <1>3, <1>5
  <2>2. c[i].of[k] \in Members(c[i])
    BY <1>5, <2>1 DEF Members
  <2> QED
    BY <1>2, <1>4, <2>2
<1>6. /\ c[i].kind = "not" => Len(c[i].of) = 1
      /\ c[i].kind \in {"and", "or"} => Len(c[i].of) = 2
  BY DEF IsCondition
<1> QED
  BY <1>2, <1>3, <1>5, <1>6

LEMMA ShownText ==
  ASSUME NEW g, NEW c, NEW b, NEW i, NEW j, g[j] \in Text
  PROVE  Shown(g, c, b, i, j) \in Text
<1>1. <<"(">> \in Text /\ <<")">> \in Text
  BY Words, Tokens DEF Characters
<1> QED
  BY <1>1, ConcatText DEF Shown, InBrackets

LEMMA WrittenText ==
  ASSUME NEW c, IsCondition(c), NEW b, NEW g, NEW i \in DOMAIN c,
         \A j \in DOMAIN c : j < i => g[j] \in Text
  PROVE  Written(g, c, b, i) \in Text
<1>1. /\ c[i] \in Part /\ c[i].kind \in {"is", "broken", "not", "and", "or"}
      /\ c[i].kind = "broken" => c[i].field \in Field
      /\ c[i].kind \in {"not", "and", "or"} => Shown(g, c, b, i, c[i].of[1]) \in Text
      /\ c[i].kind \in {"and", "or"} => Shown(g, c, b, i, c[i].of[2]) \in Text
  BY PartIs, ShownText
<1>2. CASE c[i].kind = "is"
  <2>1. IsComparison(c[i])
    BY <1>2 DEF IsCondition
  <2> QED
    BY <1>1, <1>2, <2>1, ComparisonText DEF Written
<1>3. CASE c[i].kind = "broken"
  BY <1>1, <1>3, Words, Tokens DEF Written
<1>4. CASE c[i].kind = "not"
  <2>1. <<"NOT", " ">> \in Text
    BY Words, Tokens DEF Characters, Reserved
  <2> QED
    BY <1>1, <1>4, <2>1, ConcatText DEF Written
<1>5. CASE c[i].kind \in {"and", "or"}
  <2>1. <<" ", "AND", " ">> \in Text /\ <<" ", "OR", " ">> \in Text
    BY Words, Tokens DEF Characters, Reserved
  <2> QED
    BY <1>1, <1>5, <2>1, ConcatText DEF Written
<1> QED
  BY <1>1, <1>2, <1>3, <1>4, <1>5

LEMMA WriteIs ==
  ASSUME NEW c, IsCondition(c), NEW b
  PROVE  /\ Write(c, b) \in [DOMAIN c -> Text]
         /\ \A i \in DOMAIN c : Write(c, b)[i] = Written(Write(c, b), c, b, i)
<1> DEFINE T == DOMAIN c
           D(g) == [i \in T |-> Written(g, c, b, i)]
           G == [T -> Text]
           F == [g \in G |-> D(g)]
           size == [i \in T |-> i]
<1>1. size \in [T -> Nat] /\ \A i \in T : size[i] = i
  <2>1. T = 1..Len(c) /\ Len(c) \in Nat
    <3>1. c \in Seq(Part)
      BY DEF IsCondition
    <3> QED
      BY <3>1
  <2> QED
    BY <2>1
<1> HIDE DEF size
<1>2. F \in [G -> G] /\ \A g \in G : F[g] = D(g)
  <2>1. \A g \in G : D(g) \in G
    BY WrittenText
  <2> HIDE DEF D, G
  <2> QED
    BY <2>1
<1> HIDE DEF F
<1>3. ASSUME NEW g, NEW h, NEW i \in T, \A j \in T : j < i => g[j] = h[j]
      PROVE  Written(g, c, b, i) = Written(h, c, b, i)
  <2>1. /\ c[i].kind \in {"is", "broken", "not", "and", "or"}
        /\ c[i].kind \in {"not", "and", "or"} => g[c[i].of[1]] = h[c[i].of[1]]
        /\ c[i].kind \in {"and", "or"} => g[c[i].of[2]] = h[c[i].of[2]]
    BY <1>3, PartIs
  <2> QED
    BY <2>1 DEF Written, Shown
<1>4. \A g, h \in G : \A i \in T :
        (\A j \in T : size[j] < size[i] => g[j] = h[j]) => F[g][i] = F[h][i]
  <2> SUFFICES ASSUME NEW g \in G, NEW h \in G, NEW i \in T,
                      \A j \in T : size[j] < size[i] => g[j] = h[j]
               PROVE  F[g][i] = F[h][i]
    OBVIOUS
  <2>1. \A j \in T : j < i => g[j] = h[j]
    BY <1>1
  <2>2. D(g)[i] = D(h)[i]
    BY <2>1, <1>3
  <2> HIDE DEF D, G
  <2> QED
    BY <1>2, <2>2
<1>5. Descends(F, T, Text, size)
  BY <1>1, <1>2, <1>4 DEF Descends
<1>6. \E g \in G : g = F[g]
  <2>1. <<>> \in Text
    BY DEF Text
  <2> HIDE DEF T
  <2> QED
    BY ONLY <1>5, <2>1, Recursion
<1>7. PICK g \in G : g = D(g)
  BY <1>2, <1>6
<1> DEFINE s == CHOOSE f : f = D(f)
<1>8. s = D(s)
  <2> HIDE DEF D
  <2> QED
    BY <1>7
<1>9. Write(c, b) = s
  BY DEF Write, Written, Shown
<1> HIDE DEF s
<1>10. /\ \A i \in T : Write(c, b)[i] = Written(Write(c, b), c, b, i)
       /\ Write(c, b) = [i \in T |-> Write(c, b)[i]]
  BY <1>8, <1>9
<1> DEFINE P == {i \in T : Write(c, b)[i] \in Text}
<1>11. \A i \in T : (\A j \in T : size[j] < size[i] => j \in P) => i \in P
  BY <1>1, <1>10, WrittenText
<1>12. T \subseteq P
  <2>1. size \in [T -> Nat]
    BY <1>1
  <2> HIDE DEF P, T, size
  <2>2. Inherits(P, T, size)
    BY ONLY <1>11, <2>1 DEF Inherits
  <2> QED
    BY ONLY <2>2, BySize
<1> QED
  BY <1>10, <1>12

-----------------------------------------------------------------------------
(* Rules and decisions. *)

LEMMA LineText ==
  ASSUME NEW line, IsLine(line), NEW b
  PROVE  WriteLine(line, b) \in Text
<1>1. CASE line.kind = "rule"
  <2>1. IsCondition(line.if) /\ line.scope \in Scopes /\ line.rest \in Text
    BY <1>1 DEF IsLine, IsRest
  <2>2. <<Action(line.allow)>> \in Text
    BY Words, Tokens DEF Action, Reserved
  <2>3. (IF line.scope = "" THEN <<>> ELSE <<" ", line.scope>>) \in Text
    <3>1. line.scope = "" \/ line.scope \in Token
      BY <2>1, Tokens DEF Scopes, Reserved
    <3>2. line.scope \in Token => <<" ", line.scope>> \in Text
      BY Words, Tokens DEF Characters
    <3> QED
      BY <3>1, <3>2, EmptyText
  <2>4. (IF line.if = <<>> THEN <<>>
         ELSE <<" ", "IF", " ">> \o Write(line.if, b)[Len(line.if)]) \in Text
    <3>1. CASE line.if = <<>>
      BY <3>1, EmptyText
    <3>2. CASE line.if # <<>>
      <4>1. line.if \in Seq(Part)
        BY <2>1 DEF IsCondition
      <4>2. Len(line.if) \in DOMAIN line.if
        BY <3>2, <4>1
      <4>3. Write(line.if, b)[Len(line.if)] \in Text
        BY <2>1, <4>2, WriteIs
      <4>4. <<" ", "IF", " ">> \in Text
        BY Words, Tokens DEF Reserved, Characters
      <4> QED
        BY <3>2, <4>3, <4>4, ConcatText
    <3> QED
      BY <3>1, <3>2
  <2>5. (IF line.rest = <<>> THEN <<>> ELSE <<" ">> \o line.rest) \in Text
    <3>1. <<" ">> \in Text
      BY Words, Tokens DEF Characters
    <3> QED
      BY <2>1, <3>1, EmptyText, ConcatText
  <2> QED
    BY <1>1, <2>2, <2>3, <2>4, <2>5, ConcatText DEF WriteLine
<1>2. CASE line.kind = "default"
  <2>1. line.behavior \in Token
    BY <1>2 DEF IsLine
  <2>2. <<"DEFAULT", ":", " ", line.behavior>> \in Text
    BY <2>1, Words, Tokens DEF Reserved, Characters
  <2> QED
    BY <1>2, <2>2 DEF WriteLine
<1>3. CASE line.kind = "other"
  BY <1>3 DEF WriteLine, IsLine
<1> QED
  BY <1>1, <1>2, <1>3 DEF IsLine

IsRule(r) ==
  /\ r.isDefault \in BOOLEAN /\ r.allow \in BOOLEAN
  /\ r.scope \in Scopes
  /\ ~ r.isDefault => r.condition \in [Context -> BOOLEAN]

LEMMA RulesMade ==
  /\ \A allow \in BOOLEAN : IsRule(RulesEval!Default(allow))
  /\ \A allow \in BOOLEAN, scope \in Scopes, h \in [Context -> BOOLEAN] :
       IsRule(RulesEval!Rule(allow, scope, h))
<1>1. \A allow \in BOOLEAN : IsRule(RulesEval!Default(allow))
  <2> TAKE allow \in BOOLEAN
  <2>1. /\ RulesEval!Default(allow).isDefault = TRUE /\ RulesEval!Default(allow).allow = allow
        /\ RulesEval!Default(allow).scope = ""
    BY Zenon DEF RulesEval!Default
  <2>2. "" \in Scopes
    BY Zenon DEF Scopes
  <2> QED
    BY <2>1, <2>2, Zenon DEF IsRule
<1>2. \A allow \in BOOLEAN, scope \in Scopes, h \in [Context -> BOOLEAN] :
        IsRule(RulesEval!Rule(allow, scope, h))
  BY DEF IsRule, RulesEval!Rule
<1> QED
  BY <1>1, <1>2

LEMMA ARuleIs ==
  /\ \A r : ARule(r).ok = TRUE /\ ARule(r).panicked = FALSE /\ ARule(r).rule = r
  /\ \A p : NoRule(p).ok = FALSE /\ NoRule(p).panicked = p
  BY DEF ARule, NoRule

LEMMA ScopesAre == "" \in Scopes /\ {"EXPLORATION", "PROCESSING"} \subseteq Scopes
  BY DEF Scopes

LEMMA RuleOnMade ==
  ASSUME NEW action, NEW scope \in Scopes, NEW remaining \in Text
  PROVE  RuleOn(action, scope, remaining).ok => IsRule(RuleOn(action, scope, remaining).rule)
<1> DEFINE condition == IF Begins(remaining, <<"IF", " ">>)
                        THEN parseCondition[From(remaining, 3)] ELSE Always
<1>1. Always \in Result
  <2>1. [c \in Context |-> TRUE] \in [Context -> BOOLEAN]
    OBVIOUS
  <2> QED
    BY <2>1, Results DEF Always
<1>2. From(remaining, 3) \in Text
  BY FromText
<1>3. condition \in Result
  BY <1>1, <1>2, ParserEnds
<1>4. RuleOn(action, scope, remaining)
        = IF ~ condition.ok THEN NoRule(condition.panicked)
          ELSE ARule(RulesEval!Rule(action = "ALLOW", scope, condition.holds))
  BY DEF RuleOn
<1> HIDE DEF condition
<1>5. condition.holds \in [Context -> BOOLEAN]
  BY <1>3, ResultIs
<1>6. (action = "ALLOW") \in BOOLEAN
  OBVIOUS
<1>7. IsRule(RulesEval!Rule(action = "ALLOW", scope, condition.holds))
  BY <1>5, <1>6, RulesMade
<1> QED
  BY <1>4, <1>7, ARuleIs

LEMMA parseLineMade ==
  ASSUME NEW line \in Text, line # <<>>
  PROVE  parseLine(line).ok => IsRule(parseLine(line).rule)
<1>1. ASSUME NEW behavior PROVE DefaultOf(behavior).ok => IsRule(DefaultOf(behavior).rule)
  <2>1. (behavior = <<"ALLOW">>) \in BOOLEAN
    OBVIOUS
  <2>2. IsRule(RulesEval!Default(behavior = <<"ALLOW">>))
    BY <2>1, RulesMade
  <2>3. \/ DefaultOf(behavior) = ARule(RulesEval!Default(behavior = <<"ALLOW">>))
        \/ DefaultOf(behavior) = NoRule(FALSE)
    BY DEF DefaultOf
  <2> QED
    BY <2>2, <2>3, ARuleIs
<1>2. ASSUME NEW action, NEW rest \in Text
      PROVE  RuleOf(action, rest).ok => IsRule(RuleOf(action, rest).rule)
  <2>1. CASE rest # <<>> /\ Head(rest) \in {"EXPLORATION", "PROCESSING"}
    <3>1. Tail(rest) \in Text
      BY <2>1 DEF Text
    <3>2. Trim(Tail(rest)) \in Text
      BY <3>1, TrimText
    <3>3. RuleOf(action, rest) = RuleOn(action, Head(rest), Trim(Tail(rest)))
      BY <2>1 DEF RuleOf
    <3> QED
      BY <2>1, <3>2, <3>3, RuleOnMade, ScopesAre
  <2>2. CASE ~ (rest # <<>> /\ Head(rest) \in {"EXPLORATION", "PROCESSING"})
    <3>1. RuleOf(action, rest) = RuleOn(action, "", rest)
      BY <2>2 DEF RuleOf
    <3> QED
      BY <3>1, RuleOnMade, ScopesAre
  <2> QED
    BY <2>1, <2>2
<1>3. Trim(Tail(line)) \in Text
  <2>1. Tail(line) \in Text
    BY DEF Text
  <2> QED
    BY <2>1, TrimText
<1>4. \/ parseLine(line) = DefaultOf(Trim(From(line, Index(line, <<":">>) + 1)))
      \/ parseLine(line) = RuleOf(Head(line), Trim(Tail(line)))
      \/ parseLine(line) = NoRule(FALSE)
  <2> DEFINE g == Begins(line, <<"DEFAULT", ":">>) \/ Begins(line, <<"DEFAULT", " ", ":">>)
             h == Head(line) \in {"ALLOW", "DENY"}
             x == DefaultOf(Trim(From(line, Index(line, <<":">>) + 1)))
             y == RuleOf(Head(line), Trim(Tail(line)))
  <2>1. parseLine(line) = CASE g -> x [] h -> y [] OTHER -> NoRule(FALSE)
    BY DEF parseLine
  <2> HIDE DEF g, h, x, y
  <2>2. parseLine(line) = x \/ parseLine(line) = y \/ parseLine(line) = NoRule(FALSE)
    BY <2>1
  <2> QED
    BY <2>2 DEF x, y
<1> QED
  BY <1>1, <1>2, <1>3, <1>4, ARuleIs

Lines == [i \in DOMAIN InForce |-> WriteLine(InForce[i], meant.brackets)]

LEMMA InForceIs ==
  ASSUME meant \in [line : CommandLines, brackets : BOOLEAN]
  PROVE  IsDocument(InForce)
<1>1. /\ IsDocument(DefaultRules) /\ IsDocument(meant.line.ofFiles)
      /\ IsDocument(meant.line.ofOptions)
  BY WritingAssumption
<1> QED
  BY <1>1 DEF InForce

LEMMA ParsedMade ==
  ASSUME meant \in [line : CommandLines, brackets : BOOLEAN]
  PROVE  /\ DOMAIN Parsed.rules \subseteq DOMAIN InForce
         /\ \A i \in DOMAIN Parsed.rules : IsRule(Parsed.rules[i])
<1> DEFINE made == [i \in Kept(Lines) |-> parseLine(Trim(Lines[i]))]
<1>1. \A i \in DOMAIN Lines : Lines[i] \in Text
  BY LineText, InForceIs DEF Lines, IsDocument
<1>2. Kept(Lines) \subseteq DOMAIN InForce
  BY DEF Kept, Lines
<1>3. ASSUME NEW i \in Kept(Lines), made[i].ok PROVE IsRule(made[i].rule)
  <2>1. Trim(Lines[i]) \in Text /\ Trim(Lines[i]) # <<>>
    BY <1>1, TrimText DEF Kept
  <2> QED
    BY <1>3, <2>1, parseLineMade
<1>4. Parsed.rules = [i \in {j \in DOMAIN made : made[j].ok} |-> made[i].rule]
  BY DEF Parsed, Parse, Outcome, Lines
<1>5. DOMAIN made = Kept(Lines)
  OBVIOUS
<1> HIDE DEF made
<1> QED
  BY <1>2, <1>3, <1>4, <1>5

LEMMA FirstIs ==
  ASSUME NEW S \in SUBSET Nat, S # {}
  PROVE  RulesEval!First(S) \in S /\ \A j \in S : RulesEval!First(S) <= j
  BY LeastNatural DEF RulesEval!First

LEMMA Decides ==
  ASSUME DOMAIN rules \subseteq Nat, \A i \in DOMAIN rules : IsRule(rules[i]), NEW c, NEW scope
  PROVE  EvaluateRules(rules, c, scope) \in BOOLEAN
<1> DEFINE holding == {i \in DOMAIN rules : ~ rules[i].isDefault /\ rules[i].condition[c]}
           defaults == {i \in DOMAIN rules : rules[i].isDefault}
           applying == {i \in holding : ~ rules[i].isDefault /\ rules[i].scope \in {"", scope}}
<1>1. defaults \in SUBSET Nat /\ defaults \subseteq DOMAIN rules
      /\ applying \in SUBSET Nat /\ applying \subseteq DOMAIN rules
  OBVIOUS
<1>2. EvaluateRules(rules, c, scope) =
        IF applying # {} THEN rules[RulesEval!First(applying)].allow
        ELSE IF defaults # {} THEN rules[RulesEval!First(defaults)].allow ELSE TRUE
  BY DEF EvaluateRules, RulesEval!Decide
<1> HIDE DEF applying, defaults
<1> QED
  BY <1>1, <1>2, FirstIs DEF IsRule

LEMMA InitType == Init => TypeOK
  BY DEF Init, TypeOK, Context

LEMMA NextType ==
  ASSUME TypeOK, [Next]_vars
  PROVE  TypeOK'
<1>0. meant' = meant /\ InForce' = InForce
  BY DEF Next, ParseRules, CanExplore, CanProcess, Ask, SetDepth, Exited, vars, InForce
<1>1. /\ DOMAIN rules \subseteq Nat /\ \A i \in DOMAIN rules : IsRule(rules[i])
  <2>1. DOMAIN InForce \subseteq Nat
    BY InForceIs DEF TypeOK, IsDocument
  <2> QED
    BY <2>1 DEF TypeOK, IsRule
<1>2. CASE ParseRules
  <2>1. /\ DOMAIN Parsed.rules \subseteq DOMAIN InForce
        /\ \A i \in DOMAIN Parsed.rules : IsRule(Parsed.rules[i])
    BY ParsedMade DEF TypeOK
  <2> QED
    BY <1>0, <1>2, <2>1 DEF ParseRules, TypeOK, IsRule
<1>3. ASSUME NEW scope \in {"EXPLORATION", "PROCESSING"}, NEW c \in Context, Ask(scope, c)
      PROVE  TypeOK'
  BY <1>0, <1>1, <1>3, Decides DEF Ask, TypeOK
<1>4. CASE CanExplore \/ CanProcess
  <2>1. /\ \A s \in Shares : [ctx EXCEPT !.share = s] \in Context
        /\ \A f \in Files : [ctx EXCEPT !.file = f] \in Context
        /\ \A d \in Dirs : [ctx EXCEPT !.dir = d] \in Context
    BY DEF TypeOK, Context
  <2> QED
    BY <1>3, <1>4, <2>1 DEF CanExplore, CanProcess
<1>5. CASE SetDepth
  <2>1. \A d \in Depths : [ctx EXCEPT !.depth = d] \in Context
    BY DEF TypeOK, Context
  <2>2. /\ ctx' \in Context /\ decision' = Nothing
        /\ meant' = meant /\ pc' = pc /\ rules' = rules
    BY <1>5, <2>1 DEF SetDepth
  <2> QED
    BY <1>0, <2>2 DEF TypeOK
<1>6. CASE Exited \/ UNCHANGED vars
  BY <1>0, <1>6 DEF Exited, vars, TypeOK
<1> QED
  BY <1>2, <1>4, <1>5, <1>6 DEF Next

\* Whatever the lines are, the rules that the parser keeps are those of lines that are in
\* force, each with a condition that has an answer for every object, and CanExplore
\* and CanProcess answer yes or no (evaluator.go:107-150).
THEOREM ShareQLTypeCorrect == Spec => []TypeOK
<1>1. Init => TypeOK
  BY InitType
<1>2. TypeOK /\ [Next]_vars => TypeOK'
  BY NextType
<1> QED
  BY <1>1, <1>2, PTL DEF Spec
=============================================================================
