------------------------- MODULE ShareQLReadingProofs ------------------------
(***************************************************************************)
(* The parser of ShareQL reads what was written and the evaluator decides  *)
(* what was meant, for any words, characters, objects and documents of the *)
(* lines that IsLine admits.                                               *)
(*                                                                         *)
(* Split gives of a joined text what it gives of its two parts; from that, *)
(* values, comparisons, conditions, however they are put in brackets, and  *)
(* lines are read back: no rule is missing when a scan asks.  What a line  *)
(* was read as is then compared, part by part, with what its author means; *)
(* they differ only where toString makes one character of two numbers.     *)
(***************************************************************************)
EXTENDS ShareQLProofs

-----------------------------------------------------------------------------
(* Quotes and brackets. *)

Opening == {"(", "["}
Closing == {")", "]"}

Delta(token)     == IF token \in Opening THEN 1 ELSE IF token \in Closing THEN -1 ELSE 0
Toggle(q, token) == IF token \notin Quote THEN q ELSE IF q = "none" THEN token
                    ELSE IF q = token THEN "none" ELSE q

\* How many words of a set come before a place, and before the next.
LEMMA CountStep ==
  ASSUME NEW t \in Text, NEW B, NEW i \in 1..Len(t)
  PROVE  LET C(j) == Cardinality({k \in 1..(j - 1) : t[k] \in B})
         IN  /\ C(1) = 0 /\ C(i) \in Nat
             /\ C(i + 1) = IF t[i] \in B THEN C(i) + 1 ELSE C(i)
<1> DEFINE S(j) == {k \in 1..(j - 1) : t[k] \in B}
           C(j) == Cardinality(S(j))
<1>0. Len(t) \in Nat
  BY TextIs
<1>1. IsFiniteSet(S(i)) /\ C(i) \in Nat
  <2>1. IsFiniteSet(1..(i - 1))
    BY <1>0, FS_Interval
  <2>2. S(i) \subseteq 1..(i - 1)
    OBVIOUS
  <2> HIDE DEF S
  <2> QED
    BY <2>1, <2>2, FS_Subset, FS_CardinalityType
<1>2. C(1) = 0
  <2>1. S(1) = {}
    OBVIOUS
  <2> HIDE DEF S
  <2> QED
    BY <2>1, FS_EmptySet
<1>3. C(i + 1) = IF t[i] \in B THEN C(i) + 1 ELSE C(i)
  <2>1. (i + 1) - 1 = i /\ i \notin S(i)
    BY <1>0
  <2>2. S(i + 1) = IF t[i] \in B THEN S(i) \cup {i} ELSE S(i)
    BY <1>0, <2>1
  <2> HIDE DEF S
  <2> QED
    BY <1>1, <2>1, <2>2, FS_AddElement
<1> QED
  BY <1>1, <1>2, <1>3

\* A bracket opens or closes; any other word leaves the depth as it is.
LEMMA DepthStep ==
  ASSUME NEW t \in Text
  PROVE  /\ Depth(t, 1) = 0
         /\ \A i \in 1..Len(t) : Depth(t, i) \in Int /\ Depth(t, i + 1) = Depth(t, i) + Delta(t[i])
<1> DEFINE C(B, j) == Cardinality({k \in 1..(j - 1) : t[k] \in B})
<1>1. \A j : Depth(t, j) = C(Opening, j) - C(Closing, j)
  BY DEF Depth, Opening, Closing
<1>2. \A B : \A i \in 1..Len(t) :
        /\ C(B, 1) = 0 /\ C(B, i) \in Nat
        /\ C(B, i + 1) = IF t[i] \in B THEN C(B, i) + 1 ELSE C(B, i)
  BY CountStep
<1>3. Depth(t, 1) = 0
  <2>1. \A B : {k \in 1..(1 - 1) : t[k] \in B} = {}
    OBVIOUS
  <2>2. \A B : C(B, 1) = 0
    BY <2>1, FS_EmptySet
  <2> QED
    BY <1>1, <2>2
<1> HIDE DEF C
<1>4. ASSUME NEW i \in 1..Len(t)
      PROVE  Depth(t, i) \in Int /\ Depth(t, i + 1) = Depth(t, i) + Delta(t[i])
  <2>1. t[i] \in Opening => t[i] \notin Closing
    BY DEF Opening, Closing
  <2> QED
    BY <1>1, <1>2, <2>1 DEF Delta
<1> QED
  BY <1>3, <1>4

\* The depth is a number at each place and at the end.
LEMMA DepthInt ==
  ASSUME NEW t \in Text, NEW i \in 1..(Len(t) + 1)
  PROVE  Depth(t, i) \in Int
<1>1. Len(t) \in Nat
  BY TextIs
<1>2. CASE i \in 1..Len(t)
  BY <1>2, DepthStep
<1>3. CASE i = Len(t) + 1 /\ Len(t) = 0
  BY <1>3, DepthStep
<1>4. CASE i = Len(t) + 1 /\ Len(t) # 0
  <2>1. Len(t) \in 1..Len(t) /\ Delta(t[Len(t)]) \in Int
    BY <1>1, <1>4 DEF Delta
  <2> QED
    BY <1>4, <2>1, DepthStep
<1> QED
  BY <1>1, <1>2, <1>3, <1>4

\* A quote opens, or closes if the same one is open.
LEMMA OpenStep ==
  ASSUME NEW t \in Text
  PROVE  /\ OpenQuote(t, 1) = "none"
         /\ \A i \in 1..Len(t) : OpenQuote(t, i + 1) = Toggle(OpenQuote(t, i), t[i])
<1> DEFINE n == Len(t)
           T == 0..n
           D(g) == [k \in T |-> IF k = 0 THEN "none"
                                ELSE IF t[k] \notin Quote THEN g[k - 1]
                                ELSE IF g[k - 1] = "none" THEN t[k]
                                ELSE IF g[k - 1] = t[k] THEN "none" ELSE g[k - 1]]
           V == {"none"} \cup {t[k] : k \in T}
           G == [T -> V]
           F == [g \in G |-> D(g)]
           size == [k \in T |-> k]
<1>0. n \in Nat
  BY TextIs
<1>1. size \in [T -> Nat] /\ \A k \in T : size[k] = k
  BY <1>0
<1> HIDE DEF size
<1>2. F \in [G -> G] /\ \A g \in G : F[g] = D(g)
  <2>1. \A g \in G : D(g) \in G
    <3> SUFFICES ASSUME NEW g \in G PROVE D(g) \in G
      OBVIOUS
    <3>1. \A k \in T : k # 0 => k - 1 \in T
      BY <1>0
    <3>2. ASSUME NEW k \in T PROVE D(g)[k] \in V
      <4>1. k # 0 => g[k - 1] \in V
        BY <3>1
      <4>2. t[k] \in V /\ "none" \in V
        OBVIOUS
      <4> HIDE DEF V, T
      <4> QED
        BY <4>1, <4>2
    <3>3. D(g) = [k \in T |-> D(g)[k]]
      OBVIOUS
    <3> HIDE DEF D, V, T
    <3> QED
      BY <3>2, <3>3
  <2> HIDE DEF D, G
  <2> QED
    BY <2>1
<1> HIDE DEF F
<1>3. \A g, h \in G : \A i \in T :
        (\A j \in T : size[j] < size[i] => g[j] = h[j]) => F[g][i] = F[h][i]
  <2> SUFFICES ASSUME NEW g \in G, NEW h \in G, NEW i \in T,
                      \A j \in T : size[j] < size[i] => g[j] = h[j]
               PROVE  F[g][i] = F[h][i]
    OBVIOUS
  <2>1. i # 0 => i - 1 \in T /\ size[i - 1] < size[i]
    BY <1>0, <1>1
  <2>2. i # 0 => g[i - 1] = h[i - 1]
    BY <2>1
  <2>3. D(g)[i] = D(h)[i]
    BY <2>2
  <2> HIDE DEF D, G
  <2> QED
    BY <1>2, <2>3
<1>4. \E g \in G : g = F[g]
  <2>1. Descends(F, T, V, size)
    BY <1>1, <1>2, <1>3 DEF Descends
  <2>2. "none" \in V
    OBVIOUS
  <2> HIDE DEF V, T
  <2> QED
    BY ONLY <2>1, <2>2, Recursion
<1>5. PICK g \in G : g = D(g)
  BY <1>2, <1>4
<1> DEFINE s == CHOOSE f : f = D(f)
<1>6. s = D(s)
  <2> HIDE DEF D
  <2> QED
    BY <1>5
<1>7. \A i : OpenQuote(t, i) = s[i - 1]
  BY DEF OpenQuote
<1> HIDE DEF s
<1>8. \A k \in T : s[k] = IF k = 0 THEN "none" ELSE Toggle(s[k - 1], t[k])
  BY <1>6 DEF Toggle
<1> HIDE DEF D
<1>9. OpenQuote(t, 1) = "none"
  BY <1>0, <1>7, <1>8
<1>10. ASSUME NEW i \in 1..n PROVE OpenQuote(t, i + 1) = Toggle(OpenQuote(t, i), t[i])
  <2>1. i \in T /\ i # 0 /\ (i + 1) - 1 = i
    BY <1>0
  <2> QED
    BY <1>7, <1>8, <2>1
<1> QED
  BY <1>9, <1>10

\* The state of the scan is that of a prefix, and goes on from there.
LEMMA ScanPrefix ==
  ASSUME NEW s \in Text, NEW t \in Text, NEW i \in 1..(Len(s) + 1)
  PROVE  OpenQuote(s \o t, i) = OpenQuote(s, i) /\ Depth(s \o t, i) = Depth(s, i)
<1>0. Len(s) \in Nat /\ Len(t) \in Nat /\ s \o t \in Text /\ Len(s \o t) = Len(s) + Len(t)
      /\ \A j \in 1..Len(s) : (s \o t)[j] = s[j]
  BY TextIs, ConcatText
<1> DEFINE P == {j \in 1..(Len(s) + 1) : /\ OpenQuote(s \o t, j) = OpenQuote(s, j)
                                         /\ Depth(s \o t, j) = Depth(s, j)}
<1>1. 1 \in P
  BY <1>0, OpenStep, DepthStep
<1>2. ASSUME NEW j \in 1..i, j \in P, j < i PROVE j + 1 \in P
  <2>1. j \in 1..Len(s) /\ j \in 1..Len(s \o t) /\ j + 1 \in 1..(Len(s) + 1)
    BY <1>0, <1>2
  <2>2. /\ OpenQuote(s \o t, j + 1) = Toggle(OpenQuote(s \o t, j), (s \o t)[j])
        /\ OpenQuote(s, j + 1) = Toggle(OpenQuote(s, j), s[j])
        /\ Depth(s \o t, j + 1) = Depth(s \o t, j) + Delta((s \o t)[j])
        /\ Depth(s, j + 1) = Depth(s, j) + Delta(s[j])
    BY <1>0, <2>1, OpenStep, DepthStep
  <2> QED
    BY <1>0, <1>2, <2>1, <2>2
<1>3. i \in P
  <2>1. 1 \in Nat /\ i \in Nat /\ i \in 1..i
    BY <1>0
  <2> HIDE DEF P
  <2> QED
    BY <1>1, <1>2, <2>1, UpTo
<1> QED
  BY <1>3

\* What follows a prefix is scanned as by itself if the prefix leaves nothing open.
LEMMA ScanSuffix ==
  ASSUME NEW s \in Text, NEW t \in Text, NEW i \in 1..(Len(t) + 1)
  PROVE  /\ OpenQuote(s, Len(s) + 1) = "none" =>
              OpenQuote(s \o t, Len(s) + i) = OpenQuote(t, i)
         /\ Depth(s \o t, Len(s) + i) = Depth(s, Len(s) + 1) + Depth(t, i)
<1>0. Len(s) \in Nat /\ Len(t) \in Nat /\ s \o t \in Text /\ Len(s \o t) = Len(s) + Len(t)
      /\ \A j \in 1..Len(t) : (s \o t)[Len(s) + j] = t[j]
  BY TextIs, ConcatText
<1> DEFINE n == Len(s)
           d == Depth(s, n + 1)
           P == {j \in 1..(Len(t) + 1) :
                   /\ OpenQuote(s, n + 1) = "none" => OpenQuote(s \o t, n + j) = OpenQuote(t, j)
                   /\ Depth(s \o t, n + j) = d + Depth(t, j)}
<1>4. d \in Int
  BY <1>0, DepthInt
<1>1. 1 \in P
  <2>1. n + 1 \in 1..(Len(s) + 1)
    BY <1>0
  <2>2. OpenQuote(s \o t, n + 1) = OpenQuote(s, n + 1) /\ Depth(s \o t, n + 1) = d
    BY <2>1, ScanPrefix
  <2>3. OpenQuote(t, 1) = "none" /\ Depth(t, 1) = 0
    BY OpenStep, DepthStep
  <2> QED
    BY <1>0, <1>4, <2>2, <2>3
<1>2. ASSUME NEW j \in 1..i, j \in P, j < i PROVE j + 1 \in P
  <2>1. j \in 1..Len(t) /\ n + j \in 1..Len(s \o t) /\ j + 1 \in 1..(Len(t) + 1)
        /\ (n + j) + 1 = n + (j + 1)
    BY <1>0, <1>2
  <2>2. /\ OpenQuote(s \o t, (n + j) + 1) = Toggle(OpenQuote(s \o t, n + j), (s \o t)[n + j])
        /\ OpenQuote(t, j + 1) = Toggle(OpenQuote(t, j), t[j])
        /\ Depth(s \o t, (n + j) + 1) = Depth(s \o t, n + j) + Delta((s \o t)[n + j])
        /\ Depth(t, j + 1) = Depth(t, j) + Delta(t[j]) /\ Depth(t, j) \in Int
    BY <1>0, <2>1, OpenStep, DepthStep
  <2>3. Delta(t[j]) \in Int
    BY DEF Delta
  <2>4. Depth(s \o t, n + (j + 1)) = d + Depth(t, j + 1)
    BY <1>0, <1>2, <1>4, <2>1, <2>2, <2>3
  <2>5. OpenQuote(s, n + 1) = "none" => OpenQuote(s \o t, n + (j + 1)) = OpenQuote(t, j + 1)
    BY <1>0, <1>2, <2>1, <2>2
  <2> QED
    BY <2>1, <2>4, <2>5
<1>3. i \in P
  <2>1. 1 \in Nat /\ i \in Nat /\ i \in 1..i
    BY <1>0
  <2> HIDE DEF P
  <2> QED
    BY <1>1, <1>2, <2>1, UpTo
<1> QED
  BY <1>3

-----------------------------------------------------------------------------
(* Where a text is cut. *)

\* What stands from a place on.
LEMMA FromIn ==
  ASSUME NEW t \in Text, NEW m \in 1..(Len(t) + 1)
  PROVE  /\ From(t, m) \in Text
         /\ Len(From(t, m)) = Len(t) - m + 1
         /\ \A i \in 1..(Len(t) - m + 1) : From(t, m)[i] = t[m + i - 1]
<1>1. Len(t) \in Nat /\ m \in Nat \ {0}
  BY TextIs
<1>2. /\ From(t, m) \in Text
      /\ Len(From(t, m)) = IF m <= Len(t) THEN Len(t) - m + 1 ELSE 0
      /\ \A i \in 1..(Len(t) - m + 1) : From(t, m)[i] = t[m + i - 1]
  BY <1>1, FromText
<1> QED
  BY <1>1, <1>2

\* What stands up to a place.
LEMMA PrefixIs ==
  ASSUME NEW t \in Text, NEW m \in 0..Len(t)
  PROVE  /\ SubSeq(t, 1, m) \in Text
         /\ Len(SubSeq(t, 1, m)) = m
         /\ \A i \in 1..m : SubSeq(t, 1, m)[i] = t[i]
<1>1. Len(t) \in Nat /\ m \in Int /\ m <= Len(t) /\ 1 \in Nat \ {0}
  BY TextIs
<1>2. /\ SubSeq(t, 1, m) \in Text
      /\ Len(SubSeq(t, 1, m)) = IF 1 <= m THEN m - 1 + 1 ELSE 0
      /\ \A i \in 1..(m - 1 + 1) : SubSeq(t, 1, m)[i] = t[1 + i - 1]
  BY <1>1, SubText
<1>3. m - 1 + 1 = m /\ \A i \in 1..m : 1 + i - 1 = i
  BY <1>1
<1> QED
  BY <1>1, <1>2, <1>3

\* Joining texts is associative.
LEMMA ConcatAssociates ==
  ASSUME NEW a \in Text, NEW b \in Text, NEW c \in Text
  PROVE  a \o (b \o c) = (a \o b) \o c
  BY DEF Text

\* Texts are equal that have equal words.
LEMMA SameText ==
  ASSUME NEW s \in Text, NEW t \in Text, Len(s) = Len(t), \A i \in 1..Len(s) : s[i] = t[i]
  PROVE  s = t
  BY DEF Text

\* What a place is where a text may be cut.
LEMMA CutsAre ==
  ASSUME NEW t \in Text, NEW K \in Text, K # <<>>, NEW nested
  PROVE  Cuts(t, K, nested) =
           {i \in 1..Len(t) :
              /\ i + Len(K) - 1 <= Len(t) /\ \A k \in 1..Len(K) : t[i + k - 1] = K[k]
              /\ OpenQuote(t, i) = "none" /\ (nested => Depth(t, i) = 0)}
<1>1. DOMAIN t = 1..Len(t) /\ Len(t) \in Nat /\ Len(K) \in Nat \ {0}
  BY DEF Text
<1>2. ASSUME NEW i \in 1..Len(t)
      PROVE  Begins(From(t, i), K) <=>
               i + Len(K) - 1 <= Len(t) /\ \A k \in 1..Len(K) : t[i + k - 1] = K[k]
  <2>1. /\ From(t, i) \in Text /\ Len(From(t, i)) = Len(t) - i + 1
        /\ \A k \in 1..(Len(t) - i + 1) : From(t, i)[k] = t[i + k - 1]
    <3>1. i \in 1..(Len(t) + 1)
      BY <1>1
    <3> QED
      BY <3>1, FromIn
  <2>2. Begins(From(t, i), K) <=>
          Len(K) <= Len(t) - i + 1 /\ \A k \in 1..Len(K) : From(t, i)[k] = K[k]
    BY <2>1, BeginsWith
  <2>3. Len(K) <= Len(t) - i + 1 <=> i + Len(K) - 1 <= Len(t)
    BY <1>1
  <2>4. Len(K) <= Len(t) - i + 1 => 1..Len(K) \subseteq 1..(Len(t) - i + 1)
    BY <1>1
  <2> QED
    BY <2>1, <2>2, <2>3, <2>4
<1> QED
  BY <1>1, <1>2 DEF Cuts

\* The text leaves no quote open and, if brackets count, as many as it found.
Shut(t, nested) ==
  OpenQuote(t, Len(t) + 1) = "none" /\ (nested => Depth(t, Len(t) + 1) = 0)

\* The keyword neither opens nor closes, and the text does not end like it.
Neutral(K)    == \A k \in 1..Len(K) : K[k] \notin Quote \cup Opening \cup Closing
EndsOff(t, K) == t # <<>> => \A k \in 1..Len(K) : t[Len(t)] # K[k]

\* The scan of a text that neither opens nor closes anything.
LEMMA NeutralIs ==
  ASSUME NEW K \in Text, Neutral(K)
  PROVE  Shut(K, TRUE)
<1>0. Len(K) \in Nat
  BY TextIs
<1> DEFINE P == {j \in 1..(Len(K) + 1) : OpenQuote(K, j) = "none" /\ Depth(K, j) = 0}
           n == Len(K) + 1
<1>1. 1 \in P
  BY <1>0, OpenStep, DepthStep
<1>2. ASSUME NEW j \in 1..n, j \in P, j < n PROVE j + 1 \in P
  <2>1. j \in 1..Len(K) /\ j + 1 \in 1..(Len(K) + 1)
    BY <1>0, <1>2
  <2>2. OpenQuote(K, j + 1) = Toggle(OpenQuote(K, j), K[j]) /\ Depth(K, j + 1) = Depth(K, j) + Delta(K[j])
    BY <2>1, OpenStep, DepthStep
  <2>3. K[j] \notin Quote /\ K[j] \notin Opening /\ K[j] \notin Closing
    BY <2>1 DEF Neutral
  <2> QED
    BY <1>2, <2>1, <2>2, <2>3 DEF Toggle, Delta
<1>3. n \in P
  <2>1. 1 \in Nat /\ n \in Nat /\ n \in 1..n
    BY <1>0
  <2> HIDE DEF P, n
  <2> QED
    BY <1>1, <1>2, <2>1, UpTo
<1> QED
  BY <1>3 DEF Shut

\* Nothing is cut before the end of a text that is joined to another by the keyword, save
\* where it is cut by itself; and it is cut there.
LEMMA CutsOfJoin ==
  ASSUME NEW s \in Text, NEW K \in Text, NEW t \in Text, NEW nested \in BOOLEAN, K # <<>>,
         EndsOff(s, K)
  PROVE  /\ \A i \in 1..Len(s) : i \in Cuts(s \o K \o t, K, nested) <=> i \in Cuts(s, K, nested)
         /\ Shut(s, nested) => Len(s) + 1 \in Cuts(s \o K \o t, K, nested)
<1> DEFINE u == s \o K \o t
           r == K \o t
           n == Len(s)
<1>0. /\ n \in Nat /\ Len(K) \in Nat \ {0} /\ Len(t) \in Nat
      /\ r \in Text /\ Len(r) = Len(K) + Len(t) /\ u = s \o r
      /\ \A k \in 1..Len(K) : r[k] = K[k]
  <2>1. n \in Nat /\ Len(K) \in Nat \ {0} /\ Len(t) \in Nat
    BY TextIs DEF Text
  <2>2. r \in Text /\ Len(r) = Len(K) + Len(t) /\ \A k \in 1..Len(K) : r[k] = K[k]
    BY ConcatText
  <2>3. u = s \o r
    BY ConcatAssociates, Zenon
  <2> QED
    BY ONLY <2>1, <2>2, <2>3
<1>1. /\ u \in Text /\ Len(u) = n + Len(r)
      /\ \A i \in 1..n : u[i] = s[i]
      /\ \A i \in 1..Len(r) : u[n + i] = r[i]
  BY <1>0, ConcatText
<1>2. \A i \in 1..(n + 1) : OpenQuote(u, i) = OpenQuote(s, i) /\ Depth(u, i) = Depth(s, i)
  BY <1>0, ScanPrefix
<1> HIDE DEF u, r
<1>3. ASSUME NEW i \in 1..n PROVE i \in Cuts(u, K, nested) <=> i \in Cuts(s, K, nested)
  <2>1. i \in 1..Len(u) /\ i \in 1..(n + 1)
    BY <1>0, <1>1
  <2>2. CASE i + Len(K) - 1 <= n
    <3>1. \A k \in 1..Len(K) : u[i + k - 1] = s[i + k - 1]
      <4>1. \A k \in 1..Len(K) : i + k - 1 \in 1..n
        BY <1>0, <2>2
      <4> QED
        BY <1>1, <4>1
    <3>2. i + Len(K) - 1 <= Len(u)
      BY <1>0, <1>1, <2>2
    <3>3. OpenQuote(u, i) = OpenQuote(s, i) /\ Depth(u, i) = Depth(s, i)
      BY <1>2, <2>1
    <3>4. i \in Cuts(u, K, nested) <=>
            /\ \A k \in 1..Len(K) : u[i + k - 1] = K[k]
            /\ OpenQuote(u, i) = "none" /\ (nested => Depth(u, i) = 0)
      <4>1. Cuts(u, K, nested) =
              {h \in 1..Len(u) :
                 /\ h + Len(K) - 1 <= Len(u) /\ \A k \in 1..Len(K) : u[h + k - 1] = K[k]
                 /\ OpenQuote(u, h) = "none" /\ (nested => Depth(u, h) = 0)}
        <5>1. u \in Text
          BY <1>1
        <5> QED
          BY ONLY <5>1, K \in Text, K # <<>>, CutsAre
      <4> QED
        BY ONLY <2>1, <3>2, <4>1
    <3>5. i \in Cuts(s, K, nested) <=>
            /\ \A k \in 1..Len(K) : s[i + k - 1] = K[k]
            /\ OpenQuote(s, i) = "none" /\ (nested => Depth(s, i) = 0)
      BY <2>2, CutsAre
    <3> QED
      BY <3>1, <3>3, <3>4, <3>5
  <2>3. CASE ~ i + Len(K) - 1 <= n
    <3>1. i \notin Cuts(s, K, nested)
      BY <2>3, CutsAre
    <3>2. n - i + 1 \in 1..Len(K) /\ i + (n - i + 1) - 1 = n /\ n \in 1..n /\ s # <<>>
      BY <1>0, <2>3
    <3>3. s[n] # K[n - i + 1] /\ u[n] = s[n]
      BY <1>1, <3>2 DEF EndsOff
    <3>4. i \in Cuts(u, K, nested) => u[i + (n - i + 1) - 1] = K[n - i + 1]
      <4>1. i \in Cuts(u, K, nested) => \A k \in 1..Len(K) : u[i + k - 1] = K[k]
        <5>1. u \in Text
          BY <1>1
        <5> QED
          BY ONLY <5>1, K \in Text, K # <<>>, CutsAre
      <4> QED
        BY <3>2, <4>1
    <3> QED
      BY <3>1, <3>2, <3>3, <3>4
  <2> QED
    BY <2>2, <2>3
<1>4. ASSUME Shut(s, nested) PROVE n + 1 \in Cuts(u, K, nested)
  <2>1. n + 1 \in 1..Len(u) /\ (n + 1) + Len(K) - 1 <= Len(u)
    BY <1>0, <1>1
  <2>2. ASSUME NEW k \in 1..Len(K) PROVE u[(n + 1) + k - 1] = K[k]
    <3>1. k \in 1..Len(r) /\ (n + 1) + k - 1 = n + k
      BY <1>0
    <3> QED
      BY <1>0, <1>1, <3>1
  <2>3. n + 1 \in 1..(n + 1)
    BY <1>0
  <2>4. OpenQuote(u, n + 1) = "none" /\ (nested => Depth(u, n + 1) = 0)
    BY <1>2, <1>4, <2>3 DEF Shut
  <2> DEFINE h == n + 1
  <2>5. /\ h \in 1..Len(u) /\ h + Len(K) - 1 <= Len(u) /\ \A k \in 1..Len(K) : u[h + k - 1] = K[k]
        /\ OpenQuote(u, h) = "none" /\ (nested => Depth(u, h) = 0)
    BY <2>1, <2>2, <2>4
  <2> HIDE DEF h
  <2>6. h \in Cuts(u, K, nested)
    <3>1. u \in Text
      BY <1>1
    <3>2. Cuts(u, K, nested) =
            {i \in 1..Len(u) :
               /\ i + Len(K) - 1 <= Len(u) /\ \A k \in 1..Len(K) : u[i + k - 1] = K[k]
               /\ OpenQuote(u, i) = "none" /\ (nested => Depth(u, i) = 0)}
      BY ONLY <3>1, K \in Text, K # <<>>, CutsAre
    <3> QED
      BY ONLY <2>5, <3>2
  <2> QED
    BY <2>6 DEF h
<1> QED
  BY <1>3, <1>4 DEF u

\* A text whose pieces are joined, taken apart at a place.
LEMMA JoinPieces ==
  ASSUME NEW s \in Text, NEW r \in Text
  PROVE  /\ SubSeq(s \o r, 1, Len(s)) = s /\ From(s \o r, Len(s) + 1) = r
         /\ \A m \in 1..(Len(s) + 1) : From(s \o r, m) = From(s, m) \o r
         /\ \A m \in 0..Len(s) : SubSeq(s \o r, 1, m) = SubSeq(s, 1, m)
<1>0. Len(s) \in Nat /\ Len(r) \in Nat /\ s \o r \in Text /\ Len(s \o r) = Len(s) + Len(r)
      /\ (\A i \in 1..Len(s) : (s \o r)[i] = s[i]) /\ (\A i \in 1..Len(r) : (s \o r)[Len(s) + i] = r[i])
  BY TextIs, ConcatText
<1>1. ASSUME NEW m \in 0..Len(s) PROVE SubSeq(s \o r, 1, m) = SubSeq(s, 1, m)
  <2>1. m \in 0..Len(s) /\ m \in 0..Len(s \o r)
    BY <1>0
  <2>2. /\ SubSeq(s \o r, 1, m) \in Text /\ Len(SubSeq(s \o r, 1, m)) = m
        /\ \A i \in 1..m : SubSeq(s \o r, 1, m)[i] = (s \o r)[i]
    BY <1>0, <2>1, PrefixIs
  <2>3. /\ SubSeq(s, 1, m) \in Text /\ Len(SubSeq(s, 1, m)) = m
        /\ \A i \in 1..m : SubSeq(s, 1, m)[i] = s[i]
    BY <1>0, <2>1, PrefixIs
  <2>4. \A i \in 1..m : SubSeq(s \o r, 1, m)[i] = SubSeq(s, 1, m)[i]
    BY <1>0, <2>2, <2>3
  <2> QED
    BY <2>2, <2>3, <2>4, SameText
<1>2. SubSeq(s, 1, Len(s)) = s
  BY DEF Text
<1>3. SubSeq(s \o r, 1, Len(s)) = s
  BY <1>0, <1>1, <1>2
<1>4. ASSUME NEW m \in 1..(Len(s) + 1) PROVE From(s \o r, m) = From(s, m) \o r
  <2> DEFINE u == s \o r
             a == From(s, m)
             b == From(u, m)
             v == a \o r
  <2>0. m \in Nat /\ m \in 1..(Len(u) + 1)
    BY <1>0
  <2>1. a \in Text /\ Len(a) = Len(s) - m + 1 /\ \A i \in 1..(Len(s) - m + 1) : a[i] = s[m + i - 1]
    BY FromIn
  <2>2. b \in Text /\ Len(b) = Len(u) - m + 1 /\ \A i \in 1..(Len(u) - m + 1) : b[i] = u[m + i - 1]
    BY <1>0, <2>0, FromIn
  <2>3. /\ v \in Text /\ Len(v) = Len(a) + Len(r)
        /\ \A i \in 1..Len(a) : v[i] = a[i]
        /\ \A i \in 1..Len(r) : v[Len(a) + i] = r[i]
    BY <1>0, <2>1, ConcatText
  <2>4. /\ Len(u) = Len(s) + Len(r) /\ \A i \in 1..Len(s) : u[i] = s[i]
        /\ \A i \in 1..Len(r) : u[Len(s) + i] = r[i]
    BY <1>0
  <2> HIDE DEF a, b, u, v
  <2>5. Len(b) = Len(v) /\ Len(b) \in Nat /\ Len(a) \in Nat
    BY <1>0, <2>0, <2>1, <2>2, <2>3, <2>4
  <2>6. ASSUME NEW i \in 1..Len(b) PROVE b[i] = v[i]
    <3>0. b[i] = u[m + i - 1]
      BY <2>2
    <3>1. CASE i <= Len(a)
      <4>1. i \in 1..(Len(s) - m + 1) /\ i \in 1..Len(a) /\ m + i - 1 \in 1..Len(s)
        BY <1>0, <2>0, <2>1, <2>5, <3>1
      <4> QED
        BY <2>1, <2>3, <2>4, <3>0, <4>1
    <3>2. CASE i > Len(a)
      <4> DEFINE j == i - Len(a)
      <4>1. j \in 1..Len(r) /\ m + i - 1 = Len(s) + j /\ i = Len(a) + j
        BY <1>0, <2>0, <2>1, <2>3, <2>5, <3>2
      <4> HIDE DEF j
      <4>2. v[i] = r[j] /\ u[m + i - 1] = r[j]
        BY <2>3, <2>4, <4>1
      <4> QED
        BY <3>0, <4>2
    <3> QED
      BY <2>5, <3>1, <3>2
  <2>7. b = v
    BY <2>2, <2>3, <2>5, <2>6, SameText
  <2> QED
    BY <2>7 DEF a, b, u, v
<1>5. From(s \o r, Len(s) + 1) = r
  <2>1. From(s, Len(s) + 1) = <<>>
    <3>1. Len(From(s, Len(s) + 1)) = 0 /\ From(s, Len(s) + 1) \in Text
      BY <1>0, FromText
    <3> QED
      BY <3>1 DEF Text
  <2>2. <<>> \o r = r
    BY DEF Text
  <2>3. Len(s) + 1 \in 1..(Len(s) + 1)
    BY <1>0
  <2> QED
    BY <1>4, <2>1, <2>2, <2>3
<1> QED
  BY <1>1, <1>3, <1>4, <1>5

\* A text that is not cut.
LEMMA NoCut ==
  ASSUME NEW t \in Text, NEW K \in Text, K # <<>>, NEW nested, Cuts(t, K, nested) = {}
  PROVE  Split(t, K, nested) = <<t>>
<1>1. Least(Cuts(t, K, nested)) = 0
  BY DEF Least
<1> QED
  BY <1>1, SplitIs DEF Pieces

\* The least element of a set that has one below which two sets agree.
LEMMA LeastAgrees ==
  ASSUME NEW S \in SUBSET (Nat \ {0}), NEW R \in SUBSET (Nat \ {0}), NEW n \in Nat,
         \A i \in 1..n : i \in S <=> i \in R, R \subseteq 1..n
  PROVE  /\ R # {} => Least(S) = Least(R)
         /\ R = {} /\ n + 1 \in S => Least(S) = n + 1
<1>1. ASSUME R # {} PROVE Least(S) = Least(R)
  <2>1. Least(R) \in R /\ \A j \in R : Least(R) <= j
    BY <1>1, LeastOf
  <2>2. S # {} /\ Least(R) \in S
    BY <2>1
  <2>3. Least(S) \in S /\ \A j \in S : Least(S) <= j
    BY <2>2, LeastOf
  <2>4. Least(R) \in 1..n /\ Least(S) \in Nat \ {0} /\ Least(S) <= Least(R)
    BY <2>1, <2>2, <2>3
  <2>5. Least(S) \in R
    BY <2>3, <2>4
  <2> QED
    BY <2>1, <2>4, <2>5
<1>2. ASSUME R = {}, n + 1 \in S PROVE Least(S) = n + 1
  <2>1. S # {} /\ Least(S) \in S /\ \A j \in S : Least(S) <= j
    BY <1>2, LeastOf
  <2>2. Least(S) \in Nat \ {0} /\ Least(S) <= n + 1 /\ ~ Least(S) \in 1..n
    BY <1>2, <2>1
  <2> QED
    BY <2>2
<1> QED
  BY <1>1, <1>2

\* A text is what it is cut into at a place.
LEMMA InTwo ==
  ASSUME NEW u \in Text, NEW m \in 0..Len(u)
  PROVE  u = SubSeq(u, 1, m) \o From(u, m + 1)
<1> DEFINE h == SubSeq(u, 1, m)
           q == From(u, m + 1)
           n == Len(u)
<1>0. n \in Nat /\ m \in Nat /\ m + 1 \in 1..(n + 1) /\ m <= n
  BY TextIs
<1>1. h \in Text /\ Len(h) = m /\ \A i \in 1..m : h[i] = u[i]
  BY PrefixIs
<1>2. /\ q \in Text /\ Len(q) = n - m /\ \A i \in 1..(n - m) : q[i] = u[m + i]
  <2>1. /\ q \in Text /\ Len(q) = n - (m + 1) + 1
        /\ \A i \in 1..(n - (m + 1) + 1) : q[i] = u[(m + 1) + i - 1]
    BY <1>0, FromIn
  <2> HIDE DEF q, n
  <2>2. n - (m + 1) + 1 = n - m /\ \A i \in 1..(n - m) : (m + 1) + i - 1 = m + i
    BY <1>0
  <2> QED
    BY <2>1, <2>2
<1> HIDE DEF h, q
<1>3. /\ h \o q \in Text /\ Len(h \o q) = Len(h) + Len(q)
      /\ (\A i \in 1..Len(h) : (h \o q)[i] = h[i])
      /\ (\A i \in 1..Len(q) : (h \o q)[Len(h) + i] = q[i])
  BY <1>1, <1>2, ConcatText
<1>4. Len(h \o q) = n
  BY <1>0, <1>1, <1>2, <1>3
<1> HIDE DEF n
<1>5. ASSUME NEW i \in 1..n PROVE u[i] = (h \o q)[i]
  <2>1. CASE i <= m
    <3>1. i \in 1..m
      BY <1>0, <2>1
    <3> QED
      BY <1>1, <1>3, <3>1
  <2>2. CASE i > m
    <3>1. i - m \in 1..(n - m) /\ m + (i - m) = i
      BY <1>0, <2>2
    <3> QED
      BY <1>1, <1>2, <1>3, <3>1
  <2> QED
    <3>1. i <= m \/ i > m
      BY <1>0
    <3> QED
      BY <2>1, <2>2, <3>1
<1> QED
  BY <1>3, <1>4, <1>5, SameText DEF h, q, n

\* A text that leaves nothing open, and another that does not, together do not.
LEMMA ShutJoin ==
  ASSUME NEW s \in Text, NEW t \in Text, NEW nested \in BOOLEAN, Shut(s, nested)
  PROVE  Shut(s \o t, nested) <=> Shut(t, nested)
<1>1. /\ Len(s) \in Nat /\ Len(t) \in Nat /\ Len(s \o t) = Len(s) + Len(t)
      /\ Len(t) + 1 \in 1..(Len(t) + 1) /\ Len(s \o t) + 1 = Len(s) + (Len(t) + 1)
  BY TextIs, ConcatText
<1>2. /\ OpenQuote(s, Len(s) + 1) = "none" =>
           OpenQuote(s \o t, Len(s) + (Len(t) + 1)) = OpenQuote(t, Len(t) + 1)
      /\ Depth(s \o t, Len(s) + (Len(t) + 1)) = Depth(s, Len(s) + 1) + Depth(t, Len(t) + 1)
  BY <1>1, ScanSuffix
<1>3. Depth(t, Len(t) + 1) \in Int
  BY <1>1, DepthInt
<1> QED
  BY <1>1, <1>2, <1>3 DEF Shut

\* A cut of u at c: a text outside quotes and brackets, the keyword, and the rest.
CutAt(u, K, nested, c) ==
  /\ c \in 1..Len(u) /\ c + Len(K) \in 1..(Len(u) + 1)
  /\ SubSeq(u, 1, c - 1) \in Text /\ Len(SubSeq(u, 1, c - 1)) = c - 1
  /\ From(u, c + Len(K)) \in Text
  /\ u = (SubSeq(u, 1, c - 1) \o K) \o From(u, c + Len(K))
  /\ Shut(SubSeq(u, 1, c - 1), nested)

\* Every place where splitAtKeyword and splitListItems cut is such a cut.
LEMMA CutParts ==
  ASSUME NEW u \in Text, NEW K \in Text, K # <<>>, NEW nested \in BOOLEAN,
         NEW c \in Cuts(u, K, nested)
  PROVE  CutAt(u, K, nested, c)
<1> DEFINE n == Len(u)
           m == c - 1
           p == SubSeq(u, 1, m)
           r == From(u, c)
           q == From(u, c + Len(K))
           k == Len(K)
<1>1. /\ c \in 1..n /\ c + k - 1 <= n /\ \A j \in 1..k : u[c + j - 1] = K[j]
      /\ OpenQuote(u, c) = "none" /\ (nested => Depth(u, c) = 0)
  BY CutsAre
<1>2. n \in Nat /\ k \in Nat \ {0} /\ m \in 0..n /\ m + 1 = c /\ c + k \in 1..(n + 1)
      /\ c \in 1..(n + 1)
  BY <1>1, TextIs DEF Text
<1>3. p \in Text /\ Len(p) = m
  BY <1>2, PrefixIs
<1>4. r \in Text /\ Len(r) = n - c + 1 /\ \A i \in 1..(n - c + 1) : r[i] = u[c + i - 1]
  BY <1>2, FromIn
<1>5. q \in Text
  BY <1>2, FromIn
<1>6. u = p \o r
  BY <1>2, InTwo
<1> HIDE DEF p, r, n, m, q
<1>7. k \in 0..Len(r)
  BY <1>1, <1>2, <1>4
<1>8. r = SubSeq(r, 1, k) \o From(r, k + 1)
  BY <1>4, <1>7, InTwo
<1>9. SubSeq(r, 1, k) = K
  <2>1. SubSeq(r, 1, k) \in Text /\ Len(SubSeq(r, 1, k)) = k /\ \A i \in 1..k : SubSeq(r, 1, k)[i] = r[i]
    BY <1>4, <1>7, PrefixIs
  <2>2. \A i \in 1..k : i \in 1..(n - c + 1)
    BY <1>2, <1>4, <1>7
  <2>3. \A i \in 1..k : r[i] = K[i]
    BY <1>1, <1>4, <2>2
  <2> QED
    BY <2>1, <2>3, SameText
<1>10. From(r, k + 1) = q
  <2>0. k + 1 \in 1..(Len(r) + 1)
    BY <1>2, <1>7, <1>4
  <2> DEFINE a == From(r, k + 1)
  <2>1. a \in Text /\ Len(a) = Len(r) - (k + 1) + 1
        /\ \A i \in 1..(Len(r) - (k + 1) + 1) : a[i] = r[(k + 1) + i - 1]
    BY <1>4, <2>0, FromIn
  <2>2. q \in Text /\ Len(q) = n - (c + k) + 1
        /\ \A i \in 1..(n - (c + k) + 1) : q[i] = u[(c + k) + i - 1]
    BY <1>2, FromIn DEF n, q
  <2> HIDE DEF a, k
  <2>3. Len(r) - (k + 1) + 1 = Len(a) /\ n - (c + k) + 1 = Len(a) /\ Len(a) \in Nat
    BY <1>1, <1>2, <1>4, <2>1
  <2>4. ASSUME NEW i \in 1..Len(a) PROVE a[i] = q[i]
    <3>1. k + i \in 1..(n - c + 1) /\ (k + 1) + i - 1 = k + i /\ c + (k + i) - 1 = (c + k) + i - 1
      BY <1>1, <1>2, <2>3
    <3>2. a[i] = r[k + i] /\ q[i] = u[(c + k) + i - 1]
      BY <2>1, <2>2, <2>3, <3>1
    <3>3. r[k + i] = u[c + (k + i) - 1]
      BY <1>4, <3>1
    <3> QED
      BY <3>1, <3>2, <3>3
  <2> QED
    BY <2>1, <2>2, <2>3, <2>4, SameText DEF a
<1>11. u = (p \o K) \o q
  <2>1. u = p \o (K \o q)
    BY <1>6, <1>8, <1>9, <1>10
  <2> QED
    BY <1>3, <1>5, <2>1, ConcatAssociates
<1>12. Shut(p, nested)
  <2>1. c \in 1..(Len(p) + 1) /\ Len(p) + 1 = c
    BY <1>1, <1>2, <1>3
  <2>2. OpenQuote(u, c) = OpenQuote(p, c) /\ Depth(u, c) = Depth(p, c)
    BY <1>3, <1>4, <1>6, <2>1, ScanPrefix
  <2> QED
    BY <1>1, <2>1, <2>2 DEF Shut
<1> QED
  BY <1>1, <1>2, <1>3, <1>5, <1>11, <1>12 DEF CutAt, n, m, p, q, k

\* A text joined of two by a keyword is cut where the first is cut, at the keyword, and
\* where the second is cut.
LEMMA SplitsJoin ==
  ASSUME NEW K \in Text, K # <<>>, Neutral(K), NEW nested \in BOOLEAN,
         NEW s \in Text, NEW t \in Text, Shut(s, nested), EndsOff(s, K)
  PROVE  Split(s \o K \o t, K, nested) = Split(s, K, nested) \o Split(t, K, nested)
<1> DEFINE S(u) == Split(u, K, nested)
           P == {u \in Text : Shut(u, nested) /\ EndsOff(u, K) => S(u \o K \o t) = S(u) \o S(t)}
           size == [u \in Text |-> Len(u)]
<1>1. size \in [Text -> Nat] /\ \A u \in Text : size[u] = Len(u)
  BY DEF Text
<1> HIDE DEF size
<1>2. ASSUME NEW u \in Text, \A w \in Text : size[w] < size[u] => w \in P,
             Shut(u, nested), EndsOff(u, K)
      PROVE  S(u \o K \o t) = S(u) \o S(t)
  <2> DEFINE v == u \o K \o t
             R == Cuts(u, K, nested)
             C == Cuts(v, K, nested)
             n == Len(u)
  <2>0. /\ n \in Nat /\ v \in Text /\ v = u \o (K \o t) /\ K \o t \in Text
        /\ Len(v) \in Nat /\ Len(K) \in Nat \ {0}
    BY ConcatText, TextIs DEF Text
  <2>1. /\ \A i \in 1..n : i \in C <=> i \in R
        /\ n + 1 \in C
    BY <1>2, CutsOfJoin
  <2>2. R \subseteq 1..n
    BY CutsAre
  <2>3. C \subseteq 1..Len(v)
    <3>1. v \in Text
      BY <2>0
    <3> HIDE DEF v
    <3> QED
      BY <3>1, CutsAre
  <2>4. R \in SUBSET (Nat \ {0}) /\ C \in SUBSET (Nat \ {0})
    BY <2>0, <2>2, <2>3
  <2>5. S(v) = Pieces(v, K, nested) /\ S(u) = Pieces(u, K, nested) /\ S(t) \in Seq(Text)
        /\ S(u) \in Seq(Text)
    BY <2>0, SplitIs
  <2>6. /\ R # {} => Least(C) = Least(R)
        /\ R = {} => Least(C) = n + 1
    <3> HIDE DEF R, C, v
    <3> QED
      BY <2>0, <2>1, <2>2, <2>4, LeastAgrees
  <2>7. CASE R = {}
    <3>1. S(u) = <<u>>
      BY <2>7, NoCut
    <3>2. n + 1 # 0 /\ (n + 1) - 1 = n
      BY <2>0
    <3>3. S(v) = <<SubSeq(v, 1, n)>> \o S(From(v, (n + 1) + Len(K)))
      BY <2>5, <2>6, <2>7, <3>2 DEF Pieces
    <3>4. SubSeq(v, 1, n) = u
      BY <2>0, JoinPieces
    <3>5. From(v, (n + 1) + Len(K)) = t
      <4>1. u \o K \in Text /\ Len(u \o K) = n + Len(K)
        BY ConcatText
      <4>2. From(v, Len(u \o K) + 1) = t
        BY <4>1, JoinPieces
      <4>3. Len(u \o K) + 1 = (n + 1) + Len(K)
        BY <2>0, <4>1
      <4> QED
        BY <4>2, <4>3
    <3> QED
      BY <3>1, <3>3, <3>4, <3>5
  <2>8. CASE R # {}
    <3> DEFINE c == Least(R)
               p == SubSeq(u, 1, c - 1)
               q == From(u, c + Len(K))
    <3>1. c # 0 /\ c \in R
      BY <2>4, <2>8, LeastOf
    <3>2. /\ c \in 1..n /\ c + Len(K) \in 1..(n + 1) /\ p \in Text /\ Len(p) = c - 1
          /\ q \in Text /\ u = (p \o K) \o q /\ Shut(p, nested)
      <4>1. c \in Cuts(u, K, nested)
        BY <3>1
      <4> HIDE DEF c
      <4>2. CutAt(u, K, nested, c)
        BY ONLY <4>1, u \in Text, K \in Text, K # <<>>, nested \in BOOLEAN, CutParts
      <4> HIDE DEF p, q
      <4> QED
        BY <4>2 DEF CutAt, p, q
    <3>3. S(u) = <<p>> \o S(q)
      BY <2>5, <3>1 DEF Pieces
    <3>4. S(v) = <<SubSeq(v, 1, c - 1)>> \o S(From(v, c + Len(K)))
      BY <2>5, <2>6, <2>8, <3>1 DEF Pieces
    <3>5. SubSeq(v, 1, c - 1) = p
      <4>1. c - 1 \in 0..n
        BY <2>0, <3>2
      <4>2. v = u \o (K \o t) /\ K \o t \in Text /\ u \in Text
        BY <2>0
      <4> HIDE DEF c, v
      <4>3. \A m \in 0..Len(u) : SubSeq(u \o (K \o t), 1, m) = SubSeq(u, 1, m)
        BY ONLY <4>2, JoinPieces
      <4> QED
        BY <4>1, <4>2, <4>3
    <3>6. From(v, c + Len(K)) = q \o K \o t
      <4>2. From(v, c + Len(K)) = q \o (K \o t)
        <5>1. \A m \in 1..(n + 1) : From(u \o (K \o t), m) = From(u, m) \o (K \o t)
          BY <2>0, JoinPieces
        <5> HIDE DEF c, v
        <5> QED
          BY <2>0, <3>2, <5>1 DEF q
      <4>3. q \o (K \o t) = q \o K \o t
        <5>1. q \in Text
          BY <3>2
        <5> HIDE DEF q, v
        <5> QED
          BY ONLY <5>1, K \in Text, t \in Text, ConcatAssociates
      <4> QED
        BY <4>2, <4>3
    <3> HIDE DEF p, q, c, v, S, R, C
    <3>7. p \o K \in Text /\ Shut(p \o K, nested) /\ Len(p \o K) = Len(p) + Len(K)
      <4>1. Shut(K, nested)
        BY NeutralIs DEF Shut
      <4>2. p \o K \in Text /\ Len(p \o K) = Len(p) + Len(K)
        BY <3>2, ConcatText
      <4>3. Shut(p \o K, nested)
        BY <3>2, <4>1, ShutJoin
      <4> QED
        BY <4>2, <4>3
    <3>8. Shut(q, nested)
      BY <1>2, <3>2, <3>7, ShutJoin
    <3>9. Len(q) < n /\ Len(q) \in Nat /\ n = Len(p \o K) + Len(q)
      <4>1. n = Len(p \o K) + Len(q) /\ Len(q) \in Nat
        BY <3>2, <3>7, ConcatText, TextIs
      <4> QED
        BY <2>0, <3>2, <3>7, <4>1
    <3>10. EndsOff(q, K)
      <4>1. ASSUME q # <<>> PROVE q[Len(q)] = u[n] /\ u # <<>>
        <5>1. Len(q) \in 1..Len(q) /\ n # 0
          BY <2>0, <3>2, <3>9, <4>1 DEF Text
        <5>2. ((p \o K) \o q)[Len(p \o K) + Len(q)] = q[Len(q)]
          BY <3>2, <3>7, <5>1, ConcatText
        <5>3. u[n] = q[Len(q)]
          BY <3>2, <3>9, <5>2
        <5> QED
          BY <5>1, <5>3
      <4> QED
        BY <1>2, <4>1 DEF EndsOff
    <3>11. S(q \o K \o t) = S(q) \o S(t)
      BY <1>1, <1>2, <3>2, <3>8, <3>9, <3>10
    <3>12. S(q) \in Seq(Text)
      BY <3>2, SplitIs DEF S
    <3>13. S(v) = <<p>> \o (S(q) \o S(t)) /\ S(u) \o S(t) = (<<p>> \o S(q)) \o S(t)
      BY <3>3, <3>4, <3>5, <3>6, <3>11
    <3>14. <<p>> \o (S(q) \o S(t)) = (<<p>> \o S(q)) \o S(t)
      <4>1. <<p>> \in Seq(Text)
        BY <3>2
      <4> QED
        BY <2>5, <3>12, <4>1
    <3> QED
      BY <3>13, <3>14 DEF v
  <2> QED
    BY <2>7, <2>8
<1>3. \A u \in Text : (\A w \in Text : size[w] < size[u] => w \in P) => u \in P
  BY <1>2
<1>4. Text \subseteq P
  <2>1. size \in [Text -> Nat]
    BY <1>1
  <2> HIDE DEF P, size
  <2>2. Inherits(P, Text, size)
    BY ONLY <1>3, <2>1 DEF Inherits
  <2> QED
    BY ONLY <2>2, BySize
<1> QED
  BY <1>4

\* No bracket is closed before it is opened, and nothing is left open.
Even(t) == Shut(t, TRUE) /\ \A i \in 1..Len(t) : Depth(t, i) >= 0

\* The words of X are in quotes only.
Bare(t, X) == \A i \in 1..Len(t) : OpenQuote(t, i) = "none" => t[i] \notin X

\* The scan of two joined texts, the first of which leaves no quote open.
LEMMA JoinScan ==
  ASSUME NEW s \in Text, NEW t \in Text, Shut(s, FALSE)
  PROVE  /\ \A i \in 1..Len(s) : /\ (s \o t)[i] = s[i] /\ OpenQuote(s \o t, i) = OpenQuote(s, i)
                                 /\ Depth(s \o t, i) = Depth(s, i)
         /\ \A i \in 1..Len(t) : /\ (s \o t)[Len(s) + i] = t[i]
                                 /\ OpenQuote(s \o t, Len(s) + i) = OpenQuote(t, i)
                                 /\ Depth(s \o t, Len(s) + i) = Depth(s, Len(s) + 1) + Depth(t, i)
         /\ OpenQuote(s \o t, Len(s \o t) + 1) = OpenQuote(t, Len(t) + 1)
         /\ Depth(s \o t, Len(s \o t) + 1) = Depth(s, Len(s) + 1) + Depth(t, Len(t) + 1)
<1>1. /\ Len(s) \in Nat /\ Len(t) \in Nat /\ Len(s \o t) = Len(s) + Len(t)
      /\ \A i \in 1..Len(s) : (s \o t)[i] = s[i]
      /\ \A i \in 1..Len(t) : (s \o t)[Len(s) + i] = t[i]
  BY TextIs, ConcatText
<1>2. \A i \in 1..Len(s) : i \in 1..(Len(s) + 1)
  BY <1>1
<1>3. \A i \in 1..Len(t) : i \in 1..(Len(t) + 1)
  BY <1>1
<1>4. Len(t) + 1 \in 1..(Len(t) + 1) /\ Len(s) + (Len(t) + 1) = Len(s \o t) + 1
  BY <1>1
<1>5. OpenQuote(s, Len(s) + 1) = "none"
  BY DEF Shut
<1>6. \A i \in 1..Len(s) : OpenQuote(s \o t, i) = OpenQuote(s, i) /\ Depth(s \o t, i) = Depth(s, i)
  BY <1>2, ScanPrefix
<1>7. \A i \in 1..(Len(t) + 1) :
        /\ OpenQuote(s \o t, Len(s) + i) = OpenQuote(t, i)
        /\ Depth(s \o t, Len(s) + i) = Depth(s, Len(s) + 1) + Depth(t, i)
  BY <1>5, ScanSuffix
<1>8. /\ OpenQuote(s \o t, Len(s) + (Len(t) + 1)) = OpenQuote(t, Len(t) + 1)
      /\ Depth(s \o t, Len(s) + (Len(t) + 1)) = Depth(s, Len(s) + 1) + Depth(t, Len(t) + 1)
  BY <1>4, <1>7
<1> QED
  BY <1>1, <1>3, <1>4, <1>6, <1>7, <1>8

\* A place in a joined text is one of either part.
LEMMA JoinPlace ==
  ASSUME NEW s \in Text, NEW t \in Text, NEW i \in 1..Len(s \o t)
  PROVE  i \in 1..Len(s) \/ \E j \in 1..Len(t) : i = Len(s) + j
<1>1. Len(s) \in Nat /\ Len(t) \in Nat /\ Len(s \o t) = Len(s) + Len(t)
  BY TextIs, ConcatText
<1>2. CASE i > Len(s)
  <2>1. i - Len(s) \in 1..Len(t) /\ i = Len(s) + (i - Len(s))
    BY <1>1, <1>2
  <2> QED
    BY <2>1
<1> QED
  BY <1>1, <1>2

\* Two even texts together are even.
LEMMA EvenJoin ==
  ASSUME NEW s \in Text, NEW t \in Text, Even(s), Even(t)
  PROVE  Even(s \o t)
<1>1. Shut(s, FALSE) /\ Depth(s, Len(s) + 1) = 0
  BY DEF Even, Shut
<1>2. Shut(s \o t, TRUE)
  BY ShutJoin DEF Even
<1>3. ASSUME NEW i \in 1..Len(s \o t) PROVE Depth(s \o t, i) >= 0
  <2>1. CASE i \in 1..Len(s)
    BY <1>1, <2>1, JoinScan DEF Even
  <2>2. ASSUME NEW j \in 1..Len(t), i = Len(s) + j PROVE Depth(s \o t, i) >= 0
    <3>1. Depth(s \o t, i) = 0 + Depth(t, j)
      <4>1. Depth(s \o t, Len(s) + j) = Depth(s, Len(s) + 1) + Depth(t, j)
        BY <1>1, JoinScan
      <4> QED
        BY <1>1, <2>2, <4>1
    <3>2. Depth(t, j) \in Int /\ Depth(t, j) >= 0
      BY DepthStep DEF Even
    <3> QED
      BY <3>1, <3>2
  <2> QED
    BY <2>1, <2>2, JoinPlace
<1> QED
  BY <1>2, <1>3 DEF Even

\* Words that are only in quotes in two texts are so in both together.
LEMMA BareJoin ==
  ASSUME NEW s \in Text, NEW t \in Text, NEW X, Shut(s, FALSE), Bare(s, X), Bare(t, X)
  PROVE  Bare(s \o t, X)
<1>1. ASSUME NEW i \in 1..Len(s \o t), OpenQuote(s \o t, i) = "none" PROVE (s \o t)[i] \notin X
  <2>1. CASE i \in 1..Len(s)
    BY <1>1, <2>1, JoinScan DEF Bare
  <2>2. ASSUME NEW j \in 1..Len(t), i = Len(s) + j PROVE (s \o t)[i] \notin X
    BY <1>1, <2>2, JoinScan DEF Bare
  <2> QED
    BY <2>1, <2>2, JoinPlace
<1> QED
  BY <1>1 DEF Bare

\* A text without quotes and brackets is even.
LEMMA NeutralEven ==
  ASSUME NEW K \in Text, Neutral(K)
  PROVE  Even(K) /\ \A X : (\A k \in 1..Len(K) : K[k] \notin X) => Bare(K, X)
<1>0. Len(K) \in Nat
  BY TextIs
<1> DEFINE P == {j \in 1..(Len(K) + 1) : Depth(K, j) = 0}
<1>1. ASSUME NEW n \in 1..(Len(K) + 1) PROVE n \in P
  <2>1. 1 \in P
    BY <1>0, DepthStep
  <2>2. ASSUME NEW j \in 1..n, j \in P, j < n PROVE j + 1 \in P
    <3>1. j \in 1..Len(K) /\ j + 1 \in 1..(Len(K) + 1)
      BY <1>0, <2>2
    <3>2. Depth(K, j + 1) = Depth(K, j) + Delta(K[j])
      BY <3>1, DepthStep
    <3>3. Delta(K[j]) = 0
      BY <3>1 DEF Neutral, Delta
    <3> QED
      BY <2>2, <3>1, <3>2, <3>3
  <2>3. 1 \in Nat /\ n \in Nat /\ n \in 1..n
    BY <1>0
  <2> HIDE DEF P
  <2> QED
    BY <2>1, <2>2, <2>3, UpTo
<1>2. \A i \in 1..Len(K) : Depth(K, i) >= 0
  BY <1>0, <1>1
<1> QED
  BY <1>2, NeutralIs DEF Even, Bare

\* What is in brackets is as deep as it was, and one more.
LEMMA Wrapped ==
  ASSUME NEW o \in Opening, NEW c \in Closing, NEW w \in Text, Even(w)
  PROVE  LET t == <<o>> \o w \o <<c>>
         IN  /\ t \in Text /\ Len(t) = Len(w) + 2 /\ t[1] = o /\ t[Len(w) + 2] = c
             /\ Even(t) /\ OpenQuote(t, 1) = "none" /\ OpenQuote(t, Len(w) + 2) = "none"
             /\ \A i \in 1..Len(w) : t[i + 1] = w[i] /\ OpenQuote(t, i + 1) = OpenQuote(w, i)
                                     /\ Depth(t, i + 1) > 0
<1> DEFINE a == <<o>>
           b == w \o <<c>>
           e == <<c>>
           n == Len(w)
           t == a \o b
<1>0. o \in Token /\ c \in Token /\ n \in Nat /\ o \notin Quote /\ c \notin Quote /\ o \notin Closing
      /\ c \notin Opening
  BY Tokens, TextIs DEF Opening, Closing, Characters, Quote
<1>1. a \in Text /\ Len(a) = 1 /\ a[1] = o /\ e \in Text /\ Len(e) = 1 /\ e[1] = c
  BY <1>0, Words
<1>2. /\ b \in Text /\ Len(b) = n + 1 /\ b[n + 1] = c /\ \A i \in 1..n : b[i] = w[i]
  BY <1>1, ConcatText
<1>3. <<o>> \o w \o <<c>> = t
  <2>1. a \in Text /\ e \in Text /\ w \in Text
    BY <1>1
  <2> HIDE DEF a, e
  <2>2. a \o (w \o e) = (a \o w) \o e
    BY ONLY <2>1, ConcatAssociates, Zenon
  <2> QED
    BY ONLY <2>2, Zenon DEF a, b, e, t
<1>4. t \in Text /\ Len(t) = 1 + (n + 1) /\ t[1] = o /\ \A i \in 1..(n + 1) : t[1 + i] = b[i]
  <2>1. /\ t \in Text /\ Len(t) = Len(a) + Len(b) /\ \A i \in 1..Len(a) : t[i] = a[i]
        /\ \A i \in 1..Len(b) : t[Len(a) + i] = b[i]
    BY <1>1, <1>2, ConcatText
  <2> HIDE DEF t, a, b
  <2> QED
    BY <1>1, <1>2, <2>1
<1>5. /\ OpenQuote(a, 2) = "none" /\ Depth(a, 2) = 1
      /\ OpenQuote(e, 1) = "none" /\ Depth(e, 1) = 0 /\ OpenQuote(e, 2) = "none" /\ Depth(e, 2) = -1
  <2>1. OpenQuote(a, 1) = "none" /\ Depth(a, 1) = 0 /\ OpenQuote(e, 1) = "none" /\ Depth(e, 1) = 0
    BY <1>1, OpenStep, DepthStep
  <2>2. /\ OpenQuote(a, 1 + 1) = Toggle(OpenQuote(a, 1), a[1]) /\ Depth(a, 1 + 1) = Depth(a, 1) + Delta(a[1])
        /\ OpenQuote(e, 1 + 1) = Toggle(OpenQuote(e, 1), e[1]) /\ Depth(e, 1 + 1) = Depth(e, 1) + Delta(e[1])
    BY <1>1, OpenStep, DepthStep
  <2> HIDE DEF a, e
  <2> QED
    BY <1>0, <1>1, <2>1, <2>2 DEF Toggle, Delta
<1>6. Shut(a, FALSE) /\ Shut(w, FALSE) /\ Depth(w, n + 1) = 0
  BY <1>1, <1>5 DEF Shut, Even
<1> HIDE DEF a, b, e
<1>7. /\ \A i \in 1..n : OpenQuote(b, i) = OpenQuote(w, i) /\ Depth(b, i) = Depth(w, i)
      /\ OpenQuote(b, n + 1) = "none" /\ Depth(b, n + 1) = 0
      /\ OpenQuote(b, Len(b) + 1) = "none" /\ Depth(b, Len(b) + 1) = -1
  <2>1. /\ \A i \in 1..n : OpenQuote(b, i) = OpenQuote(w, i) /\ Depth(b, i) = Depth(w, i)
        /\ OpenQuote(b, n + 1) = OpenQuote(e, 1) /\ Depth(b, n + 1) = 0 + Depth(e, 1)
        /\ OpenQuote(b, Len(b) + 1) = OpenQuote(e, 2) /\ Depth(b, Len(b) + 1) = 0 + Depth(e, 2)
    <3>1. b = w \o e
      BY DEF b, e
    <3>2. /\ \A i \in 1..Len(w) : /\ OpenQuote(w \o e, i) = OpenQuote(w, i)
                                   /\ Depth(w \o e, i) = Depth(w, i)
          /\ \A i \in 1..Len(e) : /\ OpenQuote(w \o e, Len(w) + i) = OpenQuote(e, i)
                                   /\ Depth(w \o e, Len(w) + i) = Depth(w, Len(w) + 1) + Depth(e, i)
          /\ OpenQuote(w \o e, Len(w \o e) + 1) = OpenQuote(e, Len(e) + 1)
          /\ Depth(w \o e, Len(w \o e) + 1) = Depth(w, Len(w) + 1) + Depth(e, Len(e) + 1)
      <4>1. e \in Text /\ w \in Text /\ Shut(w, FALSE)
        BY <1>1, <1>6
      <4> QED
        BY ONLY <4>1, JoinScan
    <3>3. /\ Len(w) = n /\ n \in Nat /\ Len(e) = 1 /\ Depth(w, n + 1) = 0
          /\ n + 1 = Len(w) + 1 /\ 1 \in 1..Len(e) /\ Len(e) + 1 = 2
      BY <1>0, <1>1, <1>6
    <3>4. \A i \in 1..n : OpenQuote(b, i) = OpenQuote(w, i) /\ Depth(b, i) = Depth(w, i)
      BY ONLY <3>1, <3>2, <3>3
    <3>5. /\ OpenQuote(w \o e, Len(w) + 1) = OpenQuote(e, 1)
          /\ Depth(w \o e, Len(w) + 1) = Depth(w, Len(w) + 1) + Depth(e, 1)
      BY ONLY <3>2, <3>3
    <3>6. OpenQuote(b, n + 1) = OpenQuote(e, 1) /\ Depth(b, n + 1) = 0 + Depth(e, 1)
      BY ONLY <3>1, <3>3, <3>5
    <3>7. /\ OpenQuote(b, Len(b) + 1) = OpenQuote(e, 2)
          /\ Depth(b, Len(b) + 1) = 0 + Depth(e, 2)
      <4>1. /\ OpenQuote(w \o e, Len(w \o e) + 1) = OpenQuote(e, Len(e) + 1)
            /\ Depth(w \o e, Len(w \o e) + 1) = Depth(w, Len(w) + 1) + Depth(e, Len(e) + 1)
        BY ONLY <3>2
      <4> QED
        BY ONLY <3>1, <3>3, <4>1
    <3> QED
      BY ONLY <3>4, <3>6, <3>7
  <2> QED
    BY <1>5, <2>1
<1>8. /\ \A i \in 1..(n + 1) : OpenQuote(t, 1 + i) = OpenQuote(b, i) /\ Depth(t, 1 + i) = 1 + Depth(b, i)
      /\ OpenQuote(t, 1) = "none" /\ Depth(t, 1) = 0
      /\ OpenQuote(t, Len(t) + 1) = OpenQuote(b, Len(b) + 1)
      /\ Depth(t, Len(t) + 1) = 1 + Depth(b, Len(b) + 1)
  <2>1. /\ \A i \in 1..Len(b) : OpenQuote(a \o b, Len(a) + i) = OpenQuote(b, i)
                                /\ Depth(a \o b, Len(a) + i) = Depth(a, Len(a) + 1) + Depth(b, i)
        /\ OpenQuote(a \o b, Len(a \o b) + 1) = OpenQuote(b, Len(b) + 1)
        /\ Depth(a \o b, Len(a \o b) + 1) = Depth(a, Len(a) + 1) + Depth(b, Len(b) + 1)
    BY <1>1, <1>2, <1>6, JoinScan
  <2>2. OpenQuote(t, 1) = "none" /\ Depth(t, 1) = 0
    BY <1>4, OpenStep, DepthStep
  <2>3. Len(a) = 1 /\ Len(b) = n + 1 /\ Depth(a, Len(a) + 1) = 1
    BY ONLY <1>1, <1>2, <1>5
  <2>4. t = a \o b
    OBVIOUS
  <2> HIDE DEF t
  <2>5. \A i \in 1..(n + 1) : OpenQuote(t, 1 + i) = OpenQuote(b, i) /\ Depth(t, 1 + i) = 1 + Depth(b, i)
    BY ONLY <2>1, <2>3, <2>4
  <2>6. /\ OpenQuote(t, Len(t) + 1) = OpenQuote(b, Len(b) + 1)
        /\ Depth(t, Len(t) + 1) = 1 + Depth(b, Len(b) + 1)
    <3>1. Depth(a \o b, Len(a \o b) + 1) = Depth(a, Len(a) + 1) + Depth(b, Len(b) + 1)
      BY ONLY <2>1
    <3>2. OpenQuote(a \o b, Len(a \o b) + 1) = OpenQuote(b, Len(b) + 1)
      BY ONLY <2>1
    <3> QED
      BY ONLY <2>3, <2>4, <3>1, <3>2
  <2> QED
    BY ONLY <2>2, <2>5, <2>6
<1> HIDE DEF t
<1>9. Shut(t, TRUE)
  BY <1>7, <1>8 DEF Shut
<1>10. \A i \in 1..n : Depth(w, i) \in Int /\ Depth(w, i) >= 0
  BY DepthStep DEF Even
<1>11. ASSUME NEW i \in 1..n
       PROVE  t[i + 1] = w[i] /\ OpenQuote(t, i + 1) = OpenQuote(w, i) /\ Depth(t, i + 1) > 0
  <2>1. i \in 1..(n + 1) /\ i + 1 = 1 + i
    BY <1>0
  <2>2. t[i + 1] = w[i]
    BY <1>2, <1>4, <2>1
  <2>3. OpenQuote(t, i + 1) = OpenQuote(w, i) /\ Depth(t, i + 1) = 1 + Depth(w, i)
    BY <1>7, <1>8, <2>1
  <2> QED
    BY <1>10, <2>2, <2>3
<1>12. n + 1 \in 1..(n + 1) /\ 1 + (n + 1) = n + 2
  BY <1>0
<1>13. t[n + 2] = c /\ OpenQuote(t, n + 2) = "none" /\ Depth(t, n + 2) = 1
  BY <1>2, <1>4, <1>7, <1>8, <1>12
<1>14. ASSUME NEW i \in 1..Len(t) PROVE Depth(t, i) >= 0
  <2>1. i = 1 \/ i = n + 2 \/ (i - 1 \in 1..n /\ (i - 1) + 1 = i)
    BY <1>0, <1>4
  <2>2. CASE i - 1 \in 1..n /\ (i - 1) + 1 = i
    <3>1. Depth(t, (i - 1) + 1) > 0 /\ Depth(t, i) \in Int
      BY <1>4, <1>11, <2>2, DepthStep
    <3> QED
      BY <2>2, <3>1
  <2> QED
    BY <1>8, <1>13, <2>1, <2>2
<1> QED
  BY <1>3, <1>4, <1>8, <1>9, <1>11, <1>12, <1>13, <1>14 DEF Even

\* What is in quotes: no quote is open but these.
LEMMA QuotedScan ==
  ASSUME NEW q \in Quote, NEW w \in Text, \A i \in 1..Len(w) : w[i] # q,
         \A i \in 1..Len(w) : Depth(w, i) >= 0, Depth(w, Len(w) + 1) = 0
  PROVE  LET t == <<q>> \o w \o <<q>>
         IN  /\ t \in Text /\ Len(t) = Len(w) + 2 /\ t[1] = q /\ t[Len(w) + 2] = q
             /\ \A i \in 1..Len(w) : t[i + 1] = w[i]
             /\ Even(t) /\ \A X : q \notin X => Bare(t, X)
<1> DEFINE a == <<q>>
           b == w \o <<q>>
           n == Len(w)
           t == a \o b
<1>0. q \in Token /\ n \in Nat /\ q \notin Opening /\ q \notin Closing /\ q # "none"
  BY Tokens, TextIs DEF Opening, Closing, Characters, Quote
<1>1. a \in Text /\ Len(a) = 1 /\ a[1] = q
  BY <1>0, Words
<1>2. /\ b \in Text /\ Len(b) = n + 1 /\ b[n + 1] = q /\ \A i \in 1..n : b[i] = w[i]
  BY <1>1, ConcatText
<1>3. <<q>> \o w \o <<q>> = t
  BY <1>1, ConcatAssociates
<1>4. t \in Text /\ Len(t) = n + 2 /\ t[1] = q /\ \A i \in 1..(n + 1) : t[1 + i] = b[i]
  <2>1. /\ t \in Text /\ Len(t) = Len(a) + Len(b) /\ \A i \in 1..Len(a) : t[i] = a[i]
        /\ \A i \in 1..Len(b) : t[Len(a) + i] = b[i]
    BY <1>1, <1>2, ConcatText
  <2> HIDE DEF t, a, b
  <2> QED
    BY <1>0, <1>1, <1>2, <2>1
<1>5. Depth(a, 2) = 0 /\ Depth(a, Len(a) + 1) = 0
  <2>1. Depth(a, 1) = 0 /\ Depth(a, 1 + 1) = Depth(a, 1) + Delta(a[1])
    BY <1>1, DepthStep
  <2> HIDE DEF a
  <2> QED
    BY <1>0, <1>1, <2>1 DEF Delta
<1>6. \A i \in 1..(n + 1) : Depth(b, i) = Depth(w, i)
  BY <1>1, ScanPrefix
<1>7. \A i \in 1..(Len(b) + 1) : Depth(t, Len(a) + i) = Depth(a, Len(a) + 1) + Depth(b, i)
  BY <1>1, <1>2, ScanSuffix
<1>8. \A i \in 1..(n + 1) : Depth(t, 1 + i) = Depth(w, i)
  <2> TAKE i \in 1..(n + 1)
  <2>1. i \in 1..(Len(b) + 1)
    BY <1>0, <1>2
  <2>2. Depth(t, 1 + i) = 0 + Depth(b, i)
    BY <1>1, <1>5, <1>7, <2>1
  <2>3. Depth(w, i) \in Int
    BY DepthInt
  <2> QED
    BY <1>6, <2>2, <2>3
<1> HIDE DEF t, a, b
<1>9. ASSUME NEW i \in 1..n PROVE t[i + 1] = w[i]
  <2>1. i \in 1..(n + 1) /\ i + 1 = 1 + i
    BY <1>0
  <2> QED
    BY <1>2, <1>4, <2>1
<1>10. t[n + 2] = q
  <2>1. n + 1 \in 1..(n + 1) /\ 1 + (n + 1) = n + 2
    BY <1>0
  <2> QED
    BY <1>2, <1>4, <2>1
<1>11. OpenQuote(t, 1) = "none" /\ OpenQuote(t, 2) = q
  <2>1. OpenQuote(t, 1) = "none" /\ OpenQuote(t, 1 + 1) = Toggle(OpenQuote(t, 1), t[1])
    BY <1>0, <1>4, OpenStep
  <2> QED
    BY <1>4, <2>1 DEF Toggle
<1> DEFINE P == {j \in 2..(n + 2) : OpenQuote(t, j) = q}
<1>12. ASSUME NEW i \in 2..(n + 2) PROVE i \in P
  <2>1. 2 \in P
    BY <1>0, <1>11
  <2>2. ASSUME NEW j \in 2..i, j \in P, j < i PROVE j + 1 \in P
    <3>1. j \in 1..Len(t) /\ j + 1 \in 2..(n + 2) /\ j - 1 \in 1..n /\ (j - 1) + 1 = j
      BY <1>0, <1>4, <2>2
    <3>2. OpenQuote(t, j + 1) = Toggle(OpenQuote(t, j), t[j])
      BY <1>4, <3>1, OpenStep
    <3>3. t[j] # q
      <4>1. t[(j - 1) + 1] = w[j - 1] /\ w[j - 1] # q
        BY <1>9, <3>1
      <4> QED
        BY <3>1, <4>1
    <3> QED
      BY <1>0, <2>2, <3>1, <3>2, <3>3 DEF Toggle
  <2>3. 2 \in Nat /\ i \in Nat /\ i \in 2..i
    BY <1>0
  <2> HIDE DEF P
  <2> QED
    BY <2>1, <2>2, <2>3, UpTo
<1>13. OpenQuote(t, Len(t) + 1) = "none"
  <2>1. n + 2 \in 1..Len(t) /\ n + 2 \in 2..(n + 2)
    BY <1>0, <1>4
  <2>2. OpenQuote(t, (n + 2) + 1) = Toggle(OpenQuote(t, n + 2), t[n + 2])
    BY <1>4, <2>1, OpenStep
  <2>3. OpenQuote(t, n + 2) = q
    BY <1>12, <2>1
  <2> QED
    BY <1>0, <1>4, <1>10, <2>2, <2>3 DEF Toggle
<1>14. Depth(t, Len(t) + 1) = 0
  <2>1. n + 2 \in 1..(Len(b) + 1)
    BY <1>0, <1>2
  <2>2. Depth(t, Len(a) + (n + 2)) = 0 + Depth(b, n + 2)
    BY <1>5, <1>7, <2>1
  <2>3. n + 1 \in 1..Len(b) /\ (n + 1) + 1 = n + 2 /\ n + 1 \in 1..(n + 1)
    BY <1>0, <1>2
  <2>4. Depth(b, (n + 1) + 1) = Depth(b, n + 1) + Delta(b[n + 1])
    BY <1>2, <2>3, DepthStep
  <2>5. Delta(b[n + 1]) = 0 /\ Depth(b, n + 1) = 0
    BY <1>0, <1>2, <1>6, <2>3 DEF Delta
  <2>6. Len(a) + (n + 2) = Len(t) + 1
    BY <1>0, <1>1, <1>4
  <2> QED
    BY <2>2, <2>3, <2>4, <2>5, <2>6
<1>15. Even(t)
  <2>1. ASSUME NEW i \in 1..Len(t) PROVE Depth(t, i) >= 0
    <3>1. i = 1 \/ (i - 1 \in 1..(n + 1) /\ 1 + (i - 1) = i)
      BY <1>0, <1>4
    <3>2. Depth(t, 1) = 0
      BY <1>4, DepthStep
    <3>3. ASSUME i - 1 \in 1..(n + 1), 1 + (i - 1) = i PROVE Depth(t, i) >= 0
      <4>1. Depth(t, i) = Depth(w, i - 1)
        BY <1>8, <3>3
      <4>2. i - 1 \in 1..n \/ i - 1 = n + 1
        BY <1>0, <3>3
      <4>3. Depth(w, i - 1) >= 0
        <5>1. CASE i - 1 \in 1..n
          BY <5>1
        <5>2. CASE i - 1 = n + 1
          <6>1. Depth(w, n + 1) = 0
            OBVIOUS
          <6> QED
            BY <5>2, <6>1
        <5> QED
          BY <4>2, <5>1, <5>2
      <4> QED
        BY <4>1, <4>3
    <3> QED
      BY <3>1, <3>2, <3>3
  <2> QED
    BY <1>13, <1>14, <2>1 DEF Even, Shut
<1>16. ASSUME NEW X, q \notin X PROVE Bare(t, X)
  <2>1. ASSUME NEW i \in 1..Len(t), OpenQuote(t, i) = "none" PROVE t[i] \notin X
    <3>1. i = 1 \/ i \in 2..(n + 2)
      BY <1>0, <1>4
    <3>2. i \notin 2..(n + 2)
      BY <1>0, <1>12, <2>1
    <3> QED
      BY <1>4, <1>16, <3>1, <3>2
  <2> QED
    BY <2>1 DEF Bare
<1> QED
  BY <1>3, <1>4, <1>9, <1>10, <1>15, <1>16

\* A text whose bare words are not those of the keyword is not cut.
LEMMA BareUncut ==
  ASSUME NEW t \in Text, NEW K \in Text, NEW nested, NEW X, Bare(t, X)
  PROVE  /\ K # <<>> /\ K[1] \in X => Split(t, K, nested) = <<t>>
         /\ Len(K) > 1 /\ K[1] \notin Quote /\ K[2] \in X => Split(t, K, nested) = <<t>>
<1>0. Len(t) \in Nat /\ Len(K) \in Nat
  BY TextIs
<1>1. ASSUME K # <<>>, K[1] \in X PROVE Cuts(t, K, nested) = {}
  <2>1. 1 \in 1..Len(K)
    BY <1>0, <1>1 DEF Text
  <2>2. ASSUME NEW i \in Cuts(t, K, nested) PROVE FALSE
    <3>1. i \in 1..Len(t) /\ OpenQuote(t, i) = "none" /\ t[i + 1 - 1] = K[1]
      BY <1>1, <2>1, CutsAre
    <3>2. i + 1 - 1 = i
      BY <1>0, <3>1
    <3> QED
      BY <1>1, <3>1, <3>2 DEF Bare
  <2> QED
    BY <2>2
<1>2. ASSUME Len(K) > 1, K[1] \notin Quote, K[2] \in X PROVE Cuts(t, K, nested) = {}
  <2>1. 1 \in 1..Len(K) /\ 2 \in 1..Len(K) /\ K # <<>>
    BY <1>0, <1>2
  <2>2. ASSUME NEW i \in Cuts(t, K, nested) PROVE FALSE
    <3>1. /\ i \in 1..Len(t) /\ i + Len(K) - 1 <= Len(t) /\ OpenQuote(t, i) = "none"
          /\ \A k \in 1..Len(K) : t[i + k - 1] = K[k]
      BY <2>1, CutsAre
    <3>2. t[i + 1 - 1] = K[1] /\ t[i + 2 - 1] = K[2]
      BY <2>1, <3>1
    <3>3. i + 1 - 1 = i /\ i + 2 - 1 = i + 1 /\ i + 1 \in 1..Len(t)
      BY <1>0, <1>2, <3>1
    <3>4. OpenQuote(t, i + 1) = Toggle("none", t[i])
      BY <3>1, OpenStep
    <3>5. t[i] = K[1] /\ t[i + 1] = K[2]
      BY <3>2, <3>3
    <3>6. OpenQuote(t, i + 1) = "none"
      BY <1>2, <3>4, <3>5 DEF Toggle
    <3> QED
      BY <1>2, <3>3, <3>5, <3>6 DEF Bare
  <2> QED
    BY <2>2
<1>3. Len(K) > 1 => K # <<>>
  BY EmptyText
<1> QED
  BY <1>1, <1>2, <1>3, NoCut

Blank == {" "}

\* The least and the greatest of a set of places, given both.
LEMMA Extremes ==
  ASSUME NEW n \in Nat, NEW S \in SUBSET (1..n), NEW m \in S, n \in S, \A j \in S : m <= j
  PROVE  Least(S) = m /\ Greatest(S) = n
<1>1. S \in SUBSET (Nat \ {0}) /\ S # {} /\ m \in 1..n
  OBVIOUS
<1>2. Least(S) \in S /\ Least(S) <= m
  BY <1>1, LeastOf
<1>3. Greatest(S) \in S /\ Greatest(S) >= n
  BY <1>1, GreatestOf
<1>4. Least(S) \in 1..n /\ Greatest(S) \in 1..n /\ m <= Least(S)
  BY <1>2, <1>3
<1> QED
  BY <1>1, <1>2, <1>3, <1>4

\* Blanks are trimmed off the ends only.
LEMMA TrimBetween ==
  ASSUME NEW t \in Text, NEW m \in 1..Len(t), t[m] \notin Blank, t[Len(t)] \notin Blank,
         \A i \in 1..(m - 1) : t[i] \in Blank
  PROVE  Trim(t) = From(t, m)
<1> DEFINE S == {i \in DOMAIN t : t[i] # " "}
<1>1. Len(t) \in Nat /\ DOMAIN t = 1..Len(t) /\ Len(t) \in 1..Len(t) /\ m \in Nat
  BY TextIs
<1>2. S = {i \in 1..Len(t) : t[i] \notin Blank}
  BY <1>1 DEF Blank
<1>3. Trim(t) = SubSeq(t, Least(S), Greatest(S))
  BY DEF Trim
<1> HIDE DEF S
<1>4. m \in S /\ Len(t) \in S /\ S \in SUBSET (1..Len(t))
  BY <1>1, <1>2
<1>5. ASSUME NEW j \in S PROVE m <= j
  <2>1. j \in 1..Len(t) /\ t[j] \notin Blank
    BY <1>2
  <2>2. j \notin 1..(m - 1)
    BY <2>1
  <2> QED
    BY ONLY <1>1, <2>1, <2>2
<1>6. Least(S) = m /\ Greatest(S) = Len(t)
  BY ONLY <1>1, <1>4, <1>5, Extremes
<1> QED
  BY <1>3, <1>6 DEF From

\* A text that neither begins nor ends with a blank stays as it is.
LEMMA TrimWhole ==
  ASSUME NEW t \in Text, t # <<>>, t[1] \notin Blank, t[Len(t)] \notin Blank
  PROVE  Trim(t) = t /\ Trim(<<" ">> \o t) = t
<1>0. Len(t) \in Nat /\ Len(t) # 0
  BY DEF Text
<1>1. 1 \in 1..Len(t)
  BY ONLY <1>0
<1>2. From(t, 1) = t
  BY DEF From, Text
<1>3. Trim(t) = t
  BY <1>1, <1>2, TrimBetween
<1> DEFINE b == <<" ">>
           u == b \o t
<1>4. b \in Text
  BY Words, Tokens DEF Characters
<1>5. Len(b) = 1 /\ b[1] \in Blank
  BY DEF Blank
<1> HIDE DEF b
<1>6. u \in Text /\ Len(u) = Len(b) + Len(t) /\ (\A i \in 1..Len(b) : u[i] = b[i])
      /\ (\A i \in 1..Len(t) : u[Len(b) + i] = t[i])
  BY <1>4, ConcatText
<1>7. From(u, Len(b) + 1) = t
  BY <1>4, JoinPieces
<1> HIDE DEF u
<1>8. 2 \in 1..Len(u) /\ Len(t) \in 1..Len(t) /\ 1 \in 1..Len(b) /\ Len(b) + 1 = 2
      /\ Len(b) + Len(t) = Len(u)
  BY ONLY <1>0, <1>1, <1>5, <1>6
<1>9. u[2] \notin Blank /\ u[Len(u)] \notin Blank
  <2>1. u[Len(b) + 1] = t[1] /\ u[Len(b) + Len(t)] = t[Len(t)]
    BY ONLY <1>1, <1>6, <1>8
  <2> QED
    BY <1>8, <2>1
<1>10. \A i \in 1..(2 - 1) : u[i] \in Blank
  BY ONLY <1>5, <1>6, <1>8
<1>11. Trim(u) = From(u, 2)
  BY <1>6, <1>8, <1>9, <1>10, TrimBetween
<1> QED
  BY <1>3, <1>7, <1>8, <1>11 DEF u, b

\* What trimming leaves as it is neither begins nor ends with a blank.
LEMMA TrimmedEnds ==
  ASSUME NEW t \in Text, t # <<>>, Trim(t) = t
  PROVE  t[1] \notin Blank /\ t[Len(t)] \notin Blank
<1> DEFINE S == {i \in DOMAIN t : t[i] # " "}
           n == Len(t)
           m == Least(S)
           g == Greatest(S)
<1>1. n \in Nat /\ DOMAIN t = 1..n /\ n # 0
  <2>1. n # 0
    BY DEF Text
  <2> QED
    BY <2>1, TextIs
<1>2. S = {i \in 1..n : t[i] \notin Blank}
  BY <1>1 DEF Blank
<1>3. Trim(t) = SubSeq(t, m, g)
  BY DEF Trim
<1> HIDE DEF S, m, g, n
<1>4. S \in SUBSET (Nat \ {0}) /\ S \in SUBSET (1..n)
  BY <1>1, <1>2
<1>5. CASE S = {}
  <2>1. m = 0 /\ g = -1
    BY <1>5 DEF m, g, Least, Greatest
  <2>2. SubSeq(t, 0, -1) = <<>>
    BY DEF Text
  <2> QED
    BY <1>3, <2>1, <2>2
<1>6. CASE S # {}
  <2>1. m \in S
    BY <1>4, <1>6, LeastOf DEF m
  <2>2. g \in S
    <3>1. 1 \in S \/ \E k \in S : k \in 1..n
      BY <1>4, <1>6
    <3> QED
      BY <1>1, <1>4, <1>6, GreatestOf DEF g
  <2>3. m \in 1..n /\ g \in 1..n
    BY <1>4, <2>1, <2>2
  <2>4. Len(SubSeq(t, m, g)) = n
    BY <1>3 DEF n
  <2>5. Len(SubSeq(t, m, g)) = IF m <= g THEN g - m + 1 ELSE 0
    BY <2>3 DEF Text
  <2>6. m = 1 /\ g = n
    BY ONLY <1>1, <2>3, <2>4, <2>5
  <2> QED
    BY <1>2, <2>1, <2>2, <2>6 DEF n
<1> QED
  BY <1>5, <1>6

-----------------------------------------------------------------------------
(* Values are read as they were meant. *)

Edges == {" ", "OR", "AND", ","}
Apart == {"OR", "AND", ","}

\* A scalar of each kind.
LEMMA ScalarIs ==
  ASSUME NEW v \in Scalar
  PROVE  /\ v.kind = "string" => v.text \in Text /\ v = String(v.text)
         /\ v.kind = "number" => v.n \in Int /\ v = Number(v.n)
         /\ v.kind = "bool"   => v.b \in BOOLEAN /\ v = Bool(v.b)
         /\ v.kind \in {"string", "number", "bool"}
<1>1. v.kind = "string" => v.text \in Text /\ v = String(v.text)
  BY DEF Scalar, String
<1>2. v.kind = "number" => v.n \in Int /\ v = Number(v.n)
  BY DEF Scalar, Number
<1>3. v.kind = "bool"   => v.b \in BOOLEAN /\ v = Bool(v.b)
  BY DEF Scalar, Bool
<1>4. v.kind \in {"string", "number", "bool"}
  BY DEF Scalar
<1> QED
  BY <1>1, <1>2, <1>3, <1>4

\* A text stands between two words.
LEMMA BetweenIs ==
  ASSUME NEW t \in Text, NEW o \in Token, NEW c \in Token
  PROVE  Between(t, o, c) <=> Len(t) > 1 /\ t[1] = o /\ t[Len(t)] = c
<1>1. <<o>> \in Text /\ Len(<<o>>) = 1 /\ <<o>>[1] = o
  BY Words
<1>2. Begins(t, <<o>>) <=> 1 <= Len(t) /\ \A i \in 1..1 : t[i] = <<o>>[i]
  BY <1>1, BeginsWith
<1>3. Len(t) \in Nat
  BY TextIs
<1>4. Last(t) = t[Len(t)]
  BY DEF Last
<1>5. Len(t) > 1 => (Begins(t, <<o>>) <=> t[1] = o)
  BY <1>1, <1>2, <1>3
<1> QED
  BY <1>4, <1>5 DEF Between

\* What a text with something around it holds.
LEMMA InnerIs ==
  ASSUME NEW o \in Token, NEW c \in Token, NEW w \in Text
  PROVE  Inner(<<o>> \o w \o <<c>>) = w
<1> DEFINE a == <<o>>
           e == <<c>>
           u == a \o w
           t == u \o e
           n == Len(w)
<1>1. a \in Text /\ Len(a) = 1 /\ e \in Text /\ Len(e) = 1
  BY Words
<1>2. u \in Text /\ Len(u) = 1 + n /\ n \in Nat /\ From(u, Len(a) + 1) = w
  BY <1>1, ConcatText, TextIs, JoinPieces
<1>3. t \in Text /\ Len(t) = n + 2
  <2>1. t \in Text /\ Len(t) = Len(u) + Len(e)
    BY <1>1, <1>2, ConcatText
  <2> QED
    BY ONLY <1>1, <1>2, <2>1
<1>4. SubSeq(t, 1, Len(u)) = u
  BY <1>1, <1>2, JoinPieces
<1>5. Inner(t) = SubSeq(t, 2, n + 1)
  <2>1. Len(t) - 1 = n + 1
    BY ONLY <1>2, <1>3
  <2> QED
    BY <2>1 DEF Inner
<1>6. \A i \in 1..(n + 1) : t[i] = u[i]
  <2>1. \A i \in 1..Len(u) : t[i] = u[i]
    BY <1>1, <1>2, ConcatText
  <2>2. 1 + n = n + 1
    BY ONLY <1>2
  <2> QED
    BY <1>2, <2>1, <2>2
<1>7. \A i \in 1..n : u[i + 1] = w[i]
  <2>1. \A i \in 1..n : u[Len(a) + i] = w[i]
    BY <1>1, ConcatText
  <2>2. \A i \in 1..n : Len(a) + i = i + 1
    BY ONLY <1>1, <1>2
  <2> QED
    BY <2>1, <2>2
<1> HIDE DEF a, e, u, t
<1>8. SubSeq(t, 2, n + 1) = w
  <2> DEFINE s == SubSeq(t, 2, n + 1)
  <2>1. /\ s \in Text
        /\ Len(s) = IF 2 <= n + 1 THEN n + 1 - 2 + 1 ELSE 0
        /\ \A i \in 1..(n + 1 - 2 + 1) : s[i] = t[2 + i - 1]
    <3>1. n + 1 \in Int /\ 2 \in Nat \ {0} /\ n + 1 <= Len(t)
      BY ONLY <1>2, <1>3
    <3> QED
      BY <1>3, <3>1, SubText
  <2> HIDE DEF s
  <2>2. Len(s) = n /\ n + 1 - 2 + 1 = n
    BY ONLY <1>2, <2>1
  <2>3. ASSUME NEW i \in 1..n PROVE s[i] = w[i]
    <3>1. 2 + i - 1 = i + 1 /\ i + 1 \in 1..(n + 1)
      BY ONLY <1>2
    <3>2. s[i] = t[i + 1]
      BY ONLY <2>1, <2>2, <3>1, i \in 1..n
    <3> QED
      BY <1>6, <1>7, <3>1, <3>2
  <2> QED
    BY <2>1, <2>2, <2>3, SameText DEF s
<1> QED
  BY <1>5, <1>8 DEF t, u, a, e

\* A word by itself.
LEMMA WordIs ==
  ASSUME NEW x \in Token \ (Quote \cup Opening \cup Closing)
  PROVE  /\ <<x>> \in Text /\ <<x>> # <<>> /\ Len(<<x>>) = 1 /\ <<x>>[1] = x
         /\ Neutral(<<x>>) /\ Even(<<x>>) /\ \A X : x \notin X => Bare(<<x>>, X)
<1>1. <<x>> \in Text /\ <<x>> # <<>> /\ Len(<<x>>) = 1 /\ <<x>>[1] = x
  BY Words
<1>2. \A k \in 1..1 : k = 1
  OBVIOUS
<1> HIDE DEF Neutral
<1>3. Neutral(<<x>>)
  BY <1>1, <1>2 DEF Neutral
<1> QED
  BY <1>1, <1>2, <1>3, NeutralEven

Reads(w, v) ==
  /\ w \in Text /\ w # <<>> /\ Even(w) /\ Bare(w, Apart)
  /\ w[1] \notin Edges /\ w[Len(w)] \notin Edges
  /\ w[1] # "[" /\ (Len(w) = 1 => w[1] \notin Quote)
  /\ ScalarOf(w) = v

\* A scalar is read as it was meant, by itself or as an item.
LEMMA ScalarReads ==
  ASSUME NEW v, NEW kind, CanWrite(v, kind)
  PROVE  Reads(WriteScalar(v), v)
<1>1. v \in Scalar /\ v.kind = kind
  BY DEF CanWrite
<1>2. CASE kind = "string"
  <2> DEFINE w == v.text
             q == IF Has(w, "'") THEN "\"" ELSE "'"
             t == <<q>> \o w \o <<q>>
  <2>1. w \in Text /\ v = String(w)
    BY <1>1, <1>2, ScalarIs
  <2>2. WriteScalar(v) = t
    BY <1>1, <1>2 DEF WriteScalar, Quoted
  <2>3. Quotable(w)
    BY <1>1, <1>2 DEF CanWrite
  <2>4. q \in Quote /\ \A i \in 1..Len(w) : w[i] # q
    <3>1. DOMAIN w = 1..Len(w)
      BY <2>1, TextIs
    <3>2. ~ (Has(w, "'") /\ Has(w, "\""))
      BY <2>3 DEF Quotable
    <3> HIDE DEF w
    <3>3. \A x : ~ Has(w, x) => \A i \in 1..Len(w) : w[i] # x
      BY <3>1 DEF Has
    <3>4. ~ Has(w, q)
      BY <3>2
    <3> QED
      BY <3>3, <3>4 DEF Quote
  <2>5. (\A i \in 1..Len(w) : Depth(w, i) >= 0) /\ Depth(w, Len(w) + 1) = 0
    BY <2>3 DEF Quotable
  <2> HIDE DEF w, q
  <2>6. /\ t \in Text /\ Len(t) = Len(w) + 2 /\ t[1] = q /\ t[Len(w) + 2] = q
        /\ Even(t) /\ \A X : q \notin X => Bare(t, X)
    BY <2>1, <2>4, <2>5, QuotedScan
  <2>7. q \notin Apart /\ q \notin Edges /\ q # "[" /\ q \in Token
    BY <2>4, Tokens DEF Quote, Apart, Edges, Characters
  <2>8. Inner(t) = w
    BY <2>1, <2>7, InnerIs
  <2> HIDE DEF t
  <2>9. Len(t) > 1 /\ t # <<>>
    <3>1. Len(w) \in Nat
      BY <2>1, TextIs
    <3>2. Len(t) > 1
      BY ONLY <2>6, <3>1
    <3> QED
      BY <3>2
  <2>10. Between(t, q, q)
    BY <2>6, <2>7, <2>9, BetweenIs
  <2>11. Between(t, "'", "'") \/ Between(t, "\"", "\"")
    BY <2>4, <2>10 DEF Quote
  <2>12. t # <<"true">> /\ t # <<"false">> /\ Len(t) # 1
    BY <2>9
  <2>13. ScalarOf(t) = String(w)
    BY <2>8, <2>11, <2>12 DEF ScalarOf
  <2> QED
    BY <2>1, <2>2, <2>6, <2>7, <2>9, <2>12, <2>13 DEF Reads
<1>3. ASSUME NEW x \in Token \ (Characters \cup {"OR", "AND"}) PROVE
        /\ x = "true" => ScalarOf(<<x>>) = Bool(TRUE)
        /\ x = "false" => ScalarOf(<<x>>) = Bool(FALSE)
        /\ x \in DOMAIN NumberOf /\ x \notin {"true", "false"} => ScalarOf(<<x>>) = Number(NumberOf[x])
        /\ \A y : ScalarOf(<<x>>) = y => Reads(<<x>>, y)
  <2>1. ~ Between(<<x>>, "'", "'") /\ ~ Between(<<x>>, "\"", "\"")
    BY DEF Between
  <2>2. Len(<<x>>) = 1 /\ Head(<<x>>) = x /\ (<<x>> = <<"true">> <=> x = "true")
        /\ (<<x>> = <<"false">> <=> x = "false")
    OBVIOUS
  <2>3. x \notin Quote \cup Opening \cup Closing /\ x \notin Apart /\ x \notin Edges /\ x # "["
    BY DEF Characters, Quote, Opening, Closing, Apart, Edges
  <2>4. \A y : ScalarOf(<<x>>) = y => Reads(<<x>>, y)
    BY <2>3, WordIs DEF Reads
  <2>8. "true" \notin DOMAIN NumberOf /\ "false" \notin DOMAIN NumberOf
    BY WritingAssumption DEF Reserved
  <2>5. x = "true" => ScalarOf(<<x>>) = Bool(TRUE)
    <3>1. SUFFICES ASSUME x = "true" PROVE ScalarOf(<<"true">>) = Bool(TRUE)
      BY <3>1
    <3>2. <<"true">> = <<"true">> /\ <<"true">> # <<"false">> /\ Head(<<"true">>) = "true"
      OBVIOUS
    <3> QED
      BY <2>1, <2>8, <3>1, <3>2, Zenon DEF ScalarOf
  <2>6. x = "false" => ScalarOf(<<x>>) = Bool(FALSE)
    <3>1. SUFFICES ASSUME x = "false" PROVE ScalarOf(<<"false">>) = Bool(FALSE)
      BY <3>1
    <3>2. <<"false">> = <<"false">> /\ <<"true">> # <<"false">> /\ Head(<<"false">>) = "false"
      OBVIOUS
    <3> QED
      BY <2>1, <2>8, <3>1, <3>2, Zenon DEF ScalarOf
  <2>7. x \in DOMAIN NumberOf /\ x \notin {"true", "false"} => ScalarOf(<<x>>) = Number(NumberOf[x])
    BY <2>1, <2>2 DEF ScalarOf
  <2> QED
    BY <2>4, <2>5, <2>6, <2>7
<1>4. CASE kind = "number"
  <2> DEFINE x == Word(v.n)
  <2>1. x \in DOMAIN NumberOf /\ NumberOf[x] = v.n
    BY <1>1, <1>4 DEF CanWrite, Word
  <2>2. WriteScalar(v) = <<x>>
    BY <1>1, <1>4 DEF WriteScalar
  <2> HIDE DEF x
  <2>3. x \in Token \ (Characters \cup {"OR", "AND"}) /\ x \notin {"true", "false"}
    BY <2>1, WritingAssumption DEF Reserved
  <2>4. ScalarOf(<<x>>) = v
    BY <1>1, <1>3, <1>4, <2>1, <2>3, ScalarIs
  <2> QED
    BY <1>3, <2>2, <2>3, <2>4
<1>5. CASE kind = "bool"
  <2>1. v.b \in BOOLEAN /\ v = Bool(v.b)
    BY <1>1, <1>5, ScalarIs
  <2>2. {"true", "false"} \subseteq Token \ (Characters \cup {"OR", "AND"})
    BY Tokens DEF Characters, Reserved
  <2>3. CASE v.b = TRUE
    <3>1. WriteScalar(v) = <<"true">>
      BY <1>1, <1>5, <2>3 DEF WriteScalar
    <3> QED
      BY <1>3, <2>1, <2>2, <2>3, <3>1
  <2>4. CASE v.b = FALSE
    <3>1. WriteScalar(v) = <<"false">>
      BY <1>1, <1>5, <2>4 DEF WriteScalar
    <3> QED
      BY <1>3, <2>1, <2>2, <2>4, <3>1
  <2> QED
    BY <2>1, <2>3, <2>4
<1> QED
  BY <1>1, <1>2, <1>4, <1>5, ScalarIs

\* What holds of a set of words holds of fewer.
LEMMA BareFewer ==
  ASSUME NEW t, NEW X, NEW Y, Bare(t, X), Y \subseteq X
  PROVE  Bare(t, Y)
  BY DEF Bare

\* A text that is not empty has a first and a last word.
LEMMA LastOf ==
  ASSUME NEW t \in Text, t # <<>>
  PROVE  Len(t) \in Nat /\ Len(t) > 0 /\ 1 \in 1..Len(t) /\ Len(t) \in 1..Len(t)
<1>1. Len(t) \in Nat
  BY TextIs
<1>2. Len(t) # 0
  BY EmptyText DEF Text
<1> QED
  BY <1>1, <1>2

\* Brackets around a text do not bare what is in quotes.
LEMMA WrappedBare ==
  ASSUME NEW o \in Opening, NEW c \in Closing, NEW w \in Text, NEW X, Even(w), Bare(w, X),
         o \notin X, c \notin X
  PROVE  Bare(<<o>> \o w \o <<c>>, X)
<1> DEFINE t == <<o>> \o w \o <<c>>
           n == Len(w)
<1>1. /\ t \in Text /\ Len(t) = n + 2 /\ t[1] = o /\ t[n + 2] = c
      /\ \A i \in 1..n : t[i + 1] = w[i] /\ OpenQuote(t, i + 1) = OpenQuote(w, i)
  <2>1. /\ t \in Text /\ Len(t) = n + 2 /\ t[1] = o /\ t[n + 2] = c
        /\ Even(t) /\ OpenQuote(t, 1) = "none" /\ OpenQuote(t, n + 2) = "none"
        /\ \A i \in 1..n : t[i + 1] = w[i] /\ OpenQuote(t, i + 1) = OpenQuote(w, i)
                           /\ Depth(t, i + 1) > 0
    BY Wrapped
  <2> HIDE DEF t, n
  <2> QED
    BY <2>1
<1>2. n \in Nat
  BY TextIs
<1> HIDE DEF t
<1>3. ASSUME NEW i \in 1..Len(t), OpenQuote(t, i) = "none" PROVE t[i] \notin X
  <2>1. i = 1 \/ i = n + 2 \/ (i - 1 \in 1..n /\ (i - 1) + 1 = i)
    BY ONLY <1>1, <1>2, i \in 1..Len(t)
  <2>2. CASE i - 1 \in 1..n /\ (i - 1) + 1 = i
    <3>1. t[(i - 1) + 1] = w[i - 1] /\ OpenQuote(t, (i - 1) + 1) = OpenQuote(w, i - 1)
      BY <1>1, <2>2
    <3> QED
      BY <1>3, <2>2, <3>1 DEF Bare
  <2> QED
    BY <1>1, <2>1, <2>2
<1> QED
  BY <1>3 DEF Bare, t

\* The items of a list as they stand between commas.
ItemPart(items, i) ==
  IF i = 1 THEN WriteScalar(items[1]) ELSE <<" ">> \o WriteScalar(items[i])

ReadsItems(t, items, k) ==
  /\ t \in Text /\ t # <<>> /\ Even(t) /\ Bare(t, {"OR", "AND"})
  /\ t[Len(t)] \notin Edges
  /\ Split(t, <<",">>, FALSE) = [i \in 1..k |-> ItemPart(items, i)]

\* Two words, one after the other.
LEMMA TwoWords ==
  ASSUME NEW x \in Token, NEW y \in Token
  PROVE  <<x>> \o <<y>> = <<x, y>>
<1>1. <<x>> \in Text /\ <<y>> \in Text /\ <<x, y>> \in Text
  BY Words
<1>2. Len(<<x>>) = 1 /\ Len(<<y>>) = 1 /\ Len(<<x, y>>) = 2 /\ <<x, y>>[1] = x /\ <<x, y>>[2] = y
      /\ <<x>>[1] = x /\ <<y>>[1] = y
  OBVIOUS
<1> DEFINE s == <<x>>
           t == <<y>>
           u == <<x, y>>
<1> HIDE DEF s, t, u
<1>3. s \in Text /\ t \in Text /\ u \in Text /\ Len(s) = 1 /\ Len(t) = 1 /\ Len(u) = 2
      /\ u[1] = x /\ u[2] = y /\ s[1] = x /\ t[1] = y
  BY <1>1, <1>2 DEF s, t, u
<1>4. /\ s \o t \in Text /\ Len(s \o t) = Len(s) + Len(t)
      /\ \A i \in 1..Len(s) : (s \o t)[i] = s[i]
      /\ \A i \in 1..Len(t) : (s \o t)[Len(s) + i] = t[i]
  BY <1>3, ConcatText
<1>5. \A i \in 1..2 : (s \o t)[i] = u[i]
  <2>1. 1 \in 1..1 /\ 1 + 1 = 2 /\ \A i \in 1..2 : i = 1 \/ i = 2
    OBVIOUS
  <2> QED
    BY <1>3, <1>4, <2>1
<1>6. s \o t = u
  <2> DEFINE j == s \o t
  <2>1. j \in Text /\ Len(j) = 2 /\ \A i \in 1..2 : j[i] = u[i]
    BY <1>3, <1>4, <1>5
  <2> HIDE DEF j
  <2>2. Len(j) = Len(u) /\ \A i \in 1..Len(j) : j[i] = u[i]
    BY <1>3, <2>1
  <2>3. j = u
    BY <1>3, <2>1, <2>2, SameText
  <2> QED
    BY <2>3 DEF j
<1> QED
  BY <1>6 DEF s, t, u

\* The comma and the blank are words that open and close nothing.
LEMMA CommaIs ==
  /\ "," \in Token \ (Quote \cup Opening \cup Closing) /\ " " \in Token \ (Quote \cup Opening \cup Closing)
  /\ "," \notin {"OR", "AND"} /\ " " \notin Apart
  BY Tokens DEF Quote, Opening, Closing, Characters, Apart

\* The items of a list, written down, are cut at their commas and nowhere else.
LEMMA ItemsRead ==
  ASSUME NEW items \in Seq(Scalar), items # <<>>, NEW kind,
         \A i \in DOMAIN items : CanWrite(items[i], kind)
  PROVE  ReadsItems(WriteItems(items), items, Len(items))
<1> DEFINE n == Len(items)
           s(i) == WriteScalar(items[i])
           ss == ItemTexts(items)
           comma == <<",">>
           blank == <<" ">>
<1>0. n \in Nat \ {0} /\ DOMAIN items = 1..n
  OBVIOUS
<1>1. \A i \in 1..n : Reads(s(i), items[i])
  BY <1>0, ScalarReads
<1>2. ss \in Seq(Text) /\ Len(ss) = n
  <2> DEFINE v == List(items)
  <2>1. v \in Value /\ v.kind = "list" /\ v.items = items
    BY DEF List, Value
  <2> HIDE DEF v
  <2>2. ss \in Seq(Text)
    BY <2>1, ItemsText
  <2>3. DOMAIN ss = 1..n
    BY <1>0 DEF ItemTexts
  <2> HIDE DEF ss
  <2> QED
    BY <1>0, <2>2, <2>3
<1>3. WriteItems(items) = FlattenSeq(ss)
  BY DEF WriteItems, ItemTexts
<1>4. \A i \in 1..n : ss[i] = (IF i = 1 THEN <<>> ELSE <<",", " ">>) \o s(i)
  BY <1>0 DEF ItemTexts
<1>5. comma \in Text /\ blank \in Text /\ Even(blank) /\ Even(comma) /\ Neutral(comma)
      /\ comma # <<>> /\ comma[1] = "," /\ Len(comma) = 1 /\ Bare(blank, Apart) /\ Bare(comma, {"OR", "AND"})
      /\ blank[1] = " " /\ Len(blank) = 1
  BY CommaIs, WordIs
<1>6. \A a \in Text : <<",", " ">> \o a = comma \o (blank \o a)
  <2>1. comma \o blank = <<",", " ">>
    BY CommaIs, TwoWords DEF comma, blank
  <2> HIDE DEF comma, blank
  <2>2. \A a \in Text : comma \o (blank \o a) = (comma \o blank) \o a
    BY <1>5, ConcatAssociates
  <2> QED
    BY <2>1, <2>2
<1> HIDE DEF ss, s, comma, blank, ReadsItems
<1>7. PICK f : Joins(f, ss, Token) /\ FlattenSeq(ss) = f[n]
  <2>1. ss \in Seq(Seq(Token))
    BY <1>2 DEF Text
  <2> QED
    BY <1>2, <2>1, FlattenJoins
<1>8. /\ f[0] = <<>> /\ \A i \in 0..n : f[i] \in Text
      /\ \A i \in 1..n : f[i] = f[i - 1] \o ss[i]
  BY <1>2, <1>7 DEF Joins, Text
<1> DEFINE P == {k \in 1..n : ReadsItems(f[k], items, k)}
<1>9. ASSUME NEW i \in 1..n
      PROVE  /\ s(i) \in Text /\ s(i) # <<>> /\ Even(s(i)) /\ Bare(s(i), {"OR", "AND"})
             /\ Bare(s(i), {","}) /\ s(i)[Len(s(i))] \notin Edges
  <2> DEFINE w == s(i)
  <2>1. Reads(w, items[i])
    BY <1>1
  <2> HIDE DEF w
  <2>2. w \in Text /\ w # <<>> /\ Even(w) /\ Bare(w, Apart) /\ w[Len(w)] \notin Edges
    BY <2>1 DEF Reads
  <2>3. {"OR", "AND"} \subseteq Apart /\ {","} \subseteq Apart
    BY DEF Apart
  <2>4. Bare(w, {"OR", "AND"})
    BY <2>2, <2>3 DEF Bare
  <2>5. Bare(w, {","})
    BY <2>2, <2>3 DEF Bare
  <2>6. /\ w \in Text /\ w # <<>> /\ Even(w) /\ Bare(w, {"OR", "AND"})
        /\ Bare(w, {","}) /\ w[Len(w)] \notin Edges
    BY <2>2, <2>4, <2>5
  <2> QED
    BY <2>6 DEF w
<1>10. 1 \in P
  <2>0. 1 \in 1..n /\ 1 - 1 = 0
    BY ONLY <1>0
  <2>1. f[1] = s(1)
    <3>1. f[1] = <<>> \o (<<>> \o s(1))
      BY <1>4, <1>8, <2>0
    <3>2. s(1) \in Seq(Token)
      BY <1>9, <2>0 DEF Text
    <3> QED
      BY <3>1, <3>2
  <2>2. Split(s(1), comma, FALSE) = <<s(1)>>
    BY <1>5, <1>9, <2>0, BareUncut
  <2>3. <<s(1)>> = [i \in 1..1 |-> ItemPart(items, i)]
    <3>1. ItemPart(items, 1) = s(1)
      BY DEF ItemPart, s
    <3> QED
      BY <3>1
  <2>4. ReadsItems(f[1], items, 1)
    BY <1>9, <2>0, <2>1, <2>2, <2>3 DEF ReadsItems, comma
  <2> QED
    BY <2>0, <2>4
<1>11. ASSUME NEW k \in 1..n, k \in P, k < n PROVE k + 1 \in P
  <2> DEFINE t == f[k]
             u == blank \o s(k + 1)
  <2>0. k + 1 \in 1..n /\ (k + 1) - 1 = k /\ k + 1 # 1 /\ k \in Nat
    BY ONLY <1>0, k \in 1..n, k < n
  <2>1. ReadsItems(t, items, k)
    BY <1>11
  <2>2. t \in Text /\ t # <<>> /\ Even(t) /\ Bare(t, {"OR", "AND"}) /\ t[Len(t)] \notin Edges
        /\ Split(t, comma, FALSE) = [i \in 1..k |-> ItemPart(items, i)]
    BY <2>1 DEF ReadsItems, comma
  <2>3. s(k + 1) \in Text /\ s(k + 1) # <<>> /\ Even(s(k + 1)) /\ Bare(s(k + 1), {"OR", "AND"})
        /\ Bare(s(k + 1), {","}) /\ s(k + 1)[Len(s(k + 1))] \notin Edges
    BY <1>9, <2>0
  <2>4. u \in Text /\ Len(u) = 1 + Len(s(k + 1)) /\ Even(u) /\ Bare(u, {"OR", "AND"}) /\ Bare(u, {","})
    <3>1. u \in Text /\ Len(u) = 1 + Len(s(k + 1))
      BY <1>5, <2>3, ConcatText
    <3>2. Even(u)
      BY <1>5, <2>3, EvenJoin
    <3>3. Shut(blank, FALSE)
      BY <1>5 DEF Even, Shut
    <3>4. Bare(blank, {"OR", "AND"}) /\ Bare(blank, {","})
      <4>1. Bare(blank, Apart)
        BY <1>5
      <4>2. {"OR", "AND"} \subseteq Apart /\ {","} \subseteq Apart
        BY DEF Apart
      <4> HIDE DEF blank
      <4> QED
        BY ONLY <4>1, <4>2 DEF Bare
    <3>5. Bare(u, {"OR", "AND"})
      BY <1>5, <2>3, <3>3, <3>4, BareJoin
    <3>6. Bare(u, {","})
      BY <1>5, <2>3, <3>3, <3>4, BareJoin
    <3> QED
      BY <3>1, <3>2, <3>5, <3>6
  <2>5. f[k + 1] = t \o (comma \o u) /\ comma \o u \in Text
    <3>1. f[k + 1] = t \o ss[k + 1]
      BY <1>8, <2>0
    <3>2. ss[k + 1] = comma \o u
      BY <1>4, <1>6, <2>0, <2>3
    <3> QED
      BY <1>5, <2>4, <3>1, <3>2, ConcatText
  <2> HIDE DEF u, t
  <2>6. f[k + 1] = t \o comma \o u
    <3>1. t \in Text /\ comma \in Text /\ u \in Text
      BY <1>5, <2>2, <2>4
    <3>2. t \o (comma \o u) = (t \o comma) \o u
      BY ONLY <3>1, ConcatAssociates
    <3> QED
      BY ONLY <2>5, <3>2
  <2>7. Split(f[k + 1], comma, FALSE) = Split(t, comma, FALSE) \o Split(u, comma, FALSE)
    <3>1. Shut(t, FALSE)
      BY <2>2 DEF Even, Shut
    <3>2. EndsOff(t, comma)
      <4>1. \A i \in 1..1 : i = 1
        OBVIOUS
      <4>2. t[Len(t)] # ","
        BY <2>2 DEF Edges
      <4> QED
        BY <1>5, <4>1, <4>2 DEF EndsOff
    <3>3. comma \in Text /\ comma # <<>> /\ Neutral(comma) /\ t \in Text /\ u \in Text
      BY <1>5, <2>2, <2>4
    <3>4. FALSE \in BOOLEAN
      OBVIOUS
    <3>5. Split(t \o comma \o u, comma, FALSE) = Split(t, comma, FALSE) \o Split(u, comma, FALSE)
      BY <3>1, <3>2, <3>3, <3>4, SplitsJoin
    <3> QED
      BY <2>6, <3>5
  <2>8. Split(u, comma, FALSE) = <<u>>
    BY <1>5, <2>4, BareUncut
  <2>9. Split(f[k + 1], comma, FALSE) = [i \in 1..(k + 1) |-> ItemPart(items, i)]
    <3>1. u = ItemPart(items, k + 1)
      BY <2>0 DEF ItemPart, u, s, blank
    <3>2. Split(f[k + 1], comma, FALSE) = [i \in 1..k |-> ItemPart(items, i)] \o <<ItemPart(items, k + 1)>>
      BY <2>2, <2>7, <2>8, <3>1
    <3> DEFINE e(i) == ItemPart(items, i)
    <3> HIDE DEF e
    <3>3. [i \in 1..k |-> e(i)] \o <<e(k + 1)>> = [i \in 1..(k + 1) |-> e(i)]
      BY <2>0
    <3> QED
      BY <3>2, <3>3 DEF e
  <2>10. Even(f[k + 1])
    <3>1. Even(comma \o u)
      BY <1>5, <2>4, EvenJoin
    <3> QED
      BY <2>2, <2>5, <3>1, EvenJoin
  <2>11. Bare(f[k + 1], {"OR", "AND"})
    <3>1. Shut(t, FALSE) /\ Shut(comma, FALSE)
      BY <1>5, <2>2 DEF Even, Shut
    <3>2. Bare(comma \o u, {"OR", "AND"})
      BY <1>5, <2>4, <3>1, BareJoin
    <3> QED
      BY <2>2, <2>5, <3>1, <3>2, BareJoin
  <2>12. f[k + 1] # <<>> /\ f[k + 1][Len(f[k + 1])] \notin Edges
    <3> DEFINE w == s(k + 1)
               p == t \o comma \o blank
    <3>1. t \o comma \in Text /\ p \in Text
      BY <1>5, <2>2, ConcatText
    <3>2. f[k + 1] = p \o w
      <4> DEFINE r == t \o comma
      <4>1. r \in Text /\ blank \in Text /\ w \in Text
        BY <1>5, <2>3, <3>1
      <4>2. f[k + 1] = r \o (blank \o w)
        BY <2>6 DEF u
      <4> HIDE DEF r, w, blank
      <4>3. r \o (blank \o w) = (r \o blank) \o w
        BY ONLY <4>1, ConcatAssociates
      <4> QED
        BY <4>2, <4>3 DEF r
    <3>a. w \in Text /\ w # <<>>
      BY <2>3
    <3> HIDE DEF p, w
    <3>3. Len(w) \in Nat /\ Len(w) # 0 /\ Len(p) \in Nat
      BY <3>1, <3>a, TextIs, LastOf
    <3>4. Len(w) \in 1..Len(w) /\ Len(p) + Len(w) # 0
      BY ONLY <3>3
    <3>5. Len(p \o w) = Len(p) + Len(w) /\ (p \o w)[Len(p) + Len(w)] = w[Len(w)]
      BY <2>3, <3>1, <3>4, ConcatText DEF w
    <3>6. w[Len(w)] \notin Edges
      BY <2>3 DEF w
    <3>7. f[k + 1] # <<>>
      BY <3>2, <3>4, <3>5, EmptyText
    <3> QED
      BY <3>2, <3>5, <3>6, <3>7
  <2>13. ReadsItems(f[k + 1], items, k + 1)
    <3>1. f[k + 1] \in Text
      <4>1. k + 1 \in 0..n
        BY ONLY <2>0, <1>0
      <4> QED
        BY <1>8, <4>1
    <3> QED
      BY <2>9, <2>10, <2>11, <2>12, <3>1 DEF ReadsItems, comma
  <2> QED
    BY <2>0, <2>13
<1>12. n \in P
  <2>1. 1 \in Nat /\ n \in Nat /\ n \in 1..n
    BY ONLY <1>0
  <2> HIDE DEF P
  <2> QED
    BY <1>10, <1>11, <2>1, UpTo
<1> QED
  BY <1>3, <1>7, <1>12

\* A text that can stand in a condition, or after a comparator.
Solid(w) ==
  /\ w \in Text /\ w # <<>> /\ Even(w) /\ Bare(w, {"OR", "AND"})
  /\ w[1] \notin Edges /\ w[Len(w)] \notin Edges

\* What makes the parser panic, when the blanks around it are gone.
LEMMA PanicsTrimmed ==
  ASSUME NEW t \in Text, NEW w \in Text, Trim(t) = w
  PROVE  /\ Between(w, "[", "]") =>
              (panics[t] <=> \E i \in DOMAIN splitListItems(Inner(w)) :
                               panics[splitListItems(Inner(w))[i]])
         /\ ~ Between(w, "[", "]") => (panics[t] <=> Len(w) = 1 /\ Head(w) \in Quote)
<1>1. panics[t] = PanicsBy(panics, t)
  BY PanicsIs
<1>2. CASE Between(w, "[", "]")
  <2>1. panics[t] = \E i \in DOMAIN splitListItems(Inner(w)) :
                       panics[splitListItems(Inner(w))[i]]
    BY <1>1, <1>2, Zenon DEF PanicsBy
  <2> QED
    BY <1>2, <2>1, Zenon
<1>3. CASE ~ Between(w, "[", "]")
  <2>1. panics[t] = (Len(w) = 1 /\ Head(w) \in Quote)
    BY <1>1, <1>3, Zenon DEF PanicsBy
  <2> QED
    BY <1>3, <2>1, Zenon
<1> QED
  BY <1>2, <1>3, Zenon

\* No scalar that was written down does, by itself or behind a blank.
LEMMA ScalarPassed ==
  ASSUME NEW w, NEW v, Reads(w, v)
  PROVE  ~ panics[w] /\ ~ panics[<<" ">> \o w]
<1>1. w \in Text /\ w # <<>> /\ w[1] \notin Edges /\ w[Len(w)] \notin Edges /\ w[1] # "["
      /\ (Len(w) = 1 => w[1] \notin Quote)
  BY DEF Reads
<1>2. w[1] \notin Blank /\ w[Len(w)] \notin Blank
  BY <1>1 DEF Edges, Blank
<1>3. Trim(w) = w /\ Trim(<<" ">> \o w) = w
  BY <1>1, <1>2, TrimWhole
<1>4. "[" \in Token /\ "]" \in Token /\ <<" ">> \in Text
  BY Words, Tokens DEF Characters
<1>5. ~ Between(w, "[", "]")
  BY <1>1, <1>4, BetweenIs
<1>6. <<" ">> \o w \in Text
  BY <1>1, <1>4, ConcatText
<1>7. ~ (Len(w) = 1 /\ Head(w) \in Quote)
  <2>1. Head(w) = w[1]
    BY <1>1 DEF Text
  <2> QED
    BY <1>1, <2>1
<1> QED
  BY <1>1, <1>3, <1>5, <1>6, <1>7, PanicsTrimmed

\* Each piece between commas is read as its item.
LEMMA ItemsBack ==
  ASSUME NEW items \in Seq(Scalar), NEW kind, \A i \in DOMAIN items : CanWrite(items[i], kind)
  PROVE  /\ Items([i \in 1..Len(items) |-> ItemPart(items, i)]) = List(items)
         /\ \A i \in 1..Len(items) : ~ panics[ItemPart(items, i)]
<1> DEFINE n == Len(items)
           parts == [i \in 1..n |-> ItemPart(items, i)]
<1>1. n \in Nat /\ DOMAIN items = 1..n
  OBVIOUS
<1>2. ASSUME NEW i \in 1..n PROVE ItemOf(Trim(ItemPart(items, i))) = items[i]
  <2> DEFINE w == WriteScalar(items[i])
  <2>1. Reads(w, items[i])
    BY <1>1, ScalarReads
  <2>2. ItemPart(items, i) \in {w, <<" ">> \o w}
    BY DEF ItemPart
  <2> HIDE DEF w
  <2>3. w \in Text /\ w # <<>> /\ w[1] \notin Edges /\ w[Len(w)] \notin Edges /\ w[1] # "["
        /\ ScalarOf(w) = items[i]
    BY <2>1 DEF Reads
  <2>4. w[1] \notin Blank /\ w[Len(w)] \notin Blank
    BY <2>3 DEF Edges, Blank
  <2>5. Trim(w) = w /\ Trim(<<" ">> \o w) = w
    BY <2>3, <2>4, TrimWhole
  <2>6. Trim(ItemPart(items, i)) = w
    BY <2>2, <2>5
  <2>7. "[" \in Token /\ "]" \in Token
    BY Tokens DEF Characters
  <2>8. ~ Between(w, "[", "]")
    BY <2>3, <2>7, BetweenIs
  <2> QED
    BY <2>3, <2>6, <2>8 DEF ItemOf
<1>8. ASSUME NEW i \in 1..n PROVE ~ panics[ItemPart(items, i)]
  <2> DEFINE w == WriteScalar(items[i])
  <2>1. Reads(w, items[i])
    BY <1>1, ScalarReads
  <2>2. ItemPart(items, i) \in {w, <<" ">> \o w}
    BY DEF ItemPart
  <2> HIDE DEF w
  <2> QED
    BY <2>1, <2>2, ScalarPassed
<1>3. DOMAIN parts = 1..n /\ \A i \in 1..n : parts[i] = ItemPart(items, i)
  OBVIOUS
<1> HIDE DEF parts
<1>4. \A i \in 1..n : ItemOf(Trim(parts[i])) = items[i]
  BY <1>2, <1>3
<1>5. [i \in DOMAIN parts |-> ItemOf(Trim(parts[i]))] = [i \in 1..n |-> items[i]]
  BY <1>3, <1>4
<1>6. [i \in 1..n |-> items[i]] = items
  BY <1>1
<1>7. Items(parts) = List(items)
  BY <1>5, <1>6 DEF Items
<1> QED
  BY <1>7, <1>8 DEF parts

\* The brackets of a list.
LEMMA BracketIs == "[" \in Token /\ "]" \in Token /\ "[" \in Opening /\ "]" \in Closing
                   /\ "[" \notin {"OR", "AND"} /\ "]" \notin {"OR", "AND"}
                   /\ "[" \notin Edges /\ "]" \notin Edges
  BY Tokens DEF Characters, Opening, Closing, Edges

\* A list is read as it was meant.
LEMMA ListReads ==
  ASSUME NEW items \in Seq(Scalar), items # <<>>, NEW kind,
         \A i \in DOMAIN items : CanWrite(items[i], kind)
  PROVE  LET t == <<"[">> \o WriteItems(items) \o <<"]">>
         IN  Solid(t) /\ ValueOf(t) = List(items) /\ ~ panics[<<" ">> \o t]
<1> DEFINE w == WriteItems(items)
           t == <<"[">> \o w \o <<"]">>
           n == Len(w)
<1>1. ReadsItems(w, items, Len(items))
  BY ItemsRead
<1> HIDE DEF w
<1>2. w \in Text /\ Even(w) /\ Bare(w, {"OR", "AND"})
      /\ Split(w, <<",">>, FALSE) = [i \in 1..Len(items) |-> ItemPart(items, i)]
  BY <1>1 DEF ReadsItems
<1>3. t \in Text /\ Len(t) = n + 2 /\ t[1] = "[" /\ t[n + 2] = "]" /\ Even(t)
  <2>1. /\ t \in Text /\ Len(t) = n + 2 /\ t[1] = "[" /\ t[n + 2] = "]"
        /\ Even(t) /\ OpenQuote(t, 1) = "none" /\ OpenQuote(t, n + 2) = "none"
        /\ \A i \in 1..n : t[i + 1] = w[i] /\ OpenQuote(t, i + 1) = OpenQuote(w, i)
                           /\ Depth(t, i + 1) > 0
    BY <1>2, BracketIs, Wrapped
  <2> HIDE DEF t, n
  <2> QED
    BY <2>1
<1>4. Bare(t, {"OR", "AND"})
  BY <1>2, BracketIs, WrappedBare
<1>5. Inner(t) = w
  BY <1>2, BracketIs, InnerIs
<1>6. n \in Nat
  BY <1>2, TextIs
<1> HIDE DEF t, n
<1>7. Len(t) > 1
  BY ONLY <1>3, <1>6
<1>8. t[Len(t)] = "]"
  BY <1>3
<1>9. Between(t, "[", "]")
  BY <1>3, <1>7, <1>8, BracketIs, BetweenIs
<1>10. ValueOf(t) = List(items)
  <2>1. ValueOf(t) = Items(Split(w, <<",">>, FALSE))
    BY <1>5, <1>9 DEF ValueOf, splitListItems
  <2> QED
    BY <1>2, <2>1, ItemsBack
<1>11. t # <<>>
  <2>1. Len(t) # 0
    BY ONLY <1>3, <1>6
  <2> QED
    BY <2>1, EmptyText
<1>12. Solid(t)
  BY <1>3, <1>4, <1>8, <1>11, BracketIs DEF Solid
<1>13. ~ panics[<<" ">> \o t]
  <2>1. t[1] \notin Blank /\ t[Len(t)] \notin Blank
    BY <1>3, <1>8, BracketIs DEF Blank
  <2>2. Trim(<<" ">> \o t) = t
    BY <1>3, <1>11, <2>1, TrimWhole
  <2>3. <<" ">> \o t \in Text
    <3>1. <<" ">> \in Text
      BY Words, Tokens DEF Characters
    <3> QED
      BY <1>3, <3>1, ConcatText
  <2>4. splitListItems(Inner(t)) = [i \in 1..Len(items) |-> ItemPart(items, i)]
    BY <1>2, <1>5 DEF splitListItems
  <2>5. \A i \in 1..Len(items) : ~ panics[ItemPart(items, i)]
    BY ItemsBack
  <2>6. \A i \in DOMAIN splitListItems(Inner(t)) : ~ panics[splitListItems(Inner(t))[i]]
    BY <2>4, <2>5
  <2> QED
    BY <1>3, <1>9, <2>2, <2>3, <2>6, PanicsTrimmed
<1> QED
  BY <1>10, <1>12, <1>13 DEF t, w

\* A value is read as it was meant (parser.go:218-260).
LEMMA ValueReads ==
  ASSUME NEW k, NEW f, NEW v \in Value, Fits(k, f, v)
  PROVE  /\ Solid(WriteValue(v))
         /\ parseValue(<<" ">> \o WriteValue(v)) = v /\ ~ panics[<<" ">> \o WriteValue(v)]
<1> DEFINE w == WriteValue(v)
<1>1. Solid(w) /\ ValueOf(w) = v /\ ~ panics[<<" ">> \o w]
  <2>1. CASE k \in {"IN", "NOT IN"}
    <3>1. v.kind = "list" /\ v.items # <<>> /\ \A i \in DOMAIN v.items : CanWrite(v.items[i], KindOf(f))
      BY <2>1 DEF Fits
    <3>2. v.items \in Seq(Scalar) /\ v = List(v.items)
      <4>1. v \in [kind : {"list"}, items : Seq(Scalar)]
        BY <3>1 DEF Value, Scalar
      <4> QED
        BY <4>1 DEF List
    <3> DEFINE items == v.items
               t == <<"[">> \o WriteItems(items) \o <<"]">>
    <3>3. w = t
      BY <3>1 DEF WriteValue
    <3>4. Solid(t) /\ ValueOf(t) = List(items) /\ ~ panics[<<" ">> \o t]
      BY <3>1, <3>2, ListReads
    <3> HIDE DEF w, t
    <3> QED
      BY <3>2, <3>3, <3>4
  <2>2. CASE k \notin {"IN", "NOT IN"}
    <3>1. CanWrite(v, KindOf(f))
      BY <2>2 DEF Fits
    <3>2. v \in Scalar
      BY <3>1 DEF CanWrite
    <3>3. v.kind # "list"
      BY <3>2, ScalarIs
    <3>4. w = WriteScalar(v)
      BY <3>3 DEF WriteValue
    <3> HIDE DEF w
    <3>5. Reads(w, v)
      BY <3>1, <3>4, ScalarReads
    <3>6. w \in Text /\ w # <<>> /\ Even(w) /\ Bare(w, Apart) /\ w[1] \notin Edges
          /\ w[Len(w)] \notin Edges /\ w[1] # "[" /\ ScalarOf(w) = v
      BY <3>5 DEF Reads
    <3>7. Bare(w, {"OR", "AND"})
      BY <3>6 DEF Bare, Apart
    <3>8. Solid(w)
      BY <3>6, <3>7 DEF Solid
    <3>9. ~ Between(w, "[", "]")
      BY <3>6, BracketIs, BetweenIs
    <3>10. ~ panics[<<" ">> \o w]
      BY <3>5, ScalarPassed
    <3> QED
      BY <3>6, <3>8, <3>9, <3>10 DEF ValueOf
  <2> QED
    BY <2>1, <2>2
<1> HIDE DEF w
<1>2. w \in Text /\ w # <<>> /\ w[1] \notin Edges /\ w[Len(w)] \notin Edges
  BY <1>1 DEF Solid
<1>3. w[1] \notin Blank /\ w[Len(w)] \notin Blank
  BY <1>2 DEF Edges, Blank
<1>4. Trim(<<" ">> \o w) = w
  BY <1>2, <1>3, TrimWhole
<1>5. parseValue(<<" ">> \o w) = v
  BY <1>1, <1>4 DEF parseValue
<1> QED
  BY <1>1, <1>5 DEF w

-----------------------------------------------------------------------------
(* Comparisons. *)

\* Nothing in it opens or closes anything, or joins conditions.
Bland(token) == token \in Token \ (Quote \cup Opening \cup Closing \cup {"OR", "AND"})

\* The texts of the comparators.
LEMMA ComparatorIn ==
  ASSUME NEW k \in DOMAIN Comparators
  PROVE  Comparators[k].text \in
           {<<"NOT", " ", "IN">>, <<"IN">>, <<"MATCHES">>, <<"!", "=">>, <<"<", "=">>,
            <<">", "=">>, <<"=">>, <<"<">>, <<">">>}
<1>1. k \in 1..9
  BY ComparatorsAre
<1>2. k = 1 \/ k = 2 \/ k = 3 \/ k = 4 \/ k = 5 \/ k = 6 \/ k = 7 \/ k = 8 \/ k = 9
  BY ONLY <1>1
<1> QED
  BY <1>2, ComparatorsAre, Zenon

\* Fields and comparators open nothing, close nothing and join nothing.
LEMMA BlandWords ==
  /\ \A f \in Field : Bland(f) /\ f \notin Edges /\ f \notin {"NOT", "("}
  /\ Bland(" ")
  /\ \A k \in DOMAIN Comparators :
       /\ Comparators[k].text \in Text /\ Len(Comparators[k].text) \in {1, 2, 3}
       /\ \A i \in 1..Len(Comparators[k].text) : Bland(Comparators[k].text[i])
<1>1. \A x \in {"NOT", " ", "IN", "MATCHES", "!", "=", "<", ">"} : Bland(x)
  BY Tokens DEF Bland, Characters, Reserved, Quote, Opening, Closing
<1>2. \A f \in Field : Bland(f) /\ f \notin Edges /\ f \notin {"NOT", "("}
  BY Tokens DEF Bland, Field, ShareField, FileField, DirField, Quote, Opening, Closing, Edges
<1>3. ASSUME NEW k \in DOMAIN Comparators
      PROVE  /\ Len(Comparators[k].text) \in {1, 2, 3}
             /\ \A i \in 1..Len(Comparators[k].text) : Bland(Comparators[k].text[i])
  <2> DEFINE u == Comparators[k].text
  <2>1. u \in {<<"NOT", " ", "IN">>, <<"IN">>, <<"MATCHES">>, <<"!", "=">>, <<"<", "=">>,
               <<">", "=">>, <<"=">>, <<"<">>, <<">">>}
    BY ComparatorIn
  <2> HIDE DEF u
  <2>2. CASE u = <<"NOT", " ", "IN">>
    <3>1. Len(u) = 3 /\ u[1] = "NOT" /\ u[2] = " " /\ u[3] = "IN"
      BY <2>2
    <3>2. \A i \in 1..3 : i = 1 \/ i = 2 \/ i = 3
      OBVIOUS
    <3> QED
      BY <1>1, <3>1, <3>2 DEF u
  <2>3. ASSUME NEW x \in {"!", "<", ">"}, u = <<x, "=">> PROVE Len(u) \in {1, 2, 3} /\ \A i \in 1..Len(u) : Bland(u[i])
    <3>1. Len(u) = 2 /\ u[1] = x /\ u[2] = "="
      BY <2>3
    <3>2. \A i \in 1..2 : i = 1 \/ i = 2
      OBVIOUS
    <3> QED
      BY <1>1, <3>1, <3>2
  <2>4. ASSUME NEW x \in {"IN", "MATCHES", "=", "<", ">"}, u = <<x>> PROVE Len(u) \in {1, 2, 3} /\ \A i \in 1..Len(u) : Bland(u[i])
    <3>1. Len(u) = 1 /\ u[1] = x
      BY <2>4
    <3>2. \A i \in 1..1 : i = 1
      OBVIOUS
    <3> QED
      BY <1>1, <3>1, <3>2
  <2> QED
    BY <2>1, <2>2, <2>3, <2>4 DEF u
<1> QED
  BY <1>1, <1>2, <1>3, ComparatorTexts

\* A comparison up to its value.
LEMMA HeadText ==
  ASSUME NEW f \in Field, NEW k \in DOMAIN Comparators
  PROVE  LET K == Comparators[k].text
             c == <<f, " ">> \o K \o <<" ">>
         IN  /\ c \in Text /\ Len(c) = Len(K) + 3 /\ Len(K) \in {1, 2, 3} /\ K \in Text
             /\ c[1] = f /\ c[2] \in Blank
             /\ \A i \in 1..Len(K) : c[i + 2] = K[i]
             /\ Even(c) /\ Bare(c, {"OR", "AND"})
<1> DEFINE K == Comparators[k].text
           a == <<f, " ">>
           d == <<" ">>
           b == a \o K
           c == b \o d
           n == Len(K)
<1>1. K \in Text /\ n \in {1, 2, 3} /\ \A i \in 1..n : Bland(K[i])
  BY BlandWords
<1>2. /\ a \in Text /\ Len(a) = 2 /\ a[1] = f /\ a[2] = " "
      /\ d \in Text /\ Len(d) = 1 /\ d[1] = " "
  <2>1. f \in Token /\ " " \in Token
    BY Tokens DEF Characters
  <2>2. a \in Text /\ d \in Text
    BY <2>1, Words
  <2>3. Len(a) = 2 /\ a[1] = f /\ a[2] = " " /\ Len(d) = 1 /\ d[1] = " "
    OBVIOUS
  <2> QED
    BY <2>2, <2>3
<1>3. Bland(f) /\ Bland(" ")
  BY BlandWords
<1> HIDE DEF K, a, d, b, c
<1>4. /\ b \in Text /\ Len(b) = n + 2 /\ b[1] = f /\ b[2] = " "
      /\ \A i \in 1..n : b[i + 2] = K[i]
  <2>1. /\ b \in Text /\ Len(b) = Len(a) + Len(K)
        /\ \A i \in 1..Len(a) : b[i] = a[i]
        /\ \A i \in 1..Len(K) : b[Len(a) + i] = K[i]
    BY <1>1, <1>2, ConcatText DEF b
  <2>2. 1 \in 1..2 /\ 2 \in 1..2 /\ n \in Nat /\ \A i \in 1..n : i + 2 = 2 + i
    BY ONLY <1>1
  <2> HIDE DEF n
  <2>3. 2 + n = n + 2
    BY ONLY <2>2
  <2> QED
    BY <1>2, <2>1, <2>2, <2>3 DEF n
<1>5. /\ c \in Text /\ Len(c) = n + 3 /\ c[1] = f /\ c[2] = " " /\ c[n + 3] = " "
      /\ \A i \in 1..n : c[i + 2] = K[i]
  <2>1. /\ c \in Text /\ Len(c) = Len(b) + Len(d)
        /\ \A i \in 1..Len(b) : c[i] = b[i]
        /\ \A i \in 1..Len(d) : c[Len(b) + i] = d[i]
    BY <1>2, <1>4, ConcatText DEF c
  <2>2. n \in Nat
    BY ONLY <1>1
  <2> HIDE DEF n
  <2>3. 1 \in 1..(n + 2) /\ 2 \in 1..(n + 2) /\ (n + 2) + 1 = n + 3 /\ 1 \in 1..1
        /\ \A i \in 1..n : i + 2 \in 1..(n + 2)
    BY ONLY <2>2
  <2>4. c \in Text /\ Len(c) = n + 3
    <3>1. Len(c) = (n + 2) + 1
      BY ONLY <1>2, <1>4, <2>1
    <3> QED
      BY ONLY <2>1, <2>3, <3>1
  <2>5. c[1] = f /\ c[2] = " "
    BY <1>4, <2>1, <2>3
  <2>6. c[n + 3] = " "
    <3>1. c[(n + 2) + 1] = d[1]
      BY ONLY <1>2, <1>4, <2>1, <2>3
    <3> QED
      BY <1>2, <2>3, <3>1
  <2>7. ASSUME NEW i \in 1..n PROVE c[i + 2] = K[i]
    <3>1. i + 2 \in 1..Len(b)
      BY <1>4, <2>3
    <3> QED
      BY <1>4, <2>1, <3>1
  <2> QED
    BY <2>4, <2>5, <2>6, <2>7
<1>6. \A i \in 1..Len(c) : Bland(c[i])
  <2>1. n \in Nat
    BY ONLY <1>1
  <2> HIDE DEF n
  <2>2. \A i \in 1..(n + 3) : i = 1 \/ i = 2 \/ i = n + 3 \/ (i - 2 \in 1..n /\ (i - 2) + 2 = i)
    BY ONLY <2>1
  <2>3. \A i \in 1..n : Bland(c[i + 2])
    BY <1>1, <1>5 DEF n
  <2> QED
    BY <1>3, <1>5, <2>2, <2>3
<1>7. Neutral(c) /\ \A i \in 1..Len(c) : c[i] \notin {"OR", "AND"}
  BY <1>6 DEF Neutral, Bland
<1>8. Even(c) /\ Bare(c, {"OR", "AND"})
  BY <1>5, <1>7, NeutralEven
<1>9. c[2] \in Blank
  BY <1>5 DEF Blank
<1> QED
  BY <1>1, <1>5, <1>8, <1>9 DEF c, b, a, d, K

\* A text is found at the first or the second place.
LEMMA IndexIs ==
  ASSUME NEW t \in Text, NEW x, NEW n, n \in {1, 2}, n \in DOMAIN t,
         Begins(From(t, n), x), n = 2 => ~ Begins(From(t, 1), x)
  PROVE  Index(t, x) = n
<1> DEFINE S == {i \in DOMAIN t : Begins(From(t, i), x)}
<1>1. S \in SUBSET (Nat \ {0})
  BY TextIs
<1>2. n \in S /\ (n = 2 => 1 \notin S)
  OBVIOUS
<1> HIDE DEF S
<1>3. Least(S) \in S /\ Least(S) <= n
  BY <1>1, <1>2, LeastOf
<1>4. Least(S) \in Nat \ {0}
  BY <1>1, <1>3
<1>5. Least(S) = n
  BY <1>2, <1>3, <1>4
<1> QED
  BY <1>5 DEF Index, S

\* Where the comparator of a comparison is found, and what it stands between.
LEMMA PlacesOf ==
  ASSUME NEW f \in Field, NEW k \in DOMAIN Comparators, NEW w \in Text
  PROVE  LET K == Comparators[k].text
             t == <<f, " ">> \o K \o <<" ">> \o w
         IN  /\ Index(t, <<" ">> \o K \o <<" ">>) = 2
             /\ SubSeq(t, 1, 1) = <<f>>
             /\ t[2] \in Blank
             /\ From(t, 2 + Len(K) + 1) = <<" ">> \o w
<1> DEFINE K == Comparators[k].text
           n == Len(K)
           e == <<f>>
           d == <<" ">>
           a == <<f, " ">>
           b == a \o K
           c == b \o d
           q == d \o K \o d
           t == c \o w
<1>1. /\ c \in Text /\ Len(c) = n + 3 /\ n \in Nat /\ n > 0 /\ K \in Text /\ Len(K) = n
      /\ c[1] = f /\ c[2] \in Blank
  <2>1. /\ c \in Text /\ Len(c) = n + 3 /\ n \in {1, 2, 3} /\ K \in Text
        /\ c[1] = f /\ c[2] \in Blank
        /\ \A i \in 1..n : c[i + 2] = K[i]
        /\ Even(c) /\ Bare(c, {"OR", "AND"})
    BY HeadText
  <2>2. \A i \in {1, 2, 3} : i \in Nat /\ i > 0
    OBVIOUS
  <2>3. n \in Nat /\ n > 0
    BY <2>1, <2>2
  <2>4. Len(K) = n
    OBVIOUS
  <2> HIDE DEF c, n, K
  <2> QED
    BY <2>1, <2>3, <2>4
<1>2. f \in Token /\ " " \in Token /\ f \notin Blank
  BY Tokens, BlandWords DEF Characters, Edges, Blank
<1>3. a = e \o d
  BY <1>2, TwoWords
<1>4. e \in Text /\ d \in Text /\ Len(e) = 1 /\ Len(d) = 1 /\ d[1] \in Blank
  <2>1. e \in Text /\ d \in Text
    BY <1>2, Words
  <2>2. Len(e) = 1 /\ Len(d) = 1 /\ d[1] \in Blank
    BY DEF Blank
  <2> QED
    BY <2>1, <2>2
<1> HIDE DEF K, e, d, a, b, c, q, t, n
<1>5. q \in Text /\ d \o K \in Text /\ e \o d \in Text
  <2>1. d \o K \in Text /\ e \o d \in Text
    BY <1>1, <1>4, ConcatText
  <2> QED
    BY <1>4, <2>1, ConcatText DEF q
<1>6. c = e \o q
  <2>1. e \in Text /\ d \in Text /\ K \in Text
    BY <1>1, <1>4
  <2> DEFINE p == d \o K
             r == e \o d
  <2>2. p \in Text /\ r \in Text
    BY <1>5
  <2>3. r \o K = e \o p
    BY ONLY <2>1, ConcatAssociates
  <2> HIDE DEF p, r
  <2>4. (e \o p) \o d = e \o (p \o d)
    BY ONLY <2>1, <2>2, ConcatAssociates
  <2>5. (r \o K) \o d = e \o (p \o d)
    BY ONLY <2>3, <2>4
  <2> QED
    BY <1>3, <2>5 DEF c, b, q, p, r
<1>7. q \o w \in Text /\ t = e \o (q \o w) /\ t \in Text
  <2>1. q \o w \in Text /\ t \in Text
    BY <1>1, <1>5, ConcatText DEF t
  <2>2. e \o (q \o w) = (e \o q) \o w
    BY <1>4, <1>5, ConcatAssociates
  <2> QED
    BY <1>6, <2>1, <2>2 DEF t
<1>8. SubSeq(t, 1, 1) = e /\ From(t, 2) = q \o w
  <2>1. SubSeq(e \o (q \o w), 1, Len(e)) = e /\ From(e \o (q \o w), Len(e) + 1) = q \o w
    BY <1>4, <1>7, JoinPieces
  <2> DEFINE r == e \o (q \o w)
  <2> HIDE DEF r
  <2>2. SubSeq(r, 1, Len(e)) = e /\ From(r, Len(e) + 1) = q \o w /\ t = r
    BY <1>7, <2>1 DEF r
  <2>3. Len(e) + 1 = 2
    BY ONLY <1>4
  <2> QED
    BY <1>4, <2>2, <2>3
<1>9. Begins(From(t, 2), q)
  <2>1. /\ Len(q \o w) = Len(q) + Len(w)
        /\ \A i \in 1..Len(q) : (q \o w)[i] = q[i]
    BY <1>5, ConcatText
  <2>2. Len(q) \in Nat /\ Len(w) \in Nat
    BY <1>5, TextIs
  <2> DEFINE r == q \o w
  <2>3. Len(q) <= Len(r) /\ \A i \in 1..Len(q) : r[i] = q[i]
    BY <2>1, <2>2
  <2> HIDE DEF r
  <2>4. Begins(r, q)
    BY <1>5, <1>7, <2>3, BeginsWith DEF r
  <2> QED
    BY <1>8, <2>4 DEF r
<1>10. /\ Len(t) = Len(c) + Len(w) /\ Len(w) \in Nat
       /\ \A i \in 1..Len(c) : t[i] = c[i]
  BY <1>1, ConcatText, TextIs DEF t
<1>11. Len(t) >= 4 /\ Len(t) \in Nat /\ t[1] = f /\ t[2] \in Blank
  <2>1. 1 \in 1..Len(c) /\ 2 \in 1..Len(c) /\ Len(c) >= 4
    BY ONLY <1>1
  <2>2. t[1] = f /\ t[2] \in Blank
    BY <1>1, <1>10, <2>1
  <2>3. Len(t) \in Nat
    BY <1>7, TextIs
  <2>4. Len(t) >= 4
    BY ONLY <1>10, <2>1, <2>3, Len(c) \in Int
  <2> QED
    BY <2>2, <2>3, <2>4
<1>12. ~ Begins(From(t, 1), q)
  <2>1. q[1] \in Blank /\ 1 \in 1..Len(q)
    <3>1. Len(d \o K) = Len(d) + Len(K) /\ \A i \in 1..Len(d) : (d \o K)[i] = d[i]
      BY <1>1, <1>4, ConcatText
    <3>2. Len(q) = Len(d \o K) + Len(d) /\ \A i \in 1..Len(d \o K) : q[i] = (d \o K)[i]
      BY <1>4, <1>5, ConcatText DEF q
    <3>3. Len(d \o K) \in Nat /\ Len(K) \in Nat
      BY <1>1, <1>5, TextIs
    <3>4. 1 \in 1..Len(d) /\ 1 \in 1..Len(d \o K) /\ 1 \in 1..Len(q)
      BY ONLY <1>4, <3>1, <3>2, <3>3
    <3> QED
      BY <1>4, <3>1, <3>2, <3>4
  <2>2. From(t, 1) \in Text /\ From(t, 1)[1] = f
    <3>1. 1 \in 1..(Len(t) + 1) /\ 1 \in 1..(Len(t) - 1 + 1) /\ 1 + 1 - 1 = 1
      BY ONLY <1>11
    <3>2. /\ From(t, 1) \in Text
          /\ \A i \in 1..(Len(t) - 1 + 1) : From(t, 1)[i] = t[1 + i - 1]
      BY <1>7, <3>1, FromIn
    <3> QED
      BY <1>11, <3>1, <3>2
  <2> QED
    BY <1>2, <1>5, <2>1, <2>2, BeginsWith
<1>13. Index(t, q) = 2
  <2>1. DOMAIN t = 1..Len(t)
    BY <1>7, TextIs
  <2>2. 2 \in DOMAIN t /\ 2 \in {1, 2}
    <3>1. 2 \in 1..Len(t)
      BY ONLY <1>11
    <3> QED
      BY <2>1, <3>1
  <2> QED
    BY <1>7, <1>9, <1>12, <2>2, IndexIs
<1>14. From(t, 2 + n + 1) = d \o w
  <2>1. b \in Text /\ Len(b) = n + 2
    <3>1. b \in Text /\ Len(b) = (1 + 1) + n
      <4>1. e \o d \in Text /\ Len(e \o d) = Len(e) + Len(d)
        BY <1>4, ConcatText
      <4>2. a \in Text /\ Len(a) = 1 + 1
        BY <1>3, <1>4, <4>1
      <4>3. a \o K \in Text /\ Len(a \o K) = Len(a) + Len(K)
        BY <1>1, <4>2, ConcatText
      <4> QED
        BY <1>1, <4>2, <4>3 DEF b
    <3> QED
      BY ONLY <1>1, <3>1
  <2>2. From(b \o d, Len(b) + 1) = d
    BY <1>4, <2>1, JoinPieces
  <2>3. \A m \in 1..(Len(c) + 1) : From(c \o w, m) = From(c, m) \o w
    BY <1>1, JoinPieces
  <2>4. 2 + n + 1 = Len(b) + 1 /\ 2 + n + 1 \in 1..(Len(c) + 1)
    BY ONLY <1>1, <2>1
  <2> QED
    BY <2>2, <2>3, <2>4 DEF c, t
<1> QED
  BY <1>8, <1>11, <1>13, <1>14 DEF t, c, b, a, d, e, q, K, n

\* Whether the whole is cut at its comparator: a comparison is read as it was meant
\* (parser.go:178-215).
LEMMA ComparisonReads ==
  ASSUME NEW part \in Part, part.kind = "is", IsComparison(part)
  PROVE  /\ Solid(WriteComparison(part))
         /\ WriteComparison(part)[1] = part.field /\ part.field \in Field
         /\ parseComparison(WriteComparison(part)) =
              FieldCondition(<<part.field>>, part.comparator, part.value)
<1> DEFINE f == part.field
           v == part.value
           p == Place(part.comparator)
           K == Comparators[p].text
           w == WriteValue(v)
           c == <<f, " ">> \o K \o <<" ">>
           t == c \o w
<1>1. /\ f \in Field /\ v \in Value
      /\ part.comparator \in {Comparators[k].name : k \in DOMAIN Comparators}
  BY ComparisonText
<1>2. p \in DOMAIN Comparators /\ Comparators[p].name = part.comparator
  BY <1>1, PlaceIs
<1>3. /\ Fits(part.comparator, f, v)
      /\ \A k \in 1..(p - 1) : Position(WriteComparison(part), Comparators[k]) = 0
  BY DEF IsComparison
<1>4. Solid(w) /\ parseValue(<<" ">> \o w) = v /\ ~ panics[<<" ">> \o w]
  BY <1>1, <1>3, ValueReads
<1>5. WriteComparison(part) = t
  BY DEF WriteComparison
<1> HIDE DEF w
<1>6. w \in Text /\ w # <<>> /\ Even(w) /\ Bare(w, {"OR", "AND"}) /\ w[Len(w)] \notin Edges
  BY <1>4 DEF Solid
<1>7. /\ Index(t, <<" ">> \o K \o <<" ">>) = 2
      /\ SubSeq(t, 1, 1) = <<f>>
      /\ t[2] \in Blank
      /\ From(t, 2 + Len(K) + 1) = <<" ">> \o w
  BY <1>1, <1>2, <1>6, PlacesOf
<1>8. /\ c \in Text /\ c[1] = f /\ Len(c) \in Nat /\ Len(c) > 0
      /\ Even(c) /\ Bare(c, {"OR", "AND"})
  <2>1. /\ c \in Text /\ Len(c) = Len(K) + 3 /\ Len(K) \in {1, 2, 3} /\ K \in Text
        /\ c[1] = f /\ c[2] \in Blank
        /\ \A i \in 1..Len(K) : c[i + 2] = K[i]
        /\ Even(c) /\ Bare(c, {"OR", "AND"})
    BY <1>1, <1>2, HeadText
  <2> HIDE DEF c, K
  <2> QED
    <3>1. Len(K) \in Nat /\ Len(c) \in Nat /\ Len(c) > 0
      <4>1. Len(K) \in Nat
        BY <2>1
      <4> QED
        BY ONLY <2>1, <4>1
    <3> QED
      BY <2>1, <3>1
<1> HIDE DEF c
<1>9. Solid(t) /\ t[1] = f
  <2>1. /\ t \in Text /\ Len(t) = Len(c) + Len(w)
        /\ \A i \in 1..Len(c) : t[i] = c[i]
        /\ \A i \in 1..Len(w) : t[Len(c) + i] = w[i]
    BY <1>6, <1>8, ConcatText
  <2>2. Len(w) \in Nat /\ Len(w) > 0 /\ Len(w) \in 1..Len(w)
    BY <1>6, LastOf
  <2>3. t[Len(t)] = w[Len(w)]
    BY <2>1, <2>2
  <2>4. 1 \in 1..Len(c) /\ Len(t) # 0
    BY ONLY <1>8, <2>1, <2>2
  <2>5. t[1] = f
    BY <1>8, <2>1, <2>4
  <2>6. t # <<>>
    BY <2>4, EmptyText
  <2>7. f \notin Edges
    BY <1>1, BlandWords
  <2>8. Even(t)
    BY <1>6, <1>8, EvenJoin
  <2>9. Shut(c, FALSE)
    BY <1>8 DEF Even, Shut
  <2>10. Bare(t, {"OR", "AND"})
    BY <1>6, <1>8, <2>9, BareJoin
  <2> HIDE DEF t
  <2> QED
    BY <1>6, <2>1, <2>3, <2>5, <2>6, <2>7, <2>8, <2>10 DEF Solid
<1> HIDE DEF t, K
<1>10. Position(t, Comparators[p]) = 2
  <2> DEFINE i == Index(t, <<" ">> \o Comparators[p].text \o <<" ">>)
             j == Index(t, Comparators[p].text)
  <2>1. i = 2
    BY <1>7 DEF K
  <2>2. Position(t, Comparators[p]) = PlaceOf(t, i, j)
    BY DEF Position
  <2> HIDE DEF i, j
  <2> QED
    BY <2>1, <2>2 DEF PlaceOf
<1>11. Least({k \in DOMAIN Comparators : Position(t, Comparators[k]) # 0}) = p
  <2> DEFINE S == {k \in DOMAIN Comparators : Position(t, Comparators[k]) # 0}
  <2>1. DOMAIN Comparators = 1..9
    BY ComparatorsAre
  <2>2. S \in SUBSET (Nat \ {0}) /\ p \in S /\ \A k \in S : k \in 1..9
    BY <1>2, <1>10, <2>1
  <2>3. \A k \in 1..(p - 1) : k \notin S
    BY <1>3, <1>5
  <2> HIDE DEF S
  <2>4. Least(S) \in S /\ Least(S) <= p
    BY <2>2, LeastOf
  <2>5. p \in 1..9 /\ Least(S) \in 1..9
    BY <2>2, <2>4
  <2>6. Least(S) = p
    BY <2>3, <2>4, <2>5
  <2> QED
    BY <2>6 DEF S
<1>12. Trim(<<f>>) = <<f>>
  <2>1. <<f>> \in Text /\ f \notin Blank
    BY <1>1, Tokens, Words, BlandWords DEF Edges, Blank
  <2> DEFINE e == <<f>>
  <2>2. e # <<>> /\ e[1] = f /\ Len(e) = 1
    OBVIOUS
  <2>3. e \in Text /\ e # <<>> /\ e[1] \notin Blank /\ e[Len(e)] \notin Blank
    BY <2>1, <2>2
  <2> HIDE DEF e
  <2>4. Trim(e) = e
    BY <2>3, TrimWhole
  <2> QED
    BY <2>4 DEF e
<1>13. Comparison(t, Comparators[p], 2) = FieldCondition(<<f>>, part.comparator, v)
  <2>1. 2 - 1 = 1
    OBVIOUS
  <2>2. From(t, 2 + Len(Comparators[p].text) + (IF t[2] = " " THEN 1 ELSE 0)) = <<" ">> \o w
    BY <1>7 DEF K, Blank
  <2> QED
    BY <1>2, <1>4, <1>7, <1>12, <2>1, <2>2 DEF Comparison
<1>14. p # 0
  <2>1. p \in 1..9
    BY <1>2, ComparatorsAre
  <2> HIDE DEF p
  <2> QED
    BY ONLY <2>1
<1>15. parseComparison(t) = FieldCondition(<<f>>, part.comparator, v)
  BY <1>10, <1>11, <1>13, <1>14 DEF parseComparison
<1> QED
  BY <1>1, <1>5, <1>9, <1>15

-----------------------------------------------------------------------------
(* Conditions: which texts stand for which answers. *)

\* No token of X stands in t outside quotes and brackets.
Free(t, X) ==
  \A i \in 1..Len(t) : OpenQuote(t, i) = "none" /\ Depth(t, i) = 0 => t[i] \notin X

\* Two texts free of a word are so together.
LEMMA FreeJoin ==
  ASSUME NEW s \in Text, NEW t \in Text, NEW X, Shut(s, TRUE), Free(s, X), Free(t, X)
  PROVE  Free(s \o t, X)
<1> DEFINE u == s \o t
<1>1. Shut(s, FALSE) /\ Depth(s, Len(s) + 1) = 0
  BY DEF Shut
<1>2. /\ \A i \in 1..Len(s) : /\ u[i] = s[i] /\ OpenQuote(u, i) = OpenQuote(s, i)
                              /\ Depth(u, i) = Depth(s, i)
      /\ \A i \in 1..Len(t) : /\ u[Len(s) + i] = t[i]
                              /\ OpenQuote(u, Len(s) + i) = OpenQuote(t, i)
                              /\ Depth(u, Len(s) + i) = Depth(s, Len(s) + 1) + Depth(t, i)
  BY <1>1, JoinScan
<1>3. \A i \in 1..Len(t) : Depth(t, i) \in Int
  <2>1. Len(t) \in Nat
    BY TextIs
  <2>2. \A i \in 1..Len(t) : i \in 1..(Len(t) + 1)
    BY ONLY <2>1
  <2> QED
    BY <2>2, DepthInt
<1>4. ASSUME NEW i \in 1..Len(u), OpenQuote(u, i) = "none", Depth(u, i) = 0 PROVE u[i] \notin X
  <2>1. i \in 1..Len(s) \/ \E j \in 1..Len(t) : i = Len(s) + j
    BY JoinPlace
  <2> HIDE DEF u
  <2>2. CASE i \in 1..Len(s)
    BY <1>2, <1>4, <2>2 DEF Free
  <2>3. ASSUME NEW j \in 1..Len(t), i = Len(s) + j PROVE u[i] \notin X
    <3>1. u[i] = t[j] /\ OpenQuote(t, j) = "none" /\ Depth(u, i) = Depth(s, Len(s) + 1) + Depth(t, j)
      BY <1>2, <1>4, <2>3
    <3>2. Depth(t, j) = 0
      BY ONLY <1>1, <1>3, <1>4, <3>1, j \in 1..Len(t)
    <3> QED
      BY <3>1, <3>2 DEF Free
  <2> QED
    BY <2>1, <2>2, <2>3
<1> QED
  BY <1>4 DEF Free, u

\* A text free of a keyword is not cut there.
LEMMA FreeUncut ==
  ASSUME NEW t \in Text, NEW K \in Text, Len(K) > 1,
         K[1] \notin Quote \cup Opening \cup Closing, Free(t, {K[2]})
  PROVE  Split(t, K, TRUE) = <<t>>
<1>1. Len(K) \in Nat /\ Len(t) \in Nat
  BY TextIs
<1>2. K # <<>>
  BY <1>1, EmptyText
<1>3. ASSUME NEW i \in Cuts(t, K, TRUE) PROVE FALSE
  <2>1. /\ i \in 1..Len(t) /\ i + Len(K) - 1 <= Len(t) /\ \A k \in 1..Len(K) : t[i + k - 1] = K[k]
        /\ OpenQuote(t, i) = "none" /\ Depth(t, i) = 0
    <3>1. Cuts(t, K, TRUE) =
            {j \in 1..Len(t) :
               /\ j + Len(K) - 1 <= Len(t) /\ \A k \in 1..Len(K) : t[j + k - 1] = K[k]
               /\ OpenQuote(t, j) = "none" /\ (TRUE => Depth(t, j) = 0)}
      BY ONLY <1>2, t \in Text, K \in Text, CutsAre
    <3> DEFINE S == Cuts(t, K, TRUE)
    <3> HIDE DEF S
    <3>2. i \in S
      BY <1>3 DEF S
    <3> QED
      BY <3>1, <3>2 DEF S
  <2>2. 1 \in 1..Len(K) /\ 2 \in 1..Len(K) /\ i + 1 - 1 = i /\ i + 2 - 1 = i + 1 /\ i + 1 \in 1..Len(t)
    BY ONLY <1>1, <2>1, Len(K) > 1
  <2>3. t[i] = K[1] /\ t[i + 1] = K[2]
    BY <2>1, <2>2
  <2>4. OpenQuote(t, i + 1) = "none"
    BY <2>1, <2>3, OpenStep DEF Toggle
  <2>5. Depth(t, i + 1) = 0
    <3>1. Depth(t, i + 1) = Depth(t, i) + Delta(t[i])
      BY <2>1, DepthStep
    <3>2. Delta(t[i]) = 0
      BY <2>3 DEF Delta
    <3> QED
      BY ONLY <2>1, <3>1, <3>2
  <2> QED
    BY <2>2, <2>3, <2>4, <2>5 DEF Free
<1>4. Cuts(t, K, TRUE) = {}
  BY <1>3
<1> QED
  BY <1>2, <1>4, NoCut

\* A text in brackets is free of every word but the brackets.
LEMMA FreeWrapped ==
  ASSUME NEW w \in Text, Even(w), NEW X, "(" \notin X
  PROVE  Free(InBrackets(w), X)
<1> DEFINE o == "("
           c == ")"
           t == <<o>> \o w \o <<c>>
           n == Len(w)
<1>1. o \in Opening /\ c \in Closing
  BY DEF Opening, Closing
<1>2. /\ Len(t) = n + 2 /\ t[1] = o /\ \A i \in 1..n : Depth(t, i + 1) > 0
      /\ t \in Text /\ Even(t) /\ t[n + 2] = c
  <2>1. /\ t \in Text /\ Len(t) = n + 2 /\ t[1] = o /\ t[n + 2] = c
        /\ Even(t) /\ OpenQuote(t, 1) = "none" /\ OpenQuote(t, n + 2) = "none"
        /\ \A i \in 1..n : t[i + 1] = w[i] /\ OpenQuote(t, i + 1) = OpenQuote(w, i)
                           /\ Depth(t, i + 1) > 0
    BY <1>1, Wrapped
  <2> HIDE DEF t, n
  <2> QED
    BY <2>1
<1>3. n \in Nat
  BY TextIs
<1>4. InBrackets(w) = t
  BY DEF InBrackets
<1> HIDE DEF t, n
<1>5. Depth(t, n + 2) # 0
  <2>1. Depth(t, Len(t) + 1) = 0
    BY <1>2 DEF Even, Shut
  <2>2. n + 2 \in 1..Len(t) /\ Len(t) + 1 = (n + 2) + 1
    BY ONLY <1>2, <1>3
  <2>3. Depth(t, n + 2) \in Int /\ Depth(t, (n + 2) + 1) = Depth(t, n + 2) + Delta(t[n + 2])
    BY <1>2, <2>2, DepthStep
  <2>4. Delta(t[n + 2]) = -1
    BY <1>2 DEF Delta, Opening, Closing
  <2>5. Depth(t, (n + 2) + 1) = 0
    BY ONLY <2>1, <2>2
  <2> QED
    BY ONLY <2>3, <2>4, <2>5
<1>6. ASSUME NEW i \in 1..Len(t), Depth(t, i) = 0 PROVE t[i] \notin X
  <2>1. i = 1 \/ i = n + 2 \/ (i - 1 \in 1..n /\ (i - 1) + 1 = i)
    BY ONLY <1>2, <1>3, i \in 1..Len(t)
  <2>2. ~ (i - 1 \in 1..n /\ (i - 1) + 1 = i)
    <3>1. ASSUME i - 1 \in 1..n, (i - 1) + 1 = i PROVE FALSE
      <4>1. Depth(t, (i - 1) + 1) > 0
        BY <1>2, <3>1
      <4>2. Depth(t, (i - 1) + 1) = 0
        BY <1>6, <3>1
      <4> QED
        BY ONLY <4>1, <4>2
    <3> QED
      BY <3>1
  <2> QED
    BY <1>2, <1>5, <1>6, <2>1, <2>2
<1> QED
  BY <1>4, <1>6 DEF Free

\* OR of conditions holds where one of them does.
LEMMA JoinedOr ==
  ASSUME NEW rs, \A i \in DOMAIN rs : rs[i].ok
  PROVE  /\ Joined("or", rs) = Condition([at \in Context |-> \E i \in DOMAIN rs : rs[i].holds[at]])
         /\ Joined("or", rs) \in Result /\ Joined("or", rs).ok
         /\ Joined("or", rs).holds = [at \in Context |-> \E i \in DOMAIN rs : rs[i].holds[at]]
<1> DEFINE h == [at \in Context |-> \E i \in DOMAIN rs : rs[i].holds[at]]
<1>1. Joined("or", rs) = Condition(h)
  BY DEF Joined
<1>2. h \in [Context -> BOOLEAN]
  OBVIOUS
<1> HIDE DEF h
<1>3. Condition(h) \in Result /\ Condition(h).ok /\ Condition(h).holds = h
  BY <1>2, ConditionIs, Results
<1> QED
  BY <1>1, <1>3 DEF h

\* AND of conditions holds where all of them do.
LEMMA JoinedAnd ==
  ASSUME NEW rs, \A i \in DOMAIN rs : rs[i].ok
  PROVE  /\ Joined("and", rs) = Condition([at \in Context |-> \A i \in DOMAIN rs : rs[i].holds[at]])
         /\ Joined("and", rs) \in Result /\ Joined("and", rs).ok
         /\ Joined("and", rs).holds = [at \in Context |-> \A i \in DOMAIN rs : rs[i].holds[at]]
<1> DEFINE h == [at \in Context |-> \A i \in DOMAIN rs : rs[i].holds[at]]
<1>1. Joined("and", rs) = Condition(h)
  BY DEF Joined
<1>2. h \in [Context -> BOOLEAN]
  OBVIOUS
<1> HIDE DEF h
<1>3. Condition(h) \in Result /\ Condition(h).ok /\ Condition(h).holds = h
  BY <1>2, ConditionIs, Results
<1> QED
  BY <1>1, <1>3 DEF h

\* What fails first is what comes of the whole.
LEMMA JoinedFailure ==
  ASSUME NEW kind, NEW rs, DOMAIN rs \subseteq Nat \ {0}, NEW i \in DOMAIN rs, ~ rs[i].ok,
         \A j \in DOMAIN rs : j < i => rs[j].ok
  PROVE  Joined(kind, rs) = rs[i]
<1> DEFINE S == {j \in DOMAIN rs : ~ rs[j].ok}
<1>1. S \in SUBSET (Nat \ {0}) /\ S # {} /\ i \in S /\ \A j \in S : ~ j < i
  OBVIOUS
<1>2. Joined(kind, rs) = rs[Least(S)]
  BY DEF Joined
<1> HIDE DEF S
<1>3. Least(S) \in S /\ Least(S) <= i
  BY <1>1, LeastOf
<1>4. Least(S) = i
  <2>1. Least(S) \in Nat /\ i \in Nat /\ ~ Least(S) < i
    BY <1>1, <1>3
  <2> QED
    BY ONLY <1>3, <2>1
<1> QED
  BY <1>2, <1>4

\* If one fails, one fails first.
LEMMA FirstFailure ==
  ASSUME NEW rs, DOMAIN rs \subseteq Nat \ {0}, \E i \in DOMAIN rs : ~ rs[i].ok
  PROVE  \E i \in DOMAIN rs : ~ rs[i].ok /\ \A j \in DOMAIN rs : j < i => rs[j].ok
<1> DEFINE S == {j \in DOMAIN rs : ~ rs[j].ok}
<1>1. S \in SUBSET Nat /\ S # {} /\ S \subseteq DOMAIN rs
  OBVIOUS
<1>2. PICK i \in S : \A j \in S : i <= j
  <2> HIDE DEF S
  <2> QED
    BY <1>1, LeastNatural
<1>3. ASSUME NEW j \in DOMAIN rs, j < i PROVE rs[j].ok
  <2>1. j \in Nat /\ i \in Nat
    BY <1>1
  <2>2. j \notin S
    BY <1>2, <1>3, <2>1
  <2> QED
    BY <2>2
<1> QED
  BY <1>2, <1>3

\* Whether one holds in a list of results, and whether all do.
LEMMA JoinOne ==
  ASSUME NEW kind \in {"or", "and"}, NEW r, r \in Result
  PROVE  Joined(kind, <<r>>) = r
<1> DEFINE rs == <<r>>
<1>1. DOMAIN rs = {1} /\ rs[1] = r
  OBVIOUS
<1> HIDE DEF rs
<1>2. r \in Result /\ r.ok \in BOOLEAN /\ r.holds \in [Context -> BOOLEAN]
      /\ (r.ok => r = Condition(r.holds))
  BY ResultIs
<1>3. CASE ~ r.ok
  <2>1. DOMAIN rs \subseteq Nat \ {0} /\ 1 \in DOMAIN rs /\ ~ rs[1].ok
        /\ \A j \in DOMAIN rs : ~ j < 1
    BY <1>1, <1>3
  <2> QED
    BY <1>1, <2>1, JoinedFailure
<1>4. CASE r.ok
  <2>1. \A i \in DOMAIN rs : rs[i].ok
    BY <1>1, <1>4
  <2>2. [at \in Context |-> \E i \in DOMAIN rs : rs[i].holds[at]] = r.holds
    BY <1>1, <1>2
  <2>3. [at \in Context |-> \A i \in DOMAIN rs : rs[i].holds[at]] = r.holds
    BY <1>1, <1>2
  <2> QED
    BY <1>2, <1>4, <2>1, <2>2, <2>3, JoinedOr, JoinedAnd
<1> QED
  BY <1>2, <1>3, <1>4 DEF rs

\* A list of two results.
LEMMA TwoResults ==
  ASSUME NEW r, NEW s
  PROVE  /\ DOMAIN <<r, s>> = {1, 2} /\ <<r, s>>[1] = r /\ <<r, s>>[2] = s
  OBVIOUS

LEMMA JoinedTwo ==
  ASSUME NEW kind, NEW r \in Result, NEW s \in Result
  PROVE  Joined(kind, <<r, s>>) \in Result
<1> DEFINE rs == <<r, s>>
<1>1. DOMAIN rs = {1, 2} /\ rs[1] = r /\ rs[2] = s
  BY TwoResults
<1> HIDE DEF rs
<1>2. DOMAIN rs \subseteq Nat \ {0} /\ \A i \in DOMAIN rs : rs[i] \in Result
  BY <1>1
<1>3. Joined(kind, rs) \in Result
  BY <1>2, JoinedResult
<1> QED
  BY <1>3 DEF rs

\* The results in two lists are those of either.
LEMMA ConcatIs ==
  ASSUME NEW X, NEW p \in Seq(X), NEW q \in Seq(X)
  PROVE  /\ p \o q \in Seq(X)
         /\ \A i \in DOMAIN p : i \in DOMAIN (p \o q) /\ (p \o q)[i] = p[i]
         /\ \A j \in DOMAIN q : \E i \in DOMAIN (p \o q) : (p \o q)[i] = q[j]
         /\ \A i \in DOMAIN (p \o q) :
              (i \in DOMAIN p /\ (p \o q)[i] = p[i]) \/ \E j \in DOMAIN q : (p \o q)[i] = q[j]
<1> DEFINE u == p \o q
           m == Len(p)
           n == Len(q)
<1>1. /\ u \in Seq(X) /\ Len(u) = m + n /\ DOMAIN u = 1..(m + n)
      /\ m \in Nat /\ n \in Nat /\ DOMAIN p = 1..m /\ DOMAIN q = 1..n
      /\ \A i \in 1..(m + n) : u[i] = IF i <= m THEN p[i] ELSE q[i - m]
  OBVIOUS
<1> HIDE DEF u, m, n
<1>2. \A i \in 1..m : i \in 1..(m + n) /\ u[i] = p[i]
  BY <1>1
<1>3. ASSUME NEW j \in 1..n PROVE m + j \in 1..(m + n) /\ u[m + j] = q[j]
  <2>1. m + j \in 1..(m + n) /\ ~ (m + j <= m) /\ (m + j) - m = j
    BY ONLY <1>1, j \in 1..n
  <2> QED
    BY <1>1, <2>1
<1>4. ASSUME NEW i \in 1..(m + n)
      PROVE  (i \in 1..m /\ u[i] = p[i]) \/ \E j \in 1..n : u[i] = q[j]
  <2>1. i \in 1..m \/ (i - m \in 1..n /\ ~ (i <= m))
    BY ONLY <1>1, i \in 1..(m + n)
  <2>2. CASE i \in 1..m
    BY <1>2, <2>2
  <2>3. CASE i - m \in 1..n /\ ~ (i <= m)
    BY <1>1, <2>3
  <2> QED
    BY <2>1, <2>2, <2>3
<1> QED
  BY <1>1, <1>2, <1>3, <1>4 DEF u

\* Joining all of two lists is joining each and then the two.
LEMMA JoinJoin ==
  ASSUME NEW kind \in {"or", "and"}, NEW p \in Seq(Result), NEW q \in Seq(Result)
  PROVE  Joined(kind, p \o q) = Joined(kind, <<Joined(kind, p), Joined(kind, q)>>)
<1> DEFINE u == p \o q
           a == Joined(kind, p)
           b == Joined(kind, q)
           d == <<a, b>>
           m == Len(p)
           n == Len(q)
<1>1. /\ \A i \in DOMAIN p : i \in DOMAIN u /\ u[i] = p[i]
      /\ \A j \in DOMAIN q : \E i \in DOMAIN u : u[i] = q[j]
      /\ \A i \in DOMAIN u : (i \in DOMAIN p /\ u[i] = p[i]) \/ \E j \in DOMAIN q : u[i] = q[j]
  BY ConcatIs
<1>0. /\ m \in Nat /\ n \in Nat /\ DOMAIN p = 1..m /\ DOMAIN q = 1..n /\ DOMAIN u = 1..(m + n)
      /\ \A i \in 1..(m + n) : u[i] = IF i <= m THEN p[i] ELSE q[i - m]
  OBVIOUS
<1>2. DOMAIN d = {1, 2} /\ d[1] = a /\ d[2] = b
  BY TwoResults
<1> HIDE DEF u, d, m, n
<1>6. /\ DOMAIN p \subseteq Nat \ {0} /\ DOMAIN q \subseteq Nat \ {0}
      /\ DOMAIN u \subseteq Nat \ {0} /\ DOMAIN d \subseteq Nat \ {0}
  BY <1>0, <1>2
<1>3. CASE \E i \in DOMAIN p : ~ p[i].ok
  <2>1. PICK i \in DOMAIN p : ~ p[i].ok /\ \A j \in DOMAIN p : j < i => p[j].ok
    BY <1>3, <1>6, FirstFailure
  <2>2. a = p[i]
    BY <1>6, <2>1, JoinedFailure
  <2>3. i \in DOMAIN u /\ ~ u[i].ok /\ u[i] = p[i]
    BY <1>1, <2>1
  <2>4. ASSUME NEW j \in DOMAIN u, j < i PROVE u[j].ok
    <3>1. j \in 1..m /\ j <= m /\ j \in 1..(m + n)
      BY <1>0, <2>4
    <3> QED
      BY <1>0, <2>1, <2>4, <3>1
  <2>5. Joined(kind, u) = p[i]
    BY <1>6, <2>3, <2>4, JoinedFailure
  <2> HIDE DEF a, b
  <2>6. 1 \in DOMAIN d /\ ~ d[1].ok /\ \A j \in DOMAIN d : ~ j < 1
    BY <1>2, <2>1, <2>2
  <2>7. Joined(kind, d) = d[1]
    BY <1>6, <2>6, JoinedFailure
  <2> QED
    BY <1>2, <2>2, <2>5, <2>7 DEF u, d, a, b
<1>4. CASE (\A i \in DOMAIN p : p[i].ok) /\ \E j \in DOMAIN q : ~ q[j].ok
  <2>1. PICK j \in DOMAIN q : ~ q[j].ok /\ \A i \in DOMAIN q : i < j => q[i].ok
    BY <1>4, <1>6, FirstFailure
  <2>2. b = q[j]
    BY <1>6, <2>1, JoinedFailure
  <2>3. m + j \in DOMAIN u /\ u[m + j] = q[j]
    <3>1. m + j \in 1..(m + n) /\ ~ m + j <= m /\ (m + j) - m = j
      BY ONLY <1>0, j \in DOMAIN q
    <3> QED
      BY <1>0, <3>1
  <2>4. ASSUME NEW i \in DOMAIN u, i < m + j PROVE u[i].ok
    <3>1. CASE i <= m
      <4>1. i \in DOMAIN p /\ u[i] = p[i]
        BY <1>0, <3>1
      <4> QED
        BY <1>4, <4>1
    <3>2. CASE ~ i <= m
      <4>1. i - m \in DOMAIN q /\ i - m < j
        BY ONLY <1>0, <3>2, i \in DOMAIN u, i < m + j, j \in DOMAIN q
      <4>2. u[i] = q[i - m]
        BY <1>0, <3>2
      <4> QED
        BY <2>1, <4>1, <4>2
    <3> QED
      BY <3>1, <3>2
  <2>5. Joined(kind, u) = q[j]
    <3>1. ~ u[m + j].ok
      BY <2>1, <2>3
    <3> QED
      BY <1>6, <2>3, <2>4, <3>1, JoinedFailure
  <2>6. a.ok
    BY <1>4, JoinedOr, JoinedAnd
  <2> HIDE DEF a, b
  <2>7. 2 \in DOMAIN d /\ ~ d[2].ok /\ \A i \in DOMAIN d : i < 2 => d[i].ok
    BY <1>2, <2>1, <2>2, <2>6
  <2>8. Joined(kind, d) = d[2]
    BY <1>6, <2>7, JoinedFailure
  <2> QED
    BY <1>2, <2>2, <2>5, <2>8 DEF u, d, a, b
<1>5. CASE (\A i \in DOMAIN p : p[i].ok) /\ (\A j \in DOMAIN q : q[j].ok)
  <2>1. \A i \in DOMAIN u : u[i].ok
    BY <1>1, <1>5
  <2>2. CASE kind = "or"
    <3>1. a.ok /\ a.holds = [at \in Context |-> \E i \in DOMAIN p : p[i].holds[at]]
      BY <1>5, <2>2, JoinedOr
    <3>2. b.ok /\ b.holds = [at \in Context |-> \E i \in DOMAIN q : q[i].holds[at]]
      BY <1>5, <2>2, JoinedOr
    <3> HIDE DEF a, b
    <3>3. \A i \in DOMAIN d : d[i].ok
      BY <1>2, <3>1, <3>2
    <3>4. \A at \in Context : (\E i \in DOMAIN d : d[i].holds[at]) <=> (a.holds[at] \/ b.holds[at])
      BY <1>2
    <3>5. \A at \in Context : (\E i \in DOMAIN u : u[i].holds[at]) <=> (a.holds[at] \/ b.holds[at])
      BY <1>1, <3>1, <3>2
    <3>6. [at \in Context |-> \E i \in DOMAIN u : u[i].holds[at]]
            = [at \in Context |-> \E i \in DOMAIN d : d[i].holds[at]]
      BY <3>4, <3>5
    <3>7. Joined("or", u) = Condition([at \in Context |-> \E i \in DOMAIN u : u[i].holds[at]])
      BY <2>1, JoinedOr
    <3>8. Joined("or", d) = Condition([at \in Context |-> \E i \in DOMAIN d : d[i].holds[at]])
      BY <3>3, JoinedOr
    <3> QED
      BY <2>2, <3>6, <3>7, <3>8 DEF u, d, a, b
  <2>3. CASE kind = "and"
    <3>1. a.ok /\ a.holds = [at \in Context |-> \A i \in DOMAIN p : p[i].holds[at]]
      BY <1>5, <2>3, JoinedAnd
    <3>2. b.ok /\ b.holds = [at \in Context |-> \A i \in DOMAIN q : q[i].holds[at]]
      BY <1>5, <2>3, JoinedAnd
    <3> HIDE DEF a, b
    <3>3. \A i \in DOMAIN d : d[i].ok
      BY <1>2, <3>1, <3>2
    <3>4. \A at \in Context : (\A i \in DOMAIN d : d[i].holds[at]) <=> (a.holds[at] /\ b.holds[at])
      BY <1>2
    <3>5. \A at \in Context : (\A i \in DOMAIN u : u[i].holds[at]) <=> (a.holds[at] /\ b.holds[at])
      BY <1>1, <3>1, <3>2
    <3>6. [at \in Context |-> \A i \in DOMAIN u : u[i].holds[at]]
            = [at \in Context |-> \A i \in DOMAIN d : d[i].holds[at]]
      BY <3>4, <3>5
    <3>7. Joined("and", u) = Condition([at \in Context |-> \A i \in DOMAIN u : u[i].holds[at]])
      BY <2>1, JoinedAnd
    <3>8. Joined("and", d) = Condition([at \in Context |-> \A i \in DOMAIN d : d[i].holds[at]])
      BY <3>3, JoinedAnd
    <3> QED
      BY <2>3, <3>6, <3>7, <3>8 DEF u, d, a, b
  <2> QED
    BY <2>2, <2>3
<1> QED
  BY <1>3, <1>4, <1>5

Answers(parts) == [i \in DOMAIN parts |-> parseCondition[parts[i]]]

OrText  == <<" ", "OR", " ">>
AndText == <<" ", "AND", " ">>

Alone(t) ==
  IF Begins(t, <<"NOT", " ">>) THEN NotCondition(parseCondition[From(t, 3)])
  ELSE IF Between(t, "(", ")") THEN parseCondition[Inner(t)]
  ELSE parseComparison(t)

\* The text u stands for the result r in a condition: how it is cut is no matter, but
\* not everything can stand anywhere without brackets.
Fit(u) == u \in Text /\ u # <<>> /\ Even(u) /\ u[1] \notin Edges /\ u[Len(u)] \notin Edges

Stands(u, r, binding) ==
  /\ Fit(u) /\ r \in Result /\ parseCondition[u] = r
  /\ Joined("or", Answers(Split(u, OrText, TRUE))) = r
  /\ binding > 1 => Free(u, {"OR"}) /\ Joined("and", Answers(Split(u, AndText, TRUE))) = r
  /\ binding > 2 => Free(u, {"AND"})

\* A text of one word.
LEMMA SizedOne ==
  ASSUME NEW x \in Token
  PROVE  <<x>> \in Text /\ <<x>> # <<>> /\ Len(<<x>>) = 1 /\ <<x>>[1] = x
<1>1. <<x>> \in Text
  BY Words
<1> QED
  BY <1>1

\* Two texts in ASCII are so together, and so are the keywords.
LEMMA JoinInASCII ==
  ASSUME NEW s \in Text, NEW t \in Text, InASCII(s), InASCII(t)
  PROVE  InASCII(s \o t)
<1>1. /\ DOMAIN s = 1..Len(s) /\ DOMAIN t = 1..Len(t) /\ Len(s) \in Nat /\ Len(t) \in Nat
  BY TextIs
<1> DEFINE u == s \o t
<1>2. /\ u \in Text /\ Len(u) = Len(s) + Len(t)
      /\ \A i \in 1..Len(s) : u[i] = s[i]
      /\ \A i \in 1..Len(t) : u[Len(s) + i] = t[i]
  BY ConcatText
<1> HIDE DEF u
<1>3. DOMAIN u = 1..(Len(s) + Len(t))
  BY <1>2, TextIs
<1>4. ASSUME NEW i \in 1..(Len(s) + Len(t)) PROVE u[i] \notin DOMAIN Recode
  <2>1. i \in 1..Len(s) \/ (i - Len(s) \in 1..Len(t) /\ Len(s) + (i - Len(s)) = i)
    BY ONLY <1>1, i \in 1..(Len(s) + Len(t))
  <2>2. CASE i \in 1..Len(s)
    BY <1>1, <1>2, <2>2 DEF InASCII
  <2>3. CASE i - Len(s) \in 1..Len(t) /\ Len(s) + (i - Len(s)) = i
    <3>1. u[i] = t[i - Len(s)]
      BY <1>2, <2>3
    <3> QED
      BY <1>1, <2>3, <3>1 DEF InASCII
  <2> QED
    BY <2>1, <2>2, <2>3
<1> QED
  BY <1>3, <1>4 DEF InASCII, u

LEMMA WordsInASCII ==
  ASSUME NEW t \in Text, \A i \in 1..Len(t) : t[i] \in Characters \cup Reserved \cup Field
  PROVE  InASCII(t)
<1>1. \A x \in Characters \cup Reserved \cup Field : x \notin DOMAIN Recode
  BY TokenAssumption, WritingAssumption
<1> QED
  BY <1>1, TextIs DEF InASCII

\* The text of a keyword, with its blanks.
LEMMA JoinerIs ==
  ASSUME NEW x \in {"OR", "AND"}
  PROVE  LET K == <<" ", x, " ">>
         IN  /\ K \in Text /\ K # <<>> /\ Len(K) = 3 /\ K[1] \in Blank /\ K[2] = x
             /\ K[1] \notin Quote \cup Opening \cup Closing
             /\ Neutral(K) /\ Even(K) /\ (\A X : x \notin X /\ " " \notin X => Free(K, X))
             /\ InASCII(K) /\ \A k \in 1..Len(K) : K[k] \in Edges
<1> DEFINE K == <<" ", x, " ">>
<1>1. x \in Token /\ " " \in Token
  BY Tokens DEF Characters, Reserved
<1>2. K \in Text
  BY <1>1, Words
<1>3. K # <<>> /\ Len(K) = 3 /\ K[1] \in Blank /\ K[2] = x /\ K[3] \in Blank
  BY DEF Blank
<1>4. \A k \in 1..3 : k = 1 \/ k = 2 \/ k = 3
  OBVIOUS
<1> HIDE DEF K
<1>5. \A k \in 1..Len(K) : K[k] \in {" ", x}
  BY <1>3, <1>4 DEF Blank
<1>6. " " \notin Quote \cup Opening \cup Closing /\ x \notin Quote \cup Opening \cup Closing
  BY DEF Quote, Opening, Closing
<1>7. Neutral(K)
  BY <1>5, <1>6 DEF Neutral
<1>8. Even(K) /\ \A X : (\A k \in 1..Len(K) : K[k] \notin X) => Bare(K, X)
  BY <1>2, <1>7, NeutralEven
<1>9. \A X : x \notin X /\ " " \notin X => Free(K, X)
  BY <1>5 DEF Free
<1>10. \A k \in 1..Len(K) : K[k] \in Edges
  BY <1>5 DEF Edges
<1>11. K[1] \notin Quote \cup Opening \cup Closing
  BY <1>3, <1>6 DEF Blank
<1>12. InASCII(K)
  <2>1. " " \in Characters /\ x \in Reserved
    BY DEF Characters, Reserved
  <2> QED
    BY <1>2, <1>5, <2>1, WordsInASCII
<1> QED
  BY <1>2, <1>3, <1>7, <1>8, <1>9, <1>10, <1>11, <1>12 DEF K

\* Split gives texts, at least one.
LEMMA SplitSome ==
  ASSUME NEW t \in Text, NEW K \in Text, K # <<>>, NEW nested
  PROVE  Split(t, K, nested) \in Seq(Text) /\ Len(Split(t, K, nested)) > 0
<1> DEFINE s == Split(t, K, nested)
           cut == Least(Cuts(t, K, nested))
           r == From(t, cut + Len(K))
<1>1. s = Pieces(t, K, nested) /\ s \in Seq(Text)
  BY SplitIs
<1>2. CASE cut = 0
  <2>1. s = <<t>>
    BY <1>1, <1>2 DEF Pieces
  <2> HIDE DEF s
  <2>2. Len(s) = 1
    BY <2>1
  <2> QED
    BY <1>1, <2>2 DEF s
<1>3. CASE cut # 0
  <2> DEFINE h == SubSeq(t, 1, cut - 1)
             z == Split(r, K, nested)
  <2>1. s = <<h>> \o z
    BY <1>1, <1>3 DEF Pieces
  <2>2. h \in Text /\ r \in Text
    BY <1>3, CutsText
  <2> HIDE DEF h, r, s, cut
  <2>3. z \in Seq(Text)
    BY <2>2, SplitIs
  <2> HIDE DEF z
  <2>4. Len(s) = 1 + Len(z) /\ Len(z) \in Nat
    BY <2>1, <2>2, <2>3
  <2>5. Len(s) > 0
    BY ONLY <2>4
  <2> QED
    BY <1>1, <2>5 DEF s
<1> QED
  BY <1>2, <1>3

\* Two lists, joined, at each place.
LEMMA ConcatMap ==
  ASSUME NEW X, NEW a \in Seq(X), NEW b \in Seq(X)
  PROVE  /\ a \o b \in Seq(X)
         /\ \A i \in 1..(Len(a) + Len(b)) : (a \o b)[i] = IF i <= Len(a) THEN a[i] ELSE b[i - Len(a)]
         /\ a \o b = [i \in 1..(Len(a) + Len(b)) |-> (a \o b)[i]]
<1> DEFINE u == a \o b
<1>1. /\ u \in Seq(X) /\ Len(u) = Len(a) + Len(b)
      /\ \A i \in 1..(Len(a) + Len(b)) : u[i] = IF i <= Len(a) THEN a[i] ELSE b[i - Len(a)]
  OBVIOUS
<1>2. u = [i \in 1..(Len(a) + Len(b)) |-> u[i]]
  <2> HIDE DEF u
  <2>1. u = [i \in 1..Len(u) |-> u[i]]
    BY <1>1
  <2> QED
    BY <1>1, <2>1
<1> QED
  BY <1>1, <1>2

\* What splitAtKeyword and splitListItems make of two texts joined by what they cut at is
\* what they make of the first and what they make of the second: no quote or bracket of the
\* first changes how the second is cut, or re-encoded.
THEOREM SplitJoins ==
  ASSUME NEW s \in Text, NEW t \in Text
  PROVE  /\ \A K \in Text : K # <<>> /\ Neutral(K) /\ Shut(s, TRUE) /\ EndsOff(s, K) =>
              splitAtKeyword(s \o K \o t, K) = splitAtKeyword(s, K) \o splitAtKeyword(t, K)
         /\ Shut(s, FALSE) /\ EndsOff(s, <<",">>) =>
              splitListItems(s \o <<",">> \o t) = splitListItems(s) \o splitListItems(t)
<1>1. ASSUME NEW K \in Text, K # <<>>, Neutral(K), Shut(s, TRUE), EndsOff(s, K)
      PROVE  splitAtKeyword(s \o K \o t, K) = splitAtKeyword(s, K) \o splitAtKeyword(t, K)
  <2> DEFINE w == s \o K \o t
             p == Split(s, K, TRUE)
             q == Split(t, K, TRUE)
             u == Split(w, K, TRUE)
             a == splitAtKeyword(s, K)
             b == splitAtKeyword(t, K)
             c == splitAtKeyword(w, K)
  <2>1. w \in Text
    BY ConcatText
  <2>2. TRUE \in BOOLEAN
    OBVIOUS
  <2>3. u = p \o q
    BY <1>1, <2>2, SplitsJoin
  <2>4. p \in Seq(Text) /\ q \in Seq(Text)
    BY <1>1, SplitIs
  <2> HIDE DEF w
  <2>13. ASSUME NEW x \in Text
         PROVE  /\ splitAtKeyword(x, K) \in Seq(Text)
                /\ Len(splitAtKeyword(x, K)) = Len(Split(x, K, TRUE))
                /\ DOMAIN splitAtKeyword(x, K) = DOMAIN Split(x, K, TRUE)
                /\ \A i \in DOMAIN Split(x, K, TRUE) :
                     splitAtKeyword(x, K)[i] = Recoded(Split(x, K, TRUE)[i])
    <3>1. /\ splitAtKeyword(x, K) \in Seq(Text)
          /\ DOMAIN splitAtKeyword(x, K) = DOMAIN Split(x, K, TRUE)
          /\ Len(splitAtKeyword(x, K)) = Len(Split(x, K, TRUE))
          /\ \A i \in DOMAIN splitAtKeyword(x, K) :
               splitAtKeyword(x, K)[i] = Recoded(Split(x, K, TRUE)[i])
      BY <1>1, KeywordParts
    <3> QED
      BY ONLY <3>1
  <2>5. /\ a \in Seq(Text) /\ Len(a) = Len(p) /\ DOMAIN a = DOMAIN p
        /\ \A i \in DOMAIN p : a[i] = Recoded(p[i])
    BY <2>13
  <2>6. /\ b \in Seq(Text) /\ Len(b) = Len(q) /\ DOMAIN b = DOMAIN q
        /\ \A i \in DOMAIN q : b[i] = Recoded(q[i])
    BY <2>13
  <2>7. /\ c \in Seq(Text) /\ Len(c) = Len(u) /\ DOMAIN c = DOMAIN u
        /\ \A i \in DOMAIN u : c[i] = Recoded(u[i])
    BY <2>1, <2>13
  <2> HIDE DEF p, q, u, a, b, c
  <2>8. /\ Len(p) \in Nat /\ Len(q) \in Nat /\ DOMAIN p = 1..Len(p) /\ DOMAIN q = 1..Len(q)
        /\ DOMAIN u = 1..(Len(p) + Len(q)) /\ Len(u) = Len(p) + Len(q)
        /\ \A i \in 1..(Len(p) + Len(q)) : u[i] = IF i <= Len(p) THEN p[i] ELSE q[i - Len(p)]
    BY <2>3, <2>4
  <2>9. /\ a \o b = [i \in 1..(Len(p) + Len(q)) |-> (a \o b)[i]]
        /\ \A i \in 1..(Len(p) + Len(q)) : (a \o b)[i] = IF i <= Len(p) THEN a[i] ELSE b[i - Len(p)]
    <3>1. /\ \A i \in 1..(Len(a) + Len(b)) : (a \o b)[i] = IF i <= Len(a) THEN a[i] ELSE b[i - Len(a)]
          /\ a \o b = [i \in 1..(Len(a) + Len(b)) |-> (a \o b)[i]]
      <4>1. a \in Seq(Text) /\ b \in Seq(Text)
        BY <2>5, <2>6
      <4> QED
        BY ONLY <4>1, ConcatMap
    <3>2. Len(a) = Len(p) /\ Len(b) = Len(q)
      BY <2>5, <2>6
    <3> QED
      BY ONLY <3>1, <3>2
  <2>10. ASSUME NEW i \in 1..(Len(p) + Len(q)) PROVE c[i] = (a \o b)[i]
    <3>1. i \in 1..Len(p) \/ (~ (i <= Len(p)) /\ i - Len(p) \in 1..Len(q))
      BY ONLY <2>8, i \in 1..(Len(p) + Len(q))
    <3>2. c[i] = Recoded(u[i])
      BY <2>7, <2>8
    <3>3. CASE i \in 1..Len(p)
      <4>1. i <= Len(p)
        BY ONLY <2>8, <3>3
      <4> QED
        BY <2>5, <2>8, <2>9, <3>2, <3>3, <4>1
    <3>4. CASE ~ (i <= Len(p)) /\ i - Len(p) \in 1..Len(q)
      BY <2>6, <2>8, <2>9, <3>2, <3>4
    <3> QED
      BY <3>1, <3>3, <3>4
  <2>11. c = [i \in 1..(Len(p) + Len(q)) |-> c[i]]
    BY <2>7, <2>8
  <2>12. c = a \o b
    BY ONLY <2>9, <2>10, <2>11
  <2> QED
    BY <2>12 DEF a, b, c, w
<1>2. ASSUME Shut(s, FALSE), EndsOff(s, <<",">>)
      PROVE  splitListItems(s \o <<",">> \o t) = splitListItems(s) \o splitListItems(t)
  <2> DEFINE K == <<",">>
  <2>1. K \in Text /\ K # <<>> /\ Neutral(K)
    BY CommaIs, WordIs
  <2>2. FALSE \in BOOLEAN /\ EndsOff(s, K)
    BY <1>2
  <2>4. \A u : splitListItems(u) = Split(u, K, FALSE)
    BY DEF splitListItems
  <2> HIDE DEF K
  <2>3. Split(s \o K \o t, K, FALSE) = Split(s, K, FALSE) \o Split(t, K, FALSE)
    BY <1>2, <2>1, <2>2, SplitsJoin
  <2> QED
    BY <2>3, <2>4 DEF K
<1> QED
  BY <1>1, <1>2

\* What is in ASCII comes out of splitAtKeyword as it was.
LEMMA SplitInASCII ==
  ASSUME NEW K \in Text, K # <<>>, NEW t \in Text, InASCII(t)
  PROVE  splitAtKeyword(t, K) = Split(t, K, TRUE)
<1> DEFINE size == [u \in Text |-> Len(u)]
           S(u) == Split(u, K, TRUE)
           P == {u \in Text : InASCII(u) => \A i \in DOMAIN S(u) : InASCII(S(u)[i])}
<1>1. size \in [Text -> Nat] /\ \A u \in Text : size[u] = Len(u)
  BY DEF Text
<1>2. \A u \in Text : S(u) = Pieces(u, K, TRUE) /\ S(u) \in Seq(Text)
  BY SplitIs
<1>3. ASSUME NEW u \in Text, \A w \in Text : size[w] < size[u] => w \in P PROVE u \in P
  <2> SUFFICES ASSUME InASCII(u), NEW i \in DOMAIN S(u) PROVE InASCII(S(u)[i])
    OBVIOUS
  <2> DEFINE cut == Least(Cuts(u, K, TRUE))
  <2>1. CASE cut = 0
    <3>1. S(u) = <<u>>
      BY <1>2, <2>1 DEF Pieces
    <3> HIDE DEF S
    <3>2. S(u)[i] = u
      BY <3>1
    <3> QED
      BY <3>2
  <2>2. CASE cut # 0
    <3> DEFINE p == SubSeq(u, 1, cut - 1)
               q == From(u, cut + Len(K))
    <3>1. p \in Text /\ q \in Text /\ Len(q) < Len(u)
          /\ cut \in 1..Len(u) /\ cut + Len(K) - 1 \in 1..Len(u)
      BY <2>2, CutsText
    <3>2. S(u) = <<p>> \o S(q)
      BY <1>2, <2>2 DEF Pieces
    <3> HIDE DEF cut
    <3>3. InASCII(p) /\ InASCII(q)
      <4> DEFINE n == cut + Len(K)
      <4>1. /\ DOMAIN p = 1..Len(p) /\ DOMAIN q = 1..Len(q) /\ DOMAIN u = 1..Len(u)
            /\ Len(u) \in Nat /\ Len(K) \in Nat
        BY <3>1, TextIs
      <4>2. n \in Nat \ {0} /\ cut - 1 \in Nat /\ cut - 1 <= Len(u)
        BY ONLY <3>1, <4>1
      <4>3. Len(p) = cut - 1 /\ \A k \in 1..(cut - 1) : p[k] = u[k]
        <5> DEFINE e == cut - 1
        <5>1. e \in Nat /\ e <= Len(u)
          BY <4>2
        <5> HIDE DEF e
        <5> DEFINE s == SubSeq(u, 1, e)
        <5>2. /\ Len(s) = IF 1 <= e THEN e - 1 + 1 ELSE 0
              /\ \A k \in 1..(e - 1 + 1) : s[k] = u[k + 1 - 1]
          <6>1. 1 \in Nat \ {0} /\ e \in Int
            BY <5>1
          <6> QED
            BY <5>1, <6>1, SubText
        <5> HIDE DEF s
        <5>3. Len(s) = e /\ \A k \in 1..e : s[k] = u[k]
          BY <5>1, <5>2
        <5> QED
          BY <5>3 DEF s, e
      <4>4. Len(q) = (IF n <= Len(u) THEN Len(u) - n + 1 ELSE 0)
            /\ \A k \in 1..(Len(u) - n + 1) : q[k] = u[n + k - 1]
        BY <4>2, FromText
      <4> HIDE DEF p, q, n, cut
      <4>5. \A k \in DOMAIN p : k \in DOMAIN u /\ p[k] = u[k]
        BY <4>1, <4>2, <4>3
      <4>6. \A k \in DOMAIN q : n + k - 1 \in DOMAIN u /\ q[k] = u[n + k - 1]
        BY <4>1, <4>2, <4>4
      <4> QED
        BY <4>5, <4>6 DEF InASCII
    <3>4. q \in P /\ S(q) \in Seq(Text)
      BY <1>1, <1>2, <1>3, <3>1
    <3>5. \A j \in DOMAIN S(q) : InASCII(S(q)[j])
      BY <3>3, <3>4
    <3> HIDE DEF S, p, q, cut
    <3>6. i \in 1..(1 + Len(S(q))) /\ Len(S(q)) \in Nat /\ DOMAIN S(q) = 1..Len(S(q))
      BY <3>1, <3>2, <3>4
    <3>7. CASE i = 1
      <4>1. S(u)[i] = p
        BY <3>1, <3>2, <3>4, <3>7
      <4> QED
        BY <3>3, <4>1
    <3>8. CASE i # 1
      <4>1. S(u)[i] = S(q)[i - 1] /\ i - 1 \in DOMAIN S(q)
        BY <3>1, <3>2, <3>4, <3>6, <3>8
      <4> QED
        BY <3>5, <4>1
    <3> QED
      BY <3>7, <3>8
  <2> QED
    BY <2>1, <2>2
<1>4. t \in P
  <2> HIDE DEF P, size
  <2>1. Inherits(P, Text, size)
    BY ONLY <1>1, <1>3 DEF Inherits
  <2>2. Text \subseteq P
    BY ONLY <2>1, BySize
  <2> QED
    BY <2>2
<1>5. ASSUME NEW u \in Text, InASCII(u) PROVE Recoded(u) = u
  <2>1. u = [i \in DOMAIN u |-> u[i]]
    BY TextIs DEF Text
  <2>2. \A i \in DOMAIN u : u[i] \notin DOMAIN Recode
    BY <1>5 DEF InASCII
  <2> QED
    BY <2>1, <2>2 DEF Recoded
<1>6. \A i \in DOMAIN S(t) : S(t)[i] \in Text /\ InASCII(S(t)[i])
  <2>1. \A i \in DOMAIN S(t) : InASCII(S(t)[i])
    BY <1>4
  <2>2. S(t) \in Seq(Text)
    BY <1>2
  <2> HIDE DEF S
  <2> QED
    BY <2>1, <2>2
<1>7. splitAtKeyword(t, K) = [i \in DOMAIN S(t) |-> Recoded(S(t)[i])]
  BY DEF splitAtKeyword
<1>8. S(t) \in Seq(Text)
  BY <1>2
<1> HIDE DEF S
<1>9. S(t) = [i \in DOMAIN S(t) |-> S(t)[i]]
  BY <1>8
<1>10. \A i \in DOMAIN S(t) : Recoded(S(t)[i]) = S(t)[i]
  BY <1>5, <1>6
<1>11. splitAtKeyword(t, K) = S(t)
  BY <1>7, <1>9, <1>10
<1> QED
  BY <1>11 DEF S

\* The answers to joined lists are the joined answers.
LEMMA AnswersIs ==
  ASSUME NEW p \in Seq(Text), NEW q \in Seq(Text)
  PROVE  /\ Answers(p) \in Seq(Result) /\ Answers(q) \in Seq(Result)
         /\ Answers(p \o q) = Answers(p) \o Answers(q)
<1> DEFINE g == parseCondition
           a == [i \in DOMAIN p |-> g[p[i]]]
           b == [i \in DOMAIN q |-> g[q[i]]]
           u == p \o q
           d == [i \in DOMAIN u |-> g[u[i]]]
<1>1. g \in [Text -> Result]
  BY ParserEnds
<1> HIDE DEF g
<1>2. /\ u \in Seq(Text) /\ Len(u) = Len(p) + Len(q) /\ DOMAIN u = 1..(Len(p) + Len(q))
      /\ \A i \in 1..(Len(p) + Len(q)) : u[i] = IF i <= Len(p) THEN p[i] ELSE q[i - Len(p)]
      /\ DOMAIN p = 1..Len(p) /\ DOMAIN q = 1..Len(q) /\ Len(p) \in Nat /\ Len(q) \in Nat
      /\ \A i \in 1..Len(p) : p[i] \in Text
      /\ \A i \in 1..Len(q) : q[i] \in Text
  OBVIOUS
<1>3. /\ a \in Seq(Result) /\ Len(a) = Len(p) /\ \A i \in 1..Len(p) : a[i] = g[p[i]]
  BY <1>1, <1>2
<1>4. /\ b \in Seq(Result) /\ Len(b) = Len(q) /\ \A i \in 1..Len(q) : b[i] = g[q[i]]
  BY <1>1, <1>2
<1> HIDE DEF a, b, u
<1>5. /\ a \o b \in Seq(Result)
      /\ \A i \in 1..(Len(p) + Len(q)) : (a \o b)[i] = IF i <= Len(p) THEN a[i] ELSE b[i - Len(p)]
      /\ a \o b = [i \in 1..(Len(p) + Len(q)) |-> (a \o b)[i]]
  <2>1. a \in Seq(Result) /\ b \in Seq(Result) /\ Len(a) = Len(p) /\ Len(b) = Len(q)
    BY <1>3, <1>4
  <2>2. /\ a \o b \in Seq(Result)
        /\ \A i \in 1..(Len(a) + Len(b)) : (a \o b)[i] = IF i <= Len(a) THEN a[i] ELSE b[i - Len(a)]
        /\ a \o b = [i \in 1..(Len(a) + Len(b)) |-> (a \o b)[i]]
    BY <2>1, ConcatMap
  <2> QED
    BY <2>1, <2>2
<1>6. \A i \in 1..(Len(p) + Len(q)) : g[u[i]] = (a \o b)[i]
  <2> TAKE i \in 1..(Len(p) + Len(q))
  <2>1. i \in 1..Len(p) \/ (~ (i <= Len(p)) /\ i - Len(p) \in 1..Len(q))
    BY ONLY <1>2, i \in 1..(Len(p) + Len(q))
  <2>2. CASE i \in 1..Len(p)
    <3>1. i <= Len(p)
      BY ONLY <1>2, <2>2
    <3> QED
      BY <1>2, <1>3, <1>5, <2>2, <3>1
  <2>3. CASE ~ (i <= Len(p)) /\ i - Len(p) \in 1..Len(q)
    BY <1>2, <1>4, <1>5, <2>3
  <2> QED
    BY <2>1, <2>2, <2>3
<1>7. d = [i \in 1..(Len(p) + Len(q)) |-> (a \o b)[i]]
  BY <1>2, <1>6
<1>8. a \o b = [i \in 1..(Len(p) + Len(q)) |-> (a \o b)[i]]
  BY <1>5
<1>9. d = a \o b
  BY <1>7, <1>8
<1> QED
  BY <1>3, <1>4, <1>9 DEF d, a, b, u, g, Answers

\* The answer to a list of one text.
LEMMA OneAnswer ==
  ASSUME NEW u \in Text
  PROVE  Answers(<<u>>) = <<parseCondition[u]>>
<1> DEFINE s == <<u>>
<1>1. DOMAIN s = {1} /\ s[1] = u
  OBVIOUS
<1>2. \A r : [i \in {1} |-> r] = <<r>>
  OBVIOUS
<1> HIDE DEF s
<1>3. Answers(s) = [i \in {1} |-> parseCondition[u]]
  BY <1>1 DEF Answers
<1> QED
  BY <1>2, <1>3 DEF s

\* What parseCondition makes of a text that can stand in a condition (parser.go:127-175).
LEMMA ParseFit ==
  ASSUME NEW u, Fit(u)
  PROVE  parseCondition[u] =
           IF Len(Split(u, OrText, TRUE)) > 1 THEN Joined("or", Answers(splitAtKeyword(u, OrText)))
           ELSE IF Len(Split(u, AndText, TRUE)) > 1
                THEN Joined("and", Answers(splitAtKeyword(u, AndText)))
           ELSE Alone(u)
<1>1. u \in Text /\ u # <<>> /\ u[1] \notin Blank /\ u[Len(u)] \notin Blank
  BY DEF Fit, Edges, Blank
<1>2. Trim(u) = u
  BY <1>1, TrimWhole
<1>3. parseCondition[u] = ConditionBy(parseCondition, u)
  BY <1>1, ParserEnds
<1>4. Keywords[1].kind = "or" /\ Keywords[1].text = OrText
      /\ Keywords[2].kind = "and" /\ Keywords[2].text = AndText
  BY DEF Keywords, OrText, AndText
<1>5. /\ Len(splitAtKeyword(u, OrText)) = Len(Split(u, OrText, TRUE))
      /\ Len(splitAtKeyword(u, AndText)) = Len(Split(u, AndText, TRUE))
  <2>1. /\ OrText \in Text /\ OrText # <<>> /\ AndText \in Text /\ AndText # <<>>
    BY <1>4, KeywordsAre
  <2> QED
    BY <1>1, <2>1, KeywordParts
<1> QED
  BY <1>2, <1>3, <1>4, <1>5 DEF ConditionBy, Alone, Answers

\* The text that OR is written as.
LEMMA OrIs ==
  /\ OrText \in Text /\ OrText # <<>> /\ Len(OrText) = 3 /\ OrText[2] = "OR"
  /\ OrText[1] \notin Quote \cup Opening \cup Closing
  /\ Neutral(OrText) /\ Even(OrText) /\ Free(OrText, {"AND"}) /\ InASCII(OrText)
  /\ \A k \in 1..Len(OrText) : OrText[k] \in Edges
<1> DEFINE x == "OR"
           K == <<" ", x, " ">>
<1>1. /\ K \in Text /\ K # <<>> /\ Len(K) = 3 /\ K[1] \in Blank /\ K[2] = x
      /\ K[1] \notin Quote \cup Opening \cup Closing
      /\ Neutral(K) /\ Even(K) /\ (\A X : x \notin X /\ " " \notin X => Free(K, X))
      /\ InASCII(K) /\ \A k \in 1..Len(K) : K[k] \in Edges
  BY JoinerIs
<1>2. x \notin {"AND"} /\ " " \notin {"AND"}
  OBVIOUS
<1>3. K = OrText
  BY DEF OrText
<1> HIDE DEF K
<1> QED
  BY <1>1, <1>2, <1>3

\* The text that AND is written as.
LEMMA AndIs ==
  /\ AndText \in Text /\ AndText # <<>> /\ Len(AndText) = 3 /\ AndText[2] = "AND"
  /\ AndText[1] \notin Quote \cup Opening \cup Closing
  /\ Neutral(AndText) /\ Even(AndText) /\ Free(AndText, {"OR"}) /\ InASCII(AndText)
  /\ \A k \in 1..Len(AndText) : AndText[k] \in Edges
<1> DEFINE x == "AND"
           K == <<" ", x, " ">>
<1>1. /\ K \in Text /\ K # <<>> /\ Len(K) = 3 /\ K[1] \in Blank /\ K[2] = x
      /\ K[1] \notin Quote \cup Opening \cup Closing
      /\ Neutral(K) /\ Even(K) /\ (\A X : x \notin X /\ " " \notin X => Free(K, X))
      /\ InASCII(K) /\ \A k \in 1..Len(K) : K[k] \in Edges
  BY JoinerIs
<1>2. x \notin {"OR"} /\ " " \notin {"OR"}
  OBVIOUS
<1>3. K = AndText
  BY DEF AndText
<1> HIDE DEF K
<1> QED
  BY <1>1, <1>2, <1>3

\* What is free of a keyword is in one piece.
LEMMA FreeSplit ==
  ASSUME NEW u \in Text
  PROVE  /\ Free(u, {"OR"}) => Split(u, OrText, TRUE) = <<u>>
         /\ Free(u, {"AND"}) => Split(u, AndText, TRUE) = <<u>>
<1>1. ASSUME Free(u, {"OR"}) PROVE Split(u, OrText, TRUE) = <<u>>
  <2>1. Len(OrText) > 1 /\ Free(u, {OrText[2]})
    BY <1>1, OrIs
  <2> QED
    BY <2>1, OrIs, FreeUncut
<1>2. ASSUME Free(u, {"AND"}) PROVE Split(u, AndText, TRUE) = <<u>>
  <2>1. Len(AndText) > 1 /\ Free(u, {AndText[2]})
    BY <1>2, AndIs
  <2> QED
    BY <2>1, AndIs, FreeUncut
<1> QED
  BY <1>1, <1>2

\* The one piece of a text is the text.
LEMMA OneStands ==
  ASSUME NEW u \in Text, NEW r, r \in Result, parseCondition[u] = r, NEW kind \in {"or", "and"}
  PROVE  Joined(kind, Answers(<<u>>)) = r
  BY OneAnswer, JoinOne

\* A text that is free of both keywords stands for what it is by itself.
LEMMA StandsAlone ==
  ASSUME NEW u, Fit(u), Free(u, {"OR"}), Free(u, {"AND"}), NEW r, r \in Result, Alone(u) = r,
         NEW binding
  PROVE  Stands(u, r, binding)
<1>1. u \in Text
  BY DEF Fit
<1>2. Split(u, OrText, TRUE) = <<u>> /\ Split(u, AndText, TRUE) = <<u>>
  BY <1>1, FreeSplit
<1>3. ~ (Len(<<u>>) > 1)
  OBVIOUS
<1>4. parseCondition[u] = r
  BY <1>2, <1>3, ParseFit
<1>5. Joined("or", Answers(<<u>>)) = r /\ Joined("and", Answers(<<u>>)) = r
  BY <1>1, <1>4, OneStands
<1> QED
  BY <1>2, <1>4, <1>5 DEF Stands

\* Two texts that can stand in a condition, and a keyword between them.
LEMMA FitJoin ==
  ASSUME NEW u, Fit(u), NEW K \in Text, Even(K), NEW v, Fit(v)
  PROVE  Fit(u \o K \o v)
<1> DEFINE a == u \o K
           t == a \o v
<1>1. u \in Text /\ v \in Text /\ u # <<>> /\ v # <<>> /\ Even(u) /\ Even(v)
      /\ u[1] \notin Edges /\ v[Len(v)] \notin Edges
  BY DEF Fit
<1>2. /\ a \in Text /\ Len(a) = Len(u) + Len(K) /\ \A i \in 1..Len(u) : a[i] = u[i]
  BY <1>1, ConcatText
<1>3. Even(a)
  BY <1>1, EvenJoin
<1> HIDE DEF a
<1>4. /\ t \in Text /\ Len(t) = Len(a) + Len(v) /\ \A i \in 1..Len(a) : t[i] = a[i]
      /\ \A i \in 1..Len(v) : t[Len(a) + i] = v[i]
  BY <1>1, <1>2, ConcatText
<1>5. Even(t)
  BY <1>1, <1>2, <1>3, EvenJoin
<1> HIDE DEF t
<1>6. Len(u) \in Nat /\ Len(u) > 0 /\ Len(v) \in Nat /\ Len(v) > 0 /\ Len(K) \in Nat
  BY <1>1, LastOf, TextIs
<1>7. 1 \in 1..Len(u) /\ 1 \in 1..Len(a) /\ Len(v) \in 1..Len(v) /\ Len(t) # 0
  BY ONLY <1>2, <1>4, <1>6
<1>8. t[1] = u[1] /\ t[Len(t)] = v[Len(v)]
  BY <1>2, <1>4, <1>7
<1>9. t # <<>>
  BY <1>7, EmptyText
<1>10. Fit(t)
  BY <1>1, <1>4, <1>5, <1>8, <1>9 DEF Fit
<1> QED
  BY <1>10 DEF t, a

\* The answers to the pieces of two texts, joined, are the two answers joined.
LEMMA JoinedInTwo ==
  ASSUME NEW kind \in {"or", "and"}, NEW a \in Seq(Text), NEW b \in Seq(Text),
         NEW r, NEW s, Joined(kind, Answers(a)) = r, Joined(kind, Answers(b)) = s
  PROVE  Joined(kind, Answers(a \o b)) = Joined(kind, <<r, s>>)
<1>1. /\ Answers(a) \in Seq(Result) /\ Answers(b) \in Seq(Result)
      /\ Answers(a \o b) = Answers(a) \o Answers(b)
  BY AnswersIs
<1>2. Joined(kind, Answers(a) \o Answers(b))
        = Joined(kind, <<Joined(kind, Answers(a)), Joined(kind, Answers(b))>>)
  BY <1>1, JoinJoin
<1> QED
  BY <1>1, <1>2

\* Two lists that are not empty have more than one item.
LEMMA MoreThanOne ==
  ASSUME NEW a \in Seq(Text), NEW b \in Seq(Text), Len(a) > 0, Len(b) > 0
  PROVE  Len(a \o b) > 1
  OBVIOUS

\* Two texts with OR between them stand for the OR of what they stand for.
LEMMA OrStands ==
  ASSUME NEW u, NEW r, NEW l, Stands(u, r, l), NEW v, NEW s, NEW m, Stands(v, s, m),
         InASCII(u), InASCII(v)
  PROVE  Stands(u \o OrText \o v, Joined("or", <<r, s>>), 1)
<1> DEFINE t == u \o OrText \o v
           z == Joined("or", <<r, s>>)
           a == Split(u, OrText, TRUE)
           b == Split(v, OrText, TRUE)
<1>1. Fit(u) /\ Fit(v) /\ u \in Text /\ v \in Text
  BY DEF Stands, Fit
<1>2. Fit(t)
  BY <1>1, OrIs, FitJoin
<1>3. Split(t, OrText, TRUE) = a \o b
  <2>1. Shut(u, TRUE)
    BY <1>1 DEF Fit, Even
  <2>2. EndsOff(u, OrText)
    BY <1>1, OrIs DEF EndsOff, Fit
  <2>3. TRUE \in BOOLEAN
    OBVIOUS
  <2> QED
    BY <1>1, <2>1, <2>2, <2>3, OrIs, SplitsJoin
<1>4. a \in Seq(Text) /\ b \in Seq(Text) /\ Len(a) > 0 /\ Len(b) > 0
  BY <1>1, OrIs, SplitSome
<1>5. Joined("or", Answers(a)) = r /\ Joined("or", Answers(b)) = s
  BY DEF Stands
<1>12. splitAtKeyword(t, OrText) = Split(t, OrText, TRUE)
  <2>1. InASCII(t) /\ t \in Text
    BY <1>1, OrIs, JoinInASCII, ConcatText
  <2> HIDE DEF t
  <2> QED
    BY <2>1, OrIs, SplitInASCII
<1> HIDE DEF a, b, t
<1>6. Joined("or", Answers(a \o b)) = z
  BY <1>4, <1>5, JoinedInTwo
<1>7. Len(a \o b) > 1
  BY <1>4, MoreThanOne
<1>8. parseCondition[t] = z
  BY <1>2, <1>3, <1>6, <1>7, <1>12, ParseFit
<1>9. z \in Result
  <2>1. r \in Result /\ s \in Result
    BY DEF Stands
  <2> QED
    BY <2>1, JoinedTwo
<1> HIDE DEF z
<1>10. ~ (1 > 1) /\ ~ (1 > 2)
  OBVIOUS
<1>11. Stands(t, z, 1)
  BY <1>2, <1>3, <1>6, <1>8, <1>9, <1>10 DEF Stands
<1> QED
  BY <1>11 DEF t, z

\* Two texts that bind as AND does, with AND between them, stand for the AND of it.
LEMMA AndStands ==
  ASSUME NEW u, NEW r, NEW l, l > 1, Stands(u, r, l), NEW v, NEW s, NEW m, m > 1, Stands(v, s, m),
         InASCII(u), InASCII(v)
  PROVE  Stands(u \o AndText \o v, Joined("and", <<r, s>>), 2)
<1> DEFINE t == u \o AndText \o v
           z == Joined("and", <<r, s>>)
           a == Split(u, AndText, TRUE)
           b == Split(v, AndText, TRUE)
<1>1. Fit(u) /\ Fit(v) /\ u \in Text /\ v \in Text
  BY DEF Stands, Fit
<1>2. Fit(t)
  BY <1>1, AndIs, FitJoin
<1>3. Shut(u, TRUE) /\ Shut(AndText, TRUE)
  BY <1>1, AndIs DEF Fit, Even
<1>4. Split(t, AndText, TRUE) = a \o b
  <2>2. EndsOff(u, AndText)
    BY <1>1, AndIs DEF EndsOff, Fit
  <2>3. TRUE \in BOOLEAN
    OBVIOUS
  <2> QED
    BY <1>1, <1>3, <2>2, <2>3, AndIs, SplitsJoin
<1>5. a \in Seq(Text) /\ b \in Seq(Text) /\ Len(a) > 0 /\ Len(b) > 0
  BY <1>1, AndIs, SplitSome
<1>6. Joined("and", Answers(a)) = r /\ Joined("and", Answers(b)) = s
      /\ Free(u, {"OR"}) /\ Free(v, {"OR"})
  BY DEF Stands
<1>7. Free(t, {"OR"})
  <2>1. Free(u \o AndText, {"OR"}) /\ u \o AndText \in Text
    BY <1>1, <1>3, <1>6, AndIs, FreeJoin, ConcatText
  <2>2. Shut(u \o AndText, TRUE)
    BY <1>1, <1>3, AndIs, ShutJoin
  <2> QED
    BY <1>1, <1>6, <2>1, <2>2, FreeJoin
<1>8. t \in Text
  BY <1>2 DEF Fit
<1>17. splitAtKeyword(t, AndText) = Split(t, AndText, TRUE)
  <2>1. InASCII(t)
    BY <1>1, AndIs, JoinInASCII, ConcatText
  <2> HIDE DEF t
  <2> QED
    BY <1>8, <2>1, AndIs, SplitInASCII
<1> HIDE DEF a, b, t
<1>9. Split(t, OrText, TRUE) = <<t>>
  BY <1>7, <1>8, FreeSplit
<1>10. Joined("and", Answers(a \o b)) = z
  BY <1>5, <1>6, JoinedInTwo
<1>11. Len(a \o b) > 1 /\ ~ (Len(<<t>>) > 1)
  BY <1>5, MoreThanOne
<1>12. parseCondition[t] = z
  BY <1>2, <1>4, <1>9, <1>10, <1>11, <1>17, ParseFit
<1>13. z \in Result
  <2>1. r \in Result /\ s \in Result
    BY DEF Stands
  <2> QED
    BY <2>1, JoinedTwo
<1> HIDE DEF z
<1>14. Joined("or", Answers(<<t>>)) = z
  BY <1>8, <1>12, <1>13, OneStands
<1>15. ~ (2 > 2)
  OBVIOUS
<1>16. Stands(t, z, 2)
  BY <1>2, <1>4, <1>7, <1>9, <1>10, <1>12, <1>13, <1>14, <1>15 DEF Stands
<1> QED
  BY <1>16 DEF t, z

\* The text that NOT is written as.
LEMMA NotIs ==
  LET K == <<"NOT", " ">>
  IN  /\ K \in Text /\ Len(K) = 2 /\ K[1] = "NOT" /\ Even(K)
      /\ Free(K, {"OR"}) /\ Free(K, {"AND"})
<1> DEFINE K == <<"NOT", " ">>
<1>1. "NOT" \in Token /\ " " \in Token
  BY Tokens DEF Characters, Reserved
<1>2. K \in Text
  BY <1>1, Words
<1>3. Len(K) = 2 /\ K[1] = "NOT" /\ K[2] \in Blank
  BY DEF Blank
<1>4. \A i \in 1..2 : i = 1 \/ i = 2
  OBVIOUS
<1> HIDE DEF K
<1>5. \A i \in 1..Len(K) : K[i] \in {"NOT", " "}
  BY <1>3, <1>4 DEF Blank
<1>6. Neutral(K)
  BY <1>5 DEF Neutral, Quote, Opening, Closing
<1>7. Even(K)
  BY <1>2, <1>6, NeutralEven
<1>8. Free(K, {"OR"}) /\ Free(K, {"AND"})
  BY <1>5 DEF Free
<1> QED
  BY <1>2, <1>3, <1>7, <1>8 DEF K

\* NOT before a text that binds as NOT does stands for the opposite.
LEMMA NotStands ==
  ASSUME NEW u, NEW r, NEW l, l > 2, l > 1, Stands(u, r, l)
  PROVE  Stands(<<"NOT", " ">> \o u, NotCondition(r), 3)
<1> DEFINE K == <<"NOT", " ">>
           t == K \o u
           z == NotCondition(r)
<1>1. /\ K \in Text /\ Len(K) = 2 /\ K[1] = "NOT" /\ Even(K)
      /\ Free(K, {"OR"}) /\ Free(K, {"AND"})
  BY NotIs
<1>2. /\ Fit(u) /\ u \in Text /\ u # <<>> /\ Even(u) /\ u[Len(u)] \notin Edges
      /\ Free(u, {"OR"}) /\ Free(u, {"AND"}) /\ parseCondition[u] = r /\ r \in Result
  BY DEF Stands, Fit
<1> HIDE DEF K
<1>3. /\ t \in Text /\ Len(t) = Len(K) + Len(u)
      /\ \A i \in 1..Len(K) : t[i] = K[i]
      /\ \A i \in 1..Len(u) : t[Len(K) + i] = u[i]
  BY <1>1, <1>2, ConcatText
<1>4. Even(t)
  BY <1>1, <1>2, EvenJoin
<1>5. Free(t, {"OR"}) /\ Free(t, {"AND"})
  <2>1. Shut(K, TRUE)
    BY <1>1 DEF Even
  <2>2. Free(t, {"OR"})
    BY <1>1, <1>2, <2>1, FreeJoin
  <2>3. Free(t, {"AND"})
    BY <1>1, <1>2, <2>1, FreeJoin
  <2> QED
    BY <2>2, <2>3
<1>6. Begins(t, K) /\ From(t, 3) = u
  <2>1. Len(u) \in Nat
    BY <1>2, TextIs
  <2>2. Len(K) <= Len(t)
    BY ONLY <1>1, <1>3, <2>1
  <2>3. Begins(t, K)
    BY <1>1, <1>3, <2>2, BeginsWith
  <2>4. From(t, Len(K) + 1) = u
    BY <1>1, <1>2, JoinPieces
  <2>5. Len(K) + 1 = 3
    BY ONLY <1>1
  <2> QED
    BY <2>3, <2>4, <2>5
<1>7. Fit(t)
  <2>1. Len(u) \in Nat /\ Len(u) > 0 /\ Len(u) \in 1..Len(u)
    BY <1>2, LastOf
  <2>2. 1 \in 1..Len(K) /\ Len(t) # 0
    BY ONLY <1>1, <1>3, <2>1
  <2>3. t[1] = "NOT" /\ t[Len(t)] = u[Len(u)]
    BY <1>1, <1>3, <2>1, <2>2
  <2>4. t # <<>>
    BY <2>2, EmptyText
  <2>5. "NOT" \notin Edges
    BY DEF Edges
  <2> HIDE DEF t
  <2> QED
    BY <1>2, <1>3, <1>4, <2>3, <2>4, <2>5 DEF Fit
<1> HIDE DEF t
<1>8. Alone(t) = z
  BY <1>2, <1>6 DEF Alone, K
<1>9. z \in Result
  BY <1>2, Results
<1> HIDE DEF z
<1>10. Stands(t, z, 3)
  BY <1>5, <1>7, <1>8, <1>9, StandsAlone
<1> QED
  BY <1>10 DEF t, z, K

\* A text in brackets stands anywhere, for what it stood for.
LEMMA BracketsStand ==
  ASSUME NEW u, NEW r, NEW l, Stands(u, r, l)
  PROVE  Stands(InBrackets(u), r, 4)
<1> DEFINE o == "("
           c == ")"
           w == <<o>> \o u \o <<c>>
           t == InBrackets(u)
           n == Len(u)
<1>1. u \in Text /\ Even(u) /\ parseCondition[u] = r /\ r \in Result
  BY DEF Stands, Fit
<1>2. o \in Opening /\ c \in Closing /\ o \in Token /\ c \in Token
      /\ o \notin Edges /\ c \notin Edges /\ o # "NOT"
  BY Tokens DEF Opening, Closing, Characters, Edges
<1>3. t = w
  BY DEF InBrackets
<1>4. /\ w \in Text /\ Len(w) = n + 2 /\ w[1] = o /\ w[n + 2] = c /\ Even(w)
  <2>1. /\ w \in Text /\ Len(w) = n + 2 /\ w[1] = o /\ w[n + 2] = c
        /\ Even(w) /\ OpenQuote(w, 1) = "none" /\ OpenQuote(w, n + 2) = "none"
        /\ \A i \in 1..n : w[i + 1] = u[i] /\ OpenQuote(w, i + 1) = OpenQuote(u, i)
                           /\ Depth(w, i + 1) > 0
    BY <1>1, <1>2, Wrapped
  <2> HIDE DEF w, n
  <2> QED
    BY <2>1
<1>5. Inner(w) = u
  BY <1>1, <1>2, InnerIs
<1>6. Free(t, {"OR"}) /\ Free(t, {"AND"})
  <2>1. "(" \notin {"OR"} /\ "(" \notin {"AND"}
    OBVIOUS
  <2> QED
    BY <1>1, <2>1, FreeWrapped
<1>7. n \in Nat
  BY <1>1, TextIs
<1> HIDE DEF n, w, t
<1>8. Len(w) > 1 /\ Len(w) # 0
  BY ONLY <1>4, <1>7
<1>9. w[Len(w)] = c
  BY <1>4
<1>10. Between(w, o, c)
  BY <1>2, <1>4, <1>8, <1>9, BetweenIs
<1>11. ~ Begins(w, <<"NOT", " ">>)
  <2> DEFINE K == <<"NOT", " ">>
  <2>1. K \in Text /\ Len(K) = 2 /\ K[1] = "NOT"
    BY NotIs
  <2> HIDE DEF K
  <2>2. 1 \in 1..Len(K)
    BY <2>1
  <2>3. ~ Begins(w, K)
    BY <1>2, <1>4, <2>1, <2>2, BeginsWith
  <2> QED
    BY <2>3 DEF K
<1>12. Alone(w) = r
  BY <1>1, <1>5, <1>10, <1>11 DEF Alone
<1>13. Fit(w)
  <2>1. w # <<>>
    BY <1>8, EmptyText
  <2> QED
    BY <1>2, <1>4, <1>9, <2>1 DEF Fit
<1>14. Stands(w, r, 4)
  BY <1>1, <1>3, <1>6, <1>12, <1>13, StandsAlone
<1> QED
  BY <1>3, <1>14 DEF t

\* A comparison stands anywhere, for itself.
LEMMA ComparisonStands ==
  ASSUME NEW part \in Part, part.kind = "is", IsComparison(part)
  PROVE  Stands(WriteComparison(part),
                FieldCondition(<<part.field>>, part.comparator, part.value), 4)
<1> DEFINE t == WriteComparison(part)
           f == part.field
           z == FieldCondition(<<f>>, part.comparator, part.value)
<1>1. Solid(t) /\ t[1] = f /\ f \in Field /\ parseComparison(t) = z
  BY ComparisonReads
<1> HIDE DEF t
<1>2. z \in Result
  BY Results
<1> HIDE DEF z
<1>3. t \in Text /\ t # <<>> /\ Bare(t, {"OR", "AND"}) /\ Fit(t)
  BY <1>1 DEF Solid, Fit
<1>4. Free(t, {"OR"}) /\ Free(t, {"AND"})
  <2>1. {"OR"} \subseteq {"OR", "AND"} /\ {"AND"} \subseteq {"OR", "AND"}
    OBVIOUS
  <2> QED
    BY <1>3, <2>1 DEF Bare, Free
<1>5. f \notin {"NOT", "("}
  BY <1>1, BlandWords
<1>6. ~ Begins(t, <<"NOT", " ">>)
  <2> DEFINE K == <<"NOT", " ">>
  <2>1. K \in Text /\ Len(K) = 2 /\ K[1] = "NOT"
    BY NotIs
  <2> HIDE DEF K
  <2>2. 1 \in 1..Len(K)
    BY <2>1
  <2>3. ~ Begins(t, K)
    BY <1>1, <1>3, <1>5, <2>1, <2>2, BeginsWith
  <2> QED
    BY <2>3 DEF K
<1>7. ~ Between(t, "(", ")")
  <2>1. "(" \in Token /\ ")" \in Token
    BY Tokens DEF Characters
  <2> QED
    BY <1>1, <1>3, <1>5, <2>1, BetweenIs
<1>8. Alone(t) = z
  BY <1>1, <1>6, <1>7 DEF Alone
<1>9. Stands(t, z, 4)
  BY <1>2, <1>3, <1>4, <1>8, StandsAlone
<1> QED
  BY <1>9 DEF t, z

\* A longer text is not found in one word, nor another word.
LEMMA NoIndex ==
  ASSUME NEW t \in Text, Len(t) = 1, NEW x \in Text, Len(x) > 0, x[1] # t[1]
  PROVE  Index(t, x) = 0
<1> DEFINE S == {i \in DOMAIN t : Begins(From(t, i), x)}
<1>1. DOMAIN t = 1..1
  BY TextIs
<1>2. ASSUME NEW i \in S PROVE FALSE
  <2>1. i = 1 /\ Begins(From(t, 1), x)
    BY <1>1, <1>2
  <2>2. /\ From(t, 1) \in Text
        /\ \A j \in 1..(Len(t) - 1 + 1) : From(t, 1)[j] = t[1 + j - 1]
    <3>1. 1 \in 1..(Len(t) + 1)
      OBVIOUS
    <3> QED
      BY <3>1, FromIn
  <2>3. 1 \in 1..(Len(t) - 1 + 1) /\ 1 + 1 - 1 = 1 /\ 1 \in 1..Len(x)
    <3>1. Len(x) \in Nat
      BY TextIs
    <3> QED
      BY <3>1
  <2>4. From(t, 1)[1] = t[1]
    BY <2>2, <2>3
  <2> QED
    BY <2>1, <2>2, <2>3, <2>4, BeginsWith
<1>3. S = {}
  BY <1>2
<1> QED
  BY <1>3 DEF Index, Least

\* A field without a comparator stands anywhere, for an error.
LEMMA BrokenStands ==
  ASSUME NEW f \in Field
  PROVE  Stands(<<f>>, Error, 4)
<1> DEFINE t == <<f>>
<1>1. Bland(f) /\ f \notin Edges /\ f \notin {"NOT", "("}
  BY BlandWords
<1>2. f \in Token \ (Quote \cup Opening \cup Closing) /\ f \notin {"OR", "AND"}
  BY <1>1 DEF Bland
<1>3. /\ t \in Text /\ t # <<>> /\ Len(t) = 1 /\ t[1] = f
      /\ Even(t) /\ \A X : f \notin X => Bare(t, X)
  BY <1>2, WordIs
<1> HIDE DEF t
<1>4. Free(t, {"OR"}) /\ Free(t, {"AND"})
  BY <1>2, <1>3 DEF Bare, Free
<1>5. Fit(t)
  BY <1>1, <1>3 DEF Fit
<1>6. ASSUME NEW k \in DOMAIN Comparators PROVE Position(t, Comparators[k]) = 0
  <2> DEFINE K == Comparators[k].text
             d == <<" ">>
             q == d \o K \o d
  <2>1. K \in Text /\ Len(K) > 0
    <3>1. K \in Text /\ Len(K) \in {1, 2, 3}
      BY BlandWords
    <3>2. \A i \in {1, 2, 3} : i > 0
      OBVIOUS
    <3> HIDE DEF K
    <3> QED
      BY ONLY <3>1, <3>2
  <2>2. K[1] # f
    <3>1. K[1] \in {"NOT", "IN", "MATCHES", "!", "<", ">", "="}
      <4>1. K \in {<<"NOT", " ", "IN">>, <<"IN">>, <<"MATCHES">>, <<"!", "=">>, <<"<", "=">>,
                  <<">", "=">>, <<"=">>, <<"<">>, <<">">>}
        BY ComparatorIn
      <4> HIDE DEF K
      <4>2. CASE K = <<"NOT", " ", "IN">>
        <5>1. K[1] = "NOT"
          BY <4>2
        <5> QED
          BY <5>1
      <4>3. ASSUME NEW x \in {"!", "<", ">"}, K = <<x, "=">> PROVE K[1] \in {"!", "<", ">"}
        <5>1. K[1] = x
          BY <4>3
        <5> QED
          BY <5>1
      <4>4. ASSUME NEW x \in {"IN", "MATCHES", "=", "<", ">"}, K = <<x>>
            PROVE  K[1] \in {"IN", "MATCHES", "=", "<", ">"}
        <5>1. K[1] = x
          BY <4>4
        <5> QED
          BY <5>1
      <4> QED
        BY <4>1, <4>2, <4>3, <4>4
    <3> HIDE DEF K
    <3> QED
      BY <3>1 DEF Field, ShareField, FileField, DirField
  <2>3. d \in Text /\ Len(d) = 1 /\ d[1] \in Blank
    <3>1. " " \in Token
      BY Tokens DEF Characters
    <3> QED
      BY <3>1, Words DEF Blank
  <2> HIDE DEF K, d
  <2>4. q \in Text /\ Len(q) > 0 /\ q[1] = d[1]
    <3>1. d \o K \in Text /\ Len(d \o K) = Len(d) + Len(K) /\ \A i \in 1..Len(d) : (d \o K)[i] = d[i]
      BY <2>1, <2>3, ConcatText
    <3>2. q \in Text /\ Len(q) = Len(d \o K) + Len(d) /\ \A i \in 1..Len(d \o K) : q[i] = (d \o K)[i]
      BY <2>3, <3>1, ConcatText
    <3>3. Len(K) \in Nat
      BY <2>1, TextIs
    <3> HIDE DEF q
    <3>4. 1 \in 1..Len(d) /\ 1 \in 1..Len(d \o K) /\ Len(q) > 0
      BY <2>1, <2>3, <3>1, <3>2, <3>3
    <3> QED
      BY <3>1, <3>2, <3>4
  <2>5. q[1] # t[1]
    BY <1>1, <1>3, <2>3, <2>4 DEF Edges, Blank
  <2> HIDE DEF q
  <2>6. Index(t, q) = 0 /\ Index(t, K) = 0
    BY <1>3, <2>1, <2>2, <2>4, <2>5, NoIndex
  <2>7. ~ (0 > 1)
    OBVIOUS
  <2>8. Position(t, Comparators[k]) = PlaceOf(t, Index(t, q), Index(t, K))
    BY DEF Position, q, d, K
  <2> QED
    BY <2>6, <2>7, <2>8 DEF PlaceOf
<1>7. parseComparison(t) = Error
  <2>1. {k \in DOMAIN Comparators : Position(t, Comparators[k]) # 0} = {}
    BY <1>6
  <2> QED
    BY <2>1 DEF parseComparison, Least
<1>8. ~ Begins(t, <<"NOT", " ">>)
  <2> DEFINE K == <<"NOT", " ">>
  <2>1. K \in Text /\ Len(K) = 2 /\ K[1] = "NOT"
    BY NotIs
  <2> HIDE DEF K
  <2>2. 1 \in 1..Len(K)
    BY <2>1
  <2>3. ~ Begins(t, K)
    BY <1>1, <1>3, <2>1, <2>2, BeginsWith
  <2> QED
    BY <2>3 DEF K
<1>9. ~ Between(t, "(", ")")
  BY <1>3 DEF Between
<1>10. Alone(t) = Error
  BY <1>7, <1>8, <1>9 DEF Alone
<1>11. Stands(t, Error, 4)
  BY <1>4, <1>5, <1>10, Results, StandsAlone
<1> QED
  BY <1>11 DEF t

-----------------------------------------------------------------------------
(* Every part of a condition is read. *)

\* What the answer to a part is made of, A[j] being those to the parts before it.
Combined(c, A, i) ==
  CASE c[i].kind = "not" -> NotCondition(A[c[i].of[1]])
    [] c[i].kind = "and" -> Joined("and", <<A[c[i].of[1]], A[c[i].of[2]]>>)
    [] c[i].kind = "or"  -> Joined("or", <<A[c[i].of[1]], A[c[i].of[2]]>>)
    [] c[i].kind = "is"  -> FieldCondition(<<c[i].field>>, c[i].comparator, c[i].value)
    [] OTHER             -> Error

\* The answers to the parts of a condition that is written as w.
AnswersTo(c, w) == [i \in DOMAIN c |-> parseCondition[w[i]]]

\* How each kind of part binds.
LEMMA BindingIs ==
  ASSUME NEW part, part.kind \in {"is", "broken", "not", "and", "or"}
  PROVE  /\ part.kind = "or" => Binding(part) = 1
         /\ part.kind = "and" => Binding(part) = 2
         /\ part.kind = "not" => Binding(part) = 3
         /\ part.kind \in {"is", "broken"} => Binding(part) = 4
         /\ Binding(part) \in 1..4
<1>1. CASE part.kind = "or"
  BY <1>1 DEF Binding
<1>2. CASE part.kind = "and"
  BY <1>2 DEF Binding
<1>3. CASE part.kind = "not"
  BY <1>3 DEF Binding
<1>4. CASE part.kind \in {"is", "broken"}
  BY <1>4 DEF Binding
<1> QED
  BY <1>1, <1>2, <1>3, <1>4

\* A part of a part, with the brackets that it needs or more, stands for its answer.
LEMMA ShownStands ==
  ASSUME NEW w, NEW c, NEW b, NEW i, NEW j, NEW r, Binding(c[i]) \in 1..4, Binding(c[j]) \in 1..4,
         Stands(w[j], r, Binding(c[j]))
  PROVE  \E l \in 1..4 : l >= Binding(c[i]) /\ Stands(Shown(w, c, b, i, j), r, l)
<1>1. CASE b \/ Binding(c[j]) < Binding(c[i])
  <2>1. Shown(w, c, b, i, j) = InBrackets(w[j])
    BY <1>1 DEF Shown
  <2>2. Stands(InBrackets(w[j]), r, 4)
    BY BracketsStand
  <2>3. 4 \in 1..4 /\ 4 >= Binding(c[i])
    OBVIOUS
  <2> QED
    BY <2>1, <2>2, <2>3
<1>2. CASE ~ (b \/ Binding(c[j]) < Binding(c[i]))
  <2>1. Shown(w, c, b, i, j) = w[j]
    BY <1>2 DEF Shown
  <2>2. Binding(c[j]) >= Binding(c[i])
    BY <1>2
  <2> QED
    BY <2>1, <2>2
<1> QED
  BY <1>1, <1>2

\* A part in ASCII is so in brackets.
LEMMA ShownInASCII ==
  ASSUME NEW w, NEW c, NEW b, NEW i, NEW j, w[j] \in Text, InASCII(w[j])
  PROVE  Shown(w, c, b, i, j) \in Text /\ InASCII(Shown(w, c, b, i, j))
<1> DEFINE t == w[j]
           p == <<"(">>
           q == <<")">>
<1>1. t \in Text /\ InASCII(t)
  OBVIOUS
<1>2. p \in Text /\ q \in Text /\ InASCII(p) /\ InASCII(q)
  <2>1. ASSUME NEW x \in {"(", ")"} PROVE <<x>> \in Text /\ InASCII(<<x>>)
    <3> DEFINE s == <<x>>
    <3>1. x \in Characters /\ x \in Token
      BY Tokens DEF Characters
    <3>2. s \in Text /\ Len(s) = 1 /\ s[1] = x
      BY <3>1, SizedOne
    <3> HIDE DEF s
    <3>3. \A k \in 1..Len(s) : s[k] \in Characters \cup Reserved \cup Field
      <4>1. \A k \in 1..1 : k = 1
        OBVIOUS
      <4> QED
        BY <3>1, <3>2, <4>1
    <3>4. InASCII(s)
      BY <3>2, <3>3, WordsInASCII
    <3> QED
      BY <3>2, <3>4 DEF s
  <2> QED
    BY <2>1
<1>3. Shown(w, c, b, i, j) \in {p \o t \o q, t}
  BY DEF Shown, InBrackets
<1> HIDE DEF t, p, q
<1>4. p \o t \o q \in Text /\ InASCII(p \o t \o q)
  BY <1>1, <1>2, JoinInASCII, ConcatText
<1> QED
  BY <1>1, <1>3, <1>4

\* Each part of a condition, as written, stands for what its own parts make of it.
LEMMA PartStands ==
  ASSUME NEW c, IsCondition(c), NEW b, NEW i \in DOMAIN c
  PROVE  LET w == Write(c, b)
             A == AnswersTo(c, w)
         IN  /\ Stands(w[i], A[i], Binding(c[i]))
             /\ A[i] = Combined(c, A, i)
<1> DEFINE w == Write(c, b)
           A == AnswersTo(c, w)
           T == DOMAIN c
           size == [j \in T |-> j]
           joins == \E j \in T : c[j].kind \in {"and", "or"}
           P == {j \in T : /\ Stands(w[j], Combined(c, A, j), Binding(c[j]))
                           /\ joins => InASCII(w[j])}
<1>1. size \in [T -> Nat] /\ \A j \in T : size[j] = j
  <2>1. T = 1..Len(c) /\ Len(c) \in Nat
    <3>1. c \in Seq(Part)
      BY DEF IsCondition
    <3> QED
      BY <3>1
  <2> QED
    BY <2>1
<1>2. \A j \in T : w[j] = Written(w, c, b, j)
  BY WriteIs
<1>3. \A j \in T : A[j] = parseCondition[w[j]]
  BY DEF AnswersTo
<1>4. \A j \in T : j \in P => Stands(w[j], A[j], Binding(c[j])) /\ (joins => InASCII(w[j]))
  BY <1>3 DEF Stands
<1>5. \A j \in T : Binding(c[j]) \in 1..4
  BY PartIs, BindingIs
<1>10. \A j \in T : c[j].kind \in {"and", "or"} => joins
  OBVIOUS
<1>11. joins => \A j \in T : c[j].kind = "is" => InASCII(WriteComparison(c[j]))
  BY DEF IsCondition
<1> HIDE DEF size, w, A, joins
<1>6. ASSUME NEW j \in T, \A k \in T : size[k] < size[j] => k \in P PROVE j \in P
  <2> DEFINE z == Combined(c, A, j)
  <2>1. \A k \in T : k < j => Stands(w[k], A[k], Binding(c[k])) /\ (joins => InASCII(w[k]))
    BY <1>1, <1>4, <1>6
  <2>2. /\ c[j] \in Part
        /\ c[j].kind \in {"is", "broken", "not", "and", "or"}
        /\ c[j].kind = "broken" => c[j].field \in Field
        /\ c[j].kind \in {"not", "and", "or"} => c[j].of[1] \in T /\ c[j].of[1] < j
        /\ c[j].kind \in {"and", "or"} => c[j].of[2] \in T /\ c[j].of[2] < j
    BY PartIs
  <2>3. ASSUME NEW k \in T, k < j
        PROVE  \E l \in 1..4 : l >= Binding(c[j]) /\ Stands(Shown(w, c, b, j, k), A[k], l)
    BY <1>5, <2>1, <2>3, ShownStands
  <2>9. ASSUME NEW k \in T, k < j, joins
        PROVE  Shown(w, c, b, j, k) \in Text /\ InASCII(Shown(w, c, b, j, k))
    <3>1. w[k] \in Text /\ InASCII(w[k])
      BY <2>1, <2>9 DEF Stands, Fit
    <3> QED
      BY <3>1, ShownInASCII
  <2> HIDE DEF P
  <2>4. CASE c[j].kind = "not"
    <3> DEFINE k == c[j].of[1]
               u == Shown(w, c, b, j, k)
    <3>8. joins => u \in Text /\ InASCII(u)
      BY <2>2, <2>4, <2>9
    <3>1. PICK l \in 1..4 : l >= Binding(c[j]) /\ Stands(u, A[k], l)
      BY <2>2, <2>3, <2>4
    <3>2. w[j] = <<"NOT", " ">> \o u
      BY <1>2, <2>4 DEF Written
    <3>3. z = NotCondition(A[k])
      BY <2>4 DEF Combined
    <3> HIDE DEF u, k, z
    <3>4. Binding(c[j]) = 3
      BY <2>2, <2>4, BindingIs
    <3>5. l > 2 /\ l > 1
      BY ONLY <3>1, <3>4
    <3>6. Stands(<<"NOT", " ">> \o u, NotCondition(A[k]), 3)
      BY <3>1, <3>5, NotStands
    <3>7. Stands(w[j], z, Binding(c[j]))
      BY <3>2, <3>3, <3>4, <3>6
    <3>9. joins => InASCII(w[j])
      <4> DEFINE K == <<"NOT", " ">>
      <4>1. K \in Text /\ Len(K) = 2 /\ K[1] = "NOT" /\ K[2] = " "
        <5>1. K[2] = " "
          OBVIOUS
        <5> QED
          BY <5>1, NotIs
      <4> HIDE DEF K
      <4>2. \A m \in 1..2 : m = 1 \/ m = 2
        OBVIOUS
      <4>3. "NOT" \in Reserved /\ " " \in Characters
        BY DEF Reserved, Characters
      <4>4. \A m \in 1..Len(K) : K[m] \in Characters \cup Reserved \cup Field
        BY <4>1, <4>2, <4>3
      <4>5. InASCII(K)
        BY <4>1, <4>4, WordsInASCII
      <4>6. w[j] = K \o u
        BY <3>2 DEF K
      <4> QED
        BY <3>8, <4>1, <4>5, <4>6, JoinInASCII
    <3> QED
      BY <3>7, <3>9 DEF P, z
  <2>5. CASE c[j].kind = "and"
    <3> DEFINE k == c[j].of[1]
               h == c[j].of[2]
               u == Shown(w, c, b, j, k)
               v == Shown(w, c, b, j, h)
    <3>1. PICK l \in 1..4 : l >= Binding(c[j]) /\ Stands(u, A[k], l)
      BY <2>2, <2>3, <2>5
    <3>2. PICK m \in 1..4 : m >= Binding(c[j]) /\ Stands(v, A[h], m)
      BY <2>2, <2>3, <2>5
    <3>9. joins /\ u \in Text /\ v \in Text /\ InASCII(u) /\ InASCII(v)
      BY <1>10, <2>2, <2>9, <2>5
    <3>3. w[j] = u \o AndText \o v
      BY <1>2, <2>5 DEF Written, AndText
    <3>4. z = Joined("and", <<A[k], A[h]>>)
      BY <2>5 DEF Combined
    <3> HIDE DEF u, v, k, h, z
    <3>5. Binding(c[j]) = 2
      BY <2>2, <2>5, BindingIs
    <3>6. l > 1 /\ m > 1
      BY ONLY <3>1, <3>2, <3>5
    <3>7. Stands(u \o AndText \o v, Joined("and", <<A[k], A[h]>>), 2)
      BY <3>1, <3>2, <3>6, <3>9, AndStands
    <3>8. Stands(w[j], z, Binding(c[j]))
      BY <3>3, <3>4, <3>5, <3>7
    <3>10. InASCII(w[j])
      BY <3>3, <3>9, AndIs, JoinInASCII, ConcatText
    <3> QED
      BY <3>8, <3>10 DEF P, z
  <2>6. CASE c[j].kind = "or"
    <3> DEFINE k == c[j].of[1]
               h == c[j].of[2]
               u == Shown(w, c, b, j, k)
               v == Shown(w, c, b, j, h)
    <3>1. PICK l \in 1..4 : l >= Binding(c[j]) /\ Stands(u, A[k], l)
      BY <2>2, <2>3, <2>6
    <3>2. PICK m \in 1..4 : m >= Binding(c[j]) /\ Stands(v, A[h], m)
      BY <2>2, <2>3, <2>6
    <3>9. joins /\ u \in Text /\ v \in Text /\ InASCII(u) /\ InASCII(v)
      BY <1>10, <2>2, <2>9, <2>6
    <3>3. w[j] = u \o OrText \o v
      BY <1>2, <2>6 DEF Written, OrText
    <3>4. z = Joined("or", <<A[k], A[h]>>)
      BY <2>6 DEF Combined
    <3> HIDE DEF u, v, k, h, z
    <3>5. Binding(c[j]) = 1
      BY <2>2, <2>6, BindingIs
    <3>7. Stands(u \o OrText \o v, Joined("or", <<A[k], A[h]>>), 1)
      BY <3>1, <3>2, <3>9, OrStands
    <3>8. Stands(w[j], z, Binding(c[j]))
      BY <3>3, <3>4, <3>5, <3>7
    <3>10. InASCII(w[j])
      BY <3>3, <3>9, OrIs, JoinInASCII, ConcatText
    <3> QED
      BY <3>8, <3>10 DEF P, z
  <2>7. CASE c[j].kind = "is"
    <3>1. IsComparison(c[j])
      BY <2>7 DEF IsCondition
    <3>2. w[j] = WriteComparison(c[j])
      BY <1>2, <2>7 DEF Written
    <3>3. z = FieldCondition(<<c[j].field>>, c[j].comparator, c[j].value)
      BY <2>7 DEF Combined
    <3>4. Binding(c[j]) = 4
      BY <2>2, <2>7, BindingIs
    <3>5. Stands(WriteComparison(c[j]), FieldCondition(<<c[j].field>>, c[j].comparator, c[j].value), 4)
      BY <2>2, <2>7, <3>1, ComparisonStands
    <3> HIDE DEF z
    <3>6. Stands(w[j], z, Binding(c[j]))
      BY <3>2, <3>3, <3>4, <3>5
    <3>7. joins => InASCII(w[j])
      BY <1>11, <2>7, <3>2
    <3> QED
      BY <3>6, <3>7 DEF P, z
  <2>8. CASE c[j].kind = "broken"
    <3>1. w[j] = <<c[j].field>>
      BY <1>2, <2>8 DEF Written
    <3>2. z = Error
      BY <2>8 DEF Combined
    <3>3. Binding(c[j]) = 4
      BY <2>2, <2>8, BindingIs
    <3>4. Stands(<<c[j].field>>, Error, 4)
      BY <2>2, <2>8, BrokenStands
    <3> HIDE DEF z
    <3>5. Stands(w[j], z, Binding(c[j]))
      BY <3>1, <3>2, <3>3, <3>4
    <3>6. InASCII(w[j])
      <4> DEFINE s == <<c[j].field>>
      <4>1. s \in Text /\ Len(s) = 1 /\ s[1] \in Field
        BY <2>2, <2>8, WritingAssumption, SizedOne
      <4> HIDE DEF s
      <4>2. \A m \in 1..1 : m = 1
        OBVIOUS
      <4>3. \A m \in 1..Len(s) : s[m] \in Characters \cup Reserved \cup Field
        BY <4>1, <4>2
      <4>4. InASCII(s)
        BY <4>1, <4>3, WordsInASCII
      <4> QED
        BY <3>1, <4>4 DEF s
    <3> QED
      BY <3>5, <3>6 DEF P, z
  <2> QED
    BY <2>2, <2>4, <2>5, <2>6, <2>7, <2>8
<1>7. T \subseteq P
  <2>1. size \in [T -> Nat]
    BY <1>1
  <2> HIDE DEF P, T, size
  <2>2. Inherits(P, T, size)
    BY ONLY <1>6, <2>1 DEF Inherits
  <2> QED
    BY ONLY <2>2, BySize
<1>8. Stands(w[i], Combined(c, A, i), Binding(c[i]))
  BY <1>7
<1>9. A[i] = Combined(c, A, i)
  BY <1>3, <1>8 DEF Stands
<1> QED
  BY <1>8, <1>9 DEF A, w

IsBroken(c) == \E i \in DOMAIN c : c[i].kind = "broken"

\* A condition is refused only if one of its comparisons lacks its comparator.
LEMMA ConditionOk ==
  ASSUME NEW c, IsCondition(c), c # <<>>, NEW b
  PROVE  LET w == Write(c, b)[Len(c)]
         IN  /\ w \in Text /\ w # <<>> /\ w[1] \notin Edges /\ w[Len(w)] \notin Edges
             /\ parseCondition[w] \in Result
             /\ parseCondition[w].ok <=> ~ IsBroken(c)
<1> DEFINE W == Write(c, b)
           A == AnswersTo(c, W)
           n == Len(c)
           T == DOMAIN c
           Bad == {i \in T : ~ A[i].ok}
<1>1. \A i \in T : Stands(W[i], A[i], Binding(c[i])) /\ A[i] = Combined(c, A, i)
  BY PartStands
<1>2. \A i \in T : A[i] = parseCondition[W[i]]
  BY DEF AnswersTo
<1>3. /\ c \in Seq(Part) /\ n \in Nat /\ n > 0 /\ T = 1..n
  <2>1. c \in Seq(Part)
    BY DEF IsCondition
  <2> QED
    BY <2>1
<1>4. n \in T
  BY ONLY <1>3
<1>5. \A i \in T : A[i] \in Result
  BY <1>1 DEF Stands
<1>6. /\ \A i \in T : /\ c[i].kind \in {"is", "broken", "not", "and", "or"}
                      /\ c[i].kind \in {"not", "and", "or"} => c[i].of[1] \in T /\ c[i].of[1] < i
                      /\ c[i].kind \in {"and", "or"} => c[i].of[2] \in T /\ c[i].of[2] < i
  BY PartIs
<1>7. \A i \in T : /\ c[i].kind = "not" => DOMAIN c[i].of = {1}
                   /\ c[i].kind \in {"and", "or"} => DOMAIN c[i].of = {1, 2}
                   /\ i < n => \E j \in T : i \in Members(c[j])
                   /\ \A j \in T : i \in Members(c[j]) => i < j
  <2>1. \A i \in T : /\ c[i].kind = "not" => Len(c[i].of) = 1
                     /\ c[i].kind \in {"and", "or"} => Len(c[i].of) = 2
                     /\ i < n => \E j \in T : i \in Members(c[j])
                     /\ Members(c[i]) \subseteq 1..(i - 1)
    BY DEF IsCondition
  <2>2. \A i \in T : c[i].kind \in {"not", "and", "or"} => c[i].of \in Seq(Nat)
    <3> TAKE i \in T
    <3>1. c[i] \in Part
      BY <1>3
    <3>2. ASSUME c[i].kind \in {"not", "and", "or"} PROVE c[i].of \in Seq(Nat)
      <4>1. c[i] \in [kind : {"not", "and", "or"}, of : Seq(Nat)]
        BY <3>1, <3>2 DEF Part
      <4> QED
        BY <4>1
    <3> QED
      BY <3>2
  <2>3. \A s \in Seq(Nat) : (Len(s) = 1 => DOMAIN s = {1}) /\ (Len(s) = 2 => DOMAIN s = {1, 2})
    OBVIOUS
  <2>4. \A i \in T : \A j \in T : i \in Members(c[j]) => i < j
    BY <1>3, <2>1
  <2> HIDE DEF T
  <2>5. \A i \in T : /\ c[i].kind = "not" => DOMAIN c[i].of = {1}
                     /\ c[i].kind \in {"and", "or"} => DOMAIN c[i].of = {1, 2}
    BY <2>1, <2>2, <2>3
  <2> QED
    BY <2>1, <2>4, <2>5
<1> HIDE DEF A, n, T
<1>8. ASSUME NEW i \in T, c[i].kind = "broken" PROVE ~ A[i].ok
  <2>1. A[i] = Error
    BY <1>1, <1>8 DEF Combined
  <2>2. Error.ok = FALSE
    BY ErrorIs
  <2> QED
    BY <2>1, <2>2
<1>9. ASSUME NEW i \in T, NEW j \in T, i \in Members(c[j]), ~ A[i].ok PROVE ~ A[j].ok
  <2>1. c[j].kind \in {"not", "and", "or"} /\ \E k \in DOMAIN c[j].of : c[j].of[k] = i
    BY <1>6, <1>9 DEF Members
  <2>2. CASE c[j].kind = "not"
    <3>1. c[j].of[1] = i
      BY <1>7, <2>1, <2>2
    <3>2. A[j] = NotCondition(A[i])
      BY <1>1, <2>2, <3>1 DEF Combined
    <3> QED
      BY <1>9, <3>2 DEF NotCondition
  <2>3. CASE c[j].kind \in {"and", "or"}
    <3> DEFINE r == A[c[j].of[1]]
               s == A[c[j].of[2]]
               d == <<r, s>>
    <3>1. c[j].of[1] = i \/ c[j].of[2] = i
      BY <1>7, <2>1, <2>3
    <3>2. A[j] = Joined("and", d) \/ A[j] = Joined("or", d)
      BY <1>1, <2>3 DEF Combined
    <3>3. DOMAIN d = {1, 2} /\ d[1] = r /\ d[2] = s
      BY TwoResults
    <3>4. ~ r.ok \/ ~ s.ok
      BY <1>9, <3>1
    <3> HIDE DEF d, r, s
    <3>5. DOMAIN d \subseteq Nat \ {0} /\ \E k \in DOMAIN d : ~ d[k].ok
      BY <3>3, <3>4
    <3>6. PICK k \in DOMAIN d : ~ d[k].ok /\ \A m \in DOMAIN d : m < k => d[m].ok
      BY <3>5, FirstFailure
    <3>7. Joined("and", d) = d[k] /\ Joined("or", d) = d[k]
      BY <3>5, <3>6, JoinedFailure
    <3> QED
      BY <3>2, <3>6, <3>7
  <2> QED
    BY <2>1, <2>2, <2>3
<1>10. ASSUME IsBroken(c) PROVE ~ A[n].ok
  <2> DEFINE size == [i \in T |-> n - i]
             P == {i \in T : ~ A[i].ok => ~ A[n].ok}
  <2>1. size \in [T -> Nat] /\ \A i \in T : size[i] = n - i
    BY <1>3
  <2> HIDE DEF size
  <2>2. ASSUME NEW i \in T, \A j \in T : size[j] < size[i] => j \in P PROVE i \in P
    <3>1. CASE i = n
      BY <3>1
    <3>2. CASE i # n
      <4>1. i < n
        BY <1>3, <3>2
      <4>2. PICK j \in T : i \in Members(c[j])
        BY <1>7, <4>1
      <4>3. i < j
        BY <1>7, <4>2
      <4>4. size[j] < size[i]
        <5>1. n - j < n - i
          BY <1>3, <4>3
        <5> QED
          BY <2>1, <5>1
      <4> QED
        BY <1>9, <2>2, <4>2, <4>4
    <3> QED
      BY <3>1, <3>2
  <2>3. T \subseteq P
    <3>1. size \in [T -> Nat]
      BY <2>1
    <3> HIDE DEF P, T, size
    <3>2. Inherits(P, T, size)
      BY ONLY <2>2, <3>1 DEF Inherits
    <3> QED
      BY ONLY <3>2, BySize
  <2>4. PICK i \in T : c[i].kind = "broken"
    BY <1>10 DEF IsBroken, T
  <2>5. ~ A[i].ok
    BY <1>8, <2>4
  <2> QED
    BY <2>3, <2>5
<1>11. ASSUME ~ IsBroken(c) PROVE A[n].ok
  <2> DEFINE size == [i \in T |-> i]
             P == {i \in T : A[i].ok}
  <2>1. size \in [T -> Nat] /\ \A i \in T : size[i] = i
    BY <1>3
  <2> HIDE DEF size
  <2>2. ASSUME NEW i \in T, \A j \in T : size[j] < size[i] => j \in P PROVE i \in P
    <3>1. \A j \in T : j < i => A[j].ok
      BY <2>1, <2>2
    <3>2. c[i].kind # "broken"
      BY <1>11 DEF IsBroken, T
    <3>3. CASE c[i].kind = "not"
      <4>1. A[c[i].of[1]].ok /\ A[i] = NotCondition(A[c[i].of[1]])
        BY <1>1, <1>6, <3>1, <3>3 DEF Combined
      <4> QED
        BY <4>1 DEF NotCondition, Condition
    <3>4. CASE c[i].kind \in {"and", "or"}
      <4> DEFINE r == A[c[i].of[1]]
                 s == A[c[i].of[2]]
                 d == <<r, s>>
      <4>1. r.ok /\ s.ok
        BY <1>6, <3>1, <3>4
      <4>2. A[i] = Joined("and", d) \/ A[i] = Joined("or", d)
        BY <1>1, <3>4 DEF Combined
      <4>3. DOMAIN d = {1, 2} /\ d[1] = r /\ d[2] = s
        BY TwoResults
      <4> HIDE DEF d, r, s
      <4>4. \A k \in DOMAIN d : d[k].ok
        BY <4>1, <4>3
      <4>5. Joined("or", d).ok
        BY <4>4, JoinedOr
      <4>6. Joined("and", d).ok
        BY <4>4, JoinedAnd
      <4> QED
        BY <4>2, <4>5, <4>6
    <3>5. CASE c[i].kind = "is"
      <4>1. A[i] = FieldCondition(<<c[i].field>>, c[i].comparator, c[i].value)
        BY <1>1, <3>5 DEF Combined
      <4> QED
        BY <4>1 DEF FieldCondition, Condition
    <3> QED
      BY <1>6, <3>2, <3>3, <3>4, <3>5
  <2>3. T \subseteq P
    <3>1. size \in [T -> Nat]
      BY <2>1
    <3> HIDE DEF P, T, size
    <3>2. Inherits(P, T, size)
      BY ONLY <2>2, <3>1 DEF Inherits
    <3> QED
      BY ONLY <3>2, BySize
  <2> QED
    BY <1>4, <2>3
<1>12. A[n] = parseCondition[W[n]]
  BY <1>2, <1>4
<1>13. W[n] \in Text /\ W[n] # <<>> /\ W[n][1] \notin Edges /\ W[n][Len(W[n])] \notin Edges
  BY <1>1, <1>4 DEF Stands, Fit
<1> QED
  BY <1>4, <1>5, <1>10, <1>11, <1>12, <1>13 DEF n

-----------------------------------------------------------------------------
(* Lines. *)

\* A token before a text that does not end in a blank.
LEMMA PutBefore ==
  ASSUME NEW a \in Token, a \notin Blank, NEW C \in Text, C # <<>> => C[Len(C)] \notin Blank
  PROVE  LET t == <<a>> \o C
         IN  /\ t \in Text /\ t # <<>> /\ Len(t) = Len(C) + 1 /\ t[1] = a
             /\ t[Len(t)] \notin Blank
             /\ Head(t) = a /\ Tail(t) = C /\ Trim(t) = t /\ Trim(<<" ">> \o t) = t
<1> DEFINE e == <<a>>
           t == e \o C
<1>1. e \in Text /\ Len(e) = 1 /\ e[1] = a
  BY SizedOne
<1> HIDE DEF e
<1>2. /\ t \in Text /\ Len(t) = Len(e) + Len(C) /\ \A i \in 1..Len(e) : t[i] = e[i]
      /\ \A i \in 1..Len(C) : t[Len(e) + i] = C[i]
  BY <1>1, ConcatText
<1> HIDE DEF t
<1>3. Len(C) \in Nat /\ (C # <<>> => Len(C) \in 1..Len(C))
  BY TextIs, LastOf
<1>4. Len(t) = 1 + Len(C) /\ Len(t) = Len(C) + 1 /\ Len(t) # 0 /\ t[1] = a
  BY <1>1, <1>2, <1>3
<1>5. t # <<>>
  BY <1>4, EmptyText
<1>6. t[Len(t)] \notin Blank
  <2>1. CASE C = <<>>
    <3>1. Len(t) = 1
      BY <1>4, <2>1, EmptyText
    <3> QED
      BY <1>4, <3>1
  <2>2. CASE C # <<>>
    <3>1. t[Len(t)] = C[Len(C)]
      BY <1>1, <1>2, <1>3, <2>2
    <3> QED
      BY <2>2, <3>1
  <2> QED
    BY <2>1, <2>2
<1>7. Head(t) = a
  BY <1>2, <1>4 DEF Text
<1>8. Tail(t) = C
  <2>1. From(t, 2) = C
    <3>1. From(e \o C, Len(e) + 1) = C
      BY <1>1, JoinPieces
    <3>2. Len(e) + 1 = 2
      BY ONLY <1>1
    <3> QED
      BY <3>1, <3>2 DEF t
  <2>2. Tail(t) = SubSeq(t, 2, Len(t))
    BY <1>2, <1>5 DEF Text
  <2> QED
    BY <2>1, <2>2 DEF From
<1>9. Trim(t) = t /\ Trim(<<" ">> \o t) = t
  BY <1>2, <1>4, <1>5, <1>6, TrimWhole
<1> QED
  BY <1>2, <1>4, <1>5, <1>6, <1>7, <1>8, <1>9 DEF t, e

\* Nothing stays of nothing.
LEMMA TrimEmpty == Trim(<<>>) = <<>>
<1>1. Trim(<<>>) \in Text /\ Len(Trim(<<>>)) <= 0
  BY TrimText, EmptyText
<1>2. Len(Trim(<<>>)) = 0
  BY <1>1, TextIs
<1> QED
  BY <1>1, <1>2, EmptyText, SameText

\* The text that a condition is preceded by.
LEMMA IfIs ==
  ASSUME NEW w \in Text
  PROVE  /\ <<"IF", " ">> \o w \in Text
         /\ <<"IF", " ">> \o w = <<"IF">> \o (<<" ">> \o w)
         /\ <<" ", "IF", " ">> \o w = <<" ">> \o (<<"IF", " ">> \o w)
         /\ Begins(<<"IF", " ">> \o w, <<"IF", " ">>) /\ From(<<"IF", " ">> \o w, 3) = w
<1> DEFINE a == <<"IF">>
           d == <<" ">>
           p == <<"IF", " ">>
           q == <<" ", "IF", " ">>
<1>1. "IF" \in Token /\ " " \in Token
  BY Tokens DEF Characters, Reserved
<1>2. a \in Text /\ d \in Text /\ p \in Text /\ q \in Text
  BY <1>1, Words
<1>3. p = a \o d
  BY <1>1, TwoWords
<1>4. Len(a) = 1 /\ Len(d) = 1 /\ Len(p) = 2 /\ Len(q) = 3
      /\ d[1] = q[1] /\ p[1] = q[2] /\ p[2] = q[3]
  OBVIOUS
<1> HIDE DEF a, d, p, q
<1>5. q = d \o p
  <2> DEFINE t == d \o p
  <2>1. /\ t \in Text /\ Len(t) = Len(d) + Len(p) /\ \A i \in 1..Len(d) : t[i] = d[i]
        /\ \A i \in 1..Len(p) : t[Len(d) + i] = p[i]
    BY <1>2, ConcatText
  <2> HIDE DEF t
  <2>2. Len(t) = 3 /\ t[1] = q[1] /\ t[1 + 1] = q[2] /\ t[1 + 2] = q[3]
    <3>1. 1 \in 1..1 /\ 1 \in 1..2 /\ 2 \in 1..2 /\ 1 + 2 = 3
      OBVIOUS
    <3> QED
      BY <1>4, <2>1, <3>1
  <2>3. \A i \in 1..3 : i = 1 \/ i = 1 + 1 \/ i = 1 + 2
    OBVIOUS
  <2>4. \A i \in 1..Len(q) : q[i] = t[i]
    BY <1>4, <2>2, <2>3
  <2>5. q = t
    <3>1. q \in Text /\ t \in Text /\ Len(q) = Len(t)
      BY <1>2, <1>4, <2>1, <2>2
    <3> QED
      BY ONLY <2>4, <3>1, SameText
  <2> QED
    BY <2>5 DEF t
<1>6. p \o w \in Text /\ \A i \in 1..Len(p) : (p \o w)[i] = p[i]
  BY <1>2, ConcatText
<1>7. p \o w = a \o (d \o w) /\ q \o w = d \o (p \o w)
  <2> USE <1>2
  <2>1. a \o (d \o w) = (a \o d) \o w
    BY ONLY a \in Text, d \in Text, w \in Text, ConcatAssociates
  <2>2. d \o (p \o w) = (d \o p) \o w
    BY ONLY d \in Text, p \in Text, w \in Text, ConcatAssociates
  <2> QED
    BY <1>3, <1>5, <2>1, <2>2
<1>8. Begins(p \o w, p)
  <2>1. Len(p \o w) = Len(p) + Len(w) /\ Len(w) \in Nat
    BY <1>2, ConcatText, TextIs
  <2>2. Len(p) <= Len(p \o w)
    BY <1>4, <2>1
  <2> QED
    BY <1>2, <1>6, <2>2, BeginsWith
<1>9. From(p \o w, 3) = w
  <2>1. From(p \o w, Len(p) + 1) = w
    BY <1>2, JoinPieces
  <2>2. Len(p) + 1 = 3
    BY <1>4
  <2> QED
    BY <2>1, <2>2
<1> QED
  BY <1>6, <1>7, <1>8, <1>9 DEF a, d, p, q

\* What a rule says of the objects that it is about.
Said(line, b) ==
  IF line.if = <<>> THEN Always ELSE parseCondition[Write(line.if, b)[Len(line.if)]]

\* A rule is read as it was meant, or not at all if its condition is at fault; other
\* words in the place of a condition are passed over (parser.go:57-125).
LEMMA RuleReads ==
  ASSUME NEW line, IsLine(line), line.kind = "rule", NEW b
  PROVE  LET t == WriteLine(line, b)
         IN  /\ t \in Text /\ t # <<>> /\ Trim(t) = t /\ Head(t) = Action(line.allow)
             /\ parseLine(t) = IF Said(line, b).ok
                               THEN ARule(RulesEval!Rule(line.allow, line.scope, Said(line, b).holds))
                               ELSE NoRule(Said(line, b).panicked)
<1> DEFINE x == Action(line.allow)
           w == Write(line.if, b)[Len(line.if)]
           r == <<"IF", " ">> \o w
           Q == IF line.rest = <<>> THEN <<>> ELSE <<" ">> \o line.rest
           I == IF line.if = <<>> THEN <<>> ELSE <<" ", "IF", " ">> \o w
           C == IF line.if = <<>> THEN Q ELSE I
           S == IF line.scope = "" THEN <<>> ELSE <<" ", line.scope>>
           R == IF line.if = <<>> THEN line.rest ELSE r
           t == WriteLine(line, b)
           z == IF Said(line, b).ok
                THEN ARule(RulesEval!Rule(line.allow, line.scope, Said(line, b).holds))
                ELSE NoRule(Said(line, b).panicked)
<1>1. /\ line.allow \in BOOLEAN /\ IsCondition(line.if) /\ line.scope \in Scopes
      /\ IsRest(line.rest, line.scope) /\ (line.if = <<>> \/ line.rest = <<>>)
  BY DEF IsLine
<1>2. t = <<x>> \o S \o Q \o I
  BY DEF WriteLine
<1>3. x \in {"ALLOW", "DENY"} /\ (x = "ALLOW") = line.allow
  BY <1>1 DEF Action
<1>4. line.if # <<>> => w \in Text /\ w # <<>> /\ w[Len(w)] \notin Blank
  <2>1. ASSUME line.if # <<>> PROVE w \in Text /\ w # <<>> /\ w[Len(w)] \notin Edges
    <3> DEFINE c == line.if
    <3>1. IsCondition(c) /\ c # <<>>
      BY <1>1, <2>1
    <3> HIDE DEF c
    <3> DEFINE v == Write(c, b)[Len(c)]
    <3>2. /\ v \in Text /\ v # <<>> /\ v[1] \notin Edges /\ v[Len(v)] \notin Edges
          /\ parseCondition[v] \in Result
          /\ parseCondition[v].ok <=> ~ IsBroken(c)
      BY <3>1, ConditionOk
    <3> QED
      BY <3>2 DEF c
  <2> QED
    BY <2>1 DEF Edges, Blank
<1>5. Said(line, b) = IF line.if = <<>> THEN Always ELSE parseCondition[w]
  BY DEF Said
<1> HIDE DEF w, t
<1>6. /\ C \in Text /\ R \in Text /\ Trim(C) = R
      /\ C # <<>> => C[Len(C)] \notin Blank
      /\ R # <<>> /\ line.scope = "" => Head(R) \notin {"EXPLORATION", "PROCESSING"}
      /\ \A scope : RuleOn(x, scope, R) =
           IF Said(line, b).ok THEN ARule(RulesEval!Rule(line.allow, scope, Said(line, b).holds))
           ELSE NoRule(Said(line, b).panicked)
  <2>1. CASE line.if = <<>>
    <3>1. C = Q /\ R = line.rest /\ Said(line, b) = Always
      BY <1>5, <2>1
    <3>2. /\ R \in Text /\ Trim(R) = R /\ ~ Begins(R, <<"IF", " ">>)
          /\ R # <<>> /\ line.scope = "" => Head(R) \notin {"EXPLORATION", "PROCESSING"}
      BY <1>1, <3>1 DEF IsRest
    <3>6. /\ C \in Text /\ Trim(C) = R
          /\ C # <<>> => C[Len(C)] \notin Blank
      <4>1. CASE line.rest = <<>>
        <5>1. C = <<>> /\ R = <<>>
          BY <3>1, <4>1
        <5> QED
          BY <5>1, EmptyText, TrimEmpty
      <4>2. CASE line.rest # <<>>
        <5>1. C = <<" ">> \o R /\ R # <<>>
          BY <3>1, <4>2
        <5> HIDE DEF C, R
        <5>2. R[1] \notin Blank /\ R[Len(R)] \notin Blank
          BY <3>2, <5>1, TrimmedEnds
        <5>3. Trim(<<" ">> \o R) = R
          BY <3>2, <5>1, <5>2, TrimWhole
        <5>4. <<" ">> \in Text /\ Len(<<" ">>) = 1
          BY Tokens, SizedOne DEF Characters
        <5>5. C \in Text /\ Len(C) = 1 + Len(R) /\ \A i \in 1..Len(R) : C[1 + i] = R[i]
          BY <3>2, <5>1, <5>4, ConcatText
        <5>6. Len(R) \in 1..Len(R)
          BY <3>2, <5>1, LastOf
        <5> QED
          BY <5>1, <5>2, <5>3, <5>5, <5>6
      <4> QED
        BY <4>1, <4>2
    <3> HIDE DEF C, R
    <3>3. \A scope : RuleOn(x, scope, R) =
            IF Always.ok THEN ARule(RulesEval!Rule(line.allow, scope, Always.holds))
            ELSE NoRule(Always.panicked)
      BY <1>3, <3>2 DEF RuleOn
    <3> QED
      BY <3>1, <3>2, <3>3, <3>6
  <2>2. CASE line.if # <<>>
    <3>1. C = <<" ", "IF", " ">> \o w /\ R = r /\ Said(line, b) = parseCondition[w]
      BY <1>5, <2>2
    <3>2. w \in Text /\ w # <<>> /\ w[Len(w)] \notin Blank
      BY <1>4, <2>2
    <3> DEFINE y == <<" ">> \o w
    <3>3. /\ r \in Text /\ r = <<"IF">> \o y /\ C = <<" ">> \o r
          /\ Begins(r, <<"IF", " ">>) /\ From(r, 3) = w
      BY <3>1, <3>2, IfIs
    <3>4. y \in Text /\ y[Len(y)] \notin Blank
      <4>1. " " \in Token
        BY Tokens DEF Characters
      <4>2. <<" ">> \in Text /\ Len(<<" ">>) = 1
        BY <4>1, SizedOne
      <4>3. y \in Text /\ Len(y) = 1 + Len(w) /\ \A i \in 1..Len(w) : y[1 + i] = w[i]
        BY <3>2, <4>2, ConcatText
      <4>4. Len(w) \in 1..Len(w)
        BY <3>2, LastOf
      <4> QED
        BY <3>2, <4>3, <4>4
    <3> HIDE DEF r, y
    <3>5. /\ r # <<>> /\ r[Len(r)] \notin Blank /\ Head(r) = "IF" /\ Trim(<<" ">> \o r) = r
      <4>1. "IF" \in Token /\ "IF" \notin Blank
        BY Tokens DEF Reserved, Blank
      <4> DEFINE u == <<"IF">> \o y
      <4>2. /\ u \in Text /\ u # <<>> /\ Len(u) = Len(y) + 1 /\ u[1] = "IF"
            /\ u[Len(u)] \notin Blank
            /\ Head(u) = "IF" /\ Tail(u) = y /\ Trim(u) = u /\ Trim(<<" ">> \o u) = u
        BY <3>4, <4>1, PutBefore
      <4>3. r = u
        BY <3>3
      <4> HIDE DEF u
      <4> QED
        BY <4>2, <4>3
    <3> HIDE DEF C, R
    <3>6. C \in Text /\ C[Len(C)] \notin Blank
      <4>1. " " \in Token
        BY Tokens DEF Characters
      <4>2. <<" ">> \in Text /\ Len(<<" ">>) = 1
        BY <4>1, SizedOne
      <4>3. C \in Text /\ Len(C) = 1 + Len(r) /\ \A i \in 1..Len(r) : C[1 + i] = r[i]
        BY <3>3, <4>2, ConcatText
      <4>4. Len(r) \in 1..Len(r)
        BY <3>3, <3>5, LastOf
      <4> QED
        BY <3>5, <4>3, <4>4
    <3>7. \A scope : RuleOn(x, scope, R) =
            IF parseCondition[w].ok
            THEN ARule(RulesEval!Rule(line.allow, scope, parseCondition[w].holds))
            ELSE NoRule(parseCondition[w].panicked)
      BY <1>3, <3>1, <3>3 DEF RuleOn
    <3>8. "IF" \notin {"EXPLORATION", "PROCESSING"}
      OBVIOUS
    <3> QED
      BY <3>1, <3>3, <3>5, <3>6, <3>7, <3>8
  <2> QED
    BY <2>1, <2>2
<1> HIDE DEF C, R
<1> DEFINE D == S \o C
<1>7. /\ D \in Text /\ D # <<>> => D[Len(D)] \notin Blank
      /\ D \in Text
      /\ RuleOf(x, Trim(D)) = z
  <2>1. CASE line.scope = ""
    <3>1. S = <<>>
      BY <2>1
    <3>2. D = C
      <4>1. \A u \in Text : <<>> \o u = u
        BY DEF Text
      <4> QED
        BY <1>6, <3>1, <4>1
    <3> HIDE DEF D, S
    <3>3. RuleOf(x, R) = RuleOn(x, "", R)
      BY <1>6, <2>1 DEF RuleOf
    <3> QED
      BY <1>6, <2>1, <3>2, <3>3
  <2>2. CASE line.scope # ""
    <3> DEFINE y == line.scope
               u == <<y>> \o C
    <3>1. y \in {"EXPLORATION", "PROCESSING"} /\ y \in Token /\ " " \in Token /\ y \notin Blank
      BY <1>1, <2>2, Tokens DEF Scopes, Reserved, Characters, Blank
    <3>2. /\ u \in Text /\ u # <<>> /\ Len(u) = Len(C) + 1 /\ u[1] = y
          /\ u[Len(u)] \notin Blank
          /\ Head(u) = y /\ Tail(u) = C /\ Trim(u) = u /\ Trim(<<" ">> \o u) = u
      BY <1>6, <3>1, PutBefore
    <3>3. D = <<" ">> \o u
      <4>1. S = <<" ">> \o <<y>>
        BY <2>2, <3>1, TwoWords
      <4>2. <<" ">> \in Text /\ <<y>> \in Text
        BY <3>1, Words
      <4>3. <<" ">> \o (<<y>> \o C) = (<<" ">> \o <<y>>) \o C
        <5> DEFINE a == <<" ">>
                   d == <<y>>
        <5>1. a \in Text /\ d \in Text /\ C \in Text
          BY <1>6, <4>2
        <5> HIDE DEF a, d
        <5>2. a \o (d \o C) = (a \o d) \o C
          BY ONLY <5>1, ConcatAssociates
        <5> QED
          BY <5>2 DEF a, d
      <4> QED
        BY <4>1, <4>3
    <3> HIDE DEF D, S, u, y
    <3>4. D \in Text /\ D[Len(D)] \notin Blank
      <4>2. <<" ">> \in Text /\ Len(<<" ">>) = 1
        BY <3>1, SizedOne
      <4>3. D \in Text /\ Len(D) = 1 + Len(u) /\ \A i \in 1..Len(u) : D[1 + i] = u[i]
        BY <3>2, <3>3, <4>2, ConcatText
      <4>4. Len(u) \in 1..Len(u)
        BY <3>2, LastOf
      <4> QED
        BY <3>2, <4>3, <4>4
    <3>5. RuleOf(x, u) = RuleOn(x, y, R)
      BY <1>6, <3>1, <3>2 DEF RuleOf
    <3>6. RuleOn(x, y, R) = z
      BY <1>6 DEF y
    <3> QED
      BY <3>2, <3>3, <3>4, <3>5, <3>6
  <2> QED
    BY <2>1, <2>2
<1> HIDE DEF z
<1>8. t = <<x>> \o D
  <2>1. S \in Text
    <3>1. line.scope # "" => " " \in Token /\ line.scope \in Token
      BY <1>1, Tokens DEF Scopes, Reserved, Characters
    <3> QED
      BY <3>1, Words, EmptyText
  <2>2. x \in Token
    BY <1>3, Tokens DEF Reserved
  <2>3. <<x>> \in Text
    BY <2>2, Words
  <2>4. C = (IF line.if = <<>> THEN Q ELSE I) /\ (line.if = <<>> => I = <<>>)
        /\ (line.if # <<>> => Q = <<>>)
    BY <1>1 DEF C
  <2> DEFINE X == <<x>>
             V == X \o S
  <2>5. X \in Text
    BY <2>3
  <2> HIDE DEF S, Q, I, X
  <2>6. V \in Text
    BY <2>1, <2>5, ConcatText
  <2>7. V \o Q \o I = V \o C
    <3> HIDE DEF V
    <3>1. \A u \in Text : u \o <<>> = u
      BY DEF Text
    <3>2. CASE line.if = <<>>
      <4>1. C = Q /\ I = <<>> /\ V \o Q \in Text
        BY <1>6, <2>4, <2>6, <3>2, ConcatText
      <4> QED
        BY <3>1, <4>1
    <3>3. CASE line.if # <<>>
      <4>1. C = I /\ Q = <<>>
        BY <2>4, <3>3
      <4> QED
        BY <2>6, <3>1, <4>1
    <3> QED
      BY <3>2, <3>3
  <2>9. C \in Text
    BY <1>6
  <2>8. (X \o S) \o C = X \o (S \o C)
    BY ONLY <2>1, <2>5, <2>9, ConcatAssociates
  <2> QED
    BY <1>2, <2>7, <2>8 DEF X
<1> HIDE DEF D
<1>9. x \in Token /\ x \notin Blank /\ x # "DEFAULT"
  BY <1>3, Tokens DEF Reserved, Blank
<1> HIDE DEF x
<1>10. /\ t \in Text /\ t # <<>> /\ t[1] = x /\ Head(t) = x /\ Tail(t) = D /\ Trim(t) = t
  <2> DEFINE u == <<x>> \o D
  <2>1. /\ u \in Text /\ u # <<>> /\ Len(u) = Len(D) + 1 /\ u[1] = x
        /\ u[Len(u)] \notin Blank
        /\ Head(u) = x /\ Tail(u) = D /\ Trim(u) = u /\ Trim(<<" ">> \o u) = u
    BY <1>7, <1>9, PutBefore
  <2> HIDE DEF u
  <2>2. t = u
    BY <1>8 DEF u
  <2> QED
    BY <2>1, <2>2
<1>11. parseLine(t) = RuleOf(x, Trim(D))
  <2>1. \A p \in Text : Len(p) > 0 /\ p[1] = "DEFAULT" => ~ Begins(t, p)
    <3>1. \A p \in Text : Len(p) > 0 => 1 \in 1..Len(p)
      <4> TAKE p \in Text
      <4>1. Len(p) \in Nat
        BY TextIs
      <4> QED
        BY <4>1
    <3> QED
      BY <1>9, <1>10, <3>1, BeginsWith
  <2>2. "DEFAULT" \in Token /\ ":" \in Token /\ " " \in Token
    BY Tokens DEF Reserved, Characters
  <2> DEFINE p == <<"DEFAULT", ":">>
             q == <<"DEFAULT", " ", ":">>
  <2>3. p \in Text /\ q \in Text
    BY <2>2, Words
  <2>4. Len(p) > 0 /\ p[1] = "DEFAULT" /\ Len(q) > 0 /\ q[1] = "DEFAULT"
    OBVIOUS
  <2> HIDE DEF p, q
  <2>5. ~ Begins(t, p) /\ ~ Begins(t, q)
    BY <2>1, <2>3, <2>4
  <2> QED
    BY <1>3, <1>10, <2>5 DEF parseLine, p, q, x
<1> QED
  BY <1>7, <1>10, <1>11 DEF t, z, x

\* Texts of one word are equal if the words are.
LEMMA OneWord ==
  ASSUME NEW x, NEW y
  PROVE  /\ <<x>> = <<y>> <=> x = y
         /\ <<x>> # <<>>
<1>1. <<x>>[1] = x /\ <<y>>[1] = y
  OBVIOUS
<1>2. Len(<<x>>) = 1 /\ Len(<<>>) = 0
  OBVIOUS
<1> QED
  BY <1>1, <1>2

\* A default is read as it was meant, if it is ALLOW or DENY.
LEMMA DefaultReads ==
  ASSUME NEW x \in Token
  PROVE  LET u == Trim(<<"DEFAULT", ":", " ", x>>)
         IN  /\ u \in Text /\ u # <<>> /\ Head(u) = "DEFAULT"
             /\ parseLine(u) = IF x \in {"ALLOW", "DENY"}
                               THEN ARule(RulesEval!Default(x = "ALLOW")) ELSE NoRule(FALSE)
<1> DEFINE p == <<"DEFAULT", ":">>
           e == <<" ">>
           f == <<x>>
           t == <<"DEFAULT", ":", " ", x>>
           v == IF x \in Blank THEN <<>> ELSE e \o f
           s == p \o v
           z == IF x \in {"ALLOW", "DENY"} THEN ARule(RulesEval!Default(x = "ALLOW"))
                ELSE NoRule(FALSE)
<1>1. /\ p \in Text /\ Len(p) = 2 /\ p[1] = "DEFAULT" /\ p[2] = ":"
      /\ e \in Text /\ f \in Text /\ Len(e) = 1 /\ e[1] \in Blank /\ Len(f) = 1 /\ f[1] = x
  <2>1. "DEFAULT" \in Token /\ ":" \in Token /\ " " \in Token
    BY Tokens DEF Reserved, Characters
  <2>2. p \in Text /\ e \in Text /\ f \in Text
    BY <2>1, Words
  <2>3. Len(p) = 2 /\ p[1] = "DEFAULT" /\ p[2] = ":"
    OBVIOUS
  <2>4. Len(e) = 1 /\ e[1] \in Blank /\ Len(f) = 1 /\ f[1] = x
    BY DEF Blank
  <2> QED
    BY <2>2, <2>3, <2>4
<1>2. /\ t \in Text /\ Len(t) = 4 /\ t[1] = "DEFAULT" /\ t[2] = ":" /\ t[3] \in Blank /\ t[4] = x
  <2>1. "DEFAULT" \in Token /\ ":" \in Token /\ " " \in Token
    BY Tokens DEF Reserved, Characters
  <2>2. t \in Text
    BY <2>1, Words
  <2>3. Len(t) = 4 /\ t[1] = "DEFAULT" /\ t[2] = ":" /\ t[3] \in Blank /\ t[4] = x
    BY DEF Blank
  <2> QED
    BY <2>2, <2>3
<1>3. "DEFAULT" \notin Blank /\ ":" \notin Blank /\ ":" # "DEFAULT"
  BY DEF Blank
<1> HIDE DEF p, e, f, t, z
<1>4. e \o f \in Text /\ Len(e \o f) = 2 /\ (e \o f)[1] = e[1] /\ (e \o f)[2] = x
  <2>1. /\ e \o f \in Text /\ Len(e \o f) = Len(e) + Len(f)
        /\ \A i \in 1..Len(e) : (e \o f)[i] = e[i]
        /\ \A i \in 1..Len(f) : (e \o f)[Len(e) + i] = f[i]
    BY <1>1, ConcatText
  <2>2. 1 \in 1..1 /\ 1 + 1 = 2
    OBVIOUS
  <2> QED
    BY <1>1, <2>1, <2>2
<1>5. v \in Text /\ Len(v) \in Nat
  BY <1>4, EmptyText, TextIs
<1>6. Trim(v) = IF x \in Blank THEN <<>> ELSE f
  <2>1. CASE x \in Blank
    BY <2>1, TrimEmpty
  <2>2. CASE x \notin Blank
    <3>1. f # <<>> /\ f[1] \notin Blank /\ f[Len(f)] \notin Blank
      BY <1>1, <2>2, EmptyText
    <3>2. Trim(<<" ">> \o f) = f
      BY <1>1, <3>1, TrimWhole
    <3> QED
      BY <2>2, <3>2 DEF e
  <2> QED
    BY <2>1, <2>2
<1>7. /\ s \in Text /\ Len(s) = 2 + Len(v) /\ s[1] = "DEFAULT" /\ s[2] = ":"
      /\ From(s, 3) = v
  <2>1. /\ s \in Text /\ Len(s) = Len(p) + Len(v) /\ \A i \in 1..Len(p) : s[i] = p[i]
    BY <1>1, <1>5, ConcatText
  <2>2. From(s, Len(p) + 1) = v
    BY <1>1, <1>5, JoinPieces
  <2>3. 1 \in 1..2 /\ 2 \in 1..2 /\ 2 + 1 = 3
    OBVIOUS
  <2> QED
    BY <1>1, <2>1, <2>2, <2>3
<1>8. Trim(t) = s
  <2>1. CASE x \in Blank
    <3> DEFINE S == {i \in DOMAIN t : t[i] # " "}
    <3>1. DOMAIN t = 1..4 /\ \A i \in 1..4 : i = 1 \/ i = 2 \/ i = 3 \/ i = 4
      BY <1>2, TextIs
    <3>2. S \in SUBSET (1..2) /\ 1 \in S /\ 2 \in S /\ \A j \in S : 1 <= j
      <4>1. t[1] \notin Blank /\ t[2] \notin Blank /\ t[3] \in Blank /\ t[4] \in Blank
        BY <1>2, <1>3, <2>1
      <4>2. S = {i \in DOMAIN t : t[i] \notin Blank}
        BY DEF Blank
      <4> HIDE DEF S
      <4>3. \A i \in S : i = 1 \/ i = 2
        BY <3>1, <4>1, <4>2
      <4>4. 1 \in S /\ 2 \in S
        BY <3>1, <4>1, <4>2
      <4> QED
        BY <4>3, <4>4
    <3> HIDE DEF S
    <3>3. 2 \in Nat
      OBVIOUS
    <3>4. Least(S) = 1 /\ Greatest(S) = 2
      BY <3>2, <3>3, Extremes
    <3>5. Trim(t) = SubSeq(t, 1, 2)
      BY <3>4 DEF Trim, S
    <3>6. /\ SubSeq(t, 1, 2) \in Text /\ Len(SubSeq(t, 1, 2)) = 2
          /\ \A i \in 1..2 : SubSeq(t, 1, 2)[i] = t[i]
      <4>1. 2 \in 0..Len(t)
        BY <1>2
      <4> QED
        BY <1>2, <4>1, PrefixIs
    <3>7. Len(s) = 2
      BY <1>7, <2>1, EmptyText
    <3> DEFINE q == SubSeq(t, 1, 2)
    <3> HIDE DEF q, s
    <3>8. q \in Text /\ Len(q) = 2 /\ q[1] = s[1] /\ q[2] = s[2]
      <4>1. 1 \in 1..2 /\ 2 \in 1..2
        OBVIOUS
      <4> QED
        BY <1>2, <1>7, <3>6, <4>1 DEF q
    <3>9. \A i \in 1..2 : i = 1 \/ i = 2
      OBVIOUS
    <3>10. \A i \in 1..Len(q) : q[i] = s[i]
      BY <3>8, <3>9
    <3>11. q = s
      BY <1>7, <3>7, <3>8, <3>10, SameText
    <3> QED
      BY <3>5, <3>11 DEF q
  <2>2. CASE x \notin Blank
    <3>1. t[1] \notin Blank /\ t[Len(t)] \notin Blank
      BY <1>2, <1>3, <2>2
    <3>2. t # <<>>
      BY <1>2, EmptyText
    <3>3. Trim(t) = t
      BY <1>2, <3>1, <3>2, TrimWhole
    <3>4. s = p \o (e \o f)
      BY <2>2
    <3>5. /\ \A i \in 1..2 : s[i] = p[i]
          /\ \A i \in 1..2 : s[2 + i] = (e \o f)[i]
          /\ Len(s) = 4
      <4>1. /\ Len(s) = Len(p) + Len(e \o f) /\ \A i \in 1..Len(p) : s[i] = p[i]
            /\ \A i \in 1..Len(e \o f) : s[Len(p) + i] = (e \o f)[i]
        <5> DEFINE g == e \o f
                   y == p \o g
        <5>1. g \in Text
          BY <1>4
        <5> HIDE DEF g
        <5>2. /\ y \in Text /\ Len(y) = Len(p) + Len(g) /\ \A i \in 1..Len(p) : y[i] = p[i]
              /\ \A i \in 1..Len(g) : y[Len(p) + i] = g[i]
          BY <1>1, <5>1, ConcatText
        <5>3. s = y
          BY <3>4 DEF g
        <5> HIDE DEF y, s
        <5> QED
          BY <5>2, <5>3 DEF g
      <4>2. Len(p) = 2 /\ Len(e \o f) = 2
        BY <1>1, <1>4
      <4> HIDE DEF s
      <4> QED
        BY <4>1, <4>2
    <3> DEFINE g == e \o f
    <3> HIDE DEF s, g
    <3>6. s[3] = t[3] /\ s[4] = t[4]
      <4>1. s[2 + 1] = g[1] /\ s[2 + 2] = g[2]
        <5>1. 1 \in 1..2 /\ 2 \in 1..2
          OBVIOUS
        <5> QED
          BY <3>5, <5>1 DEF g
      <4>2. g[1] \in Blank /\ g[2] = x
        BY <1>1, <1>4 DEF g
      <4>3. g[1] = t[3]
        BY <1>2, <4>2 DEF Blank
      <4>4. 2 + 1 = 3 /\ 2 + 2 = 4
        OBVIOUS
      <4> QED
        BY <1>2, <4>1, <4>2, <4>3, <4>4
    <3>7. \A i \in 1..4 : i = 1 \/ i = 2 \/ i = 3 \/ i = 4
      OBVIOUS
    <3>8. \A i \in 1..Len(t) : t[i] = s[i]
      BY <1>2, <1>7, <3>6, <3>7
    <3>9. t = s
      BY <1>2, <1>7, <3>5, <3>8, SameText
    <3> QED
      BY <3>3, <3>9
  <2> QED
    BY <2>1, <2>2
<1> HIDE DEF s, v
<1>9. s # <<>> /\ Head(s) = "DEFAULT" /\ 2 \in DOMAIN s /\ 1 \in DOMAIN s
  <2>1. Len(s) # 0 /\ 2 \in 1..Len(s) /\ 1 \in 1..Len(s)
    BY ONLY <1>5, <1>7
  <2>2. s # <<>>
    BY <2>1, EmptyText
  <2>3. Head(s) = s[1]
    BY <1>7, <2>2 DEF Text
  <2> QED
    BY <1>7, <2>1, <2>2, <2>3, TextIs
<1>10. Begins(s, p)
  <2>1. Len(p) <= Len(s)
    BY ONLY <1>1, <1>5, <1>7
  <2>2. \A i \in 1..2 : i = 1 \/ i = 2
    OBVIOUS
  <2>3. \A i \in 1..Len(p) : s[i] = p[i]
    BY <1>1, <1>7, <2>2
  <2> QED
    BY <1>1, <1>7, <2>1, <2>3, BeginsWith
<1>11. Index(s, <<":">>) = 2
  <2> DEFINE k == <<":">>
  <2>1. k \in Text /\ Len(k) = 1 /\ k[1] = ":"
    BY Tokens, SizedOne DEF Characters
  <2> HIDE DEF k
  <2>2. Len(s) \in Nat /\ Len(s) >= 2
    BY ONLY <1>5, <1>7
  <2>3. ASSUME NEW m \in {1, 2}
        PROVE  From(s, m) \in Text /\ From(s, m)[1] = s[m] /\ Len(From(s, m)) >= 1
    <3>1. m \in 1..(Len(s) + 1) /\ 1 \in 1..(Len(s) - m + 1) /\ m + 1 - 1 = m /\ Len(s) - m + 1 >= 1
      BY ONLY <2>2, m \in {1, 2}
    <3>2. /\ From(s, m) \in Text /\ Len(From(s, m)) = Len(s) - m + 1
          /\ \A i \in 1..(Len(s) - m + 1) : From(s, m)[i] = s[m + i - 1]
      BY <1>7, <3>1, FromIn
    <3> QED
      BY <3>1, <3>2
  <2>4. \A i \in 1..1 : i = 1
    OBVIOUS
  <2>5. From(s, 2) \in Text /\ From(s, 2)[1] = ":" /\ Len(From(s, 2)) >= 1
    BY <1>7, <2>3
  <2>6. Begins(From(s, 2), k)
    <3>1. Len(k) <= Len(From(s, 2)) /\ \A i \in 1..Len(k) : From(s, 2)[i] = k[i]
      BY <2>1, <2>4, <2>5
    <3> QED
      BY <2>1, <2>5, <3>1, BeginsWith
  <2>7. From(s, 1) \in Text /\ From(s, 1)[1] = "DEFAULT"
    BY <1>7, <2>3
  <2>8. ~ Begins(From(s, 1), k)
    <3>1. 1 \in 1..Len(k)
      BY <2>1
    <3> QED
      BY <1>3, <2>1, <2>7, <3>1, BeginsWith
  <2>9. Index(s, k) = 2
    BY <1>7, <1>9, <2>6, <2>8, IndexIs
  <2> QED
    BY <2>9 DEF k
<1>12. parseLine(s) = DefaultOf(Trim(v))
  <2>1. 2 + 1 = 3
    OBVIOUS
  <2>2. Head(s) \notin {"ALLOW", "DENY"}
    BY <1>9
  <2>3. Begins(s, <<"DEFAULT", ":">>)
    BY <1>10 DEF p
  <2> QED
    BY <1>7, <1>11, <2>1, <2>2, <2>3 DEF parseLine
<1>13. DefaultOf(Trim(v)) = z
  <2>1. CASE x \in Blank
    <3>1. Trim(v) = <<>> /\ x \notin {"ALLOW", "DENY"}
      BY <1>6, <2>1 DEF Blank
    <3>2. <<>> \notin {<<"ALLOW">>, <<"DENY">>}
      BY OneWord
    <3> QED
      BY <3>1, <3>2 DEF DefaultOf, z
  <2>2. CASE x \notin Blank
    <3>1. Trim(v) = <<x>>
      BY <1>6, <2>2 DEF f
    <3>2. /\ <<x>> \in {<<"ALLOW">>, <<"DENY">>} <=> x \in {"ALLOW", "DENY"}
          /\ <<x>> = <<"ALLOW">> <=> x = "ALLOW"
      BY OneWord
    <3>3. (<<x>> = <<"ALLOW">>) = (x = "ALLOW")
      BY <3>2
    <3> QED
      BY <3>1, <3>2, <3>3 DEF DefaultOf, z
  <2> QED
    BY <2>1, <2>2
<1> QED
  BY <1>7, <1>8, <1>9, <1>12, <1>13 DEF t, z

\* A line that begins like no rule is an error.
LEMMA OtherReads ==
  ASSUME NEW u \in Text, u # <<>>, Head(u) \notin {"ALLOW", "DENY", "DEFAULT"}
  PROVE  parseLine(u) = NoRule(FALSE)
<1> DEFINE p == <<"DEFAULT", ":">>
           q == <<"DEFAULT", " ", ":">>
<1>1. p \in Text /\ q \in Text
  <2>1. "DEFAULT" \in Token /\ ":" \in Token /\ " " \in Token
    BY Tokens DEF Reserved, Characters
  <2> QED
    BY <2>1, Words
<1>2. 1 \in 1..Len(p) /\ p[1] = "DEFAULT" /\ 1 \in 1..Len(q) /\ q[1] = "DEFAULT"
  OBVIOUS
<1>3. Head(u) = u[1]
  BY DEF Text
<1> HIDE DEF p, q
<1>4. ~ Begins(u, p) /\ ~ Begins(u, q)
  BY <1>1, <1>2, <1>3, BeginsWith
<1> QED
  BY <1>4 DEF parseLine, p, q

\* The rule that a line gives, if it is not at fault.
RuleFor(line, b) ==
  IF line.kind = "default" THEN RulesEval!Default(line.behavior = "ALLOW")
  ELSE RulesEval!Rule(line.allow, line.scope, Said(line, b).holds)

\* A line is kept if it is a rule, a default or at fault, and it is an error only if it is
\* at fault (parser.go:26-48).
LEMMA LineReads ==
  ASSUME NEW line, IsLine(line), NEW b
  PROVE  LET u == Trim(WriteLine(line, b))
         IN  /\ (u # <<>> /\ Head(u) \notin {"#", "//"})
                  <=> (line.kind \in {"rule", "default"} \/ Faulty(line))
             /\ u # <<>> /\ Head(u) \notin {"#", "//"} =>
                  /\ parseLine(u).ok <=> ~ Faulty(line)
                  /\ parseLine(u).ok => parseLine(u).rule = RuleFor(line, b)
                                        /\ ~ parseLine(u).panicked
<1> DEFINE u == Trim(WriteLine(line, b))
<1>1. CASE line.kind = "rule"
  <2> DEFINE t == WriteLine(line, b)
  <2>1. /\ t \in Text /\ t # <<>> /\ Trim(t) = t /\ Head(t) = Action(line.allow)
        /\ parseLine(t) = IF Said(line, b).ok
                          THEN ARule(RulesEval!Rule(line.allow, line.scope, Said(line, b).holds))
                          ELSE NoRule(Said(line, b).panicked)
    BY <1>1, RuleReads
  <2>2. Said(line, b).ok <=> ~ Faulty(line)
    <3>1. Faulty(line) <=> IsBroken(line.if)
      BY <1>1 DEF Faulty, IsBroken
    <3>2. IsCondition(line.if)
      BY <1>1 DEF IsLine
    <3>3. CASE line.if = <<>>
      <4>1. Said(line, b).ok
        BY <3>3 DEF Said, Always, Condition
      <4>2. ~ IsBroken(line.if)
        BY <3>3 DEF IsBroken
      <4> QED
        BY <3>1, <4>1, <4>2
    <3>4. CASE line.if # <<>>
      <4> DEFINE c == line.if
      <4>1. Said(line, b) = parseCondition[Write(c, b)[Len(c)]]
        BY <3>4 DEF Said
      <4>2. c # <<>> /\ IsCondition(c)
        BY <3>2, <3>4
      <4> HIDE DEF c
      <4> DEFINE w == Write(c, b)[Len(c)]
      <4>3. /\ w \in Text /\ w # <<>> /\ w[1] \notin Edges /\ w[Len(w)] \notin Edges
            /\ parseCondition[w] \in Result
            /\ parseCondition[w].ok <=> ~ IsBroken(c)
        BY <4>2, ConditionOk
      <4>4. parseCondition[w].ok <=> ~ IsBroken(c)
        BY <4>3
      <4> QED
        BY <3>1, <4>1, <4>4 DEF c
    <3> QED
      BY <3>3, <3>4
  <2>3. Head(t) \notin {"#", "//"}
    BY <2>1 DEF Action
  <2> HIDE DEF t
  <2>4. u = t
    BY <2>1 DEF t
  <2>5. RuleFor(line, b) = RulesEval!Rule(line.allow, line.scope, Said(line, b).holds)
    BY <1>1 DEF RuleFor
  <2> QED
    BY <1>1, <2>1, <2>2, <2>3, <2>4, <2>5, ARuleIs
<1>2. CASE line.kind = "default"
  <2> DEFINE x == line.behavior
             z == Trim(<<"DEFAULT", ":", " ", x>>)
  <2>1. x \in Token
    BY <1>2 DEF IsLine
  <2>2. u = z
    BY <1>2 DEF WriteLine
  <2> HIDE DEF x
  <2>3. /\ z \in Text /\ z # <<>> /\ Head(z) = "DEFAULT"
        /\ parseLine(z) = IF x \in {"ALLOW", "DENY"}
                          THEN ARule(RulesEval!Default(x = "ALLOW")) ELSE NoRule(FALSE)
    BY <2>1, DefaultReads
  <2>4. Faulty(line) <=> x \notin {"ALLOW", "DENY"}
    BY <1>2 DEF Faulty, x
  <2>5. RuleFor(line, b) = RulesEval!Default(x = "ALLOW")
    BY <1>2 DEF RuleFor, x
  <2> HIDE DEF z
  <2>6. CASE x \in {"ALLOW", "DENY"}
    <3>1. parseLine(z) = ARule(RulesEval!Default(x = "ALLOW"))
      BY <2>3, <2>6
    <3>2. /\ parseLine(z).ok = TRUE /\ parseLine(z).panicked = FALSE
          /\ parseLine(z).rule = RulesEval!Default(x = "ALLOW")
      BY <3>1, ARuleIs
    <3> QED
      BY <1>2, <2>2, <2>3, <2>4, <2>5, <2>6, <3>2
  <2>7. CASE x \notin {"ALLOW", "DENY"}
    <3>1. parseLine(z) = NoRule(FALSE)
      BY <2>3, <2>7
    <3>2. parseLine(z).ok = FALSE
      BY <3>1, ARuleIs
    <3> QED
      BY <1>2, <2>2, <2>3, <2>4, <2>7, <3>2
  <2> QED
    BY <2>6, <2>7
<1>3. CASE line.kind = "other"
  <2>1. /\ line.text \in Text /\ u = Trim(line.text)
        /\ Faulty(line) <=> (u # <<>> /\ Head(u) \notin {"#", "//"})
        /\ Faulty(line) => Head(u) \notin {"ALLOW", "DENY", "DEFAULT"}
    BY <1>3 DEF IsLine, Faulty, WriteLine
  <2>2. u \in Text
    BY <2>1, TrimText
  <2> HIDE DEF u
  <2>3. Faulty(line) => ~ parseLine(u).ok
    <3>1. Faulty(line) => parseLine(u) = NoRule(FALSE)
      BY <2>1, <2>2, OtherReads
    <3>2. NoRule(FALSE).ok = FALSE
      BY ARuleIs
    <3> QED
      BY <3>1, <3>2
  <2> QED
    BY <1>3, <2>1, <2>3 DEF u
<1>4. line.kind \in {"rule", "default", "other"}
  BY DEF IsLine
<1> QED
  BY <1>1, <1>2, <1>3, <1>4

-----------------------------------------------------------------------------
(* No rule is missing. *)

\* The rules that Parse gives, and the errors: no line of a document makes it panic.
LEMMA ParsedIs ==
  ASSUME meant \in [line : CommandLines, brackets : BOOLEAN]
  PROVE  /\ Parsed.errors = {i \in DOMAIN InForce : Faulty(InForce[i])}
         /\ Parsed.panics \subseteq Parsed.errors
         /\ DOMAIN Parsed.rules = {i \in DOMAIN InForce :
                InForce[i].kind \in {"rule", "default"} /\ ~ Faulty(InForce[i])}
         /\ \A i \in DOMAIN Parsed.rules :
              Parsed.rules[i] = RuleFor(InForce[i], meant.brackets)
<1> DEFINE ls == InForce
           b == meant.brackets
           T == DOMAIN ls
           u(i) == Trim(WriteLine(ls[i], b))
           K == {i \in T : u(i) # <<>> /\ Head(u(i)) \notin {"#", "//"}}
           made == [i \in K |-> parseLine(u(i))]
<1>1. \A i \in T : /\ i \in K <=> (ls[i].kind \in {"rule", "default"} \/ Faulty(ls[i]))
                   /\ i \in K => /\ parseLine(u(i)).ok <=> ~ Faulty(ls[i])
                                 /\ parseLine(u(i)).ok => parseLine(u(i)).rule = RuleFor(ls[i], b)
                                                          /\ ~ parseLine(u(i)).panicked
  <2>1. \A i \in T : IsLine(ls[i])
    BY InForceIs DEF IsDocument
  <2> QED
    BY <2>1, LineReads
<1>2. Parsed = Outcome(made)
  <2> DEFINE L == [i \in T |-> WriteLine(ls[i], b)]
  <2>1. Parsed = Parse(L)
    BY DEF Parsed
  <2>2. DOMAIN L = T /\ \A i \in T : L[i] = WriteLine(ls[i], b)
    OBVIOUS
  <2> HIDE DEF L
  <2>3. Kept(L) = K
    BY <2>2 DEF Kept
  <2>4. [i \in Kept(L) |-> parseLine(Trim(L[i]))] = made
    BY <2>2, <2>3
  <2> QED
    BY <2>1, <2>4 DEF Parse
<1>3. DOMAIN made = K /\ \A i \in K : made[i] = parseLine(u(i))
  OBVIOUS
<1>4. K \subseteq T
  OBVIOUS
<1> HIDE DEF made, K, T, ls, b, u
<1>5. /\ Parsed.errors = {i \in K : ~ made[i].ok}
      /\ Parsed.panics = {i \in K : made[i].panicked}
      /\ Parsed.rules = [i \in {j \in K : made[j].ok} |-> made[i].rule]
  BY <1>2, <1>3 DEF Outcome
<1>6. Parsed.errors = {i \in T : Faulty(ls[i])}
  BY <1>1, <1>3, <1>4, <1>5
<1>7. DOMAIN Parsed.rules = {j \in K : made[j].ok}
      /\ \A i \in DOMAIN Parsed.rules : Parsed.rules[i] = made[i].rule
  BY <1>5
<1>8. DOMAIN Parsed.rules = {i \in T : ls[i].kind \in {"rule", "default"} /\ ~ Faulty(ls[i])}
  BY <1>1, <1>3, <1>4, <1>7
<1>9. \A i \in DOMAIN Parsed.rules : Parsed.rules[i] = RuleFor(ls[i], b)
  BY <1>1, <1>3, <1>4, <1>7
<1>10. Parsed.panics \subseteq Parsed.errors
  <2>1. \A i \in K : made[i].ok => ~ made[i].panicked
    BY <1>1, <1>3, <1>4
  <2> QED
    BY <1>5, <2>1
<1> QED
  BY <1>6, <1>8, <1>9, <1>10 DEF T, ls, b

\* The rules that are asked about are those that were parsed, and nothing was at fault.
AtFault == meant.line.files = "unreadable" \/ Parsed.errors # {} \/ Parsed.panics # {}

RulesAreParsed ==
  /\ meant \in [line : CommandLines, brackets : BOOLEAN]
  /\ pc \in {"parsing", "asking", "exited"}
  /\ pc = "asking" => rules = Parsed.rules /\ ~ AtFault
  /\ pc = "exited" => AtFault

\* Nothing has been asked yet.
LEMMA InitParsed == Init => RulesAreParsed
  BY DEF Init, RulesAreParsed

\* A question changes no rule.
LEMMA AskKeeps ==
  ASSUME CanExplore \/ CanProcess
  PROVE  pc = "asking" /\ UNCHANGED <<meant, pc, rules>>
  BY DEF CanExplore, CanProcess, Ask

\* Every step keeps to the parsed rules.
LEMMA NextParsed ==
  ASSUME RulesAreParsed, [Next]_vars
  PROVE  RulesAreParsed'
<1>1. ASSUME UNCHANGED meant PROVE Parsed' = Parsed /\ AtFault' = AtFault
  <2>1. InForce' = InForce
    BY <1>1 DEF InForce
  <2>2. Parsed' = Parsed
    BY <1>1, <2>1 DEF Parsed
  <2> QED
    BY <1>1, <2>2 DEF AtFault
<1>2. CASE ParseRules
  <2>1. UNCHANGED meant /\ pc = "parsing"
        /\ (AtFault => pc' = "exited")
        /\ (~ AtFault => pc' = "asking" /\ rules' = Parsed.rules)
    BY <1>2 DEF ParseRules, AtFault
  <2> QED
    BY <1>1, <2>1 DEF RulesAreParsed
<1>3. CASE UNCHANGED <<meant, pc, rules>>
  BY <1>1, <1>3 DEF RulesAreParsed
<1>4. CASE CanExplore \/ CanProcess
  BY <1>3, <1>4, AskKeeps
<1>5. CASE SetDepth
  BY <1>3, <1>5 DEF SetDepth
<1>6. CASE Exited
  BY <1>3, <1>6 DEF Exited, vars
<1>7. CASE UNCHANGED vars
  BY <1>3, <1>7 DEF vars
<1> QED
  BY <1>2, <1>4, <1>5, <1>6, <1>7 DEF Next

\* The parsed rules are those of all lines, or the program has exited.
LEMMA ParsedWhole == RulesAreParsed => NoRuleMissing
<1> SUFFICES ASSUME RulesAreParsed PROVE NoRuleMissing
  OBVIOUS
<1> DEFINE T == DOMAIN InForce
           F == {i \in T : Faulty(InForce[i])}
<1>1. /\ Parsed.errors = F /\ Parsed.panics \subseteq F
      /\ DOMAIN Parsed.rules = {i \in T : InForce[i].kind \in {"rule", "default"} /\ ~ Faulty(InForce[i])}
  BY ParsedIs DEF RulesAreParsed
<1>2. F = {} <=> ~ \E i \in T : Faulty(InForce[i])
  OBVIOUS
<1>3. AtFault <=> meant.line.files = "unreadable" \/ \E i \in T : Faulty(InForce[i])
  <2> HIDE DEF F
  <2>1. AtFault <=> meant.line.files = "unreadable" \/ F # {}
    BY <1>1 DEF AtFault
  <2> QED
    BY <1>2, <2>1
<1>4. ASSUME pc = "asking"
      PROVE  ~ AtFault /\ DOMAIN rules = {i \in T : InForce[i].kind \in {"rule", "default"}}
  <2>1. rules = Parsed.rules /\ ~ AtFault
    BY <1>4 DEF RulesAreParsed
  <2>2. \A i \in T : ~ Faulty(InForce[i])
    BY <1>3, <2>1
  <2> QED
    BY <1>1, <2>1, <2>2
<1>5. ASSUME pc = "exited" PROVE AtFault
  BY <1>5 DEF RulesAreParsed
<1> QED
  BY <1>3, <1>4, <1>5 DEF NoRuleMissing, RulesAreParsed

\* A scan runs with the rule of every line in force that is one, and exits if a file could
\* not be read or a line is at fault, however the conditions are written down.  In force
\* are the files' lines alone when there are files: those of the options are passed over
\* (main.go:198-236; parser.go:26-48).
THEOREM NoRuleIsMissing == Spec => []NoRuleMissing
<1>1. Spec => []RulesAreParsed
  BY InitParsed, NextParsed, PTL DEF Spec
<1> QED
  BY <1>1, ParsedWhole, PTL

-----------------------------------------------------------------------------
(* Values are compared as they should be. *)

\* What a field can be: of its kind, or not there.
FieldValue(x, field) ==
  x # Nothing => /\ x \in Scalar /\ x.kind = KindOf(field)
                 /\ x.kind = "number" => x.n \in 0..(Modulus - 1)

\* A value that can be told from every other.
Clear(w) == w.kind = "number" => w.n \in Plain

\* Texts that are equal but for capitals have as many words.
LEMMA FoldOf ==
  ASSUME NEW s, NEW t
  PROVE  /\ DOMAIN FoldText(s) = DOMAIN s
         /\ FoldText(s) = FoldText(t) => DOMAIN s = DOMAIN t
<1>1. DOMAIN FoldText(s) = DOMAIN s /\ DOMAIN FoldText(t) = DOMAIN t
  BY DEF FoldText
<1> QED
  BY <1>1

\* The character that a number is turned into is one.
LEMMA RuneIs ==
  ASSUME NEW n \in Nat
  PROVE  FoldRune(Rune(n)) # FoldRune(NoRune)
<1>1. Rune(n) \in 0..MaxRune
  <2>1. n % Modulus \in Nat
    BY RuneAssumption
  <2> DEFINE r == n % Modulus
  <2> HIDE DEF r
  <2>2. r \in Nat
    BY <2>1 DEF r
  <2>3. Rune(n) = IF r <= MaxRune /\ r \notin Surrogate THEN r ELSE Replacement
    BY DEF Rune, r
  <2> QED
    BY <2>2, <2>3, RuneAssumption
<1>2. FoldRune(Rune(n)) \in 0..MaxRune
  BY <1>1, RuneAssumption DEF FoldRune
<1>3. FoldRune(NoRune) = -1
  BY RuneAssumption DEF FoldRune, NoRune
<1> QED
  BY <1>2, <1>3, RuneAssumption

\* The two words for TRUE and FALSE differ.
LEMMA BoolText ==
  ASSUME NEW a \in BOOLEAN, NEW b \in BOOLEAN
  PROVE  FoldText(<<IF a THEN "true" ELSE "false">>) = FoldText(<<IF b THEN "true" ELSE "false">>)
           <=> a = b
<1> DEFINE x == IF a THEN "true" ELSE "false"
           y == IF b THEN "true" ELSE "false"
<1>1. Fold(x) = Fold(y) <=> a = b
  BY WritingAssumption
<1> HIDE DEF x, y
<1>2. FoldText(<<x>>)[1] = Fold(x) /\ FoldText(<<y>>)[1] = Fold(y)
  BY DEF FoldText
<1>3. FoldText(<<x>>) = FoldText(<<y>>) <=> Fold(x) = Fold(y)
  <2>1. ASSUME Fold(x) = Fold(y) PROVE FoldText(<<x>>) = FoldText(<<y>>)
    <3>1. FoldText(<<x>>) = [i \in {1} |-> Fold(x)] /\ FoldText(<<y>>) = [i \in {1} |-> Fold(y)]
      BY DEF FoldText
    <3> QED
      BY <2>1, <3>1
  <2> QED
    BY <1>2, <2>1
<1> QED
  BY <1>1, <1>3 DEF x, y

\* Equality of the values of a field is what it should be, if the rule has a number that
\* is a character of its own.
LEMMA EqualIsSame ==
  ASSUME NEW field, NEW x, FieldValue(x, field), NEW w, CanWrite(w, KindOf(field)), Clear(w)
  PROVE  compareEqual(x, w) <=> Same(x, w)
<1>1. w \in Scalar /\ w.kind = KindOf(field)
  BY DEF CanWrite
<1>2. /\ w.kind = "string" => w.text \in Text /\ w = String(w.text)
      /\ w.kind = "number" => w.n \in Int /\ w = Number(w.n)
      /\ w.kind = "bool"   => w.b \in BOOLEAN /\ w = Bool(w.b)
      /\ w.kind \in {"string", "number", "bool"}
  BY <1>1, ScalarIs
<1>3. CASE x = Nothing
  <2>1. toString(x) = [text |-> <<>>, rune |-> NoRune]
    BY <1>3 DEF toString, Nothing
  <2>2. ~ Same(x, w)
    BY <1>2, <1>3 DEF Same, Nothing
  <2>3. CASE w.kind = "string"
    <3>1. toString(w) = [text |-> w.text, rune |-> NoRune]
      BY <2>3 DEF toString
    <3>2. w.text # <<>> /\ w.text \in Text
      BY <1>1, <1>2, <2>3 DEF CanWrite, Quotable
    <3>3. DOMAIN w.text # DOMAIN <<>>
      <4>1. Len(w.text) > 0 /\ Len(w.text) \in Nat
        BY <3>2, LastOf
      <4>2. DOMAIN w.text = 1..Len(w.text)
        BY <3>2, TextIs
      <4>3. 1 \in DOMAIN w.text
        BY <4>1, <4>2
      <4> QED
        BY <4>3
    <3>4. FoldText(<<>>) # FoldText(w.text)
      BY <3>3, FoldOf
    <3> QED
      BY <2>1, <2>2, <3>1, <3>4 DEF compareEqual
  <2>4. CASE w.kind = "number"
    <3>1. toString(w) = [text |-> <<>>, rune |-> Rune(w.n)]
      BY <2>4 DEF toString
    <3>2. w.n \in Nat
      BY <2>4 DEF Clear, Plain
    <3> QED
      BY <2>1, <2>2, <3>1, <3>2, RuneIs DEF compareEqual
  <2>5. CASE w.kind = "bool"
    <3> DEFINE y == IF w.b THEN "true" ELSE "false"
    <3>1. toString(w) = [text |-> <<y>>, rune |-> NoRune]
      BY <2>5 DEF toString
    <3> HIDE DEF y
    <3>2. DOMAIN <<y>> # DOMAIN <<>>
      OBVIOUS
    <3>3. FoldText(<<>>) # FoldText(<<y>>)
      BY <3>2, FoldOf
    <3> QED
      BY <2>1, <2>2, <3>1, <3>3 DEF compareEqual
  <2> QED
    BY <1>2, <2>3, <2>4, <2>5
<1>4. CASE x # Nothing
  <2>1. x \in Scalar /\ x.kind = w.kind /\ (x.kind = "number" => x.n \in 0..(Modulus - 1))
    BY <1>1, <1>4 DEF FieldValue
  <2>2. /\ x.kind = "string" => x.text \in Text /\ x = String(x.text)
        /\ x.kind = "number" => x.n \in Int /\ x = Number(x.n)
        /\ x.kind = "bool"   => x.b \in BOOLEAN /\ x = Bool(x.b)
    BY <2>1, ScalarIs
  <2>3. CASE w.kind = "string"
    <3>1. toString(w) = [text |-> w.text, rune |-> NoRune] /\ toString(x) = [text |-> x.text, rune |-> NoRune]
      BY <2>1, <2>3 DEF toString
    <3>2. compareEqual(x, w) <=> FoldText(x.text) = FoldText(w.text)
      BY <3>1 DEF compareEqual
    <3>3. Same(x, w) <=> FoldText(x.text) = FoldText(w.text)
      BY <2>1, <2>3 DEF Same
    <3> QED
      BY <3>2, <3>3
  <2>4. CASE w.kind = "number"
    <3>1. x = Number(x.n) /\ w = Number(w.n) /\ x.n \in Int /\ w.n \in Int
          /\ w.n \in Plain /\ x.n \in 0..(Modulus - 1)
      BY <1>2, <2>1, <2>2, <2>4 DEF Clear
    <3>2. compareEqual(x, w) <=> FoldRune(Rune(x.n)) = FoldRune(Rune(w.n))
      BY <3>1, EqualNumbers
    <3>3. FoldRune(Rune(w.n)) = FoldRune(Rune(x.n)) <=> w.n = x.n
      BY <3>1, PlainIsItself
    <3>4. Same(x, w) <=> x.n = w.n
      BY <2>1, <2>4 DEF Same
    <3> QED
      BY <3>2, <3>3, <3>4
  <2>5. CASE w.kind = "bool"
    <3>1. toString(w) = [text |-> <<IF w.b THEN "true" ELSE "false">>, rune |-> NoRune]
          /\ toString(x) = [text |-> <<IF x.b THEN "true" ELSE "false">>, rune |-> NoRune]
      BY <2>1, <2>5 DEF toString
    <3>2. compareEqual(x, w) <=> FoldText(<<IF x.b THEN "true" ELSE "false">>)
                                   = FoldText(<<IF w.b THEN "true" ELSE "false">>)
      BY <3>1 DEF compareEqual
    <3>3. x.b \in BOOLEAN /\ w.b \in BOOLEAN /\ x = Bool(x.b) /\ w = Bool(w.b)
      BY <1>2, <2>1, <2>2, <2>5
    <3>4. Same(x, w) <=> x = w
      BY <2>1, <2>5 DEF Same
    <3>5. x = w <=> x.b = w.b
      BY <3>3
    <3>6. compareEqual(x, w) <=> x.b = w.b
      BY <3>2, <3>3, BoolText
    <3> QED
      BY <3>4, <3>5, <3>6
  <2> QED
    BY <1>2, <2>3, <2>4, <2>5
<1> QED
  BY <1>3, <1>4

\* Less and greater are that, of numbers; what is not there is neither.
LEMMA OrderIsBigger ==
  ASSUME NEW field, NEW x, FieldValue(x, field), KindOf(field) = "number",
         NEW w, CanWrite(w, KindOf(field))
  PROVE  /\ compareLess(x, w) <=> Bigger(w, x)
         /\ compareGreater(x, w) <=> Bigger(x, w)
<1>1. w \in Scalar /\ w.kind = "number"
  BY DEF CanWrite
<1>2. w = Number(w.n) /\ w.n \in Int
  BY <1>1, ScalarIs
<1>3. CASE x = Nothing
  <2>1. ~ toNumber(x).ok
    BY <1>3 DEF toNumber, Nothing
  <2>2. x.kind # "number"
    BY <1>3 DEF Nothing
  <2> QED
    BY <2>1, <2>2 DEF compareLess, compareGreater, Bigger
<1>4. CASE x # Nothing
  <2>1. x \in Scalar /\ x.kind = "number"
    BY <1>4 DEF FieldValue
  <2>2. x = Number(x.n) /\ x.n \in Int
    BY <2>1, ScalarIs
  <2>3. /\ compareLess(Number(x.n), Number(w.n)) <=> x.n < w.n
        /\ compareGreater(Number(x.n), Number(w.n)) <=> x.n > w.n
    BY <1>2, <2>2, OrderedNumbers
  <2>4. /\ compareLess(x, w) <=> x.n < w.n
        /\ compareGreater(x, w) <=> x.n > w.n
    BY <1>2, <2>2, <2>3
  <2>5. x.n < w.n <=> w.n > x.n
    BY <1>2, <2>2
  <2> QED
    BY <1>1, <2>1, <2>4, <2>5 DEF Bigger
<1> QED
  BY <1>3, <1>4

\* A comparison is one that toString does not spoil: it orders, or the numbers of its
\* rule are characters of their own.
IsClear(comparator, v) ==
  \/ comparator \in {"<", ">"}
  \/ IF v.kind = "list" THEN \A i \in DOMAIN v.items : Clear(v.items[i]) ELSE Clear(v)

\* What FieldCondition.Evaluate and its reader say, comparator by comparator.
LEMMA CompareCases ==
  /\ \A x, v : /\ Compare("=", x, v) <=> compareEqual(x, v)
               /\ Compare("!=", x, v) <=> ~ compareEqual(x, v)
               /\ Compare("<", x, v) <=> compareLess(x, v)
               /\ Compare(">", x, v) <=> compareGreater(x, v)
               /\ Compare("<=", x, v) <=> compareLess(x, v) \/ compareEqual(x, v)
               /\ Compare(">=", x, v) <=> compareGreater(x, v) \/ compareEqual(x, v)
               /\ Compare("IN", x, v) <=> compareIn(x, v)
               /\ Compare("NOT IN", x, v) <=> ~ compareIn(x, v)
               /\ Compare("MATCHES", x, v) <=> compareMatches(x, v)
  /\ \A x, v : /\ IsSo("=", x, v) <=> Same(x, v)
               /\ IsSo("!=", x, v) <=> ~ Same(x, v)
               /\ IsSo("<", x, v) <=> Bigger(v, x)
               /\ IsSo(">", x, v) <=> Bigger(x, v)
               /\ IsSo("<=", x, v) <=> Bigger(v, x) \/ Same(x, v)
               /\ IsSo(">=", x, v) <=> Bigger(x, v) \/ Same(x, v)
               /\ IsSo("IN", x, v) <=> Among(x, v)
               /\ IsSo("NOT IN", x, v) <=> ~ Among(x, v)
               /\ IsSo("MATCHES", x, v) <=> Occurs(v, x)
<1>1. ASSUME NEW x, NEW v
      PROVE  /\ Compare("=", x, v) <=> compareEqual(x, v)
             /\ Compare("!=", x, v) <=> ~ compareEqual(x, v)
             /\ Compare("<", x, v) <=> compareLess(x, v)
             /\ Compare(">", x, v) <=> compareGreater(x, v)
             /\ Compare("<=", x, v) <=> compareLess(x, v) \/ compareEqual(x, v)
             /\ Compare(">=", x, v) <=> compareGreater(x, v) \/ compareEqual(x, v)
             /\ Compare("IN", x, v) <=> compareIn(x, v)
             /\ Compare("NOT IN", x, v) <=> ~ compareIn(x, v)
             /\ Compare("MATCHES", x, v) <=> compareMatches(x, v)
  BY DEF Compare
<1>2. ASSUME NEW x, NEW v
      PROVE  /\ IsSo("=", x, v) <=> Same(x, v)
             /\ IsSo("!=", x, v) <=> ~ Same(x, v)
             /\ IsSo("<", x, v) <=> Bigger(v, x)
             /\ IsSo(">", x, v) <=> Bigger(x, v)
             /\ IsSo("<=", x, v) <=> Bigger(v, x) \/ Same(x, v)
             /\ IsSo(">=", x, v) <=> Bigger(x, v) \/ Same(x, v)
             /\ IsSo("IN", x, v) <=> Among(x, v)
             /\ IsSo("NOT IN", x, v) <=> ~ Among(x, v)
             /\ IsSo("MATCHES", x, v) <=> Occurs(v, x)
  BY DEF IsSo
<1> QED
  BY <1>1, <1>2

\* The names of the comparators.
LEMMA ComparatorNames ==
  ASSUME NEW k \in {Comparators[j].name : j \in DOMAIN Comparators}
  PROVE  k \in {"NOT IN", "IN", "MATCHES", "!=", "<=", ">=", "=", "<", ">"}
<1>1. PICK j \in DOMAIN Comparators : k = Comparators[j].name
  OBVIOUS
<1>2. j \in 1..9
  BY <1>1, ComparatorsAre
<1>3. j \in {1, 2, 3, 4, 5, 6, 7, 8, 9}
  BY ONLY <1>2
<1> QED
  BY <1>1, <1>3, ComparatorsAre

\* A field compares with a value as its author means it.
LEMMA CompareIsSo ==
  ASSUME NEW k \in {Comparators[j].name : j \in DOMAIN Comparators}, NEW field,
         NEW v, Fits(k, field, v), IsClear(k, v), NEW x, FieldValue(x, field)
  PROVE  Compare(k, x, v) <=> IsSo(k, x, v)
<1>1. k \in {"NOT IN", "IN", "MATCHES", "!=", "<=", ">=", "=", "<", ">"}
  BY ComparatorNames
<1>2. CASE k \in {"IN", "NOT IN"}
  <2>1. v.kind = "list" /\ \A i \in DOMAIN v.items : CanWrite(v.items[i], KindOf(field))
    BY <1>2 DEF Fits
  <2>2. \A i \in DOMAIN v.items : Clear(v.items[i])
    BY <1>2, <2>1 DEF IsClear
  <2>3. \A i \in DOMAIN v.items : compareEqual(x, v.items[i]) <=> Same(x, v.items[i])
    BY <2>1, <2>2, EqualIsSame
  <2>4. compareIn(x, v) <=> Among(x, v)
    BY <2>1, <2>3 DEF compareIn, Among
  <2> QED
    BY <1>2, <2>4, CompareCases
<1>3. ASSUME k \notin {"IN", "NOT IN"}
      PROVE  /\ CanWrite(v, KindOf(field)) /\ v.kind # "list"
             /\ k \in {"<", ">", "<=", ">="} => KindOf(field) = "number"
             /\ k = "MATCHES" => KindOf(field) = "string"
  <2>1. /\ CanWrite(v, KindOf(field))
        /\ k \in {"<", ">", "<=", ">="} => KindOf(field) = "number"
        /\ k = "MATCHES" => KindOf(field) = "string"
    BY <1>3 DEF Fits
  <2>2. v.kind # "list"
    BY <2>1 DEF CanWrite, Scalar
  <2> QED
    BY <2>1, <2>2
<1>4. ASSUME k \in {"=", "!=", "<=", ">="} PROVE compareEqual(x, v) <=> Same(x, v)
  <2>1. k \notin {"IN", "NOT IN"} /\ k \notin {"<", ">"}
    BY <1>4
  <2>2. Clear(v)
    BY <1>3, <2>1 DEF IsClear
  <2> QED
    BY <1>3, <2>1, <2>2, EqualIsSame
<1>5. ASSUME k \in {"<", ">", "<=", ">="}
      PROVE  (compareLess(x, v) <=> Bigger(v, x)) /\ (compareGreater(x, v) <=> Bigger(x, v))
  <2>1. k \notin {"IN", "NOT IN"}
    BY <1>5
  <2>2. CanWrite(v, KindOf(field)) /\ KindOf(field) = "number"
    BY <1>3, <1>5, <2>1
  <2> QED
    BY <2>2, OrderIsBigger
<1>6. CASE k \in {"=", "!="}
  BY <1>4, <1>6, CompareCases
<1>7. CASE k \in {"<", ">"}
  BY <1>5, <1>7, CompareCases
<1>8. CASE k \in {"<=", ">="}
  BY <1>4, <1>5, <1>8, CompareCases
<1>9. CASE k = "MATCHES"
  <2>1. compareMatches(x, v) <=> Occurs(v, x)
    BY DEF compareMatches, Occurs
  <2> QED
    BY <1>9, <2>1, CompareCases
<1> QED
  BY <1>1, <1>2, <1>6, <1>7, <1>8, <1>9

-----------------------------------------------------------------------------
(* What the evaluator was told. *)

\* What the rules may be taken from.
Documents ==
  {DefaultRules} \cup {line.ofFiles : line \in CommandLines}
    \cup {line.ofOptions : line \in CommandLines}

LEMMA InForceIsOne ==
  ASSUME meant \in [line : CommandLines, brackets : BOOLEAN]
  PROVE  InForce \in Documents
<1>1. meant.line \in CommandLines
  OBVIOUS
<1>2. InForce \in {DefaultRules, meant.line.ofFiles, meant.line.ofOptions}
  BY DEF InForce
<1> QED
  BY <1>1, <1>2 DEF Documents

\* Numbers that are codes of characters: for a rune, of the objects; of a character of its
\* own, where a rule does more than order them.
PlainNumbers ==
  /\ Depths \subseteq 0..(Modulus - 1)
  /\ \A o \in Shares \cup Files \cup Dirs : \A f \in DOMAIN o :
       o[f].kind = "number" => o[f].n \in 0..(Modulus - 1)
  /\ \A lines \in Documents : \A i \in DOMAIN lines :
       lines[i].kind = "rule" => \A j \in DOMAIN lines[i].if :
         lines[i].if[j].kind = "is" =>
           IsClear(lines[i].if[j].comparator, lines[i].if[j].value)

\* No field is of two of the objects.
LEMMA FieldsAre ==
  /\ "DEPTH" \notin ShareField \cup FileField \cup DirField
  /\ ShareField \cap FileField = {} /\ ShareField \cap DirField = {}
  /\ FileField \cap DirField = {}
  /\ KindOf("DEPTH") = "number"
  /\ \A f \in Field : f \notin {"DIRECTORY.NAME", "DIRECTORY.PATH"}
<1>1. /\ "DEPTH" \notin ShareField \cup FileField \cup DirField
      /\ ShareField \cap FileField = {} /\ ShareField \cap DirField = {}
      /\ FileField \cap DirField = {}
  BY DEF ShareField, FileField, DirField
<1>2. KindOf("DEPTH") = "number"
  BY DEF KindOf
<1>3. \A f \in Field : f \notin {"DIRECTORY.NAME", "DIRECTORY.PATH"}
  BY DEF Field, ShareField, FileField, DirField
<1> QED
  BY <1>1, <1>2, <1>3

\* The objects of a context have fields of their own and values that fit them.
LEMMA ObjectsAre ==
  ASSUME PlainNumbers, NEW c \in Context
  PROVE  /\ DOMAIN c.share \subseteq ShareField /\ DOMAIN c.file \subseteq FileField
         /\ DOMAIN c.dir \subseteq DirField
         /\ \A f \in DOMAIN c.share : c.share[f] # Nothing /\ FieldValue(c.share[f], f)
         /\ \A f \in DOMAIN c.file : c.file[f] # Nothing /\ FieldValue(c.file[f], f)
         /\ \A f \in DOMAIN c.dir : c.dir[f] # Nothing /\ FieldValue(c.dir[f], f)
         /\ FieldValue(Number(c.depth), "DEPTH")
<1>1. DOMAIN NoObject = {}
  BY DEF NoObject
<1>2. /\ c.share \in Shares \cup {NoObject} /\ c.file \in Files \cup {NoObject}
      /\ c.dir \in Dirs \cup {NoObject} /\ c.depth \in Depths \cup {0}
  BY DEF Context
<1>3. ASSUME NEW o \in Shares \cup Files \cup Dirs, NEW X, IsObject(o, X)
      PROVE  DOMAIN o \subseteq X /\ \A f \in DOMAIN o : o[f] # Nothing /\ FieldValue(o[f], f)
  <2>1. DOMAIN o \subseteq X /\ \A f \in DOMAIN o : o[f] \in Scalar /\ o[f].kind = KindOf(f)
    BY <1>3 DEF IsObject
  <2>2. \A f \in DOMAIN o : o[f].kind = "number" => o[f].n \in 0..(Modulus - 1)
    BY DEF PlainNumbers
  <2>3. \A v \in Scalar : v # Nothing
    <3> TAKE v \in Scalar
    <3>1. v.kind \in {"string", "number", "bool"}
      BY ScalarIs
    <3> QED
      BY <3>1 DEF Nothing
  <2> QED
    BY <2>1, <2>2, <2>3 DEF FieldValue
<1>4. DOMAIN c.share \subseteq ShareField
      /\ \A f \in DOMAIN c.share : c.share[f] # Nothing /\ FieldValue(c.share[f], f)
  <2>1. CASE c.share \in Shares
    BY <1>3, <2>1, WritingAssumption
  <2> QED
    BY <1>1, <1>2, <2>1
<1>5. DOMAIN c.file \subseteq FileField
      /\ \A f \in DOMAIN c.file : c.file[f] # Nothing /\ FieldValue(c.file[f], f)
  <2>1. CASE c.file \in Files
    BY <1>3, <2>1, WritingAssumption
  <2> QED
    BY <1>1, <1>2, <2>1
<1>6. DOMAIN c.dir \subseteq DirField
      /\ \A f \in DOMAIN c.dir : c.dir[f] # Nothing /\ FieldValue(c.dir[f], f)
  <2>1. CASE c.dir \in Dirs
    BY <1>3, <2>1, WritingAssumption
  <2> QED
    BY <1>1, <1>2, <2>1
<1>7. FieldValue(Number(c.depth), "DEPTH")
  <2>1. c.depth \in 0..(Modulus - 1)
    <3>1. 0 \in 0..(Modulus - 1)
      BY RuneAssumption
    <3> QED
      BY <1>2, <3>1 DEF PlainNumbers
  <2>2. c.depth \in Int
    BY <2>1
  <2>3. Number(c.depth) \in Scalar /\ Number(c.depth).kind = "number" /\ Number(c.depth).n = c.depth
    BY <2>2 DEF Number, Scalar
  <2> QED
    BY <2>1, <2>3, FieldsAre DEF FieldValue
<1> QED
  BY <1>4, <1>5, <1>6, <1>7

\* What a field is, of an object that it is a field of or not.
FieldOf(o, f) == IF f \in DOMAIN o THEN o[f] ELSE Nothing

\* Each field of what was told, from the object that has it.
LEMMA ToldIs ==
  ASSUME NEW c, NEW f
  PROVE  /\ f = "DEPTH" => FieldOf(Told(c), f) = Number(c.depth)
         /\ f # "DEPTH" /\ f \in DOMAIN c.share /\ f \notin DOMAIN c.file /\ f \notin DOMAIN c.dir
              => FieldOf(Told(c), f) = c.share[f]
         /\ f # "DEPTH" /\ f \notin DOMAIN c.share /\ f \in DOMAIN c.file /\ f \notin DOMAIN c.dir
              => FieldOf(Told(c), f) = c.file[f]
         /\ f # "DEPTH" /\ f \notin DOMAIN c.share /\ f \notin DOMAIN c.file /\ f \in DOMAIN c.dir
              => FieldOf(Told(c), f) = c.dir[f]
         /\ f # "DEPTH" /\ f \notin DOMAIN c.share /\ f \notin DOMAIN c.file /\ f \notin DOMAIN c.dir
              => FieldOf(Told(c), f) = Nothing
<1> DEFINE said == <<c.share, c.file, c.dir>>
           K == {k \in 1..3 : f \in DOMAIN said[k]}
           first == CHOOSE k \in 1..3 : f \in DOMAIN said[k]
           D == {"DEPTH"} \cup UNION {DOMAIN said[k] : k \in 1..3}
<1>1. said[1] = c.share /\ said[2] = c.file /\ said[3] = c.dir
  OBVIOUS
<1>2. /\ f \in D <=> f = "DEPTH" \/ \E k \in 1..3 : f \in DOMAIN said[k]
      /\ FieldOf(Told(c), f) = IF f \in D THEN IF f = "DEPTH" THEN Number(c.depth) ELSE said[first][f]
                               ELSE Nothing
  BY DEF Told, FieldOf
<1>3. (\E k \in 1..3 : f \in DOMAIN said[k]) => first \in 1..3 /\ f \in DOMAIN said[first]
  OBVIOUS
<1> HIDE DEF said, first, D
<1>4. \A k \in 1..3 : k = 1 \/ k = 2 \/ k = 3
  OBVIOUS
<1>5. (\E k \in 1..3 : f \in DOMAIN said[k]) <=>
        f \in DOMAIN c.share \/ f \in DOMAIN c.file \/ f \in DOMAIN c.dir
  <2>1. 1 \in 1..3 /\ 2 \in 1..3 /\ 3 \in 1..3
    OBVIOUS
  <2> QED
    BY <1>1, <1>4, <2>1
<1>6. CASE f = "DEPTH"
  BY <1>2, <1>6
<1>7. ASSUME f # "DEPTH", f \in DOMAIN c.share, f \notin DOMAIN c.file, f \notin DOMAIN c.dir
      PROVE  FieldOf(Told(c), f) = c.share[f]
  BY <1>1, <1>2, <1>3, <1>4, <1>5, <1>7
<1>8. ASSUME f # "DEPTH", f \notin DOMAIN c.share, f \in DOMAIN c.file, f \notin DOMAIN c.dir
      PROVE  FieldOf(Told(c), f) = c.file[f]
  BY <1>1, <1>2, <1>3, <1>4, <1>5, <1>8
<1>9. ASSUME f # "DEPTH", f \notin DOMAIN c.share, f \notin DOMAIN c.file, f \in DOMAIN c.dir
      PROVE  FieldOf(Told(c), f) = c.dir[f]
  BY <1>1, <1>2, <1>3, <1>4, <1>5, <1>9
<1>10. ASSUME f # "DEPTH", f \notin DOMAIN c.share, f \notin DOMAIN c.file, f \notin DOMAIN c.dir
       PROVE  FieldOf(Told(c), f) = Nothing
  BY <1>2, <1>5, <1>10
<1> QED
  BY <1>6, <1>7, <1>8, <1>9, <1>10

\* The evaluator finds the field that it was told about, and a value that fits it.
LEMMA FieldFound ==
  ASSUME PlainNumbers, NEW c \in Context, NEW f \in Field
  PROVE  /\ GetFieldValue(c, <<f>>) = FieldOf(Told(c), f)
         /\ FieldValue(FieldOf(Told(c), f), f)
<1> DEFINE S == DOMAIN c.share
           X == DOMAIN c.file
           Y == DOMAIN c.dir
           v == GetFieldValue(c, <<f>>)
<1>1. v = CASE f = "DEPTH" -> Number(c.depth)
            [] f \in S -> c.share[f]
            [] f \in X -> c.file[f]
            [] f \in Y -> c.dir[f]
            [] OTHER -> Nothing
  <2> DEFINE name == CASE <<f>> = <<"DIRECTORY.NAME">> -> "DIR.NAME"
                       [] <<f>> = <<"DIRECTORY.PATH">> -> "DIR.PATH"
                       [] Len(<<f>>) = 1 -> Head(<<f>>)
                       [] OTHER -> "unknown"
  <2>1. <<f>> # <<"DIRECTORY.NAME">> /\ <<f>> # <<"DIRECTORY.PATH">>
    BY FieldsAre, OneWord
  <2>2. Len(<<f>>) = 1 /\ Head(<<f>>) = f
    OBVIOUS
  <2>3. name = f
    BY <2>1, <2>2
  <2>4. v = CASE name = "DEPTH" -> Number(c.depth)
              [] name \in S -> c.share[name]
              [] name \in X -> c.file[name]
              [] name \in Y -> c.dir[name]
              [] OTHER -> Nothing
    BY DEF GetFieldValue
  <2> HIDE DEF name, v
  <2> QED
    BY <2>3, <2>4
<1>2. /\ S \subseteq ShareField /\ X \subseteq FileField /\ Y \subseteq DirField
      /\ \A g \in S : c.share[g] # Nothing /\ FieldValue(c.share[g], g)
      /\ \A g \in X : c.file[g] # Nothing /\ FieldValue(c.file[g], g)
      /\ \A g \in Y : c.dir[g] # Nothing /\ FieldValue(c.dir[g], g)
      /\ FieldValue(Number(c.depth), "DEPTH")
  BY ObjectsAre
<1>3. /\ "DEPTH" \notin S \cup X \cup Y
      /\ S \cap X = {} /\ S \cap Y = {} /\ X \cap Y = {}
  BY <1>2, FieldsAre
<1>4. /\ f = "DEPTH" => FieldOf(Told(c), f) = Number(c.depth)
      /\ f # "DEPTH" /\ f \in S /\ f \notin X /\ f \notin Y => FieldOf(Told(c), f) = c.share[f]
      /\ f # "DEPTH" /\ f \notin S /\ f \in X /\ f \notin Y => FieldOf(Told(c), f) = c.file[f]
      /\ f # "DEPTH" /\ f \notin S /\ f \notin X /\ f \in Y => FieldOf(Told(c), f) = c.dir[f]
      /\ f # "DEPTH" /\ f \notin S /\ f \notin X /\ f \notin Y => FieldOf(Told(c), f) = Nothing
  BY ToldIs
<1>5. FieldValue(Nothing, f)
  BY DEF FieldValue
<1> HIDE DEF S, X, Y, v
<1>6. CASE f = "DEPTH"
  BY <1>1, <1>2, <1>3, <1>4, <1>6 DEF v
<1>7. CASE f # "DEPTH" /\ f \in S
  BY <1>1, <1>2, <1>3, <1>4, <1>7 DEF v
<1>8. CASE f # "DEPTH" /\ f \in X
  BY <1>1, <1>2, <1>3, <1>4, <1>8 DEF v
<1>9. CASE f # "DEPTH" /\ f \in Y
  BY <1>1, <1>2, <1>3, <1>4, <1>9 DEF v
<1>10. CASE f # "DEPTH" /\ f \notin S /\ f \notin X /\ f \notin Y
  BY <1>1, <1>4, <1>5, <1>10 DEF v
<1> QED
  BY <1>6, <1>7, <1>8, <1>9, <1>10

-----------------------------------------------------------------------------
(* Conditions mean what they say. *)

\* What a part of a condition says of an object, given what those before it say.
Says(h, c, o, i) ==
  CASE c[i].kind = "not" -> ~ h[c[i].of[1]]
    [] c[i].kind = "and" -> h[c[i].of[1]] /\ h[c[i].of[2]]
    [] c[i].kind = "or"  -> h[c[i].of[1]] \/ h[c[i].of[2]]
    [] c[i].kind = "is"  -> IsSo(c[i].comparator, FieldOf(o, c[i].field), c[i].value)
    [] OTHER             -> FALSE

\* A comparison is so or it is not.
LEMMA IsSoOrNot ==
  ASSUME NEW k \in {Comparators[j].name : j \in DOMAIN Comparators}, NEW x, NEW v
  PROVE  IsSo(k, x, v) \in BOOLEAN
<1>1. k \in {"NOT IN", "IN", "MATCHES", "!=", "<=", ">=", "=", "<", ">"}
  BY ComparatorNames
<1> QED
  BY <1>1 DEF IsSo, Same, Bigger, Among, Occurs

\* A comparison in a condition.
LEMMA IsPart ==
  ASSUME NEW c, IsCondition(c), NEW i \in DOMAIN c, c[i].kind = "is"
  PROVE  /\ c[i].comparator \in {Comparators[j].name : j \in DOMAIN Comparators}
         /\ c[i].field \in Field /\ Fits(c[i].comparator, c[i].field, c[i].value)
<1>1. c[i] \in Part
  BY PartIs
<1>2. IsComparison(c[i])
  BY DEF IsCondition
<1>3. c[i].field \in Field /\ c[i].comparator \in {Comparators[j].name : j \in DOMAIN Comparators}
  BY <1>1, <1>2, ComparisonText
<1> QED
  BY <1>2, <1>3 DEF IsComparison

\* A part says yes or no if those before it do.
LEMMA SaysSomething ==
  ASSUME NEW h, NEW c, IsCondition(c), NEW o, NEW i \in DOMAIN c,
         \A j \in DOMAIN c : j < i => h[j] \in BOOLEAN
  PROVE  Says(h, c, o, i) \in BOOLEAN
<1>1. /\ c[i].kind \in {"is", "broken", "not", "and", "or"}
      /\ c[i].kind \in {"not", "and", "or"} => h[c[i].of[1]] \in BOOLEAN
      /\ c[i].kind \in {"and", "or"} => h[c[i].of[2]] \in BOOLEAN
  BY PartIs
<1>2. CASE c[i].kind = "is"
  <2> DEFINE x == IsSo(c[i].comparator, FieldOf(o, c[i].field), c[i].value)
  <2>1. x \in BOOLEAN
    BY <1>2, IsPart, IsSoOrNot
  <2>2. Says(h, c, o, i) = x
    BY <1>2 DEF Says
  <2> HIDE DEF x
  <2> QED
    BY ONLY <2>1, <2>2
<1>3. CASE c[i].kind = "not"
  <2> DEFINE x == ~ h[c[i].of[1]]
  <2>1. x \in BOOLEAN
    OBVIOUS
  <2>2. Says(h, c, o, i) = x
    BY <1>3 DEF Says
  <2> HIDE DEF x
  <2> QED
    BY ONLY <2>1, <2>2
<1>4. CASE c[i].kind = "and"
  <2> DEFINE x == h[c[i].of[1]] /\ h[c[i].of[2]]
  <2>1. x \in BOOLEAN
    OBVIOUS
  <2>2. Says(h, c, o, i) = x
    BY <1>4 DEF Says
  <2> HIDE DEF x
  <2> QED
    BY ONLY <2>1, <2>2
<1>5. CASE c[i].kind = "or"
  <2> DEFINE x == h[c[i].of[1]] \/ h[c[i].of[2]]
  <2>1. x \in BOOLEAN
    OBVIOUS
  <2>2. Says(h, c, o, i) = x
    BY <1>5 DEF Says
  <2> HIDE DEF x
  <2> QED
    BY ONLY <2>1, <2>2
<1>6. CASE c[i].kind = "broken"
  <2> DEFINE x == FALSE
  <2>1. x \in BOOLEAN
    OBVIOUS
  <2>2. Says(h, c, o, i) = x
    BY <1>6 DEF Says
  <2> HIDE DEF x
  <2> QED
    BY ONLY <2>1, <2>2
<1> QED
  BY <1>1, <1>2, <1>3, <1>4, <1>5, <1>6

\* The definition of IsMeant has a meaning.
LEMMA MeantIs ==
  ASSUME NEW c, IsCondition(c), NEW o
  PROVE  \A i \in DOMAIN c : IsMeant(c, o)[i] = Says(IsMeant(c, o), c, o, i)
<1> DEFINE T == DOMAIN c
           D(g) == [i \in T |-> Says(g, c, o, i)]
           G == [T -> BOOLEAN]
           F == [g \in G |-> D(g)]
           size == [i \in T |-> i]
<1>1. size \in [T -> Nat] /\ \A i \in T : size[i] = i
  <2>1. T = 1..Len(c) /\ Len(c) \in Nat
    <3>1. c \in Seq(Part)
      BY DEF IsCondition
    <3> QED
      BY <3>1
  <2> QED
    BY <2>1
<1> HIDE DEF size
<1>2. F \in [G -> G] /\ \A g \in G : F[g] = D(g)
  <2>1. \A g \in G : D(g) \in G
    BY SaysSomething
  <2> HIDE DEF D, G
  <2> QED
    BY <2>1
<1> HIDE DEF F
<1>3. ASSUME NEW g, NEW h, NEW i \in T, \A j \in T : j < i => g[j] = h[j]
      PROVE  Says(g, c, o, i) = Says(h, c, o, i)
  <2>1. /\ c[i].kind \in {"is", "broken", "not", "and", "or"}
        /\ c[i].kind \in {"not", "and", "or"} => g[c[i].of[1]] = h[c[i].of[1]]
        /\ c[i].kind \in {"and", "or"} => g[c[i].of[2]] = h[c[i].of[2]]
    BY <1>3, PartIs
  <2> QED
    BY <2>1, Zenon DEF Says
<1>4. \A g, h \in G : \A i \in T :
        (\A j \in T : size[j] < size[i] => g[j] = h[j]) => F[g][i] = F[h][i]
  <2> SUFFICES ASSUME NEW g \in G, NEW h \in G, NEW i \in T,
                      \A j \in T : size[j] < size[i] => g[j] = h[j]
               PROVE  F[g][i] = F[h][i]
    OBVIOUS
  <2>1. \A j \in T : j < i => g[j] = h[j]
    BY <1>1
  <2>2. D(g)[i] = D(h)[i]
    BY <2>1, <1>3
  <2> HIDE DEF D, G
  <2> QED
    BY <1>2, <2>2
<1>5. Descends(F, T, BOOLEAN, size)
  BY <1>1, <1>2, <1>4 DEF Descends
<1>6. \E g \in G : g = F[g]
  <2> DEFINE B == BOOLEAN
             t == TRUE
  <2>1. t \in B
    OBVIOUS
  <2>2. Descends(F, T, B, size)
    BY <1>5
  <2> HIDE DEF T, B, t
  <2>3. \E g \in [T -> B] : g = F[g]
    BY ONLY <2>1, <2>2, Recursion
  <2> QED
    BY <2>3 DEF B
<1>7. PICK g \in G : g = D(g)
  BY <1>2, <1>6
<1> DEFINE s == CHOOSE f : f = D(f)
<1>8. s = D(s)
  <2> HIDE DEF D
  <2> QED
    BY <1>7
<1>9. IsMeant(c, o) = s
  BY DEF IsMeant, Says, FieldOf
<1> HIDE DEF s
<1> QED
  BY <1>8, <1>9

\* What two conditions joined say of an object.
LEMMA Holding ==
  ASSUME NEW d, \A k \in DOMAIN d : d[k].ok, DOMAIN d = {1, 2}, NEW at \in Context
  PROVE  /\ Joined("and", d).ok /\ Joined("or", d).ok
         /\ Joined("and", d).holds[at] <=> d[1].holds[at] /\ d[2].holds[at]
         /\ Joined("or", d).holds[at] <=> d[1].holds[at] \/ d[2].holds[at]
<1>1. /\ Joined("or", d).ok
      /\ Joined("or", d).holds = [x \in Context |-> \E i \in DOMAIN d : d[i].holds[x]]
  BY JoinedOr
<1>2. /\ Joined("and", d).ok
      /\ Joined("and", d).holds = [x \in Context |-> \A i \in DOMAIN d : d[i].holds[x]]
  BY JoinedAnd
<1>3. Joined("or", d).holds[at] <=> \E i \in DOMAIN d : d[i].holds[at]
  BY <1>1
<1>4. Joined("and", d).holds[at] <=> \A i \in DOMAIN d : d[i].holds[at]
  BY <1>2
<1> QED
  BY <1>1, <1>2, <1>3, <1>4

\* The condition that is parsed holds of an object as its author means it.
LEMMA HoldsAsMeant ==
  ASSUME PlainNumbers, NEW c, IsCondition(c), c # <<>>, ~ IsBroken(c), NEW b, NEW at \in Context,
         \A i \in DOMAIN c : c[i].kind = "is" => IsClear(c[i].comparator, c[i].value)
  PROVE  parseCondition[Write(c, b)[Len(c)]].holds[at] <=> IsMeant(c, Told(at))[Len(c)]
<1> DEFINE W == Write(c, b)
           A == AnswersTo(c, W)
           M == IsMeant(c, Told(at))
           n == Len(c)
           T == DOMAIN c
           size == [i \in T |-> i]
           P == {i \in T : A[i].ok /\ (A[i].holds[at] <=> M[i])}
<1>1. \A i \in T : A[i] = Combined(c, A, i)
  BY PartStands
<1>2. \A i \in T : A[i] = parseCondition[W[i]]
  BY DEF AnswersTo
<1>3. n \in Nat /\ n > 0 /\ T = 1..n
  <2>1. c \in Seq(Part)
    BY DEF IsCondition
  <2> QED
    BY <2>1
<1>4. n \in T
  BY ONLY <1>3
<1>5. /\ \A i \in T : /\ c[i].kind \in {"is", "broken", "not", "and", "or"}
                      /\ c[i].kind \in {"not", "and", "or"} => c[i].of[1] \in T /\ c[i].of[1] < i
                      /\ c[i].kind \in {"and", "or"} => c[i].of[2] \in T /\ c[i].of[2] < i
  BY PartIs
<1>6. \A i \in T : M[i] = Says(M, c, Told(at), i)
  BY MeantIs
<1>7. \A i \in T : c[i].kind # "broken"
  BY DEF IsBroken
<1>8. \A i \in T : c[i].kind = "is" => /\ c[i].field \in Field /\ Fits(c[i].comparator, c[i].field, c[i].value)
                                       /\ IsClear(c[i].comparator, c[i].value)
                                       /\ c[i].comparator \in {Comparators[j].name : j \in DOMAIN Comparators}
  BY IsPart
<1>9. size \in [T -> Nat] /\ \A i \in T : size[i] = i
  BY <1>3
<1> HIDE DEF A, M, n, T, size
<1>10. ASSUME NEW i \in T, \A j \in T : size[j] < size[i] => j \in P PROVE i \in P
  <2>1. \A j \in T : j < i => A[j].ok /\ (A[j].holds[at] <=> M[j])
    BY <1>9, <1>10
  <2>2. CASE c[i].kind = "not"
    <3> DEFINE r == A[c[i].of[1]]
    <3>1. r.ok /\ (r.holds[at] <=> M[c[i].of[1]]) /\ A[i] = NotCondition(r)
      BY <1>1, <1>5, <2>1, <2>2 DEF Combined
    <3>2. M[i] <=> ~ M[c[i].of[1]]
      BY <1>6, <2>2 DEF Says
    <3> HIDE DEF r
    <3>3. A[i] = Condition([x \in Context |-> ~ r.holds[x]])
      BY <3>1 DEF NotCondition
    <3>4. A[i].ok /\ (A[i].holds[at] <=> ~ r.holds[at])
      <4> DEFINE h == [x \in Context |-> ~ r.holds[x]]
      <4>1. h[at] <=> ~ r.holds[at]
        OBVIOUS
      <4> HIDE DEF h
      <4>2. A[i].ok /\ A[i].holds = h
        BY <3>3 DEF Condition, h
      <4> QED
        BY <4>1, <4>2
    <3> QED
      BY <3>1, <3>2, <3>4
  <2>3. CASE c[i].kind \in {"and", "or"}
    <3> DEFINE r == A[c[i].of[1]]
               s == A[c[i].of[2]]
               d == <<r, s>>
    <3>1. /\ r.ok /\ (r.holds[at] <=> M[c[i].of[1]])
          /\ s.ok /\ (s.holds[at] <=> M[c[i].of[2]])
      BY <1>5, <2>1, <2>3
    <3>2. DOMAIN d = {1, 2} /\ d[1] = r /\ d[2] = s
      BY TwoResults
    <3>3. /\ c[i].kind = "and" => A[i] = Joined("and", d)
          /\ c[i].kind = "or" => A[i] = Joined("or", d)
      BY <1>1 DEF Combined
    <3>4. /\ c[i].kind = "and" => (M[i] <=> M[c[i].of[1]] /\ M[c[i].of[2]])
          /\ c[i].kind = "or" => (M[i] <=> M[c[i].of[1]] \/ M[c[i].of[2]])
      BY <1>6 DEF Says
    <3> HIDE DEF r, s, d
    <3>5. \A k \in DOMAIN d : d[k].ok
      BY <3>1, <3>2
    <3>6. /\ Joined("and", d).ok /\ Joined("or", d).ok
          /\ Joined("and", d).holds[at] <=> d[1].holds[at] /\ d[2].holds[at]
          /\ Joined("or", d).holds[at] <=> d[1].holds[at] \/ d[2].holds[at]
      BY <3>2, <3>5, Holding
    <3> QED
      BY <2>3, <3>1, <3>2, <3>3, <3>4, <3>6
  <2>4. CASE c[i].kind = "is"
    <3> DEFINE f == c[i].field
               k == c[i].comparator
               v == c[i].value
               x == FieldOf(Told(at), f)
    <3>1. A[i] = FieldCondition(<<f>>, k, v)
      BY <1>1, <2>4 DEF Combined
    <3>2. f \in Field /\ Fits(k, f, v) /\ IsClear(k, v)
          /\ k \in {Comparators[j].name : j \in DOMAIN Comparators}
      BY <1>8, <2>4
    <3>3. M[i] <=> IsSo(k, x, v)
      BY <1>6, <2>4 DEF Says
    <3> HIDE DEF f, k, v
    <3>4. GetFieldValue(at, <<f>>) = x /\ FieldValue(x, f)
      BY <3>2, FieldFound
    <3> HIDE DEF x
    <3>5. Compare(k, x, v) <=> IsSo(k, x, v)
      BY <3>2, <3>4, CompareIsSo
    <3>6. A[i].ok /\ (A[i].holds[at] <=> Compare(k, GetFieldValue(at, <<f>>), v))
      BY <3>1 DEF FieldCondition, Condition
    <3> QED
      BY <3>3, <3>4, <3>5, <3>6
  <2> QED
    BY <1>5, <1>7, <2>2, <2>3, <2>4
<1>11. T \subseteq P
  <2>1. size \in [T -> Nat]
    BY <1>9
  <2> HIDE DEF P, T, size
  <2>2. Inherits(P, T, size)
    BY ONLY <1>10, <2>1 DEF Inherits
  <2> QED
    BY ONLY <2>2, BySize
<1>12. A[n].holds[at] <=> M[n]
  BY <1>4, <1>11
<1>13. A[n] = parseCondition[W[n]]
  BY <1>2, <1>4
<1> QED
  BY <1>12, <1>13 DEF M, n

-----------------------------------------------------------------------------
(* Decisions. *)

\* The rule of each kind of line.
LEMMA RuleForIs ==
  ASSUME NEW line, NEW b
  PROVE  /\ line.kind = "default" =>
              RuleFor(line, b).isDefault /\ (RuleFor(line, b).allow <=> line.behavior = "ALLOW")
         /\ line.kind = "rule" =>
              /\ ~ RuleFor(line, b).isDefault /\ RuleFor(line, b).allow = line.allow
              /\ RuleFor(line, b).scope = line.scope
              /\ RuleFor(line, b).condition = Said(line, b).holds
<1>1. CASE line.kind = "default"
  <2> DEFINE y == line.behavior = "ALLOW"
  <2>1. RuleFor(line, b) = RulesEval!Default(y)
    BY <1>1 DEF RuleFor
  <2> HIDE DEF y
  <2>2. RulesEval!Default(y).isDefault /\ RulesEval!Default(y).allow = y
    BY Zenon DEF RulesEval!Default
  <2>3. RuleFor(line, b).isDefault /\ RuleFor(line, b).allow = y
    BY <2>1, <2>2
  <2> QED
    BY <1>1, <2>3 DEF y
<1>2. CASE line.kind = "rule"
  <2> DEFINE h == Said(line, b).holds
             a == line.allow
             s == line.scope
  <2>1. RuleFor(line, b) = RulesEval!Rule(a, s, h)
    BY <1>2 DEF RuleFor
  <2> HIDE DEF h, a, s
  <2>2. /\ ~ RulesEval!Rule(a, s, h).isDefault /\ RulesEval!Rule(a, s, h).allow = a
        /\ RulesEval!Rule(a, s, h).scope = s /\ RulesEval!Rule(a, s, h).condition = h
    BY DEF RulesEval!Rule
  <2>3. /\ ~ RuleFor(line, b).isDefault /\ RuleFor(line, b).allow = a
        /\ RuleFor(line, b).scope = s /\ RuleFor(line, b).condition = h
    BY <2>1, <2>2
  <2> QED
    BY <1>2, <2>3 DEF h, a, s
<1> QED
  BY <1>1, <1>2

\* A rule holds of an object if the line does, as its author means it.
LEMMA SaidAsMeant ==
  ASSUME PlainNumbers, NEW line, IsLine(line), line.kind = "rule", ~ Faulty(line),
         NEW b, NEW at \in Context,
         \A i \in DOMAIN line.if : line.if[i].kind = "is" =>
           IsClear(line.if[i].comparator, line.if[i].value)
  PROVE  Said(line, b).holds[at] <=>
           line.if = <<>> \/ IsMeant(line.if, Told(at))[Len(line.if)]
<1>1. IsCondition(line.if) /\ ~ IsBroken(line.if)
  BY DEF IsLine, Faulty, IsBroken
<1>2. CASE line.if = <<>>
  <2>1. Said(line, b) = Always
    BY <1>2 DEF Said
  <2>2. Always.holds[at]
    BY DEF Always, Condition
  <2> QED
    BY <1>2, <2>1, <2>2
<1>3. CASE line.if # <<>>
  <2> DEFINE c == line.if
  <2>1. Said(line, b) = parseCondition[Write(c, b)[Len(c)]]
    BY <1>3 DEF Said
  <2>2. /\ IsCondition(c) /\ c # <<>> /\ ~ IsBroken(c)
        /\ \A i \in DOMAIN c : c[i].kind = "is" => IsClear(c[i].comparator, c[i].value)
    BY <1>1, <1>3
  <2> HIDE DEF c
  <2>3. parseCondition[Write(c, b)[Len(c)]].holds[at] <=> IsMeant(c, Told(at))[Len(c)]
    BY <2>2, HoldsAsMeant
  <2>4. Said(line, b).holds[at] <=> IsMeant(c, Told(at))[Len(c)]
    BY <2>1, <2>3
  <2> QED
    BY <1>3, <2>4 DEF c
<1> QED
  BY <1>2, <1>3

\* The first rule that applies, or the first default, is that of the line that decides.
LEMMA DecidesAsMeant ==
  ASSUME PlainNumbers, meant \in [line : CommandLines, brackets : BOOLEAN],
         Parsed.errors = {}, rules = Parsed.rules, NEW at \in Context, NEW scope
  PROVE  EvaluateRules(rules, at, scope) <=> Allowed(InForce, Told(at), scope)
<1> DEFINE ls == InForce
           b == meant.brackets
           T == DOMAIN ls
           o == Told(at)
           X == {"", scope}
           holding == {i \in DOMAIN rules : ~ rules[i].isDefault /\ rules[i].condition[at]}
           defaults == {i \in DOMAIN rules : rules[i].isDefault}
           applying == {i \in holding : ~ rules[i].isDefault /\ rules[i].scope \in X}
           hit == {i \in T : Applies(ls[i], o, scope)}
           default == {i \in T : ls[i].kind = "default"}
<1>1. EvaluateRules(rules, at, scope) =
        IF applying # {} THEN rules[RulesEval!First(applying)].allow
        ELSE IF defaults # {} THEN rules[RulesEval!First(defaults)].allow ELSE TRUE
  BY DEF EvaluateRules, RulesEval!Decide
<1>2. Allowed(ls, o, scope) <=>
        IF hit # {} THEN \E i \in hit : ls[i].allow /\ \A j \in hit : i <= j
        ELSE \A i \in default : (\A j \in default : i <= j) => ls[i].behavior = "ALLOW"
  BY DEF Allowed
<1>3. \A i \in T : i \in Nat /\ IsLine(ls[i])
  BY InForceIs DEF IsDocument
<1>4. \A i \in T : ~ Faulty(ls[i])
  BY ParsedIs
<1>5. /\ DOMAIN rules = {i \in T : ls[i].kind \in {"rule", "default"}}
      /\ \A i \in DOMAIN rules : rules[i] = RuleFor(ls[i], b)
  BY <1>4, ParsedIs
<1>6. \A i \in T : ls[i].kind = "rule" => \A j \in DOMAIN ls[i].if : ls[i].if[j].kind = "is" =>
        IsClear(ls[i].if[j].comparator, ls[i].if[j].value)
  <2>1. ls \in Documents
    BY InForceIsOne
  <2> HIDE DEF ls
  <2> QED
    BY <2>1 DEF PlainNumbers
<1>7. \A i \in T : Applies(ls[i], o, scope) <=>
        /\ ls[i].kind = "rule" /\ ls[i].scope \in X
        /\ ls[i].if = <<>> \/ IsMeant(ls[i].if, o)[Len(ls[i].if)]
  BY DEF Applies
<1>8. \A i \in T : ls[i].kind = "rule" =>
        (Said(ls[i], b).holds[at] <=> ls[i].if = <<>> \/ IsMeant(ls[i].if, o)[Len(ls[i].if)])
  BY <1>3, <1>4, <1>6, SaidAsMeant
<1> HIDE DEF ls, b, T, o, X
<1>9. applying = hit
  <2>1. ASSUME NEW i \in T PROVE i \in applying <=> i \in hit
    <3>1. CASE ls[i].kind = "rule"
      <4>1. i \in DOMAIN rules /\ rules[i] = RuleFor(ls[i], b)
        BY <1>5, <3>1
      <4>2. ~ rules[i].isDefault /\ rules[i].scope = ls[i].scope
            /\ rules[i].condition = Said(ls[i], b).holds
        BY <3>1, <4>1, RuleForIs
      <4>3. rules[i].condition[at] <=> ls[i].if = <<>> \/ IsMeant(ls[i].if, o)[Len(ls[i].if)]
        BY <1>8, <3>1, <4>2
      <4>4. i \in applying <=> rules[i].condition[at] /\ ls[i].scope \in X
        BY <4>1, <4>2
      <4> QED
        BY <1>7, <3>1, <4>3, <4>4
    <3>2. CASE ls[i].kind # "rule"
      <4>1. i \notin hit
        BY <1>7, <3>2
      <4>2. i \in DOMAIN rules => rules[i].isDefault
        BY <1>5, <3>2, RuleForIs
      <4> QED
        BY <4>1, <4>2
    <3> QED
      BY <3>1, <3>2
  <2>2. applying \subseteq T /\ hit \subseteq T
    BY <1>5
  <2> QED
    BY <2>1, <2>2
<1>10. defaults = default
  <2>1. ASSUME NEW i \in T PROVE i \in defaults <=> i \in default
    <3>1. i \in DOMAIN rules => rules[i] = RuleFor(ls[i], b) /\ ls[i].kind \in {"rule", "default"}
      BY <1>5
    <3>2. ls[i].kind = "default" => i \in DOMAIN rules
      BY <1>5
    <3> QED
      BY <3>1, <3>2, RuleForIs
  <2>2. defaults \subseteq T /\ default \subseteq T
    BY <1>5
  <2> QED
    BY <2>1, <2>2
<1>11. \A i \in hit : rules[i].allow <=> ls[i].allow
  <2> TAKE i \in hit
  <2>1. i \in T /\ ls[i].kind = "rule"
    BY <1>7
  <2>2. rules[i] = RuleFor(ls[i], b)
    BY <1>5, <2>1
  <2> QED
    BY <2>1, <2>2, RuleForIs
<1>12. \A i \in default : rules[i].allow <=> ls[i].behavior = "ALLOW"
  <2> TAKE i \in default
  <2>1. i \in T /\ ls[i].kind = "default"
    OBVIOUS
  <2>2. rules[i] = RuleFor(ls[i], b)
    BY <1>5, <2>1
  <2> QED
    BY <2>1, <2>2, RuleForIs
<1>13. hit \in SUBSET Nat /\ default \in SUBSET Nat
  BY <1>3
<1> DEFINE v == EvaluateRules(rules, at, scope)
           w == Allowed(ls, o, scope)
<1>14. w <=> IF hit # {} THEN \E i \in hit : ls[i].allow /\ \A j \in hit : i <= j
             ELSE \A i \in default : (\A j \in default : i <= j) => ls[i].behavior = "ALLOW"
  BY <1>2
<1>15. v = IF hit # {} THEN rules[RulesEval!First(hit)].allow
           ELSE IF default # {} THEN rules[RulesEval!First(default)].allow ELSE TRUE
  BY <1>1, <1>9, <1>10
<1> HIDE DEF applying, defaults, holding, hit, default, v, w
<1>16. CASE hit # {}
  <2>1. RulesEval!First(hit) \in hit /\ \A j \in hit : RulesEval!First(hit) <= j
    BY <1>13, <1>16, FirstIs
  <2> DEFINE m == RulesEval!First(hit)
  <2> HIDE DEF m
  <2>2. m \in hit /\ \A j \in hit : m <= j
    BY <2>1 DEF m
  <2>3. \A i \in hit : (\A j \in hit : i <= j) => i = m
    BY <1>13, <2>2
  <2>4. w <=> ls[m].allow
    BY <1>14, <1>16, <2>2, <2>3
  <2>5. v = rules[m].allow
    BY <1>15, <1>16 DEF m
  <2> QED
    BY <1>11, <2>2, <2>4, <2>5 DEF v, w, ls, o
<1>17. CASE hit = {} /\ default # {}
  <2>1. RulesEval!First(default) \in default /\ \A j \in default : RulesEval!First(default) <= j
    BY <1>13, <1>17, FirstIs
  <2> DEFINE m == RulesEval!First(default)
  <2> HIDE DEF m
  <2>2. m \in default /\ \A j \in default : m <= j
    BY <2>1 DEF m
  <2>3. \A i \in default : (\A j \in default : i <= j) => i = m
    BY <1>13, <2>2
  <2>4. w <=> ls[m].behavior = "ALLOW"
    BY <1>14, <1>17, <2>2, <2>3
  <2>5. v = rules[m].allow
    BY <1>15, <1>17 DEF m
  <2> QED
    BY <1>12, <2>2, <2>4, <2>5 DEF v, w, ls, o
<1>18. CASE hit = {} /\ default = {}
  <2>1. v = TRUE /\ w
    BY <1>14, <1>15, <1>18
  <2> QED
    BY <2>1 DEF v, w, ls, o
<1> QED
  BY <1>16, <1>17, <1>18

\* The last decision is that of the rules for the context that was set.
DecisionStands ==
  decision # Nothing =>
    pc = "asking" /\ decision.allowed = EvaluateRules(rules, ctx, decision.scope)

\* A question is answered from the rules, for the context that it is about.
LEMMA AskDecides ==
  ASSUME CanExplore \/ CanProcess
  PROVE  /\ pc' = "asking" /\ UNCHANGED rules
         /\ decision'.allowed = EvaluateRules(rules, ctx', decision'.scope)
<1>1. ASSUME NEW scope, NEW c, Ask(scope, c)
      PROVE  /\ pc' = "asking" /\ UNCHANGED rules
             /\ decision'.allowed = EvaluateRules(rules, ctx', decision'.scope)
  <2>1. pc' = "asking" /\ UNCHANGED rules /\ ctx' = c
        /\ decision' = [scope |-> scope, allowed |-> EvaluateRules(rules, c, scope)]
    BY <1>1 DEF Ask
  <2>2. decision'.scope = scope /\ decision'.allowed = EvaluateRules(rules, c, scope)
    BY <2>1
  <2> QED
    BY <2>1, <2>2
<1> QED
  BY <1>1 DEF CanExplore, CanProcess

\* Every step keeps to the last decision, or forgets it.
LEMMA NextDecided ==
  ASSUME DecisionStands, [Next]_vars
  PROVE  DecisionStands'
<1>1. CASE ParseRules
  <2>1. pc = "parsing" /\ decision' = decision
    BY <1>1 DEF ParseRules
  <2> QED
    BY <2>1 DEF DecisionStands
<1>2. CASE CanExplore \/ CanProcess
  BY <1>2, AskDecides DEF DecisionStands
<1>3. CASE SetDepth
  BY <1>3 DEF SetDepth, DecisionStands
<1>4. CASE Exited \/ UNCHANGED vars
  BY <1>4 DEF Exited, vars, DecisionStands
<1> QED
  BY <1>1, <1>2, <1>3, <1>4 DEF Next

\* However the author of the rules in force writes them down, each decision that the
\* evaluator takes is the one that he means, as long as no number stands for another
\* one's character (rule.go:180-198).  It is said of the rules that IsLine admits: their
\* strings hold no comparator that is looked for before the right one, not both quotes
\* and no odd bracket, and are in ASCII beside AND and OR, where splitAtKeyword would
\* spoil them (parser.go:262-320).
THEOREM RulesMeanWhatTheySay ==
  ASSUME PlainNumbers
  PROVE  Spec => []MeansWhatItSays
<1>1. Init => DecisionStands
  BY DEF Init, DecisionStands
<1>2. Spec => []DecisionStands
  BY <1>1, NextDecided, PTL DEF Spec
<1>3. Spec => []RulesAreParsed
  BY InitParsed, NextParsed, PTL DEF Spec
<1>4. Spec => []TypeOK
  BY ShareQLTypeCorrect
<1>5. ASSUME DecisionStands, RulesAreParsed, TypeOK PROVE MeansWhatItSays
  <2>1. SUFFICES ASSUME decision # Nothing
                 PROVE  decision.allowed = Allowed(InForce, Told(ctx), decision.scope)
    BY DEF MeansWhatItSays
  <2>2. /\ meant \in [line : CommandLines, brackets : BOOLEAN] /\ ctx \in Context
        /\ Parsed.errors = {} /\ rules = Parsed.rules
        /\ decision.allowed = EvaluateRules(rules, ctx, decision.scope)
    BY <1>5, <2>1 DEF DecisionStands, RulesAreParsed, TypeOK, AtFault
  <2>3. EvaluateRules(rules, ctx, decision.scope) <=> Allowed(InForce, Told(ctx), decision.scope)
    BY <2>2, DecidesAsMeant
  <2>4. decision.allowed \in BOOLEAN
    BY <1>5, <2>1 DEF TypeOK
  <2>5. Allowed(InForce, Told(ctx), decision.scope) \in BOOLEAN
    BY DEF Allowed
  <2> QED
    BY <2>2, <2>3, <2>4, <2>5
<1> QED
  BY <1>2, <1>3, <1>4, <1>5, PTL
=============================================================================
