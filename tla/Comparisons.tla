----------------------------- MODULE Comparisons -----------------------------
(***************************************************************************)
(* The values of ShareQL and how a field is compared with the value of a   *)
(* rule (Go/internal/rules/rule.go).                                       *)
(*                                                                         *)
(* A text is a sequence of tokens: words, and the characters that mean     *)
(* something to the parser.  The tokens of keywords stand for every way to *)
(* write them in capitals and small letters.                               *)
(*                                                                         *)
(* toString turns a number into the character with that code, so Unicode   *)
(* matters: codes up to MaxRune, some of them Surrogate, and Replacement   *)
(* for what is no character.  TLC gets a small Unicode.                    *)
(***************************************************************************)
EXTENDS Integers, Sequences

CONSTANTS
  MaxRune, Surrogate, Replacement,  \* 0x10FFFF, 0xD800..0xDFFF, 0xFFFD
  Modulus,                          \* 2^32: a rune has 32 bits
  Lower,                            \* the code of a capital |-> the small letter
  Fold(_),                          \* a word |-> the word in small letters
  Compiles(_), Matches(_, _)        \* the package regexp, for what toString returns

ASSUME RuneAssumption ==
  /\ MaxRune \in Nat /\ Replacement \in 0..MaxRune /\ Surrogate \subseteq 0..MaxRune
  /\ Modulus \in Nat /\ 2 * MaxRune < Modulus
  /\ Lower \in [DOMAIN Lower -> 0..MaxRune] /\ DOMAIN Lower \subseteq 0..MaxRune

\* interface{} as the parser and GetFieldValue fill it.
String(text) == [kind |-> "string", text |-> text]
Number(n)    == [kind |-> "number", n |-> n]
Bool(b)      == [kind |-> "bool", b |-> b]
List(items)  == [kind |-> "list", items |-> items]
Nothing      == [kind |-> "nil"]

\* string(rune(n)).
Rune(n) ==
  LET r == n % Modulus
  IN  IF r <= MaxRune /\ r \notin Surrogate THEN r ELSE Replacement

NoRune == -1

\* A string is a text, or the one character that a number was turned into.
toString(v) ==
  CASE v.kind = "string" -> [text |-> v.text, rune |-> NoRune]
    [] v.kind = "number" -> [text |-> <<>>, rune |-> Rune(v.n)]
    [] v.kind = "bool"   -> [text |-> <<IF v.b THEN "true" ELSE "false">>, rune |-> NoRune]
    [] OTHER             -> [text |-> <<>>, rune |-> NoRune]

\* Every string that is not empty passes for the number 0.
toNumber(v) ==
  CASE v.kind = "number" -> [n |-> v.n, ok |-> TRUE]
    [] v.kind = "string" -> [n |-> 0, ok |-> v.text # <<>>]
    [] OTHER             -> [n |-> 0, ok |-> FALSE]

FoldRune(r) == IF r \in DOMAIN Lower THEN Lower[r] ELSE r

FoldText(text) == [i \in DOMAIN text |-> Fold(text[i])]

compareEqual(a, b) ==
  LET s == toString(a) t == toString(b)
  IN  FoldText(s.text) = FoldText(t.text) /\ FoldRune(s.rune) = FoldRune(t.rune)

compareLess(a, b) ==
  toNumber(a).ok /\ toNumber(b).ok /\ toNumber(a).n < toNumber(b).n

compareGreater(a, b) ==
  toNumber(a).ok /\ toNumber(b).ok /\ toNumber(a).n > toNumber(b).n

compareIn(value, list) ==
  list.kind = "list" /\ \E i \in DOMAIN list.items : compareEqual(value, list.items[i])

\* A pattern that does not compile matches nothing; it is not an error of the rule.
compareMatches(value, pattern) ==
  Compiles(toString(pattern)) /\ Matches(toString(pattern), toString(value))

\* FieldCondition.Evaluate.
Compare(comparator, a, b) ==
  CASE comparator = "="       -> compareEqual(a, b)
    [] comparator = "!="      -> ~ compareEqual(a, b)
    [] comparator = "<"       -> compareLess(a, b)
    [] comparator = ">"       -> compareGreater(a, b)
    [] comparator = "<="      -> compareLess(a, b) \/ compareEqual(a, b)
    [] comparator = ">="      -> compareGreater(a, b) \/ compareEqual(a, b)
    [] comparator = "IN"      -> compareIn(a, b)
    [] comparator = "NOT IN"  -> ~ compareIn(a, b)
    [] comparator = "MATCHES" -> compareMatches(a, b)
    [] OTHER                  -> FALSE
=============================================================================
