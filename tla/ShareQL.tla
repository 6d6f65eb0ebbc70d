------------------------------- MODULE ShareQL -------------------------------
(***************************************************************************)
(* The parser of ShareQL (Go/internal/rules/parser.go) and the evaluation  *)
(* of what it makes of a rule (rule.go, evaluator.go).                     *)
(*                                                                         *)
(* The parser looks for keywords in the text: it cuts a condition at OR,   *)
(* then at AND, and finds the comparator of a comparison by searching for  *)
(* each in turn.  So the text is kept, as tokens: blanks, quotes, brackets *)
(* and words, cut where a comparator occurs in them and behind a keyword   *)
(* that they begin with.  Left out are letters whose capital has another   *)
(* number of bytes: strings.ToUpper then moves the places of the rest, and *)
(* splitAtKeyword reads the wrong ones or beyond the end of the text.      *)
(*                                                                         *)
(* A Condition is an interface with one method, Evaluate; here it is the   *)
(* function from contexts to answers that this method computes.  The rules *)
(* bear the numbers of their lines, of which only the order counts.        *)
(***************************************************************************)
EXTENDS Comparisons, SequencesExt

CONSTANTS
  Token,                       \* the words and characters of texts
  NumberOf,                    \* a word that is a number |-> the number
  Recode,                      \* a word not in ASCII |-> each of its bytes as a character
  Shares, Files, Dirs, Depths  \* the objects that are asked about

Characters == {" ", ",", ":", "'", "\"", "(", ")", "[", "]", "!", "=", "<", ">", "#", "//"}
Reserved   == {"DEFAULT", "ALLOW", "DENY", "EXPLORATION", "PROCESSING", "IF", "OR", "AND",
               "NOT", "IN", "MATCHES", "true", "false"}

ASSUME TokenAssumption ==
  /\ Characters \cup Reserved \subseteq Token
  /\ Recode \in [DOMAIN Recode -> Token]
  /\ DOMAIN Recode \subseteq Token \ (Characters \cup Reserved \cup DOMAIN NumberOf)

Text == Seq(Token)

RulesEval == INSTANCE Rules WITH Nil <- Nothing

Begins(text, prefix) == IsPrefix(prefix, text)
From(text, i)        == SubSeq(text, i, Len(text))
Inner(text)          == SubSeq(text, 2, Len(text) - 1)

\* Of a set of places; 0 and -1 when it is empty.
Least(S)    == IF S = {} THEN 0 ELSE CHOOSE i \in S : \A j \in S : i <= j
Greatest(S) == IF S = {} THEN -1 ELSE CHOOSE i \in S : \A j \in S : i >= j

\* strings.TrimSpace.
Trim(text) ==
  SubSeq(text, Least({i \in DOMAIN text : text[i] # " "}),
               Greatest({i \in DOMAIN text : text[i] # " "}))

\* strings.Index, with 0 for what is not found.
Index(text, sought) ==
  Least({i \in DOMAIN text : Begins(From(text, i), sought)})

Quote == {"'", "\""}

\* The quote that is open before text[i], or none; the brackets that are open,
\* those in quotes too.
OpenQuote(text, i) ==
  LET open[k \in 0..Len(text)] ==
        IF k = 0 THEN "none"
        ELSE IF text[k] \notin Quote THEN open[k - 1]
        ELSE IF open[k - 1] = "none" THEN text[k]
        ELSE IF open[k - 1] = text[k] THEN "none" ELSE open[k - 1]
  IN  open[i - 1]

Depth(text, i) ==
  LET Count(brackets) == Cardinality({k \in 1..(i - 1) : text[k] \in brackets})
  IN  Count({"(", "["}) - Count({")", "]"})

\* Where splitAtKeyword, or splitListItems with nested = FALSE, cuts.
Cuts(text, keyword, nested) ==
  {i \in DOMAIN text :
     /\ Begins(From(text, i), keyword)
     /\ OpenQuote(text, i) = "none" /\ (nested => Depth(text, i) = 0)}

\* After a cut the rest is split with no quote and no bracket open, as before.
Split(text, keyword, nested) ==
  LET split[t \in Text] ==
        LET cut == Least(Cuts(t, keyword, nested))
        IN  IF cut = 0 THEN <<t>>
            ELSE <<SubSeq(t, 1, cut - 1)>> \o split[From(t, cut + Len(keyword))]
  IN  split[text]

Recoded(text) == [i \in DOMAIN text |-> IF text[i] \in DOMAIN Recode THEN Recode[text[i]]
                                        ELSE text[i]]

\* The pieces are copied byte by byte, and what is not in ASCII does not survive it.
splitAtKeyword(text, keyword) ==
  LET parts == Split(text, keyword, TRUE) IN [i \in DOMAIN parts |-> Recoded(parts[i])]

\* The pieces are copied character by character.
splitListItems(text) == Split(text, <<",">>, FALSE)

-----------------------------------------------------------------------------
Between(text, open, close) == Len(text) > 1 /\ Begins(text, <<open>>) /\ Last(text) = close

ScalarOf(text) ==
  CASE Between(text, "'", "'") \/ Between(text, "\"", "\"") -> String(Inner(text))
    [] text = <<"true">>  -> Bool(TRUE)
    [] text = <<"false">> -> Bool(FALSE)
    [] Len(text) = 1 /\ Head(text) \in DOMAIN NumberOf -> Number(NumberOf[Head(text)])
    [] OTHER -> String(text)

\* What a list inside a list holds is never looked at.
ItemOf(text) == IF Between(text, "[", "]") THEN List(<<>>) ELSE ScalarOf(text)

Items(parts) == List([i \in DOMAIN parts |-> ItemOf(Trim(parts[i]))])

ValueOf(text) ==
  IF Between(text, "[", "]") THEN Items(splitListItems(Inner(text))) ELSE ScalarOf(text)

\* A quote alone begins and ends with a quote, and what is between them cannot be cut
\* out: the parser panics, whatever list in a list the quote is in.
panics[input \in Text] ==
  LET text == Trim(input)
      parts == splitListItems(Inner(text))
  IN  IF Between(text, "[", "]") THEN \E i \in DOMAIN parts : panics[parts[i]]
      ELSE Len(text) = 1 /\ Head(text) \in Quote

parseValue(input) == ValueOf(Trim(input))

-----------------------------------------------------------------------------
(* A context: the attributes of the share, of the file and of the directory *)
(* that were set last, and the depth.                                       *)

NoObject == [f \in {} |-> Nothing]

Context == [share : Shares \cup {NoObject}, file : Files \cup {NoObject},
            dir : Dirs \cup {NoObject}, depth : Depths \cup {0}]

\* Field names go by their capitals; DIRECTORY is another name of DIR.
GetFieldValue(ctx, field) ==
  LET name == CASE field = <<"DIRECTORY.NAME">> -> "DIR.NAME"
                [] field = <<"DIRECTORY.PATH">> -> "DIR.PATH"
                [] Len(field) = 1 -> Head(field)
                [] OTHER -> "unknown"
  IN  CASE name = "DEPTH" -> Number(ctx.depth)
        [] name \in DOMAIN ctx.share -> ctx.share[name]
        [] name \in DOMAIN ctx.file  -> ctx.file[name]
        [] name \in DOMAIN ctx.dir   -> ctx.dir[name]
        [] OTHER -> Nothing

\* What comes of the functions of the parser: a condition, an error, or a panic.
Failure(panicked) == [ok |-> FALSE, panicked |-> panicked, holds |-> [ctx \in Context |-> FALSE]]
Error             == Failure(FALSE)
Panic             == Failure(TRUE)
Condition(holds)  == [ok |-> TRUE, panicked |-> FALSE, holds |-> holds]

FieldCondition(field, comparator, value) ==
  Condition([ctx \in Context |-> Compare(comparator, GetFieldValue(ctx, field), value)])

NotCondition(c) ==
  IF ~ c.ok THEN c ELSE Condition([ctx \in Context |-> ~ c.holds[ctx]])

\* The first part that fails makes the whole condition fail.
Joined(kind, of) ==
  IF \E i \in DOMAIN of : ~ of[i].ok THEN of[Least({i \in DOMAIN of : ~ of[i].ok})]
  ELSE Condition([ctx \in Context |-> IF kind = "or" THEN \E i \in DOMAIN of : of[i].holds[ctx]
                                      ELSE \A i \in DOMAIN of : of[i].holds[ctx]])

-----------------------------------------------------------------------------
Comparator(name, text) == [name |-> name, text |-> text]

\* In the order in which parseComparison tries them.
Comparators ==
  <<Comparator("NOT IN", <<"NOT", " ", "IN">>), Comparator("IN", <<"IN">>),
    Comparator("MATCHES", <<"MATCHES">>),
    Comparator("!=", <<"!", "=">>), Comparator("<=", <<"<", "=">>),
    Comparator(">=", <<">", "=">>), Comparator("=", <<"=">>),
    Comparator("<", <<"<">>), Comparator(">", <<">">>)>>

\* Where parseComparison sees the comparator: between blanks, or else at its
\* first occurrence, if that does not end a word.
PlaceOf(text, spaced, bare) ==
  CASE spaced # 0 -> spaced
    [] spaced = 0 /\ bare > 1 /\ text[bare - 1] # " " -> 0
    [] OTHER -> bare

Position(text, comparator) ==
  PlaceOf(text, Index(text, <<" ">> \o comparator.text \o <<" ">>),
                Index(text, comparator.text))

Comparison(text, comparator, at) ==
  LET after == at + Len(comparator.text) + (IF text[at] = " " THEN 1 ELSE 0)
      value == From(text, after)
  IN  IF panics[value] THEN Panic
      ELSE FieldCondition(Trim(SubSeq(text, 1, at - 1)), comparator.name, parseValue(value))

\* The first comparator that the text has.
parseComparison(text) ==
  LET seen == Least({k \in DOMAIN Comparators : Position(text, Comparators[k]) # 0})
  IN  IF seen = 0 THEN Error
      ELSE Comparison(text, Comparators[seen], Position(text, Comparators[seen]))

\* Mutant: a condition is cut at AND first.
KeywordsAndFirst == <<[kind |-> "and", text |-> <<" ", "AND", " ">>],
                      [kind |-> "or", text |-> <<" ", "OR", " ">>]>>

\* What a condition is cut at first.
Keywords == <<[kind |-> "or", text |-> <<" ", "OR", " ">>],
              [kind |-> "and", text |-> <<" ", "AND", " ">>]>>

parseCondition[input \in Text] ==
  LET text         == Trim(input)
      first        == splitAtKeyword(text, Keywords[1].text)
      second       == splitAtKeyword(text, Keywords[2].text)
      Parts(parts) == [i \in DOMAIN parts |-> parseCondition[parts[i]]]
  IN  IF Len(first) > 1 THEN Joined(Keywords[1].kind, Parts(first))
      ELSE IF Len(second) > 1 THEN Joined(Keywords[2].kind, Parts(second))
      ELSE IF Begins(text, <<"NOT", " ">>) THEN NotCondition(parseCondition[From(text, 3)])
      ELSE IF Between(text, "(", ")") THEN parseCondition[Inner(text)]
      ELSE parseComparison(text)

Always == Condition([ctx \in Context |-> TRUE])

-----------------------------------------------------------------------------
(* What comes of parseLine: a rule, an error, or a panic. *)

NoRule(panicked) == [ok |-> FALSE, panicked |-> panicked, rule |-> Nothing]
ARule(rule)      == [ok |-> TRUE, panicked |-> FALSE, rule |-> rule]

\* A default is told by its colon, which may follow a blank.
DefaultOf(behavior) ==
  IF behavior \in {<<"ALLOW">>, <<"DENY">>}
  THEN ARule(RulesEval!Default(behavior = <<"ALLOW">>)) ELSE NoRule(FALSE)

\* What follows the scope and is not "IF " is dropped: the rule has no condition.
RuleOn(action, scope, remaining) ==
  LET condition == IF Begins(remaining, <<"IF", " ">>)
                   THEN parseCondition[From(remaining, 3)] ELSE Always
  IN  IF ~ condition.ok THEN NoRule(condition.panicked)
      ELSE ARule(RulesEval!Rule(action = "ALLOW", scope, condition.holds))

Scopes == {"", "EXPLORATION", "PROCESSING"}

RuleOf(action, rest) ==
  IF rest # <<>> /\ Head(rest) \in {"EXPLORATION", "PROCESSING"}
  THEN RuleOn(action, Head(rest), Trim(Tail(rest)))
  ELSE RuleOn(action, "", rest)

parseLine(line) ==
  CASE Begins(line, <<"DEFAULT", ":">>) \/ Begins(line, <<"DEFAULT", " ", ":">>) ->
         DefaultOf(Trim(From(line, Index(line, <<":">>) + 1)))
    [] Head(line) \in {"ALLOW", "DENY"} -> RuleOf(Head(line), Trim(Tail(line)))
    [] OTHER -> NoRule(FALSE)

\* Parse: the rules of the lines that can be parsed, and the lines that cannot; unless
\* one of these makes it panic.
Kept(lines) ==
  {i \in DOMAIN lines : Trim(lines[i]) # <<>> /\ Head(Trim(lines[i])) \notin {"#", "//"}}

Outcome(made) ==
  [rules  |-> [i \in {j \in DOMAIN made : made[j].ok} |-> made[i].rule],
   errors |-> {j \in DOMAIN made : ~ made[j].ok},
   panics |-> {j \in DOMAIN made : made[j].panicked}]

Parse(lines) == Outcome([i \in Kept(lines) |-> parseLine(Trim(lines[i]))])

-----------------------------------------------------------------------------
EvaluateRules(rules, ctx, scope) ==
  RulesEval!Decide(rules,
    {i \in DOMAIN rules : ~ rules[i].isDefault /\ rules[i].condition[ctx]}, scope)
=============================================================================
