----------------------------- MODULE ShareQLStart ----------------------------
(***************************************************************************)
(* The rules from the command line to the decisions: run() (Go/cmd/        *)
(* sharehound/main.go) takes them from the files, from the options or from *)
(* the parser's own, parses them and gives up if one is at fault; then the *)
(* evaluator is asked about one object after the other.                    *)
(*                                                                         *)
(* What the user means is a list of lines of the grammar of Go/README.md,  *)
(* "Syntax"; he writes them down with or without the brackets that he can  *)
(* do without, and the parser has to find out what he meant.               *)
(*                                                                         *)
(* A condition is the list of its parts, each after those that it is made  *)
(* of; the last part is the whole.  A rule without a condition has none.   *)
(***************************************************************************)
EXTENDS ShareQL

CONSTANT CommandLines  \* the lines of all rules files, those of the rule options

VARIABLES
  meant,      \* what the user means, and whether he puts all brackets
  pc,         \* parsing, exited, asking
  rules,      \* parsedRules
  ctx,        \* the EvaluationContext
  decision    \* the last decision: its scope and the answer

vars == <<meant, pc, rules, ctx, decision>>

-----------------------------------------------------------------------------
(* What the user means. *)

\* The parts of a condition: a comparison; one that lacks its comparator; and
\* those of other parts, which they name by their numbers.
Is(field, comparator, value) ==
  [kind |-> "is", field |-> field, comparator |-> comparator, value |-> value]
Broken(field)           == [kind |-> "broken", field |-> field]
Joint(kind, of)         == [kind |-> kind, of |-> of]

\* The line of a rule, and one that goes on in words of which IF is not the first.
Line(allow, scope, c)   == [kind |-> "rule", allow |-> allow, scope |-> scope, if |-> c,
                            rest |-> <<>>]
Loose(allow, scope, rest) == [Line(allow, scope, <<>>) EXCEPT !.rest = rest]
DefaultLine(behavior)   == [kind |-> "default", behavior |-> behavior]
Other(text, faulty)     == [kind |-> "other", text |-> text, faulty |-> faulty]

Same(v, w) ==
  /\ v.kind = w.kind
  /\ CASE v.kind = "string" -> FoldText(v.text) = FoldText(w.text)
       [] v.kind = "number" -> v.n = w.n
       [] OTHER             -> v = w

Bigger(v, w) == v.kind = "number" /\ w.kind = "number" /\ v.n > w.n

Among(v, list) == \E i \in DOMAIN list.items : Same(v, list.items[i])

\* What a pattern means is a matter of regexp: one that does not compile matches
\* nothing, and an attribute that the object does not have is the empty text.
Occurs(w, v) == Compiles(toString(w)) /\ Matches(toString(w), toString(v))

IsSo(comparator, v, w) ==
  CASE comparator = "="       -> Same(v, w)
    [] comparator = "!="      -> ~ Same(v, w)
    [] comparator = "<"       -> Bigger(w, v)
    [] comparator = ">"       -> Bigger(v, w)
    [] comparator = "<="      -> Bigger(w, v) \/ Same(v, w)
    [] comparator = ">="      -> Bigger(v, w) \/ Same(v, w)
    [] comparator = "IN"      -> Among(v, w)
    [] comparator = "NOT IN"  -> ~ Among(v, w)
    [] comparator = "MATCHES" -> Occurs(w, v)

\* Whether the parts of a condition hold of an object.
IsMeant(c, o) ==
  LET holds[i \in DOMAIN c] ==
        LET part == c[i]
        IN  CASE part.kind = "not" -> ~ holds[part.of[1]]
              [] part.kind = "and" -> holds[part.of[1]] /\ holds[part.of[2]]
              [] part.kind = "or"  -> holds[part.of[1]] \/ holds[part.of[2]]
              [] part.kind = "is"  ->
                   IsSo(part.comparator,
                        IF part.field \in DOMAIN o THEN o[part.field] ELSE Nothing, part.value)
              [] OTHER             -> FALSE
  IN  holds

Applies(line, o, scope) ==
  /\ line.kind = "rule" /\ line.scope \in {"", scope}
  /\ line.if = <<>> \/ IsMeant(line.if, o)[Len(line.if)]

\* What the documented order of the lines makes of it.
Allowed(lines, o, scope) ==
  LET hit     == {i \in DOMAIN lines : Applies(lines[i], o, scope)}
      default == {i \in DOMAIN lines : lines[i].kind = "default"}
  IN  IF hit # {} THEN \E i \in hit : lines[i].allow /\ \A j \in hit : i <= j
      ELSE \A i \in default : (\A j \in default : i <= j) => lines[i].behavior = "ALLOW"

\* A line that no reader could make sense of.
Faulty(line) ==
  CASE line.kind = "rule"    -> \E i \in DOMAIN line.if : line.if[i].kind = "broken"
    [] line.kind = "default" -> line.behavior \notin {"ALLOW", "DENY"}
    [] OTHER                 -> line.faulty

-----------------------------------------------------------------------------
(* How he writes it. *)

\* The brackets that NOT, AND and OR need, or all that one may put.
Binding(part) == CASE part.kind = "or" -> 1 [] part.kind = "and" -> 2
                   [] part.kind = "not" -> 3 [] OTHER -> 4

Word(n) == CHOOSE w \in DOMAIN NumberOf : NumberOf[w] = n

Has(text, token) == \E i \in DOMAIN text : text[i] = token

Quoted(text) ==
  IF Has(text, "'") THEN <<"\"">> \o text \o <<"\"">> ELSE <<"'">> \o text \o <<"'">>

WriteScalar(v) ==
  CASE v.kind = "string" -> Quoted(v.text)
    [] v.kind = "number" -> <<Word(v.n)>>
    [] v.kind = "bool"   -> <<IF v.b THEN "true" ELSE "false">>

WriteItems(items) ==
  FlattenSeq([i \in DOMAIN items |->
                (IF i = 1 THEN <<>> ELSE <<",", " ">>) \o WriteScalar(items[i])])

WriteValue(v) ==
  IF v.kind = "list" THEN <<"[">> \o WriteItems(v.items) \o <<"]">> ELSE WriteScalar(v)

Place(comparator) == CHOOSE k \in DOMAIN Comparators : Comparators[k].name = comparator

WriteComparison(part) ==
  <<part.field, " ">> \o Comparators[Place(part.comparator)].text \o <<" ">>
    \o WriteValue(part.value)

InBrackets(text) == <<"(">> \o text \o <<")">>

Write(c, brackets) ==
  LET write[i \in DOMAIN c] ==
        LET Of(j) == IF brackets \/ Binding(c[j]) < Binding(c[i])
                     THEN InBrackets(write[j]) ELSE write[j]
        IN  CASE c[i].kind = "not" -> <<"NOT", " ">> \o Of(c[i].of[1])
              [] c[i].kind = "and" ->
                   Of(c[i].of[1]) \o <<" ", "AND", " ">> \o Of(c[i].of[2])
              [] c[i].kind = "or"  ->
                   Of(c[i].of[1]) \o <<" ", "OR", " ">> \o Of(c[i].of[2])
              [] c[i].kind = "is"  -> WriteComparison(c[i])
              [] OTHER             -> <<c[i].field>>
  IN  write

Action(allow) == IF allow THEN "ALLOW" ELSE "DENY"

WriteLine(line, brackets) ==
  CASE line.kind = "default" -> <<"DEFAULT", ":", " ", line.behavior>>
    [] line.kind = "other"   -> line.text
    [] line.kind = "rule"    ->
         <<Action(line.allow)>>
           \o (IF line.scope = "" THEN <<>> ELSE <<" ", line.scope>>)
           \o (IF line.rest = <<>> THEN <<>> ELSE <<" ">> \o line.rest)
           \o (IF line.if = <<>> THEN <<>>
               ELSE <<" ", "IF", " ">> \o Write(line.if, brackets)[Len(line.if)])

-----------------------------------------------------------------------------
(* What he may write: comparisons within a kind, strings that can be put in quotes, *)
(* no comparator in a comparison that the parser looks for before its own, and     *)
(* nothing but ASCII where AND or OR cuts a condition.                             *)

ShareField == {"SHARE.NAME", "SHARE.DESCRIPTION", "SHARE.HIDDEN"}
FileField  == {"FILE.NAME", "FILE.PATH", "FILE.SIZE", "FILE.EXTENSION"}
DirField   == {"DIR.NAME", "DIR.PATH"}
Field      == {"DEPTH"} \cup ShareField \cup FileField \cup DirField

KindOf(field) == CASE field \in {"DEPTH", "FILE.SIZE"} -> "number"
                   [] field = "SHARE.HIDDEN" -> "bool" [] OTHER -> "string"

Scalar == [kind : {"string"}, text : Text] \cup [kind : {"number"}, n : Int]
            \cup [kind : {"bool"}, b : BOOLEAN]
Value  == Scalar \cup [kind : {"list"}, items : Seq(Scalar)]

IsObject(o, fields) ==
  DOMAIN o \subseteq fields /\ \A f \in DOMAIN o : o[f] \in Scalar /\ o[f].kind = KindOf(f)

Quotable(text) ==
  /\ text # <<>> /\ ~ (Has(text, "'") /\ Has(text, "\""))
  /\ \A i \in 1..Len(text) : Depth(text, i) >= 0
  /\ Depth(text, Len(text) + 1) = 0

CanWrite(v, kind) ==
  /\ v \in Scalar /\ v.kind = kind
  /\ kind = "string" => Quotable(v.text)
  /\ kind = "number" => \E w \in DOMAIN NumberOf : NumberOf[w] = v.n

Fits(comparator, field, v) ==
  CASE comparator \in {"IN", "NOT IN"} ->
         v.kind = "list" /\ v.items # <<>> /\ \A i \in DOMAIN v.items : CanWrite(v.items[i], KindOf(field))
    [] OTHER ->
         /\ CanWrite(v, KindOf(field))
         /\ comparator \in {"<", ">", "<=", ">="} => KindOf(field) = "number"
         /\ comparator = "MATCHES" => KindOf(field) = "string"

Part == [kind : {"is"}, field : Field, value : Value,
         comparator : {Comparators[k].name : k \in DOMAIN Comparators}]
          \cup [kind : {"broken"}, field : Field] \cup [kind : {"not", "and", "or"}, of : Seq(Nat)]

IsComparison(part) ==
  /\ Fits(part.comparator, part.field, part.value)
  /\ \A k \in 1..(Place(part.comparator) - 1) :
       Position(WriteComparison(part), Comparators[k]) = 0

\* What comes out of splitAtKeyword as it was.
InASCII(text) == \A i \in DOMAIN text : text[i] \notin DOMAIN Recode

Members(part) == IF part.kind \in {"is", "broken"} THEN {} ELSE {part.of[k] : k \in DOMAIN part.of}

\* Every part but the last is a part of a later one.
IsCondition(c) ==
  /\ c \in Seq(Part)
  /\ \A i \in DOMAIN c :
       /\ c[i].kind = "is" => IsComparison(c[i])
       /\ c[i].kind = "not" => Len(c[i].of) = 1
       /\ c[i].kind \in {"and", "or"} => Len(c[i].of) = 2
       /\ Members(c[i]) \subseteq 1..(i - 1)
       /\ i < Len(c) => \E j \in DOMAIN c : i \in Members(c[j])
  /\ (\E i \in DOMAIN c : c[i].kind \in {"and", "or"}) =>
       \A i \in DOMAIN c : c[i].kind = "is" => InASCII(WriteComparison(c[i]))

\* Words after the scope that are no condition: the parser drops them.
IsRest(rest, scope) ==
  /\ rest \in Text /\ Trim(rest) = rest /\ ~ Begins(rest, <<"IF", " ">>)
  /\ rest # <<>> /\ scope = "" => Head(rest) \notin {"EXPLORATION", "PROCESSING"}

\* No other line looks like a rule.
IsLine(line) ==
  CASE line.kind = "rule"    -> /\ line.allow \in BOOLEAN /\ IsCondition(line.if)
                                /\ line.scope \in Scopes /\ IsRest(line.rest, line.scope)
                                /\ line.if = <<>> \/ line.rest = <<>>
    [] line.kind = "default" -> line.behavior \in Token
    [] line.kind = "other"   ->
         /\ line.text \in Text
         /\ line.faulty = (Trim(line.text) # <<>> /\ Head(Trim(line.text)) \notin {"#", "//"})
         /\ line.faulty => Head(Trim(line.text)) \notin {"ALLOW", "DENY", "DEFAULT"}
    [] OTHER                 -> FALSE

\* rules.DefaultRules.
DefaultRules ==
  <<DefaultLine("ALLOW"),
    Line(FALSE, "EXPLORATION",
         <<Is("SHARE.NAME", "IN", List(<<String(<<"c$">>), String(<<"pr", "IN", "t$">>),
                                         String(<<"adm", "IN", "$">>), String(<<"ipc$">>)>>))>>),
    Line(TRUE, "EXPLORATION", <<>>)>>

IsDocument(lines) == DOMAIN lines \subseteq Nat /\ \A i \in DOMAIN lines : IsLine(lines[i])

ASSUME WritingAssumption ==
  /\ Field \subseteq Token \ DOMAIN Recode /\ Depths \subseteq Nat
  /\ DOMAIN NumberOf \subseteq Token \ (Characters \cup Reserved)
  /\ \A w \in DOMAIN NumberOf : NumberOf[w] \in Int
  /\ Fold("true") # Fold("false")
  /\ \A o \in Shares : IsObject(o, ShareField)
  /\ \A o \in Files : IsObject(o, FileField)
  /\ \A o \in Dirs : IsObject(o, DirField)
  /\ IsDocument(DefaultRules)
  /\ \A line \in CommandLines :
       /\ line.files \in {"none", "read", "unreadable"}
       /\ IsDocument(line.ofFiles) /\ IsDocument(line.ofOptions)

\* The lines that are parsed: those of the files if there are any, whatever the options
\* say (main.go:207 and 224).
InForce ==
  LET line == meant.line
  IN  CASE line.files # "none" -> line.ofFiles
        [] line.files = "none" /\ line.ofOptions # <<>> -> line.ofOptions
        [] OTHER -> DefaultRules

TypeOK ==
  /\ meant \in [line : CommandLines, brackets : BOOLEAN]
  /\ pc \in {"parsing", "exited", "asking"}
  /\ DOMAIN rules \subseteq DOMAIN InForce
  /\ \A i \in DOMAIN rules :
       /\ rules[i].isDefault \in BOOLEAN /\ rules[i].allow \in BOOLEAN
       /\ rules[i].scope \in Scopes
       /\ ~ rules[i].isDefault => rules[i].condition \in [Context -> BOOLEAN]
  /\ ctx \in Context
  /\ decision \in [scope : {"EXPLORATION", "PROCESSING"}, allowed : BOOLEAN] \cup {Nothing}

Init ==
  /\ meant \in [line : CommandLines, brackets : BOOLEAN]
  /\ pc = "parsing" /\ rules = <<>> /\ decision = Nothing
  /\ ctx = [share |-> NoObject, file |-> NoObject, dir |-> NoObject, depth |-> 0]

Parsed == Parse([i \in DOMAIN InForce |-> WriteLine(InForce[i], meant.brackets)])

\* Mutant: the scan goes on with the rules that could be parsed.
ParseRulesGoesOn ==
  /\ pc = "parsing"
  /\ pc' = "asking" /\ rules' = Parsed.rules
  /\ UNCHANGED <<meant, ctx, decision>>

\* run() up to "rules parsed successfully".  A file that cannot be read ends it, and so
\* does an error or a panic of the parser, in whichever file.
ParseRules ==
  /\ pc = "parsing"
  /\ IF meant.line.files = "unreadable" \/ Parsed.errors # {} \/ Parsed.panics # {}
     THEN pc' = "exited" /\ UNCHANGED rules
     ELSE pc' = "asking" /\ rules' = Parsed.rules
  /\ UNCHANGED <<meant, ctx, decision>>

Ask(scope, c) ==
  /\ pc = "asking"
  /\ ctx' = c
  /\ decision' = [scope |-> scope, allowed |-> EvaluateRules(rules, c, scope)]
  /\ UNCHANGED <<meant, pc, rules>>

CanExplore ==
  \/ \E s \in Shares : Ask("EXPLORATION", [ctx EXCEPT !.share = s])
  \/ \E d \in Dirs   : Ask("EXPLORATION", [ctx EXCEPT !.dir = d])

CanProcess ==
  \/ \E s \in Shares : Ask("PROCESSING", [ctx EXCEPT !.share = s])
  \/ \E f \in Files  : Ask("PROCESSING", [ctx EXCEPT !.file = f])
  \/ \E d \in Dirs   : Ask("PROCESSING", [ctx EXCEPT !.dir = d])

\* Mutant: the depth of the level below is set.
SetDepthBelow ==
  /\ pc = "asking" /\ \E d \in Depths : ctx' = [ctx EXCEPT !.depth = d + 1]
  /\ decision' = Nothing
  /\ UNCHANGED <<meant, pc, rules>>

SetDepth ==
  /\ pc = "asking" /\ \E d \in Depths : ctx' = [ctx EXCEPT !.depth = d]
  /\ decision' = Nothing
  /\ UNCHANGED <<meant, pc, rules>>

Exited == pc = "exited" /\ UNCHANGED vars

Next == ParseRules \/ CanExplore \/ CanProcess \/ SetDepth \/ Exited

Spec == Init /\ [][Next]_vars

-----------------------------------------------------------------------------
\* The object that a context is about: what was said of the share, the file and the
\* directory, and how deep it lies.
Told(c) ==
  LET said == <<c.share, c.file, c.dir>>
  IN  [f \in {"DEPTH"} \cup UNION {DOMAIN said[k] : k \in 1..3} |->
         IF f = "DEPTH" THEN Number(c.depth)
         ELSE LET k == CHOOSE k \in 1..3 : f \in DOMAIN said[k] IN said[k][f]]

\* Every decision is the one that the rules in force say as their author reads them:
\* with the precedence of NOT, AND and OR, whatever brackets he puts, with keywords and
\* commas in his strings, and with NOT IN told from IN.  It is said of what IsLine lets
\* him write, which leaves out what the parser gets wrong: a string with a comparator
\* that it looks for before the right one, with both quotes or with an odd bracket, and
\* one not in ASCII beside AND or OR.  A pattern means what regexp makes of it, and a
\* line with other words in the place of IF is a rule without a condition.
MeansWhatItSays ==
  decision # Nothing =>
    decision.allowed = Allowed(InForce, Told(ctx), decision.scope)

\* A scan never runs with some of the rules in force missing: one faulty line or one file
\* that cannot be read stops it, and no line that is right does.  In force are the
\* files' alone when there are files, the options' without them, else the parser's own.
NoRuleMissing ==
  /\ pc = "asking" => DOMAIN rules =
       {i \in DOMAIN InForce : InForce[i].kind \in {"rule", "default"}}
  /\ pc # "parsing" =>
       (pc = "exited" <=> \/ meant.line.files = "unreadable"
                         \/ \E i \in DOMAIN InForce : Faulty(InForce[i]))
=============================================================================
