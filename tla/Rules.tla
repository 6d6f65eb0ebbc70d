-------------------------------- MODULE Rules --------------------------------
(***************************************************************************)
(* The evaluation of ShareQL rules (Go/internal/rules/evaluator.go and     *)
(* rule.go): the first rule that applies decides.                          *)
(*                                                                         *)
(* A context maps a field to the object whose attributes it names, or to   *)
(* Nil.  A comparison is abstracted to the objects (or depths) for which   *)
(* it holds; Nil is among them only for a pattern that matches the empty   *)
(* string.  A condition is the set of the comparisons it joins by AND; OR  *)
(* is two rules.                                                           *)
(***************************************************************************)
EXTENDS Naturals, Sequences

CONSTANT Nil

Field == {"SHARE", "FILE", "DIR", "DEPTH"}

EmptyContext == [f \in Field |-> IF f = "DEPTH" THEN 0 ELSE Nil]

\* A rule: isDefault, allow (DefaultBehavior or Action), scope, condition.
Default(allow) ==
  [isDefault |-> TRUE, allow |-> allow, scope |-> "", condition |-> {}]

Rule(allow, scope, condition) ==
  [isDefault |-> FALSE, allow |-> allow, scope |-> scope, condition |-> condition]

Compare(field, values)    == [field |-> field, values |-> values, negated |-> FALSE]
CompareNot(field, values) == [field |-> field, values |-> values, negated |-> TRUE]

Holds(condition, ctx) ==
  \A c \in condition : (ctx[c.field] \in c.values) # c.negated

First(indices) == CHOOSE i \in indices : \A j \in indices : i <= j

\* evaluate, given the rules whose conditions hold: rules of another scope are
\* passed over, and so are defaults, the first of which decides if no rule applies.
Decide(rules, holding, scope) ==
  LET defaults == {i \in DOMAIN rules : rules[i].isDefault}
      applying == {i \in holding : ~ rules[i].isDefault /\ rules[i].scope \in {"", scope}}
  IN  IF applying # {} THEN rules[First(applying)].allow
      ELSE IF defaults # {} THEN rules[First(defaults)].allow ELSE TRUE

Evaluate(rules, ctx, scope) ==
  Decide(rules, {i \in DOMAIN rules : Holds(rules[i].condition, ctx)}, scope)
=============================================================================
