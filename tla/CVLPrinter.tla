------------------------------ MODULE CVLPrinter ------------------------------
(***************************************************************************)
(* put_cvl: a model composes the expressions of a CVL file as syntax trees *)
(* (composer/cvl/schema.py) and they are pretty-printed                    *)
(* (composer/cvl/pretty_print.py).  The actions compose trees bottom-up,   *)
(* so that every tree within the bounds is reached; the properties print   *)
(* them and read them again.                                               *)
(***************************************************************************)
EXTENDS CVLExpressions

CONSTANTS
  Cost,           \* what an operator uses up: the costly ones nest less deep
  MaxCost         \* bound: the cost of the expressions composed together

ASSUME PrinterAssumption == MaxCost \in Nat /\ Cost \in [DOMAIN Precedence -> Nat \ {0}]

VARIABLES
  exprs,     \* the expressions composed so far, the last one on top
  spent      \* of MaxCost

vars == <<exprs, spent>>

Init == exprs = <<>> /\ spent = 0

-----------------------------------------------------------------------------
(* Composing expressions *)

\* The last n expressions become one.
LastOf(n) == SubSeq(exprs, Len(exprs) - n + 1, Len(exprs))
Compose(n, e, cost) ==
  /\ Len(exprs) >= n
  /\ spent + cost <= MaxCost
  /\ exprs' = Append(SubSeq(exprs, 1, Len(exprs) - n), e)
  /\ spent' = spent + cost

Literal == Compose(0, Atom("x"), Cost["identifier"])
BinaryOp == \E op \in DOMAIN Token : Compose(2, Node("binary_op", op, LastOf(2)), Cost[op])
UnaryOp == \E op \in DOMAIN Unary : Compose(1, Node("unary_op", op, LastOf(1)), Cost[op])
ConditionalExp == Compose(3, Node("conditional", "?:", LastOf(3)), Cost["conditional"])
QuantifierExp == Compose(1, Node("quantifier", "forall", LastOf(1)), Cost["quantifier"])
SumExp == Compose(1, Node("sum", "usum", LastOf(1)), Cost["sum"])
ArrayAccess == Compose(2, Node("array_access", "[]", LastOf(2)), Cost["array_access"])
FieldAccess == Compose(1, Node("field_access", "f", LastOf(1)), Cost["field_access"])
FunctionCall ==
  \E n \in 0..2, state \in {NoState, "init"} :
    Compose(n, Call("g", state, LastOf(n)), Cost["function_call"])
ArrayLiteral == \E n \in 1..2 : Compose(n, Node("array_literal", "[]", LastOf(n)), Cost["array_literal"])

Next ==
  \/ Literal \/ BinaryOp \/ UnaryOp \/ ConditionalExp \/ QuantifierExp \/ SumExp
  \/ ArrayAccess \/ FieldAccess \/ FunctionCall \/ ArrayLiteral

Spec == Init /\ [][Next]_vars

-----------------------------------------------------------------------------
(* Properties *)

RECURSIVE Nodes(_)
Nodes(e) == {e} \cup UNION {Nodes(e.kids[i]) : i \in DOMAIN e.kids}

\* What is printed wrongly: a conditional or a binder as the condition of a
\* conditional gets no parentheses, and the state of a call is left out.
Misprinted(e) ==
  \E n \in Nodes(e) :
    \/ n.type = "conditional" /\ GetPrecedence(n.kids[1]) = 0
    \/ n.type = "function_call" /\ n.state # NoState

\* An expression that is printed and read again is the same expression: no pair of
\* parentheses is missing (pretty_print.py: needs_parentheses, print_expression).
\* It does not hold of the expressions above; of the others it does.
ReadsBack == \A i \in DOMAIN exprs : ReadText(PrintInner(exprs[i])) = exprs[i]
ExpressionsReadBack == \A i \in DOMAIN exprs : Misprinted(exprs[i]) \/ ReadText(PrintInner(exprs[i])) = exprs[i]
=============================================================================
