---------------------------- MODULE CVLExpressions ----------------------------
(***************************************************************************)
(* CVL expressions as the syntax trees of composer/cvl/schema.py, their    *)
(* printing with as few parentheses as possible (composer/cvl/             *)
(* pretty_print.py), and a reader of what is printed, to compare with.     *)
(* A text is a sequence of tokens; literals and identifiers are tokens.    *)
(***************************************************************************)
EXTENDS Naturals, Sequences, SequencesExt

\* A node: its type, what stands in it (an operator, a name, a keyword), and its
\* sub-expressions in the order of the text.  A call may bind a state (AT).
NoState == "none"
Node(type, op, kids) == [type |-> type, op |-> op, kids |-> kids, state |-> NoState]
Atom(name) == Node("identifier", name, <<>>)
Call(name, state, args) == [Node("function_call", name, args) EXCEPT !.state = state]

Precedence ==
  [conditional |-> 0, quantifier |-> 0, sum |-> 0, iff |-> 1, implies |-> 2, or |-> 3, and |-> 4,
   eq |-> 5, ne |-> 5, lt |-> 5, le |-> 5, gt |-> 5, ge |-> 5, bw_or |-> 6, bw_xor |-> 7, bw_and |-> 8,
   bw_lshift |-> 9, bw_rshift |-> 9, bw_rshift_wzeros |-> 9, add |-> 10, sub |-> 10,
   mul |-> 11, div |-> 11, mod |-> 11, not |-> 12, bw_not |-> 12, uminus |-> 12, exponent |-> 13,
   in |-> 14, array_access |-> 15, field_access |-> 15, function_call |-> 15,
   array_literal |-> 16, identifier |-> 16]

\* _print_binary_operator and _print_unary_operator.
Token ==
  [iff |-> "<=>", implies |-> "=>", or |-> "||", and |-> "&&", eq |-> "==", ne |-> "!=", lt |-> "<",
   le |-> "<=", gt |-> ">", ge |-> ">=", bw_or |-> "|", bw_xor |-> "xor", bw_and |-> "&",
   bw_lshift |-> "<<", bw_rshift |-> ">>", bw_rshift_wzeros |-> ">>>", add |-> "+", sub |-> "-",
   mul |-> "*", div |-> "/", mod |-> "%", exponent |-> "^", in |-> "in"]
Unary == [not |-> "!", bw_not |-> "~", uminus |-> "-"]
Binders == [forall |-> "quantifier", exists |-> "quantifier", sum |-> "sum", usum |-> "sum"]

RightAssociative == {"implies", "iff", "exponent"}

GetPrecedence(e) == Precedence[IF e.type \in {"binary_op", "unary_op"} THEN e.op ELSE e.type]

\* Mutant: the operand on the side an operator associates to gets them.
NeedsParenthesesSwapped(e, parent, right) ==
  \/ GetPrecedence(e) < GetPrecedence(parent)
  \/ /\ GetPrecedence(e) = GetPrecedence(parent) /\ parent.type = "binary_op"
     /\ right = (parent.op \in RightAssociative)

\* An operand of lower precedence, or of the same on the side its parent does not
\* associate to.
NeedsParentheses(e, parent, right) ==
  \/ GetPrecedence(e) < GetPrecedence(parent)
  \/ /\ GetPrecedence(e) = GetPrecedence(parent) /\ parent.type = "binary_op"
     /\ right # (parent.op \in RightAssociative)

Commas(texts) == FlattenSeq([i \in DOMAIN texts |-> IF i = 1 THEN texts[i] ELSE <<",">> \o texts[i]])

\* print_expression with a parent, and _print_expression_inner, which is
\* print_expression without one.
RECURSIVE PrintInner(_)
Operand(e, parent, right) ==
  IF NeedsParentheses(e, parent, right) THEN <<"(">> \o PrintInner(e) \o <<")">> ELSE PrintInner(e)
PrintAll(es) == [i \in DOMAIN es |-> PrintInner(es[i])]
PrintInner(e) ==
  LET K(i) == Operand(e.kids[i], e, FALSE)
  IN  CASE e.type = "identifier" -> <<e.op>>
        [] e.type = "binary_op" -> K(1) \o <<Token[e.op]>> \o Operand(e.kids[2], e, TRUE)
        [] e.type = "unary_op" -> <<Unary[e.op]>> \o K(1)
        [] e.type = "conditional" -> K(1) \o <<"?">> \o K(2) \o <<":">> \o K(3)
        [] e.type \in {"quantifier", "sum"} -> <<e.op, "v", ".">> \o K(1)
        [] e.type = "array_access" -> K(1) \o <<"[">> \o PrintInner(e.kids[2]) \o <<"]">>
        [] e.type = "field_access" -> K(1) \o <<".", e.op>>
        [] e.type = "function_call" -> <<e.op, "(">> \o Commas(PrintAll(e.kids)) \o <<")">>
        [] e.type = "array_literal" -> <<"[">> \o Commas(PrintAll(e.kids)) \o <<"]">>

-----------------------------------------------------------------------------
(* The reader: the grammar at the head of pretty_print.py, one level for    *)
(* each precedence, from the lowest; a conditional's parts and a binder's   *)
(* body extend as far as they can.                                          *)

Bad == Atom("?")
Tok(ts, i) == IF i <= Len(ts) THEN ts[i] ELSE "end"
At(tree, i) == [tree |-> tree, at |-> i]
\* What was read up to i, if the token there is tok.
Closed(ts, i, tok, tree) == IF Tok(ts, i) = tok THEN At(tree, i + 1) ELSE At(Bad, i + 1)
Operator(ts, i, level) == {op \in DOMAIN Token : Token[op] = Tok(ts, i) /\ Precedence[op] = level}

RECURSIVE Read(_, _, _), ReadLeft(_, _, _), ReadPostfix(_, _), ReadList(_, _, _)
\* Elements up to a closing token.
ReadList(ts, got, i) ==
  LET e == Read(ts, 0, i)
  IN  IF Tok(ts, e.at) = "," THEN ReadList(ts, Append(got, e.tree), e.at + 1)
      ELSE [trees |-> Append(got, e.tree), at |-> e.at]
ReadLeft(ts, level, left) ==
  IF Operator(ts, left.at, level) = {} THEN left
  ELSE LET op == CHOOSE o \in Operator(ts, left.at, level) : TRUE
           right == Read(ts, level + 1, left.at + 1)
       IN  ReadLeft(ts, level, At(Node("binary_op", op, <<left.tree, right.tree>>), right.at))
ReadRight(ts, level, left) ==
  IF Operator(ts, left.at, level) = {} THEN left
  ELSE LET op == CHOOSE o \in Operator(ts, left.at, level) : TRUE
           right == Read(ts, level, left.at + 1)
       IN  At(Node("binary_op", op, <<left.tree, right.tree>>), right.at)
ReadConditional(ts, c) ==
  IF Tok(ts, c.at) # "?" THEN c
  ELSE LET t == Read(ts, 0, c.at + 1)
           e == Read(ts, 0, t.at + 1)
       IN  IF Tok(ts, t.at) = ":" THEN At(Node("conditional", "?:", <<c.tree, t.tree, e.tree>>), e.at) ELSE At(Bad, t.at)
ReadPostfix(ts, base) ==
  CASE Tok(ts, base.at) = "[" ->
         LET i == Read(ts, 0, base.at + 1)
         IN  ReadPostfix(ts, Closed(ts, i.at, "]", Node("array_access", "[]", <<base.tree, i.tree>>)))
    [] Tok(ts, base.at) = "." ->
         ReadPostfix(ts, At(Node("field_access", Tok(ts, base.at + 1), <<base.tree>>), base.at + 2))
    [] OTHER -> base
ReadPrimary(ts, i) ==
  CASE Tok(ts, i) = "(" ->
         LET e == Read(ts, 0, i + 1) IN Closed(ts, e.at, ")", e.tree)
    [] Tok(ts, i) = "[" ->
         LET l == ReadList(ts, <<>>, i + 1) IN Closed(ts, l.at, "]", Node("array_literal", "[]", l.trees))
    [] Tok(ts, i + 1) = "(" /\ Tok(ts, i + 2) = ")" -> At(Call(Tok(ts, i), NoState, <<>>), i + 3)
    [] Tok(ts, i + 1) = "(" /\ Tok(ts, i + 2) # ")" ->
         LET l == ReadList(ts, <<>>, i + 2) IN Closed(ts, l.at, ")", Call(Tok(ts, i), NoState, l.trees))
    [] OTHER -> At(Atom(Tok(ts, i)), i + 1)
Read(ts, level, i) ==
  CASE Tok(ts, i) \in DOMAIN Binders /\ level = 0 ->
         LET b == Read(ts, 0, i + 3) IN At(Node(Binders[Tok(ts, i)], Tok(ts, i), <<b.tree>>), b.at)
    [] level = 0 /\ Tok(ts, i) \notin DOMAIN Binders -> ReadConditional(ts, Read(ts, 1, i))
    [] level \in {1, 2, 13} -> ReadRight(ts, level, Read(ts, level + 1, i))
    [] level \in (3..11) \cup {14} -> ReadLeft(ts, level, Read(ts, level + 1, i))
    [] level = 12 ->
         IF \E op \in DOMAIN Unary : Unary[op] = Tok(ts, i)
         THEN LET op == CHOOSE o \in DOMAIN Unary : Unary[o] = Tok(ts, i)
                  e == Read(ts, 12, i + 1)
              IN  At(Node("unary_op", op, <<e.tree>>), e.at)
         ELSE Read(ts, 13, i)
    [] level = 15 -> ReadPostfix(ts, ReadPrimary(ts, i))

ReadText(ts) == LET e == Read(ts, 0, 1) IN IF e.at = Len(ts) + 1 THEN e.tree ELSE Bad
=============================================================================
