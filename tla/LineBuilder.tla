------------------------------ MODULE LineBuilder ------------------------------
(***************************************************************************)
(* LineBuilder and LineInterleaver of composer/cvl/pretty_print.py: lines  *)
(* are buffered with their indentation, a line may be put together in      *)
(* pieces, and a nested builder hands its lines to its parent when it is   *)
(* left.  A printer is a sequence of the instructions below.               *)
(***************************************************************************)
EXTENDS Naturals, Sequences, SequencesExt

Line(toks) == [do |-> "line", toks |-> toks]
Open == [do |-> "open", toks |-> <<>>]         \* line_builder() and __enter__
Piece(toks) == [do |-> "append", toks |-> toks]
Close == [do |-> "close", toks |-> <<>>]       \* LineInterleaver.__exit__
Indent == [do |-> "indent", toks |-> <<>>]     \* indent() and __enter__
Dedent == [do |-> "dedent", toks |-> <<>>]     \* LineBuilder.__exit__

\* A builder: its indentation, its lines, and the pieces of its child_line.
Builder(indent) == [indent |-> indent, buffer |-> <<>>, open |-> FALSE, pieces |-> <<>>]
Fresh == [builders |-> <<Builder(0)>>, raised |-> FALSE]

Put(b, toks) == [b EXCEPT !.buffer = Append(@, [indent |-> b.indent, toks |-> toks])]
Flush(b) == IF b.pieces = <<>> THEN b ELSE [Put(b, b.pieces) EXCEPT !.pieces = <<>>]

\* Mutant: what was put together of a line is not written before the nested lines.
StartNestedLate(b) == b
\* The pieces of a line that is open become a line of their own.
StartNested(b) == Flush(b)

\* One instruction, on the innermost builder.
Exec(s, i) ==
  LET n == Len(s.builders)
      b == s.builders[n]
      Now(new) == [s EXCEPT !.builders[n] = new]
  IN  CASE i.do = "line" -> Now(Put(b, i.toks))
        [] i.do = "open" -> [Now([b EXCEPT !.open = TRUE]) EXCEPT !.raised = @ \/ b.open]
        [] i.do = "append" -> Now([b EXCEPT !.pieces = @ \o i.toks])
        [] i.do = "close" -> Now([Flush(b) EXCEPT !.open = FALSE])
        [] i.do = "indent" ->
             [s EXCEPT !.builders = Append([s.builders EXCEPT ![n] = StartNested(b)], Builder(b.indent + 1))]
        [] i.do = "dedent" ->
             [s EXCEPT !.builders = [SubSeq(s.builders, 1, n - 1) EXCEPT ![n - 1].buffer = @ \o b.buffer]]

Build(instructions) == FoldLeft(Exec, Fresh, instructions)
=============================================================================
