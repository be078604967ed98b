------------------------------- MODULE CVLBlocks -------------------------------
(***************************************************************************)
(* The commands and blocks of a CVL file (composer/cvl/schema.py) and      *)
(* their layout (composer/cvl/pretty_print.py).  The actions compose the   *)
(* tree of a file bottom-up, so that every file within the bounds is       *)
(* reached.  A printer adds the same lines wherever its command stands, so *)
(* of a command that is composed the model keeps what its printers do, as  *)
(* instructions to a LineBuilder.                                          *)
(***************************************************************************)
EXTENDS LineBuilder, FiniteSets

CONSTANTS
  Exps,           \* expressions, as print_expression has them
  CommandCost,    \* what a command uses up: those that nest go deeper than the others
  MaxCommands,    \* bound: the cost of the commands of a file
  MaxParts,       \* bound: the parts of a block, such as filters, axioms or patterns
  MaxBlocks       \* bound: the blocks of a file

SimpleTypes ==
  {"declaration", "assignment", "havoc", "assume", "assume_invariant", "apply", "reset_storage",
   "assert", "satisfy", "return", "revert"}

Openers == {"{", "["}
Closers == {"}", "]"}
\* How many braces and brackets a text leaves open (only for properties).
Depth(toks) ==
  Cardinality({i \in DOMAIN toks : toks[i] \in Openers}) - Cardinality({i \in DOMAIN toks : toks[i] \in Closers})

ASSUME BlocksAssumption ==
  /\ {MaxCommands, MaxParts, MaxBlocks} \subseteq Nat
  /\ CommandCost \in [SimpleTypes \cup {"if", "block"} -> Nat \ {0}]
  /\ \A e \in Exps : e \in Seq(Range(e)) /\ Depth(e) = 0

VARIABLES
  cmds,      \* the commands composed so far, the last one on top
  file,      \* the blocks
  spentCommands   \* of MaxCommands

blocksVars == <<cmds, file, spentCommands>>

BlocksInit == cmds = <<>> /\ file = <<>> /\ spentCommands = 0

-----------------------------------------------------------------------------
(* print_command *)

\* The commands of one line.
PrintSimple(type, e) ==
  CASE type = "declaration" -> <<"uint256", "v", "=">> \o e \o <<";">>
    [] type = "assignment" -> <<"v", "=">> \o e \o <<";">>
    [] type = "havoc" -> <<"havoc", "v", "assuming">> \o e \o <<";">>
    [] type = "assume" -> <<"require", "(">> \o e \o <<",", "message", ")", ";">>
    [] type = "assume_invariant" -> <<"requireInvariant", "i", "(">> \o e \o <<")", ";">>
    [] type = "apply" -> <<"g", "(">> \o e \o <<")", ";">>
    [] type = "reset_storage" -> <<"reset_storage">> \o e \o <<";">>
    [] type \in {"assert", "satisfy"} -> <<type, "(">> \o e \o <<",", "message", ")", ";">>
    [] type = "return" -> <<"return">> \o e \o <<";">>
    [] type = "revert" -> <<"revert", ";">>

Nested(instructions) == <<Indent>> \o instructions \o <<Dedent>>
OneLine(pieces) == <<Open>> \o pieces \o <<Close>>
LinesOf(texts) == [i \in DOMAIN texts |-> Line(texts[i])]

\* A command: what print_command makes of it and, of an if, what _print_elif makes.
Cmd(type, printed, elif) == [type |-> type, printed |-> printed, elif |-> elif]
PrintCommands(cs) == FlattenSeq([i \in DOMAIN cs |-> cs[i].printed])

EndIf == <<Line(<<"}">>)>>
PrintElse(cs) == <<Line(<<"}", "else", "{">>)>> \o Nested(PrintCommands(cs)) \o <<Line(<<"}">>)>>
\* What comes after the commands of the if: its end, an else or an else-if.
PrintIf(e, cs, rest, elseif) ==
  <<Line((IF elseif THEN <<"}", "else">> ELSE <<>>) \o <<"if", "(">> \o e \o <<")", "{">>)>>
    \o Nested(PrintCommands(cs)) \o rest
If(e, cs, rest) == Cmd("if", PrintIf(e, cs, rest, FALSE), PrintIf(e, cs, rest, TRUE))
PrintBlockCmd(cs) == <<Line(<<"{">>)>> \o Nested(PrintCommands(cs)) \o <<Line(<<"}">>)>>

-----------------------------------------------------------------------------
(* print_basic_block: b has its type, the number n of its parts, its expression  *)
(* and its commands.                                                             *)

Body(cs) == Nested(PrintCommands(cs)) \o <<Line(<<"}">>)>>

\* n entries of a list in braces or brackets, with commas but for the last.
Entries(entry, n) == LinesOf([i \in 1..n |-> IF i < n THEN Append(entry, ",") ELSE entry])
Filters(e, n) ==
  IF n = 0 THEN <<>>
  ELSE <<Piece(<<"filtered", "{">>)>> \o Nested(Entries(<<"f", "->">> \o e, n)) \o <<Piece(<<"}">>)>>

\* The rules and their filters; functions.
PrintRule(b) ==
  OneLine(<<Piece(<<"rule", "r", "(", ")">>)>> \o Filters(b.exp, b.n) \o <<Piece(<<"{">>)>>) \o Body(b.cmds)
PrintFunction(b) == <<Line(<<"function", "g", "(", ")", "{">>)>> \o Body(b.cmds)

\* A hook on a load, on a store with the old value, or on an opcode with its output.
SlotPattern == <<"slot", "[", "KEY", "address", "k", "]", "[", "INDEX", "uint256", "i", "]", ".", "f">>
HookPattern(n) ==
  CASE n = 0 -> <<Piece(<<"Sload">>), Piece(<<"uint256", "v">>), Piece(SlotPattern)>>
    [] n = 1 -> <<Piece(<<"Sstore">>), Piece(SlotPattern), Piece(<<"uint256", "v">>), Piece(<<"uint256", "old">>)>>
    [] OTHER -> <<Piece(<<"CALL">>), Piece(<<"(", "uint256", "g", ")">>), Piece(<<"uint256", "rc">>)>>
PrintHook(b) == OneLine(<<Piece(<<"hook">>)>> \o HookPattern(b.n) \o <<Piece(<<"{">>)>>) \o Body(b.cmds)

PrintProof(target, cs) ==
  OneLine(<<Piece(<<"preserved">>), Piece(target), Piece(<<"with", "(", "env", "e", ")">>), Piece(<<"{">>)>>) \o Body(cs)
\* The invariants with their filter and proof blocks: none, one or, with a filter,
\* one for every kind of target.
Targets(n) ==
  IF n = 1 THEN << <<>> >>
  ELSE << <<>>, <<"constructor", "(", ")">>, <<"fallback", "(", ")">>, <<"C", ".", "m", "(", ")">> >>
PrintInvariant(b) ==
  LET start == <<Piece(<<"invariant", "i">> \o b.exp)>> \o Filters(b.exp, IF b.n > 1 THEN 1 ELSE 0)
  IN  IF b.n = 0 THEN OneLine(start)
      ELSE OneLine(start \o <<Piece(<<"{">>)>>)
             \o Nested(FlattenSeq([i \in DOMAIN Targets(b.n) |-> PrintProof(Targets(b.n)[i], b.cmds)]))
             \o <<Line(<<"}">>)>>

PrintGhost(b) ==
  LET start == <<Piece(<<"persistent">>), Piece(<<"ghost">>), Piece(<<"uint256", "v">>)>>
  IN  IF b.n = 0 THEN OneLine(start \o <<Piece(<<";">>)>>)
      ELSE OneLine(start \o <<Piece(<<"{">>)>>)
             \o Nested(LinesOf([i \in 1..b.n |-> <<"axiom">> \o b.exp \o <<";">>])) \o <<Line(<<"}">>)>>
PrintMacro(b) == <<Line(<<"definition", "m", "(", ")", "returns", "uint256", "=">> \o b.exp \o <<";">>)>>
PrintSort == <<Line(<<"sort", "S", ";">>)>>

\* The entries of a methods block: a dispatch list with n patterns and a default,
\* a catch-all, an imported function with a summary.
PrintDispatch(n) ==
  OneLine(<<Piece(<<"unresolved", "external", "in">>), Piece(<<"_._">>), Piece(<<"=>", "DISPATCH", "[">>)>>
            \o Nested(Entries(<<"C._">>, n)) \o <<Piece(<<"]">>), Piece(<<"default", "NONDET">>), Piece(<<";">>)>>)
PrintCatchAll == OneLine(<<Piece(<<"function", "C._", "external", "=>">>), Piece(<<"NONDET">>), Piece(<<";">>)>>)
PrintImported(e) ==
  OneLine(<<Piece(<<"function">>), Piece(<<"m", "(", ")", "external", "returns", "(", ")">>),
            Piece(<<"=>">>), Piece(<<"ALWAYS", "(">> \o e \o <<")">>), Piece(<<";">>)>>)
PrintMethods(b) ==
  <<Line(<<"methods", "{">>)>> \o Nested(PrintDispatch(b.n) \o PrintCatchAll \o PrintImported(b.exp))
    \o <<Line(<<"}">>)>>

BlockTypes == {"rule", "func_def", "hook_def", "invariant", "ghost_def", "macro_def", "sort_decl", "methods_block"}
WithBody == {"rule", "func_def", "hook_def", "invariant"}
PrintBlock(b) ==
  CASE b.type = "rule" -> PrintRule(b)
    [] b.type = "func_def" -> PrintFunction(b)
    [] b.type = "hook_def" -> PrintHook(b)
    [] b.type = "invariant" -> PrintInvariant(b)
    [] b.type = "ghost_def" -> PrintGhost(b)
    [] b.type = "macro_def" -> PrintMacro(b)
    [] b.type = "sort_decl" -> PrintSort
    [] b.type = "methods_block" -> PrintMethods(b)

-----------------------------------------------------------------------------
(* Composing commands and blocks *)

\* The last n commands become one, or the body of a block.
Popped(n) == SubSeq(cmds, 1, Len(cmds) - n)
Top(n) == SubSeq(cmds, Len(cmds) - n + 1, Len(cmds))
Push(n, c) ==
  /\ spentCommands + CommandCost[c.type] <= MaxCommands
  /\ cmds' = Append(Popped(n), c)
  /\ spentCommands' = spentCommands + CommandCost[c.type]
  /\ UNCHANGED file

SimpleCommand == \E type \in SimpleTypes, e \in Exps : Push(0, Cmd(type, <<Line(PrintSimple(type, e))>>, <<>>))
BlockCommand == \E n \in 0..Len(cmds) : Push(n, Cmd("block", PrintBlockCmd(Top(n)), <<>>))
\* Without an else, with an else of the last k commands, with an else-if.
IfCommand ==
  \E n \in 0..Len(cmds), e \in Exps :
    \/ Push(n, If(e, Top(n), EndIf))
    \/ \E k \in 0..n : Push(n, If(e, SubSeq(Top(n), 1, n - k), PrintElse(Top(k))))
    \/ /\ n > 0 /\ cmds[Len(cmds)].type = "if"
       /\ Push(n, If(e, SubSeq(Top(n), 1, n - 1), cmds[Len(cmds)].elif))

\* A block takes all commands; n counts its parts or is the kind of a hook.
BasicBlock ==
  /\ Len(file) < MaxBlocks
  /\ \E type \in BlockTypes, n \in 0..MaxParts, e \in Exps :
       /\ type \notin WithBody => cmds = <<>>
       /\ file' = Append(file, [type |-> type, n |-> n, exp |-> e, cmds |-> cmds])
  /\ cmds' = <<>>
  /\ UNCHANGED spentCommands

BlocksNext == SimpleCommand \/ BlockCommand \/ IfCommand \/ BasicBlock

BlocksSpec == BlocksInit /\ [][BlocksNext]_blocksVars

-----------------------------------------------------------------------------
(* Properties *)

Written(instructions) == FlattenSeq([i \in DOMAIN instructions |-> instructions[i].toks])
Texts(lines) == FlattenSeq([i \in DOMAIN lines |-> lines[i].toks])

\* The lines of a file or of commands hold what its printers wrote, in that order,
\* and are indented by the braces and brackets that are open: no line, comma or
\* brace is lost, repeated or moved past a nested one, and all are closed
\* (pretty_print.py: LineBuilder, _print_elif, _print_method_entry).
LaidOut(instructions) ==
  LET end == Build(instructions)
      lines == end.builders[1].buffer
  IN  /\ ~end.raised /\ Len(end.builders) = 1 /\ ~end.builders[1].open
      /\ Texts(lines) = Written(instructions)
      /\ Depth(Texts(lines)) = 0
      /\ \A k \in DOMAIN lines :
           LET before == Depth(Texts(SubSeq(lines, 1, k - 1)))
               closes == lines[k].toks[1] \in Closers
           IN  lines[k].indent = IF closes THEN before - 1 ELSE before
BlocksLaidOut ==
  LaidOut(PrintCommands(cmds)) /\ \A i \in DOMAIN file : LaidOut(PrintBlock(file[i]))
=============================================================================
