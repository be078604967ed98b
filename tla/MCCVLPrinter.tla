---------------------------- MODULE MCCVLPrinter ----------------------------
(***************************************************************************)
(* Expressions and blocks share no state, so each are composed in          *)
(* behaviours of their own.                                                *)
(***************************************************************************)
EXTENDS CVLPrinter, CVLBlocks

FileInit == Init /\ BlocksInit
ComposeExpressions == Next /\ cmds = <<>> /\ file = <<>> /\ UNCHANGED blocksVars
ComposeBlocks == BlocksNext /\ exprs = <<>> /\ UNCHANGED vars
FileSpec == FileInit /\ [][ComposeExpressions \/ ComposeBlocks]_<<vars, blocksVars>>

\* One operator of each kind of level, one command and what nests them go deeper
\* than the others.
Cheap == {"identifier", "conditional", "quantifier", "implies", "sub", "uminus", "exponent", "field_access"}
MCCost == [op \in DOMAIN Precedence |-> IF op \in Cheap THEN 1 ELSE 2]
MCCommandCost ==
  [type \in SimpleTypes \cup {"if", "block"} |-> IF type \in {"assert", "if", "block"} THEN 1 ELSE 3]
MCExps == {<<"a", "[", "x", "]">>}
=============================================================================
