--------------------------- MODULE MCFoundryAuthor ---------------------------
(***************************************************************************)
(* Constants of FoundryAuthor for TLC: two test files and two test names.   *)
(***************************************************************************)
EXTENDS FoundryAuthor, TLC

CONSTANTS src1, src2, test_a, test_b, p1, p2

\* Files without tests, and files of which one extends the other.
MCNoTests    == [source \in TestSource |-> {}]
MCTestsGrown == (src1 :> {test_a}) @@ (src2 :> {test_a, test_b})
MCHash(source, skipped) == <<source, skipped>>
Entry(title, tests) == [title |-> title, rules |-> tests]

\* Two properties: one, both, twice the same test, twice the same property,
\* no test, a property the batch does not have.
MCMappings2 ==
  {<< >>, <<Entry(p1, {test_a})>>, <<Entry(p2, {test_a, test_b})>>,
   <<Entry(p1, {test_a}), Entry(p2, {test_b})>>,
   <<Entry(p1, {test_a}), Entry(p2, {test_a})>>,
   <<Entry(p1, {test_a}), Entry(p1, {test_b})>>,
   <<Entry(p1, {}), Entry(p2, {test_a})>>,
   <<Entry(p1, {test_a}), Entry(UnknownTitle, {test_b})>>}
=============================================================================
