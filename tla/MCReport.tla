------------------------------ MODULE MCReport ------------------------------
EXTENDS Report

\* A component with up to two properties, formalized by its rule r, by the
\* structural invariant i, or by both, and the structural invariants.  Of a
\* result with other calls beside it, q may be unanswered, or skipped and mapped.
Generated(skipped, rules) == [generated |-> TRUE, skipped |-> skipped, rules |-> rules]
GivenUp == [generated |-> FALSE, skipped |-> {}, rules |-> [t \in {} |-> {}]]

MCComponent ==
  {[name |-> "c", file |-> "c.spec", link |-> TRUE, props |-> <<"p", "q">>, result |-> r] :
     r \in {Generated({}, [t \in {"p", "q"} |-> IF t = "p" THEN {"r"} ELSE {"i"}]),
            Generated({}, [t \in {"p", "q"} |-> IF t = "p" THEN {"r", "i"} ELSE {"r"}]),
            Generated({"q"}, [t \in {"p"} |-> {"r"}]),
            Generated({}, [t \in {"p"} |-> {"r"}]),
            Generated({"q"}, [t \in {"p", "q"} |-> {"r"}]),
            GivenUp}}
MCInvariants ==
  [name |-> "Structural Invariants", file |-> "invariants.spec", link |-> TRUE, props |-> <<"i">>,
   result |-> Generated({}, [t \in {"i"} |-> {"i"}])]

\* With a conversation, two properties of a component may share their title.
MCRefined ==
  {<<[name |-> "c", file |-> "c.spec", link |-> TRUE, props |-> <<"p", "p">>,
      result |-> Generated({}, [t \in {"p"} |-> {"r"}])], MCInvariants>>}

MCInputs == {<<c, MCInvariants>> : c \in MCComponent} \cup MCRefined

Outcomes == {"VERIFIED", "VIOLATED", "TIMEOUT"}

\* A component's run checks its own rule and may check what it imports.
MCRunsOf(input) ==
  LET inv == {[rule |-> "i", file |-> "invariants.spec", status |-> s] : s \in Outcomes}
      own == {[rule |-> "r", file |-> f, status |-> s] : f \in {"c.spec", ""}, s \in Outcomes}
  IN  SeqOf(IF input.name = "c" THEN own \cup inv ELSE inv, 2)

\* One group, one each, one left out, one twice, one unknown, none.
MCGroupings(keys) ==
  LET all == SetToSeq(keys)
  IN  IF keys = {} THEN {<<>>}
      ELSE {<<all>>, [i \in DOMAIN all |-> <<all[i]>>], <<Tail(all)>>, <<all, <<Head(all)>>>>,
            <<all, << <<"x", "x">> >> >>, <<>>}
=============================================================================
