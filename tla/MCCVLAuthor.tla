----------------------------- MODULE MCCVLAuthor -----------------------------
(* Small instances of CVLAuthor: two specs, of which "s1" holds both rules.  *)
EXTENDS CVLAuthor, SequencesExt

MCRulesOf == [s \in Spec |-> IF s = "s1" THEN Rule ELSE {"ra"}]

\* What _compute_digest feeds to md5: the text of the spec, then title, colon
\* and justification of every skip in the order of the titles.
MCHash(spec, skipped) ==
  FoldSeq(LAMBDA t, acc : IF skipped[t] = NoReason THEN acc
                          ELSE acc \o <<t, ":", skipped[t]>>,
          <<spec>>, SetToSeq(Title))

Entry(t, rs) == [title |-> t, rules |-> rs]

\* Complete, partial, duplicated, blank and unknown mappings.
MCMappings ==
  { <<>>, <<Entry("t1", {"ra"})>>,
    <<Entry("t1", {"ra"}), Entry("t2", Rule)>>,
    <<Entry("t1", {"ra"}), Entry("t2", {})>>,
    <<Entry("t1", {"ra"}), Entry("t1", Rule)>>,
    <<Entry("t2", {"ra"}), Entry(UnknownTitle, {"ra"})>> }

\* For a batch of one title.
MCMappings1 ==
  { <<>>, <<Entry("t1", {"ra"})>>, <<Entry("t1", {})>>, <<Entry(UnknownTitle, {"ra"})>> }
=============================================================================
