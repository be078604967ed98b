---------------------------- MODULE CVLGeneration ----------------------------
(***************************************************************************)
(* What every CVL author shares (composer/spec/cvl_generation.py): the      *)
(* draft (a spec and the skip declarations), the digest that stamps it, the *)
(* reducers that merge tool updates into it, and the two checks a result    *)
(* has to pass.                                                             *)
(*                                                                          *)
(* A spec, a title, a rule name and a justification are opaque values: the  *)
(* code compares, stores and hashes them, and does nothing else with them.  *)
(* The list of SkippedProperty records, which _merge_skips keeps sorted and *)
(* free of duplicates, is the function from titles to justifications;       *)
(* NoReason is the empty justification, that is "not skipped".              *)
(***************************************************************************)
EXTENDS Naturals, Sequences

CONSTANTS
  Spec,          \* CVL texts the syntax checker accepts
  Title,         \* property titles of the batch
  Reason,        \* non-blank justifications
  Rule,          \* rule and invariant names
  NoSpec,        \* curr_spec = None
  NoReason,      \* the empty justification
  NoStamp,       \* the key is absent from validations
  UnknownTitle,  \* any title that is not one of the batch's
  Hash(_, _)     \* md5 of the spec followed by the "title:reason" entries

Skips  == [Title -> Reason \cup {NoReason}]
Key    == {"feedback", "prover"}
Digest == {Hash(spec, skipped) : spec \in Spec, skipped \in Skips}

\* What the judge and the prover are handed: a spec and the skips it comes with.
Submission == [spec : Spec, skipped : Skips]

\* One PropertyRuleMapping: `rules' holds its non-blank rule names.
Mapping == [title : Title \cup {UnknownTitle}, rules : SUBSET Rule]

ASSUME SentinelAssumption ==
  /\ NoSpec \notin Spec
  /\ NoReason \notin Reason
  /\ NoStamp \notin Digest
  /\ UnknownTitle \notin Title

\* Two submissions of one run never share a digest: md5 does not collide on
\* them, and no spec or justification in play ends in another entry's text.
ASSUME HashAssumption ==
  \A s1, s2 \in Spec, k1, k2 \in Skips :
     Hash(s1, k1) = Hash(s2, k2) => s1 = s2 /\ k1 = k2

-----------------------------------------------------------------------------
\* _merge_skips: an entry replaces the earlier one of its title; an entry
\* with an empty justification leaves the title unskipped.
MergeSkipsForgets(left, right) ==  \* mutant: the update replaces the whole list
  [t \in Title |-> IF t \in DOMAIN right THEN right[t] ELSE NoReason]
MergeSkips(left, right) ==
  [t \in Title |-> IF t \in DOMAIN right THEN right[t] ELSE left[t]]

\* merge_validation: the stamps of the update win.
MergeValidation(left, right) ==
  [k \in Key |-> IF k \in DOMAIN right THEN right[k] ELSE left[k]]

SkippedTitles(skipped) == {t \in Title : skipped[t] # NoReason}

\* _compute_digest covers the spec text and the skips, and nothing else.
ComputeDigestOfSpec(spec, skipped) ==  \* mutant: the skips are left out
  Hash(spec, [t \in Title |-> NoReason])
ComputeDigest(spec, skipped) == Hash(spec, skipped)

\* make_validation_stamper(key)(state): the update that stamps the state's draft.
Stamp(key, s) == [k \in {key} |-> ComputeDigest(s.curr_spec, s.skipped)]

\* check_completion: every required key carries the stamp of the current draft.
CheckCompletionPresence(s, required) ==  \* mutant: a stale stamp will do
  s.curr_spec # NoSpec /\ \A key \in required : s.validations[key] # NoStamp
CheckCompletion(s, required) ==
  /\ s.curr_spec # NoSpec
  /\ \A key \in required :
        s.validations[key] = ComputeDigest(s.curr_spec, s.skipped)

\* validate_property_rules: no error of the loop over the entries, and none of
\* the loop over the titles. `rules' is the submitted list of Mapping entries.
ValidateEntriesOnly(rules, skipped) ==  \* mutant: the loop over the titles is gone
  \A i \in 1..Len(rules) :
     /\ rules[i].title \in Title
     /\ \A j \in 1..(i - 1) : rules[j].title # rules[i].title
     /\ rules[i].title \notin SkippedTitles(skipped)
     /\ rules[i].rules # {}
ValidatePropertyRules(rules, skipped) ==
  /\ \A i \in 1..Len(rules) :
        /\ rules[i].title \in Title
        /\ \A j \in 1..(i - 1) : rules[j].title # rules[i].title
        /\ rules[i].title \notin SkippedTitles(skipped)
        /\ rules[i].rules # {}
  /\ \A t \in Title \ SkippedTitles(skipped) :
        \E i \in 1..Len(rules) : rules[i].title = t
=============================================================================
