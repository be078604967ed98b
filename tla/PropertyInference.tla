------------------------- MODULE PropertyInference -------------------------
(***************************************************************************)
(* Property extraction for the components of a contract                    *)
(* (spec/prop_inference.py): rounds of an agent, each with a cache entry   *)
(* of its own, their concatenation, and in an interactive run the list the *)
(* user settles on in a refinement conversation (module Conversation).     *)
(***************************************************************************)
EXTENDS ResultCache

CONSTANTS
  Components,     \* indices of the components of the main contract
  Drafts,         \* property lists (of titles) one round may deliver
  Settled,        \* property lists a conversation may end with
  MaxRounds       \* --max-bug-rounds

TitlesOf(l) == {l[i] : i \in DOMAIN l}

ASSUME InferenceAssumption ==
  /\ MaxRounds \in Nat /\ IsFiniteSet(Components)
  /\ \A l \in Drafts \cup Settled : l \in Seq(TitlesOf(l))

VARIABLES
  comp,           \* the inference of each component
  interactive     \* whether this run has a refinement context

\* prev is the concatenation of prev_rounds: last_round_convo is None iff it
\* is empty, since only a round with properties is appended.
NotStarted == [at |-> "idle", round |-> 0, prev |-> <<>>, props |-> <<>>]

BugAnalysisKey(c) == Child(<<"properties", c>>, IF interactive THEN "bug_analysis|refine" ELSE "bug_analysis")
AgentResultKey(c) == Child(BugAnalysisKey(c), "agent")
AgentRoundKey(c, i) == Child(AgentResultKey(c), i)

Distinct(l) == Cardinality(TitlesOf(l)) = Len(l)

\* Mutant: earlier rounds are not looked at.
UniqueInRound(prev, items) == Distinct(items)

UniqueTitles(prev, items) == Distinct(items) /\ TitlesOf(items) \cap TitlesOf(prev) = {}

Hit(c) == Cached(BugAnalysisKey(c)) \/ Cached(AgentResultKey(c))

\* The look-ups of run_property_inference and _run_bug_analysis_inner.
ReuseAnalysis(c) ==
  /\ comp[c].at = "idle" /\ Hit(c)
  /\ comp' = [comp EXCEPT ![c] =
       IF Cached(BugAnalysisKey(c)) THEN [@ EXCEPT !.at = "done", !.props = CacheGet(BugAnalysisKey(c))]
       ELSE [@ EXCEPT !.at = "extracted", !.prev = CacheGet(AgentResultKey(c))]]
  /\ UNCHANGED durableVars

InRounds(c) == comp[c].at = "rounds" \/ (comp[c].at = "idle" /\ ~Hit(c))

\* One iteration of the loop after its round returned items: without any, the
\* assertion on last_round_convo is checked.
AfterRound(r, items) ==
  IF items # <<>> THEN [r EXCEPT !.at = "rounds", !.round = @ + 1, !.prev = @ \o items]
  ELSE [r EXCEPT !.at = IF r.prev = <<>> THEN "asserted" ELSE "ending"]

RunBugRound(c) ==
  /\ InRounds(c) /\ comp[c].round < MaxRounds
  /\ LET k == AgentRoundKey(c, comp[c].round)
     IN  IF Cached(k)
         THEN comp' = [comp EXCEPT ![c] = AfterRound(@, CacheGet(k))] /\ UNCHANGED cache
         ELSE \E items \in Drafts :
                /\ UniqueTitles(comp[c].prev, items)
                /\ CachePut(k, items)
                /\ comp' = [comp EXCEPT ![c] = AfterRound(@, items)]
  /\ UNCHANGED files

\* The agent's result: the properties of all its rounds.
EndRounds(c) ==
  /\ \/ comp[c].at = "ending"
     \/ InRounds(c) /\ comp[c].round = MaxRounds
  /\ IF comp[c].prev = <<>>
     THEN comp' = [comp EXCEPT ![c].at = "asserted"] /\ UNCHANGED cache
     ELSE /\ CachePut(AgentResultKey(c), comp[c].prev)
          /\ comp' = [comp EXCEPT ![c].at = "extracted"]
  /\ UNCHANGED files

\* The list of the run: the agent's, or the one the conversation ends with.
\* The conversation may set any list: nothing validates it.
SettleProperties(c) ==
  /\ comp[c].at = "extracted"
  /\ \E props \in (IF interactive THEN Settled \cup {comp[c].prev} ELSE {comp[c].prev}) :
       /\ CachePut(BugAnalysisKey(c), props)
       /\ comp' = [comp EXCEPT ![c].at = "done", ![c].props = props]
  /\ UNCHANGED files

\* An agent or a conversation raises.
InferenceRaises(c) ==
  /\ InRounds(c) \/ comp[c].at = "extracted"
  /\ comp' = [comp EXCEPT ![c].at = "raised"]
  /\ UNCHANGED durableVars

Infer(c) ==
  \/ ReuseAnalysis(c) \/ RunBugRound(c) \/ EndRounds(c) \/ SettleProperties(c)
  \/ InferenceRaises(c)
=============================================================================
