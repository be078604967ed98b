------------------------------ MODULE CVLAuthor ------------------------------
(***************************************************************************)
(* One batch of properties from an empty draft to a spec on disk: the tools *)
(* of the CVL author agent (composer/spec/source/author.py, prover.py,      *)
(* composer/spec/cvl_generation.py, composer/cvl/tools.py) and the code     *)
(* that runs the agent, keeps its last draft, caches and writes its result  *)
(* (run_cvl_generator, generate_all_component_cvl).                         *)
(*                                                                          *)
(* The agent works in super-steps. In one of them the model sends a message *)
(* with up to MaxCalls tool calls; every tool reads the checkpoint `st' of  *)
(* the previous super-step, and the updates they return are merged, in call *)
(* order, by the reducers of the state's channels. `next' is the merge of   *)
(* the updates returned so far in this super-step.                          *)
(***************************************************************************)
EXTENDS CVLGeneration, FiniteSets

CONSTANTS
  RulesOf,       \* Spec -> the rules the prover checks when no filter is given
  MappingList,   \* the property_rules arguments the agent may submit
  NoSubmission,  \* the judge has accepted nothing yet
  NoRun,         \* no run of the prover yet
  NoResult,      \* nothing cached, nothing written
  MaxCalls,      \* tool calls in one message
  MaxTurns,      \* super-steps with tool calls before the recursion limit
  MaxRuns        \* times the program is started on this batch

ASSUME AuthorAssumption ==
  /\ RulesOf \in [Spec -> SUBSET Rule]
  /\ MappingList \subseteq Seq(Mapping)
  /\ NoSubmission \notin Submission
  /\ MaxCalls \in Nat \ {0}
  /\ MaxTurns \in Nat \ {0}
  /\ MaxRuns \in Nat \ {0}

\* A run of the prover over every rule whose failures were all expected: what
\* was submitted, the rules that failed, the rules then expected to fail.
Run == [spec : Spec, skipped : Skips, failing : SUBSET Rule, expected : SUBSET Rule]

\* What a prover link leads to: the spec of the run, and whether it was full.
Link == [spec : Spec, full : BOOLEAN]

Open     == [kind |-> "open",    property_rules |-> << >>]
GivenUp  == [kind |-> "gave_up", property_rules |-> << >>]
Published(rules) == [kind |-> "published", property_rules |-> rules]
Outcome  == {Open, GivenUp} \cup {Published(rules) : rules \in MappingList}

\* GeneratedCVL: what is cached and written.
GeneratedCVL == [cvl : Spec, skipped : Skips, property_rules : MappingList,
                 final_link : Link \cup {NoRun}]

ASSUME SentinelAssumption2 ==
  /\ NoRun \notin Run
  /\ NoRun \notin Link
  /\ NoResult \notin GeneratedCVL

\* SourceCVLGenerationState, its result / failed / property_rules channels as
\* one `outcome'. The last two fields are no channels of the program: they
\* record, for the properties, the last submission the judge accepted and the
\* last unfiltered run of the prover with no unexpected failure.
AuthorState ==
  [curr_spec   : Spec \cup {NoSpec},
   skipped     : Skips,
   validations : [Key -> Digest \cup {NoStamp}],
   rule_skips  : SUBSET Rule,
   prover_link : Link \cup {NoRun},
   outcome     : Outcome,
   judged      : Submission \cup {NoSubmission},
   verified    : Run \cup {NoRun}]

\* The channels without a reducer: one super-step may write each of them once.
LastValue == {"curr_spec", "prover_link", "result"}

Phase == {"starting", "authoring", "returned", "raised", "assembled", "cached",
          "done", "gave_up", "failed", "killed"}
Final == {"done", "gave_up", "failed", "killed"}

VARIABLES
  st,          \* the checkpoint every tool of the super-step reads
  next,        \* st with the updates of this super-step merged so far
  wrote,       \* LastValue channels written in this super-step
  clash,       \* one of them was written twice
  calls,       \* calls made in this super-step
  turns,       \* super-steps taken in this run of the agent
  phase,       \* where run_cvl_generator and its callers are
  lastAttempt, \* the cached draft of the last run of the agent (store)
  cache,       \* the cached GeneratedCVL of the batch (store)
  written,     \* the spec and its companions on disk
  runs         \* times the program was started

agent == <<st, next, wrote, clash, calls, turns>>
store == <<lastAttempt, cache, written>>
vars  == <<agent, phase, store, runs>>

FreshState ==
  [curr_spec   |-> NoSpec,
   skipped     |-> [t \in Title |-> NoReason],
   validations |-> [k \in Key |-> NoStamp],
   rule_skips  |-> {},
   prover_link |-> NoRun,
   outcome     |-> Open,
   judged      |-> NoSubmission,
   verified    |-> NoRun]

Required == {"feedback", "prover"}

Init ==
  /\ st = FreshState /\ next = FreshState
  /\ wrote = {} /\ clash = FALSE /\ calls = 0 /\ turns = 0
  /\ phase = "starting"
  /\ lastAttempt = NoSpec /\ cache = NoResult /\ written = NoResult
  /\ runs = 1

-----------------------------------------------------------------------------
(* The tools. Each is one call of the current message.                      *)

Call ==
  /\ phase = "authoring"
  /\ calls < MaxCalls
  /\ calls' = calls + 1
  /\ UNCHANGED <<st, turns, phase, store, runs>>

\* A write to a channel without a reducer.
Overwrite(channel) ==
  /\ wrote' = wrote \cup {channel}
  /\ clash' = (clash \/ channel \in wrote)

\* A tool that answers with a message only.
Reply == UNCHANGED <<next, wrote, clash>>

\* put_cvl, put_cvl_raw: the text replaces the draft if its syntax is right.
PutCVL ==
  /\ Call
  /\ \/ Reply
     \/ \E spec \in Spec :
          /\ next' = [next EXCEPT !.curr_spec = spec]
          /\ Overwrite("curr_spec")

\* edit_cvl: as put_cvl, on the checkpoint's text with one span replaced.
EditCVL ==
  /\ Call
  /\ \/ Reply
     \/ /\ st.curr_spec # NoSpec
        /\ \E spec \in Spec :
             /\ next' = [next EXCEPT !.curr_spec = spec]
             /\ Overwrite("curr_spec")

\* feedback_tool: the judge is handed the checkpoint's draft; only a good
\* verdict stamps it.
FeedbackTool ==
  /\ Call
  /\ \/ Reply
     \/ /\ st.curr_spec # NoSpec
        /\ next' = [next EXCEPT
              !.validations = MergeValidation(@, Stamp("feedback", st)),
              !.judged = [spec |-> st.curr_spec, skipped |-> st.skipped]]
        /\ UNCHANGED <<wrote, clash>>

\* record_skip: an unknown title or a blank justification is refused.
RecordSkip ==
  /\ Call
  /\ UNCHANGED <<wrote, clash>>
  /\ \E title \in Title \cup {UnknownTitle}, reason \in Reason \cup {NoReason} :
        next' = IF title \in Title /\ reason # NoReason
                THEN [next EXCEPT !.skipped = MergeSkips(@, [t \in {title} |-> reason])]
                ELSE next

\* unskip_property: an entry with the empty justification.
Unskip ==
  /\ Call
  /\ UNCHANGED <<wrote, clash>>
  /\ \E title \in Title \cup {UnknownTitle} :
        next' = IF title \in Title
                THEN [next EXCEPT !.skipped = MergeSkips(@, [t \in {title} |-> NoReason])]
                ELSE next

\* The rules a run of the prover checks: all, unless the filter names some. A
\* filter with a name the spec does not have makes the prover fail.
Checked(spec, filter) == IF filter = {} THEN RulesOf[spec] ELSE filter

\* verify_spec stamps when no `rules' argument was given, not even an empty
\* one, and every rule it ran is verified or expected to fail.
StampsFilteredRun(given, failing, rule_skips) ==  \* mutant: a filtered run counts
  failing \subseteq rule_skips
StampsRun(given, failing, rule_skips) ==
  ~given /\ failing \subseteq rule_skips

\* The update of a run that has left a report: its link, and the stamp if it
\* earned one and the report was not cut down to a summary.
ReportRun(given, filter, failing, summarized) ==
  next' = [next EXCEPT
    !.prover_link = [spec |-> st.curr_spec, full |-> filter = {}],
    !.validations = IF ~summarized /\ StampsRun(given, failing, st.rule_skips)
                    THEN MergeValidation(@, Stamp("prover", st)) ELSE @,
    !.verified    = IF ~summarized /\ ~given /\ failing \subseteq st.rule_skips
                    THEN [spec |-> st.curr_spec, skipped |-> st.skipped,
                          failing |-> failing, expected |-> st.rule_skips]
                    ELSE @]

\* verify_spec: no report (no spec yet, the prover failed or left nothing to
\* parse); a summarised one when too many results failed; a full one.
VerifySpec ==
  /\ Call
  /\ \/ Reply
     \/ /\ st.curr_spec # NoSpec
        /\ \E given \in BOOLEAN :
           \E filter \in IF given THEN SUBSET RulesOf[st.curr_spec] ELSE {{}} :
           \E failing \in SUBSET Checked(st.curr_spec, filter) :
           \E summarized \in {FALSE, failing # {}} :
             ReportRun(given, filter, failing, summarized)
        /\ Overwrite("prover_link")

\* expect_rule_failure and expect_rule_passage, through _merge_rule_skips.
ExpectRuleFailure ==
  /\ Call
  /\ UNCHANGED <<wrote, clash>>
  /\ \E rule \in Rule : next' = [next EXCEPT !.rule_skips = @ \cup {rule}]

ExpectRulePassage ==
  /\ Call
  /\ UNCHANGED <<wrote, clash>>
  /\ \E rule \in Rule : next' = [next EXCEPT !.rule_skips = @ \ {rule}]

\* result: accepted when the checkpoint passes both checks.
PublishResult ==
  /\ Call
  /\ \E rules \in MappingList :
        IF CheckCompletion(st, Required) /\ ValidatePropertyRules(rules, st.skipped)
        THEN /\ next' = [next EXCEPT !.outcome = Published(rules)]
             /\ Overwrite("result")
        ELSE Reply

GiveUp ==
  /\ Call
  /\ next' = [next EXCEPT !.outcome = GivenUp]
  /\ Overwrite("result")

-----------------------------------------------------------------------------
(* The graph that runs the agent.                                           *)

\* A new super-step starts from the checkpoint.
ResetStep ==
  /\ wrote' = {}
  /\ clash' = FALSE
  /\ calls' = 0

\* Every super-step counts towards the recursion limit.
StepsNotCounted == turns  \* mutant: the count is lost between super-steps
StepsTaken == turns + 1

\* The super-step ends: its updates become the checkpoint. The graph stops
\* when the output key is set, and raises at the recursion limit.
EndStep ==
  /\ phase = "authoring"
  /\ calls > 0
  /\ ~clash
  /\ st' = next
  /\ turns' = StepsTaken
  /\ phase' = IF next.outcome # Open THEN "returned"
              ELSE IF StepsTaken = MaxTurns THEN "raised" ELSE "authoring"
  /\ ResetStep
  /\ UNCHANGED <<next, store, runs>>

\* The super-step is abandoned, its updates are lost and the checkpoint stays.
Abandon ==
  /\ phase = "authoring"
  /\ next' = st
  /\ phase' = "raised"
  /\ ResetStep
  /\ UNCHANGED <<st, turns, store, runs>>

\* Two updates of a channel without a reducer: InvalidUpdateError.
ClashStep == clash /\ Abandon

\* An exception of a tool or of the language model, at any moment.
RaiseStep == Abandon

\* The draft a later run is offered: the checkpoint's, if it has one.
DraftUnchecked == st.curr_spec  \* mutant: no test for None
DraftOfFailure ==  \* mutant: only an exception keeps the draft
  IF phase = "raised" /\ st.curr_spec # NoSpec THEN st.curr_spec ELSE lastAttempt
DraftToKeep == IF st.curr_spec # NoSpec THEN st.curr_spec ELSE lastAttempt

\* run_cvl_generator's finally clause, on the way out with a result or with an
\* exception.
SaveLastAttempt ==
  /\ phase \in {"returned", "raised"}
  /\ lastAttempt' = DraftToKeep
  /\ phase' = IF phase = "raised" THEN "failed"
              ELSE IF st.outcome = GivenUp THEN "gave_up" ELSE "assembled"
  /\ UNCHANGED <<agent, cache, written, runs>>

-----------------------------------------------------------------------------
(* The pipeline around it.                                                  *)

\* batch_cvl_generation's result, from the final state of the agent.
Generated(s) ==
  [cvl |-> s.curr_spec, skipped |-> s.skipped,
   property_rules |-> s.outcome.property_rules, final_link |-> s.prover_link]

\* The agent starts from an empty draft; a cached result replaces the agent.
StartAgent ==
  /\ phase = "starting"
  /\ cache = NoResult
  /\ phase' = "authoring"
  /\ st' = FreshState /\ next' = FreshState /\ turns' = 0
  /\ ResetStep
  /\ UNCHANGED <<store, runs>>

CacheHit ==
  /\ phase = "starting"
  /\ cache # NoResult
  /\ phase' = "cached"
  /\ UNCHANGED <<agent, store, runs>>

\* Only a GeneratedCVL is cached, and before it is written.
CachePutAndReturn ==  \* mutant: the caller returns once the result is cached
  /\ phase = "assembled"
  /\ cache' = Generated(st)
  /\ phase' = "done"
  /\ UNCHANGED <<agent, lastAttempt, written, runs>>
CachePut ==
  /\ phase = "assembled"
  /\ cache' = Generated(st)
  /\ phase' = "cached"
  /\ UNCHANGED <<agent, lastAttempt, written, runs>>

\* write_generated_spec.
WriteSpec ==
  /\ phase = "cached"
  /\ written' = cache
  /\ phase' = "done"
  /\ UNCHANGED <<agent, lastAttempt, cache, runs>>

\* The process dies: nothing is saved. A later start runs the batch again.
Kill ==
  /\ phase \notin Final
  /\ phase' = "killed"
  /\ UNCHANGED <<agent, store, runs>>

Rerun ==
  /\ phase \in Final
  /\ runs < MaxRuns
  /\ runs' = runs + 1
  /\ phase' = "starting"
  /\ UNCHANGED <<agent, store>>

Finished ==
  /\ phase \in Final
  /\ runs = MaxRuns
  /\ UNCHANGED vars

-----------------------------------------------------------------------------
ToolCall ==
  \/ PutCVL \/ EditCVL \/ FeedbackTool \/ RecordSkip \/ Unskip \/ VerifySpec
  \/ ExpectRuleFailure \/ ExpectRulePassage \/ PublishResult \/ GiveUp

Pipeline == StartAgent \/ CacheHit \/ SaveLastAttempt \/ CachePut \/ WriteSpec

Next ==
  \/ ToolCall \/ EndStep \/ ClashStep \/ RaiseStep
  \/ Pipeline
  \/ Kill \/ Rerun \/ Finished

\* The tools answer, the graph goes on to its next super-step and the callers
\* go on after it; nobody has to kill the process or to start it again.
Progress == ToolCall \/ EndStep \/ ClashStep \/ Pipeline

AuthorSpec == Init /\ [][Next]_vars
FairAuthorSpec == AuthorSpec /\ WF_vars(Progress)

-----------------------------------------------------------------------------
(* Properties                                                               *)

TypeOK ==
  /\ st \in AuthorState /\ next \in AuthorState
  /\ wrote \subseteq LastValue /\ clash \in BOOLEAN
  /\ calls \in 0..MaxCalls /\ turns \in 0..MaxTurns
  /\ phase \in Phase
  /\ lastAttempt \in Spec \cup {NoSpec}
  /\ cache \in GeneratedCVL \cup {NoResult}
  /\ written \in GeneratedCVL \cup {NoResult}
  /\ runs \in 1..MaxRuns

Draft(s) == [spec |-> s.curr_spec, skipped |-> s.skipped]
ProvedDraft(s) == IF s.verified = NoRun THEN NoSubmission
                  ELSE [spec |-> s.verified.spec, skipped |-> s.verified.skipped]
IsPublished(s) == s.outcome.kind = "published"

\* A stamp is never anything but the digest of what was really accepted: the
\* feedback stamp that of the last submission the judge called good, the
\* prover stamp that of the last unfiltered run without an unexpected failure.
StampsGenuineIn(s) ==
  /\ s.validations["feedback"] # NoStamp =>
        /\ s.judged # NoSubmission
        /\ s.validations["feedback"] = Hash(s.judged.spec, s.judged.skipped)
  /\ s.validations["prover"] # NoStamp =>
        /\ s.verified # NoRun
        /\ s.validations["prover"] = Hash(s.verified.spec, s.verified.skipped)
StampsGenuine == StampsGenuineIn(st)

\* The judge and the prover both accepted exactly this spec with these skips.
AcceptedDraft(s) == s.judged = Draft(s) /\ ProvedDraft(s) = Draft(s)

\* Every property of the batch is either skipped or named by one entry of the
\* mapping, with a rule; no property is both.
CoversBatch(rules, skipped) ==
  \A t \in Title :
     LET entries == {i \in 1..Len(rules) : rules[i].title = t}
     IN IF t \in SkippedTitles(skipped) THEN entries = {}
        ELSE \E i \in entries : entries = {i} /\ rules[i].rules # {}

\* The spec and the skips of a published result are those that the judge and
\* the prover accepted: nothing was changed in between. It holds of messages of
\* one call, of which ImplementsGate implies it, and not of messages of several.
PublishedWasAccepted == IsPublished(st) => AcceptedDraft(st)

\* A published result accounts for every property of its batch, so that the
\* report finds each one either skipped or mapped. Same proviso.
PublishedCoversBatch ==
  IsPublished(st) => CoversBatch(st.outcome.property_rules, st.skipped)

\* Whatever its message holds, a result is published as it was accepted where
\* the message leaves it alone: the judge and the prover accepted the draft if
\* no other call edits it, and the mapping covers the batch if no other call
\* changes the skips.
PublishedUnlessEdited ==
  [][~IsPublished(st) /\ IsPublished(st') =>
       /\ Draft(st') = Draft(st) => AcceptedDraft(st')
       /\ st'.skipped = st.skipped =>
            CoversBatch(st'.outcome.property_rules, st'.skipped)]_vars

\* Every rule that failed in the run that earned the prover stamp is still
\* marked as expected to fail when the result is published. The code does not
\* guarantee it: rule_skips is not part of the digest.
PublishedRulesAccounted ==
  IsPublished(st) => st.verified # NoRun /\ st.verified.failing \subseteq st.rule_skips

\* Whatever else its message does, `result' is accepted only on a checkpoint
\* whose draft was accepted by both judges and is covered by the mapping.
PublishGated ==
  [][(~IsPublished(next) /\ IsPublished(next')) =>
        /\ AcceptedDraft(st)
        /\ CoversBatch(next'.outcome.property_rules, st.skipped)]_vars

\* Calls of one message add up: a call decides about one title, one stamp and
\* one rule at most and leaves the decisions of the other calls as they are.
CallsAddUp ==
  [][calls' = calls + 1 =>
       /\ Cardinality({t \in Title : next'.skipped[t] # next.skipped[t]}) <= 1
       /\ Cardinality({k \in Key : next'.validations[k] # next.validations[k]}) <= 1
       /\ Cardinality({r \in Rule : (r \in next'.rule_skips) # (r \in next.rule_skips)}) <= 1]_vars

\* Store, disk and agent agree across crashes and restarts: what is cached is
\* the result of a published run whose draft was saved before, and what is on
\* disk is what is cached, so that a cache hit reproduces it.
StoreAgrees ==
  /\ cache # NoResult =>
        /\ IsPublished(st)
        /\ cache = Generated(st)
        /\ lastAttempt = cache.cvl
  /\ written # NoResult => written = cache

\* A result is final and a draft is never forgotten: a later run neither
\* replaces a cached result nor loses the draft of an earlier run.
StoreMonotone ==
  [][/\ cache # NoResult => cache' = cache
     /\ lastAttempt # NoSpec => lastAttempt' # NoSpec]_vars

\* A run of the agent ends, whatever the agent does: with a result, by giving
\* up, or at the recursion limit.
RunEnds == (phase = "authoring") ~> (phase \in Final)

\* Unless the process dies, a published result reaches the disk.
ResultWritten ==
  (phase = "returned" /\ IsPublished(st)) ~> (written # NoResult \/ phase = "killed")

\* The author implements the abstract gate: a draft that changes freely, two
\* independent judgements, and an acceptance that needs both on the draft as it
\* is before the message; with one call per message also as it is after it. A
\* result counts as published once cached: what a crash loses before that is
\* authored again.
Gate == INSTANCE SpecGate WITH
  NoSkips <- [t \in Title |-> NoReason],
  OneCall <- MaxCalls = 1,
  draft  <- Draft(st),
  judged <- st.judged,
  proved <- ProvedDraft(st),
  status <- IF cache # NoResult THEN "published"
            ELSE IF IsPublished(st) THEN "accepted"
            ELSE IF st.outcome = GivenUp THEN "gave_up" ELSE "open"
ImplementsGate == Gate!GateSpec
=============================================================================
