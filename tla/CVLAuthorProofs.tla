--------------------------- MODULE CVLAuthorProofs ---------------------------
(***************************************************************************)
(* Theorems about CVLAuthor, for every value of its constants.              *)
(***************************************************************************)
EXTENDS CVLAuthor, FiniteSetTheorems, TLAPS

-----------------------------------------------------------------------------
(* The operators the state is built with.                                   *)

\* The merge of a skip declaration or of its removal is a table of skips.
LEMMA MergeSkipsType ==
  ASSUME NEW left \in Skips, NEW title \in Title, NEW reason \in Reason \cup {NoReason}
  PROVE  MergeSkips(left, [t \in {title} |-> reason]) \in Skips
  BY DEF MergeSkips, Skips

\* Stamping one key keeps the other stamp.
LEMMA StampEffect ==
  ASSUME NEW left \in [Key -> Digest \cup {NoStamp}], NEW key \in Key,
         NEW s, s.curr_spec \in Spec, s.skipped \in Skips
  PROVE  LET merged == MergeValidation(left, Stamp(key, s))
         IN /\ merged \in [Key -> Digest \cup {NoStamp}]
            /\ merged[key] = Hash(s.curr_spec, s.skipped)
            /\ \A k \in Key \ {key} : merged[k] = left[k]
  <1>1. Hash(s.curr_spec, s.skipped) \in Digest
    BY DEF Digest
  <1>2. QED
    BY <1>1 DEF MergeValidation, Stamp, ComputeDigest

LEMMA FreshStateType == FreshState \in AuthorState
  BY DEF FreshState, AuthorState, Skips, Outcome

-----------------------------------------------------------------------------
(* Type correctness.                                                        *)

\* A call of verify_spec that changes something has left a report.
LEMMA VerifyEffect ==
  ASSUME VerifySpec, ~Reply, st.curr_spec \in Spec
  PROVE  \E given \in BOOLEAN, filter \in SUBSET Rule, failing \in SUBSET Rule,
            summarized \in BOOLEAN : ReportRun(given, filter, failing, summarized)
  <1>1. PICK given \in BOOLEAN :
          \E filter \in IF given THEN SUBSET RulesOf[st.curr_spec] ELSE {{}} :
          \E failing \in SUBSET Checked(st.curr_spec, filter) :
          \E summarized \in {FALSE, failing # {}} :
             ReportRun(given, filter, failing, summarized)
    BY DEF VerifySpec
  <1>2. RulesOf[st.curr_spec] \subseteq Rule
    BY AuthorAssumption
  <1>3. \A filter \in IF given THEN SUBSET RulesOf[st.curr_spec] ELSE {{}} :
          filter \in SUBSET Rule /\ Checked(st.curr_spec, filter) \subseteq Rule
    BY <1>2 DEF Checked
  <1>4. PICK filter \in IF given THEN SUBSET RulesOf[st.curr_spec] ELSE {{}} :
          \E failing \in SUBSET Checked(st.curr_spec, filter) :
          \E summarized \in {FALSE, failing # {}} :
             ReportRun(given, filter, failing, summarized)
    BY <1>1
  <1>5. PICK failing \in SUBSET Checked(st.curr_spec, filter) :
          \E summarized \in {FALSE, failing # {}} :
             ReportRun(given, filter, failing, summarized)
    BY <1>4
  <1>6. PICK summarized \in {FALSE, failing # {}} :
             ReportRun(given, filter, failing, summarized)
    BY <1>5
  <1>7. filter \in SUBSET Rule /\ failing \in SUBSET Rule
    BY <1>3
  <1>8. summarized \in BOOLEAN
    OBVIOUS
  <1>9. QED
    BY <1>6, <1>7, <1>8

\* Every tool leaves a well-typed state behind.
LEMMA ToolType ==
  ASSUME TypeOK, ToolCall
  PROVE  next' \in AuthorState /\ wrote' \subseteq LastValue /\ clash' \in BOOLEAN
  <1> USE DEF TypeOK, AuthorState
  <1>1. CASE PutCVL
    BY <1>1 DEF PutCVL, Reply, Overwrite, LastValue
  <1>2. CASE EditCVL
    BY <1>2 DEF EditCVL, Reply, Overwrite, LastValue
  <1>3. CASE FeedbackTool
    <2>1. CASE Reply
      BY <2>1 DEF Reply
    <2>2. CASE ~Reply
      <3>1. st.curr_spec \in Spec /\ st.skipped \in Skips
        BY <1>3, <2>2 DEF FeedbackTool
      <3>2. MergeValidation(next.validations, Stamp("feedback", st)) \in [Key -> Digest \cup {NoStamp}]
        BY <3>1, StampEffect DEF Key
      <3>3. [spec |-> st.curr_spec, skipped |-> st.skipped] \in Submission
        BY <3>1 DEF Submission
      <3>4. QED
        BY <1>3, <2>2, <3>2, <3>3 DEF FeedbackTool
    <2>3. QED BY <2>1, <2>2
  <1>4. CASE RecordSkip
    <2>1. PICK title \in Title \cup {UnknownTitle}, reason \in Reason \cup {NoReason} :
            next' = IF title \in Title /\ reason # NoReason
                    THEN [next EXCEPT !.skipped = MergeSkips(@, [t \in {title} |-> reason])]
                    ELSE next
      BY <1>4 DEF RecordSkip
    <2>2. CASE title \in Title
      <3>0. next.skipped \in Skips
        OBVIOUS
      <3>1. MergeSkips(next.skipped, [t \in {title} |-> reason]) \in Skips
        BY <2>2, <3>0, MergeSkipsType
      <3>2. QED BY <1>4, <2>1, <3>1 DEF RecordSkip
    <2>3. CASE title \notin Title
      BY <1>4, <2>1, <2>3 DEF RecordSkip
    <2>4. QED BY <2>2, <2>3
  <1>5. CASE Unskip
    <2>1. PICK title \in Title \cup {UnknownTitle} :
            next' = IF title \in Title
                    THEN [next EXCEPT !.skipped = MergeSkips(@, [t \in {title} |-> NoReason])]
                    ELSE next
      BY <1>5 DEF Unskip
    <2>2. CASE title \in Title
      <3>1. MergeSkips(next.skipped, [t \in {title} |-> NoReason]) \in Skips
        BY <2>2, MergeSkipsType
      <3>2. QED BY <1>5, <2>1, <3>1 DEF Unskip
    <2>3. CASE title \notin Title
      BY <1>5, <2>1, <2>3 DEF Unskip
    <2>4. QED BY <2>2, <2>3
  <1>6. CASE VerifySpec
    <2>1. CASE Reply
      BY <2>1 DEF Reply
    <2>2. CASE ~Reply
      <3>1. st.curr_spec \in Spec /\ st.skipped \in Skips
        BY <1>6, <2>2 DEF VerifySpec
      <3>2. PICK given \in BOOLEAN, filter \in SUBSET Rule, failing \in SUBSET Rule,
                 summarized \in BOOLEAN : ReportRun(given, filter, failing, summarized)
        BY <1>6, <2>2, <3>1, VerifyEffect
      <3>3. MergeValidation(next.validations, Stamp("prover", st)) \in [Key -> Digest \cup {NoStamp}]
        BY <3>1, StampEffect DEF Key
      <3>5. [spec |-> st.curr_spec, skipped |-> st.skipped,
             failing |-> failing, expected |-> st.rule_skips] \in Run
        BY <3>1 DEF Run
      <3>6. [spec |-> st.curr_spec, full |-> filter = {}] \in Link
        BY <3>1 DEF Link
      <3> DEFINE stamps == IF ~summarized /\ StampsRun(given, failing, st.rule_skips)
                           THEN MergeValidation(next.validations, Stamp("prover", st))
                           ELSE next.validations
                 run == IF ~summarized /\ ~given /\ failing \subseteq st.rule_skips
                        THEN [spec |-> st.curr_spec, skipped |-> st.skipped,
                              failing |-> failing, expected |-> st.rule_skips]
                        ELSE next.verified
      <3>7. next' \in AuthorState
        <4>1. stamps \in [Key -> Digest \cup {NoStamp}]
          BY <3>3
        <4>2. run \in Run \cup {NoRun}
          BY <3>5
        <4>3. next' = [next EXCEPT !.prover_link = [spec |-> st.curr_spec, full |-> filter = {}],
                                   !.validations = stamps, !.verified = run]
          BY <3>2 DEF ReportRun
        <4> HIDE DEF stamps, run
        <4>4. QED BY <3>6, <4>1, <4>2, <4>3
      <3>8. QED
        BY <1>6, <2>2, <3>7 DEF VerifySpec, Overwrite, LastValue
    <2>3. QED BY <2>1, <2>2
  <1>7. CASE ExpectRuleFailure
    BY <1>7 DEF ExpectRuleFailure
  <1>8. CASE ExpectRulePassage
    BY <1>8 DEF ExpectRulePassage
  <1>9. CASE PublishResult
    <2>1. PICK rules \in MappingList :
            \/ next' = [next EXCEPT !.outcome = Published(rules)] /\ Overwrite("result")
            \/ Reply
      BY <1>9 DEF PublishResult
    <2>2. Published(rules) \in Outcome
      BY DEF Outcome
    <2>3. QED
      BY <2>1, <2>2 DEF Reply, Overwrite, LastValue
  <1>10. CASE GiveUp
    BY <1>10 DEF GiveUp, Overwrite, LastValue, Outcome
  <1>11. QED
    BY <1>1, <1>2, <1>3, <1>4, <1>5, <1>6, <1>7, <1>8, <1>9, <1>10 DEF ToolCall

\* A published state holds a spec: what a message adds never takes it away. The
\* agent returns with an outcome only, and acts before the limit only.
HasSpec ==
  /\ next.curr_spec = NoSpec => st.curr_spec = NoSpec
  /\ IsPublished(next) => next.curr_spec # NoSpec
  /\ IsPublished(st) => st.curr_spec # NoSpec
  /\ phase = "assembled" => IsPublished(st)
  /\ phase = "returned" => st.outcome # Open
  /\ phase = "authoring" => turns < MaxTurns

LEMMA Bounds == MaxCalls \in Nat \ {0} /\ MaxTurns \in Nat \ {0} /\ MaxRuns \in Nat \ {0}
  BY AuthorAssumption

TypeInv == TypeOK /\ HasSpec

LEMMA ResetType ==
  ResetStep => /\ wrote' \subseteq LastValue
               /\ clash' \in BOOLEAN
               /\ calls' \in 0..MaxCalls
  <1> SUFFICES ASSUME ResetStep
               PROVE  wrote' \subseteq LastValue /\ clash' \in BOOLEAN /\ calls' \in 0..MaxCalls
    OBVIOUS
  <1>1. wrote' \subseteq LastValue
    BY DEF ResetStep
  <1>2. clash' \in BOOLEAN
    BY Zenon DEF ResetStep
  <1>3. calls' \in 0..MaxCalls
    BY Bounds DEF ResetStep
  <1>4. QED BY <1>1, <1>2, <1>3

\* The kind of an outcome tells the three kinds apart.
LEMMA OutcomeKind ==
  ASSUME NEW o \in Outcome
  PROVE  /\ o.kind = "published" <=> o # Open /\ o # GivenUp
         /\ o.kind = "published" => o.property_rules \in MappingList
  BY DEF Outcome, Open, GivenUp, Published

\* A tool never takes the spec away, and publishes only what has one.
LEMMA ToolSpec ==
  ASSUME TypeInv, ToolCall
  PROVE  /\ next'.curr_spec = NoSpec => st.curr_spec = NoSpec
         /\ IsPublished(next') => next'.curr_spec # NoSpec
  <1>1. next \in AuthorState /\ st \in AuthorState
    BY DEF TypeInv, TypeOK
  <1> USE DEF TypeInv, HasSpec, AuthorState, IsPublished, Reply
  <1>2. CASE PutCVL
    BY <1>1, <1>2, SentinelAssumption DEF PutCVL
  <1>3. CASE EditCVL
    BY <1>1, <1>3, SentinelAssumption DEF EditCVL
  <1>4. CASE FeedbackTool
    BY <1>1, <1>4 DEF FeedbackTool
  <1>5. CASE RecordSkip
    BY <1>1, <1>5 DEF RecordSkip
  <1>6. CASE Unskip
    BY <1>1, <1>6 DEF Unskip
  <1>7. CASE VerifySpec
    BY <1>1, <1>7 DEF VerifySpec, ReportRun
  <1>8. CASE ExpectRuleFailure
    BY <1>1, <1>8 DEF ExpectRuleFailure
  <1>9. CASE ExpectRulePassage
    BY <1>1, <1>9 DEF ExpectRulePassage
  <1>10. CASE PublishResult
    BY <1>1, <1>10 DEF PublishResult, CheckCompletion
  <1>11. CASE GiveUp
    BY <1>1, <1>11 DEF GiveUp, GivenUp
  <1>12. QED
    BY <1>2, <1>3, <1>4, <1>5, <1>6, <1>7, <1>8, <1>9, <1>10, <1>11 DEF ToolCall

\* Every reachable state is well typed: a stamp is a digest or absent, an
\* outcome carries a submitted mapping, and what is cached or written has a
\* spec (the assertion of batch_cvl_generation).
THEOREM TypeCorrect == AuthorSpec => []TypeInv
  <1>1. Init => TypeInv
    <2> SUFFICES ASSUME Init PROVE TypeInv
      OBVIOUS
    <2>1. TypeOK
      <3>1. clash \in BOOLEAN
        BY Zenon DEF Init
      <3>2. QED
        BY <3>1, FreshStateType, Bounds DEF Init, TypeOK, Phase
    <2>2. HasSpec
      BY Bounds DEF Init, HasSpec, FreshState, IsPublished, Open
    <2>3. QED BY <2>1, <2>2 DEF TypeInv
  <1>2. TypeInv /\ [Next]_vars => TypeInv'
    <2> SUFFICES ASSUME TypeInv, [Next]_vars PROVE TypeInv'
      OBVIOUS
    <2> USE DEF TypeInv
    <2>1. CASE ToolCall
      <3>1. Call
        BY <2>1 DEF ToolCall, PutCVL, EditCVL, FeedbackTool, RecordSkip, Unskip, VerifySpec,
          ExpectRuleFailure, ExpectRulePassage, PublishResult, GiveUp
      <3>2. TypeOK'
        BY <2>1, <3>1, ToolType, Bounds DEF TypeOK, Call, store
      <3>3. HasSpec'
        BY <2>1, <3>1, ToolSpec DEF HasSpec, Call, IsPublished
      <3>4. QED BY <3>2, <3>3
    <2>2. CASE EndStep
      <3>1. TypeOK'
        BY <2>2, ResetType, Bounds DEF EndStep, StepsTaken, TypeOK, HasSpec, Phase, store
      <3>2. HasSpec'
        BY <2>2, Bounds DEF EndStep, StepsTaken, TypeOK, HasSpec, IsPublished
      <3>3. QED BY <3>1, <3>2
    <2>3. CASE Abandon
      <3>1. TypeOK'
        BY <2>3, ResetType DEF Abandon, TypeOK, Phase, store
      <3>2. HasSpec'
        BY <2>3 DEF Abandon, HasSpec, IsPublished
      <3>3. QED BY <3>1, <3>2
    <2>4. CASE StartAgent
      <3>1. TypeOK'
        BY <2>4, FreshStateType, ResetType, Bounds DEF StartAgent, TypeOK, Phase, store
      <3>2. HasSpec'
        BY <2>4, Bounds DEF StartAgent, HasSpec, FreshState, IsPublished, Open
      <3>3. QED BY <3>1, <3>2
    <2>5. CASE CacheHit
      BY <2>5 DEF CacheHit, TypeOK, HasSpec, IsPublished, Phase, agent, store
    <2>6. CASE SaveLastAttempt
      <3>1. st.outcome \in Outcome /\ st.curr_spec \in Spec \cup {NoSpec}
        BY DEF TypeOK, AuthorState
      <3>2. TypeOK'
        BY <2>6, <3>1 DEF SaveLastAttempt, DraftToKeep, TypeOK, Phase, agent
      <3>3. phase' = "assembled" => IsPublished(st)'
        BY <2>6, <3>1, OutcomeKind DEF SaveLastAttempt, HasSpec, IsPublished, agent
      <3>4. HasSpec'
        BY <2>6, <3>3 DEF SaveLastAttempt, HasSpec, IsPublished, agent
      <3>5. QED BY <3>2, <3>4
    <2>7. CASE CachePut
      <3>1. IsPublished(st) /\ st.curr_spec # NoSpec
        BY <2>7 DEF CachePut, HasSpec
      <3>2. Generated(st) \in GeneratedCVL
        BY <3>1, OutcomeKind DEF Generated, GeneratedCVL, TypeOK, AuthorState, IsPublished
      <3>3. TypeOK'
        BY <2>7, <3>2 DEF CachePut, TypeOK, Phase, agent
      <3>4. HasSpec'
        BY <2>7 DEF CachePut, HasSpec, IsPublished, agent
      <3>5. QED BY <3>3, <3>4
    <2>8. CASE WriteSpec
      BY <2>8 DEF WriteSpec, TypeOK, HasSpec, IsPublished, Phase, agent
    <2>9. CASE Kill
      BY <2>9 DEF Kill, TypeOK, HasSpec, IsPublished, Phase, agent, store
    <2>10. CASE Rerun
      BY <2>10, Bounds DEF Rerun, TypeOK, HasSpec, IsPublished, Phase, agent, store
    <2>11. CASE UNCHANGED vars
      BY <2>11 DEF vars, agent, store, TypeOK, HasSpec, IsPublished
    <2>12. QED
      BY <2>1, <2>2, <2>3, <2>4, <2>5, <2>6, <2>7, <2>8, <2>9, <2>10, <2>11
      DEF Next, Pipeline, ClashStep, RaiseStep, Finished
  <1>3. QED BY <1>1, <1>2, PTL DEF AuthorSpec

-----------------------------------------------------------------------------
(* The calls of one message.                                                *)

\* What a step changes in the merged updates lies within one title, one stamp
\* and one rule.
OneTitle == \E title : \A t \in Title \ {title} : next'.skipped[t] = next.skipped[t]
OneStamp == \E key : \A k \in Key \ {key} : next'.validations[k] = next.validations[k]
OneRule  == \E rule : \A r \in Rule \ {rule} :
               (r \in next'.rule_skips) <=> (r \in next.rule_skips)

\* Merging a declaration about one title leaves the other titles as they were.
LEMMA SkipsDecided ==
  ASSUME next \in AuthorState, NEW title \in Title, NEW reason,
         next' = [next EXCEPT !.skipped = MergeSkips(@, [t \in {title} |-> reason])]
  PROVE  OneTitle /\ OneStamp /\ OneRule
  <1>1. /\ next'.skipped = MergeSkips(next.skipped, [t \in {title} |-> reason])
        /\ next'.validations = next.validations
        /\ next'.rule_skips = next.rule_skips
    BY DEF AuthorState
  <1>2. \A t \in Title \ {title} : next'.skipped[t] = next.skipped[t]
    BY <1>1 DEF MergeSkips
  <1>3. OneTitle
    BY <1>2 DEF OneTitle
  <1>4. QED
    BY <1>1, <1>3 DEF OneStamp, OneRule

\* A stamp on the checkpoint's draft leaves the other stamps as they were.
LEMMA StampDecided ==
  ASSUME next \in AuthorState, NEW key \in Key, st.curr_spec \in Spec, st.skipped \in Skips,
         \/ next'.validations = MergeValidation(next.validations, Stamp(key, st))
         \/ next'.validations = next.validations
  PROVE  OneStamp
  <1>1. next.validations \in [Key -> Digest \cup {NoStamp}]
    BY DEF AuthorState
  <1>2. \A k \in Key \ {key} : next'.validations[k] = next.validations[k]
    BY <1>1, StampEffect
  <1>3. QED
    BY <1>2 DEF OneStamp

\* A step that leaves the three channels alone decides nothing.
LEMMA NothingDecided ==
  ASSUME next'.skipped = next.skipped, next'.validations = next.validations,
         next'.rule_skips = next.rule_skips
  PROVE  OneTitle /\ OneStamp /\ OneRule
  BY DEF OneTitle, OneStamp, OneRule

\* Every tool decides about one title, one stamp and one rule at most.
LEMMA ToolDecides ==
  ASSUME TypeOK, ToolCall
  PROVE  OneTitle /\ OneStamp /\ OneRule
  <1>0. next \in AuthorState /\ st \in AuthorState
    BY DEF TypeOK
  <1>1. CASE Reply
    BY <1>1, NothingDecided DEF Reply
  <1>2. CASE PutCVL \/ EditCVL \/ PublishResult \/ GiveUp
    <2>1. /\ next'.skipped = next.skipped /\ next'.validations = next.validations
          /\ next'.rule_skips = next.rule_skips
      BY <1>0, <1>2 DEF PutCVL, EditCVL, PublishResult, GiveUp, Reply, AuthorState
    <2>2. QED BY <2>1, NothingDecided
  <1>3. CASE FeedbackTool /\ ~Reply
    <2>1. /\ st.curr_spec \in Spec /\ st.skipped \in Skips
          /\ next' = [next EXCEPT
                !.validations = MergeValidation(@, Stamp("feedback", st)),
                !.judged = [spec |-> st.curr_spec, skipped |-> st.skipped]]
      BY <1>0, <1>3 DEF FeedbackTool, AuthorState
    <2>2. /\ next'.skipped = next.skipped /\ next'.rule_skips = next.rule_skips
          /\ next'.validations = MergeValidation(next.validations, Stamp("feedback", st))
      BY <1>0, <2>1 DEF AuthorState
    <2>3. OneStamp
      BY <1>0, <2>1, <2>2, StampDecided DEF Key
    <2>4. QED
      BY <2>2, <2>3 DEF OneTitle, OneRule
  <1>4. CASE RecordSkip
    <2>1. PICK title \in Title \cup {UnknownTitle}, reason \in Reason \cup {NoReason} :
            next' = IF title \in Title /\ reason # NoReason
                    THEN [next EXCEPT !.skipped = MergeSkips(@, [t \in {title} |-> reason])]
                    ELSE next
      BY <1>4 DEF RecordSkip
    <2>2. CASE title \in Title /\ reason # NoReason
      BY <1>0, <2>1, <2>2, SkipsDecided
    <2>3. CASE ~(title \in Title /\ reason # NoReason)
      BY <2>1, <2>3, NothingDecided
    <2>4. QED BY <2>2, <2>3
  <1>5. CASE Unskip
    <2>1. PICK title \in Title \cup {UnknownTitle} :
            next' = IF title \in Title
                    THEN [next EXCEPT !.skipped = MergeSkips(@, [t \in {title} |-> NoReason])]
                    ELSE next
      BY <1>5 DEF Unskip
    <2>2. CASE title \in Title
      BY <1>0, <2>1, <2>2, SkipsDecided
    <2>3. CASE title \notin Title
      BY <2>1, <2>3, NothingDecided
    <2>4. QED BY <2>2, <2>3
  <1>6. CASE VerifySpec /\ ~Reply
    <2>1. st.curr_spec \in Spec /\ st.skipped \in Skips
      BY <1>0, <1>6 DEF VerifySpec, AuthorState
    <2>2. PICK given \in BOOLEAN, filter \in SUBSET Rule, failing \in SUBSET Rule,
               summarized \in BOOLEAN : ReportRun(given, filter, failing, summarized)
      BY <1>6, <2>1, VerifyEffect
    <2>3. /\ next'.skipped = next.skipped /\ next'.rule_skips = next.rule_skips
          /\ \/ next'.validations = MergeValidation(next.validations, Stamp("prover", st))
             \/ next'.validations = next.validations
      BY <1>0, <2>2 DEF ReportRun, AuthorState
    <2>4. OneStamp
      BY <1>0, <2>1, <2>3, StampDecided DEF Key
    <2>5. QED
      BY <2>3, <2>4 DEF OneTitle, OneRule
  <1>7. CASE ExpectRuleFailure \/ ExpectRulePassage
    <2>1. PICK rule \in Rule : \/ next' = [next EXCEPT !.rule_skips = @ \cup {rule}]
                               \/ next' = [next EXCEPT !.rule_skips = @ \ {rule}]
      BY <1>7 DEF ExpectRuleFailure, ExpectRulePassage
    <2>2. /\ next'.skipped = next.skipped /\ next'.validations = next.validations
          /\ \/ next'.rule_skips = next.rule_skips \cup {rule}
             \/ next'.rule_skips = next.rule_skips \ {rule}
      BY <1>0, <2>1 DEF AuthorState
    <2>3. \A r \in Rule \ {rule} : (r \in next'.rule_skips) <=> (r \in next.rule_skips)
      BY <2>2
    <2>4. QED
      BY <2>2, <2>3 DEF OneTitle, OneStamp, OneRule
  <1>8. QED
    BY <1>1, <1>2, <1>3, <1>4, <1>5, <1>6, <1>7 DEF ToolCall

LEMMA AtMostOne ==
  ASSUME NEW S, NEW x, S \subseteq {x}
  PROVE  Cardinality(S) <= 1
  <1>1. IsFiniteSet({x}) /\ Cardinality({x}) = 1
    BY FS_Singleton
  <1>2. S \in SUBSET {x}
    OBVIOUS
  <1>3. Cardinality(S) <= Cardinality({x})
    BY <1>1, <1>2, FS_Subset
  <1>4. QED BY <1>1, <1>3

\* In every message, of any number of calls, a call decides about one title,
\* one stamp and one rule at most, and the decisions of the calls before it
\* about the others stay in the merge.
THEOREM EveryCallAddsUp == AuthorSpec => CallsAddUp
  <1>1. TypeInv /\ [Next]_vars =>
          [calls' = calls + 1 =>
             /\ Cardinality({t \in Title : next'.skipped[t] # next.skipped[t]}) <= 1
             /\ Cardinality({k \in Key : next'.validations[k] # next.validations[k]}) <= 1
             /\ Cardinality({r \in Rule : (r \in next'.rule_skips) # (r \in next.rule_skips)}) <= 1]_vars
    <2> SUFFICES ASSUME TypeInv, [Next]_vars, calls' = calls + 1
                 PROVE  /\ Cardinality({t \in Title : next'.skipped[t] # next.skipped[t]}) <= 1
                        /\ Cardinality({k \in Key : next'.validations[k] # next.validations[k]}) <= 1
                        /\ Cardinality({r \in Rule : (r \in next'.rule_skips) # (r \in next.rule_skips)}) <= 1
      OBVIOUS
    <2>1. calls \in Nat
      BY Bounds DEF TypeInv, TypeOK
    <2>2. ToolCall
      <3>1. SUFFICES ASSUME ~ToolCall PROVE calls' = calls \/ calls' = 0
        BY <2>1, <3>1
      <3>2. QED
        BY <3>1 DEF Next, Pipeline, EndStep, ClashStep, RaiseStep, Abandon, StartAgent, ResetStep,
           CacheHit, SaveLastAttempt, CachePut, WriteSpec, Kill, Rerun, Finished, vars, agent
    <2>3. OneTitle /\ OneStamp /\ OneRule
      BY <2>2, ToolDecides DEF TypeInv
    <2>4. PICK title : {t \in Title : next'.skipped[t] # next.skipped[t]} \subseteq {title}
      BY <2>3 DEF OneTitle
    <2>5. PICK key : {k \in Key : next'.validations[k] # next.validations[k]} \subseteq {key}
      BY <2>3 DEF OneStamp
    <2>6. PICK rule : {r \in Rule : (r \in next'.rule_skips) # (r \in next.rule_skips)} \subseteq {rule}
      BY <2>3 DEF OneRule
    <2>7. QED
      BY <2>4, <2>5, <2>6, AtMostOne
  <1>2. QED
    BY <1>1, TypeCorrect, PTL DEF AuthorSpec, CallsAddUp

-----------------------------------------------------------------------------
(* Stamps are genuine.                                                      *)

GenuineInv == TypeInv /\ StampsGenuineIn(st) /\ StampsGenuineIn(next)

\* A tool that touches neither the stamps nor the evidence keeps them genuine.
LEMMA GenuineFrame ==
  ASSUME NEW s, NEW n, StampsGenuineIn(s), n.validations = s.validations,
         n.judged = s.judged, n.verified = s.verified
  PROVE  StampsGenuineIn(n)
  BY DEF StampsGenuineIn

LEMMA ToolGenuine ==
  ASSUME GenuineInv, ToolCall
  PROVE  StampsGenuineIn(next')
  <1>1. next \in AuthorState /\ st \in AuthorState /\ StampsGenuineIn(next)
    BY DEF GenuineInv, TypeInv, TypeOK
  <1>2. "feedback" \in Key /\ "prover" \in Key /\ "feedback" # "prover"
    BY DEF Key
  <1>3. CASE next' = next
    BY <1>1, <1>3
  <1>4. CASE FeedbackTool /\ next' # next
    <2> DEFINE merged == MergeValidation(next.validations, Stamp("feedback", st))
    <2>1. st.curr_spec \in Spec /\ st.skipped \in Skips
      BY <1>1, <1>4 DEF FeedbackTool, Reply, AuthorState
    <2>2. next.validations \in [Key -> Digest \cup {NoStamp}]
      BY <1>1 DEF AuthorState
    <2>3. /\ merged["feedback"] = Hash(st.curr_spec, st.skipped)
          /\ merged["prover"] = next.validations["prover"]
      BY <1>2, <2>1, <2>2, StampEffect
    <2>4. next' = [next EXCEPT !.validations = merged,
                               !.judged = [spec |-> st.curr_spec, skipped |-> st.skipped]]
      BY <1>4 DEF FeedbackTool, Reply
    <2> HIDE DEF merged
    <2>5. /\ next'.validations = merged
          /\ next'.judged = [spec |-> st.curr_spec, skipped |-> st.skipped]
          /\ next'.verified = next.verified
      BY <1>1, <2>4 DEF AuthorState
    <2>6. next'.judged \in Submission
      BY <2>1, <2>5 DEF Submission
    <2>7. QED
      BY <1>1, <2>3, <2>5, <2>6, AuthorAssumption DEF StampsGenuineIn
  <1>5. CASE VerifySpec /\ next' # next
    <2>1. st.curr_spec \in Spec /\ st.skipped \in Skips
      BY <1>1, <1>5 DEF VerifySpec, Reply, AuthorState
    <2>2. PICK given \in BOOLEAN, filter \in SUBSET Rule, failing \in SUBSET Rule,
               summarized \in BOOLEAN : ReportRun(given, filter, failing, summarized)
      BY <1>5, <2>1, VerifyEffect DEF Reply
    <2> DEFINE earned == ~summarized /\ ~given /\ failing \subseteq st.rule_skips
               merged == MergeValidation(next.validations, Stamp("prover", st))
               run == [spec |-> st.curr_spec, skipped |-> st.skipped,
                       failing |-> failing, expected |-> st.rule_skips]
    <2>3. next.validations \in [Key -> Digest \cup {NoStamp}]
      BY <1>1 DEF AuthorState
    <2>4. /\ merged["prover"] = Hash(st.curr_spec, st.skipped)
          /\ merged["feedback"] = next.validations["feedback"]
      BY <1>2, <2>1, <2>3, StampEffect
    <2>5. CASE earned
      <3>1. next' = [next EXCEPT !.prover_link = [spec |-> st.curr_spec, full |-> filter = {}],
                                 !.validations = merged, !.verified = run]
        BY <2>2, <2>5 DEF ReportRun, StampsRun
      <3> HIDE DEF merged
      <3>2. /\ next'.validations = merged /\ next'.verified = run
            /\ next'.judged = next.judged
        BY <1>1, <3>1 DEF AuthorState
      <3>3. run # NoRun
        <4>1. st.rule_skips \subseteq Rule
          BY <1>1 DEF AuthorState
        <4>2. run \in Run
          BY <2>1, <2>5, <4>1 DEF Run
        <4>3. QED BY <4>2, SentinelAssumption2
      <3>4. run.spec = st.curr_spec /\ run.skipped = st.skipped
        OBVIOUS
      <3> HIDE DEF run
      <3>5. QED
        BY <1>1, <2>4, <3>2, <3>3, <3>4 DEF StampsGenuineIn
    <2>6. CASE ~earned
      <3>1. /\ next'.validations = next.validations /\ next'.verified = next.verified
            /\ next'.judged = next.judged
        BY <1>1, <2>2, <2>6 DEF ReportRun, StampsRun, AuthorState
      <3>2. QED
        BY <1>1, <3>1, GenuineFrame
    <2>7. QED BY <2>5, <2>6
  <1>6. CASE ~FeedbackTool /\ ~VerifySpec
    <2>1. /\ next'.validations = next.validations /\ next'.verified = next.verified
          /\ next'.judged = next.judged
      <3> USE <1>1 DEF AuthorState, Reply
      <3>1. CASE PutCVL BY <3>1 DEF PutCVL
      <3>2. CASE EditCVL BY <3>2 DEF EditCVL
      <3>3. CASE RecordSkip BY <3>3 DEF RecordSkip
      <3>4. CASE Unskip BY <3>4 DEF Unskip
      <3>5. CASE ExpectRuleFailure BY <3>5 DEF ExpectRuleFailure
      <3>6. CASE ExpectRulePassage BY <3>6 DEF ExpectRulePassage
      <3>7. CASE PublishResult BY <3>7 DEF PublishResult
      <3>8. CASE GiveUp BY <3>8 DEF GiveUp
      <3>9. QED
        BY <1>6, <3>1, <3>2, <3>3, <3>4, <3>5, <3>6, <3>7, <3>8 DEF ToolCall
    <2>2. QED BY <1>1, <2>1, GenuineFrame
  <1>7. QED BY <1>3, <1>4, <1>5, <1>6

LEMMA FreshGenuine == StampsGenuineIn(FreshState)
  BY DEF StampsGenuineIn, FreshState, Key

\* The non-tool steps set st and next to one of st, next and the fresh state.
LEMMA OtherSteps ==
  ASSUME [Next]_vars, ~ToolCall
  PROVE  /\ st' \in {st, next, FreshState}
         /\ next' \in {st, next, FreshState}
  BY DEF Next, Pipeline, EndStep, ClashStep, RaiseStep, Abandon, StartAgent, CacheHit,
     SaveLastAttempt, CachePut, WriteSpec, Kill, Rerun, Finished, vars, agent

LEMMA ToolKeepsCheckpoint == ToolCall => st' = st
  BY DEF ToolCall, Call, PutCVL, EditCVL, FeedbackTool, RecordSkip, Unskip, VerifySpec,
     ExpectRuleFailure, ExpectRulePassage, PublishResult, GiveUp

THEOREM GenuineInductive == AuthorSpec => []GenuineInv
  <1>1. Init => StampsGenuineIn(st) /\ StampsGenuineIn(next)
    BY FreshGenuine DEF Init
  <1>2. TypeInv /\ StampsGenuineIn(st) /\ StampsGenuineIn(next) /\ [Next]_vars
          => (StampsGenuineIn(st) /\ StampsGenuineIn(next))'
    <2> SUFFICES ASSUME TypeInv, StampsGenuineIn(st), StampsGenuineIn(next), [Next]_vars
                 PROVE  StampsGenuineIn(st') /\ StampsGenuineIn(next')
      BY DEF StampsGenuineIn
    <2>1. CASE ToolCall
      BY <2>1, ToolGenuine, ToolKeepsCheckpoint DEF GenuineInv
    <2>2. CASE ~ToolCall
      BY <2>2, OtherSteps, FreshGenuine
    <2>3. QED BY <2>1, <2>2
  <1>3. QED
    BY <1>1, <1>2, TypeCorrect, PTL DEF AuthorSpec, GenuineInv

\* Whatever the agent does, in whatever messages, a stamp in the checkpoint is
\* the digest of what the judge, or the prover, last accepted.
THEOREM StampsAreGenuine == AuthorSpec => []StampsGenuine
  <1>1. GenuineInv => StampsGenuine
    BY DEF GenuineInv, StampsGenuine
  <1>2. QED BY <1>1, GenuineInductive, PTL

-----------------------------------------------------------------------------
(* Publication.                                                             *)

\* What passes check_completion was accepted by the judge and the prover.
LEMMA CompletionAccepts ==
  ASSUME NEW s \in AuthorState, StampsGenuineIn(s), CheckCompletion(s, Required)
  PROVE  AcceptedDraft(s)
  <1>1. s.curr_spec \in Spec /\ s.skipped \in Skips
    BY DEF CheckCompletion, AuthorState
  <1>2. /\ s.validations["feedback"] = Hash(s.curr_spec, s.skipped)
        /\ s.validations["prover"] = Hash(s.curr_spec, s.skipped)
    BY DEF CheckCompletion, Required, ComputeDigest
  <1>3. Hash(s.curr_spec, s.skipped) # NoStamp
    BY <1>1, SentinelAssumption DEF Digest
  <1>4. /\ s.judged \in Submission
        /\ Hash(s.judged.spec, s.judged.skipped) = Hash(s.curr_spec, s.skipped)
    BY <1>2, <1>3 DEF StampsGenuineIn, AuthorState
  <1>5. /\ s.verified \in Run
        /\ Hash(s.verified.spec, s.verified.skipped) = Hash(s.curr_spec, s.skipped)
    BY <1>2, <1>3 DEF StampsGenuineIn, AuthorState
  <1>6. s.judged.spec = s.curr_spec /\ s.judged.skipped = s.skipped
    BY <1>1, <1>4, HashAssumption DEF Submission
  <1>7. s.verified.spec = s.curr_spec /\ s.verified.skipped = s.skipped
    BY <1>1, <1>5, HashAssumption DEF Run
  <1>8. s.judged = Draft(s)
    BY <1>4, <1>6 DEF Draft, Submission
  <1>9. ProvedDraft(s) = Draft(s)
    BY <1>5, <1>7, SentinelAssumption2 DEF ProvedDraft, Draft
  <1>10. QED BY <1>8, <1>9 DEF AcceptedDraft

\* What passes validate_property_rules accounts for every property once.
LEMMA ValidationCovers ==
  ASSUME NEW rules \in MappingList, NEW skipped \in Skips,
         ValidatePropertyRules(rules, skipped)
  PROVE  CoversBatch(rules, skipped)
  <1>1. Len(rules) \in Nat
    BY AuthorAssumption
  <1> SUFFICES ASSUME NEW t \in Title
               PROVE  LET entries == {i \in 1..Len(rules) : rules[i].title = t}
                      IN IF t \in SkippedTitles(skipped) THEN entries = {}
                         ELSE \E i \in entries : entries = {i} /\ rules[i].rules # {}
    BY DEF CoversBatch
  <1> DEFINE entries == {i \in 1..Len(rules) : rules[i].title = t}
  <1>2. CASE t \in SkippedTitles(skipped)
    BY <1>2 DEF ValidatePropertyRules
  <1>3. CASE t \notin SkippedTitles(skipped)
    <2>1. PICK i \in 1..Len(rules) : rules[i].title = t
      BY <1>3 DEF ValidatePropertyRules
    <2>2. ASSUME NEW j \in 1..Len(rules), rules[j].title = t
          PROVE  j = i
      <3>1. ~(j < i)
        <4> SUFFICES ASSUME j < i PROVE FALSE
          OBVIOUS
        <4>1. j \in 1..(i - 1)
          BY <1>1
        <4>2. QED BY <2>1, <2>2, <4>1 DEF ValidatePropertyRules
      <3>2. ~(i < j)
        <4> SUFFICES ASSUME i < j PROVE FALSE
          OBVIOUS
        <4>1. i \in 1..(j - 1)
          BY <1>1
        <4>2. QED BY <2>1, <2>2, <4>1 DEF ValidatePropertyRules
      <3>3. QED BY <1>1, <3>1, <3>2
    <2>3. entries = {i}
      BY <2>1, <2>2
    <2>4. rules[i].rules # {}
      BY <2>1 DEF ValidatePropertyRules
    <2>5. QED BY <1>3, <2>3, <2>4
  <1>4. QED BY <1>2, <1>3

\* While the agent acts, the checkpoint has no outcome yet.
OpenInv == phase = "authoring" => st.outcome = Open

LEMMA OpenInductive == AuthorSpec => []OpenInv
  <1>1. Init => OpenInv
    BY DEF Init, OpenInv, FreshState
  <1>2. OpenInv /\ [Next]_vars => OpenInv'
    <2> SUFFICES ASSUME OpenInv, [Next]_vars PROVE OpenInv'
      OBVIOUS
    <2> USE DEF OpenInv
    <2>1. CASE ToolCall
      BY <2>1, ToolKeepsCheckpoint DEF ToolCall, Call, PutCVL, EditCVL, FeedbackTool,
        RecordSkip, Unskip, VerifySpec, ExpectRuleFailure, ExpectRulePassage,
        PublishResult, GiveUp
    <2>2. CASE EndStep BY <2>2 DEF EndStep
    <2>3. CASE Abandon BY <2>3 DEF Abandon
    <2>4. CASE StartAgent BY <2>4 DEF StartAgent, FreshState
    <2>5. CASE CacheHit BY <2>5 DEF CacheHit
    <2>6. CASE SaveLastAttempt BY <2>6 DEF SaveLastAttempt
    <2>7. CASE CachePut BY <2>7 DEF CachePut
    <2>8. CASE WriteSpec BY <2>8 DEF WriteSpec
    <2>9. CASE Kill BY <2>9 DEF Kill
    <2>10. CASE Rerun BY <2>10 DEF Rerun
    <2>11. CASE UNCHANGED vars BY <2>11 DEF vars, agent
    <2>12. QED
      BY <2>1, <2>2, <2>3, <2>4, <2>5, <2>6, <2>7, <2>8, <2>9, <2>10, <2>11
      DEF Next, Pipeline, ClashStep, RaiseStep, Finished
  <1>3. QED BY <1>1, <1>2, PTL DEF AuthorSpec

\* A tool that publishes does so on an accepted and covered checkpoint.
LEMMA ToolPublishes ==
  ASSUME GenuineInv, ToolCall, next'.outcome # next.outcome, IsPublished(next')
  PROVE  /\ AcceptedDraft(st) /\ CoversBatch(next'.outcome.property_rules, st.skipped)
         /\ st.curr_spec # NoSpec /\ Draft(next') = Draft(next) /\ next'.judged = next.judged
         /\ next'.verified = next.verified
  <1>1. next \in AuthorState /\ st \in AuthorState /\ StampsGenuineIn(st)
    BY DEF GenuineInv, TypeInv, TypeOK
  <1>2. CASE PublishResult
    <2>1. PICK rules \in MappingList :
            /\ CheckCompletion(st, Required) /\ ValidatePropertyRules(rules, st.skipped)
            /\ next' = [next EXCEPT !.outcome = Published(rules)]
      BY <1>2 DEF PublishResult, Reply
    <2>2. next'.outcome.property_rules = rules
      BY <1>1, <2>1 DEF AuthorState, Published
    <2>3. st.skipped \in Skips
      BY <1>1 DEF AuthorState
    <2>4. /\ Draft(next') = Draft(next) /\ next'.judged = next.judged
          /\ next'.verified = next.verified
      BY <1>1, <2>1 DEF AuthorState, Draft
    <2>5. st.curr_spec # NoSpec
      BY <2>1 DEF CheckCompletion
    <2>6. QED
      BY <1>1, <2>1, <2>2, <2>3, <2>4, <2>5, CompletionAccepts, ValidationCovers
  <1>3. CASE ~PublishResult
    <2> USE <1>1 DEF AuthorState, Reply, IsPublished
    <2>1. CASE PutCVL BY <2>1 DEF PutCVL
    <2>2. CASE EditCVL BY <2>2 DEF EditCVL
    <2>3. CASE FeedbackTool BY <2>3 DEF FeedbackTool
    <2>4. CASE RecordSkip BY <2>4 DEF RecordSkip
    <2>5. CASE Unskip BY <2>5 DEF Unskip
    <2>6. CASE VerifySpec BY <2>6 DEF VerifySpec, ReportRun
    <2>7. CASE ExpectRuleFailure BY <2>7 DEF ExpectRuleFailure
    <2>8. CASE ExpectRulePassage BY <2>8 DEF ExpectRulePassage
    <2>9. CASE GiveUp BY <2>9 DEF GiveUp, GivenUp
    <2>10. QED
      BY <1>3, <2>1, <2>2, <2>3, <2>4, <2>5, <2>6, <2>7, <2>8, <2>9 DEF ToolCall
  <1>4. QED BY <1>2, <1>3

\* In every message, of any number of calls, `result' is accepted only when the
\* checkpoint it read was accepted by both judges and is covered.
THEOREM PublicationIsGated == AuthorSpec => PublishGated
  <1>1. GenuineInv /\ OpenInv /\ [Next]_vars =>
          [(~IsPublished(next) /\ IsPublished(next')) =>
             /\ AcceptedDraft(st)
             /\ CoversBatch(next'.outcome.property_rules, st.skipped)]_vars
    <2> SUFFICES ASSUME GenuineInv, OpenInv, [Next]_vars,
                        ~IsPublished(next), IsPublished(next')
                 PROVE  /\ AcceptedDraft(st)
                        /\ CoversBatch(next'.outcome.property_rules, st.skipped)
      OBVIOUS
    <2>1. CASE ToolCall
      BY <2>1, ToolPublishes DEF IsPublished
    <2>2. CASE ~ToolCall
      <3>1. next' = next \/ (phase = "authoring" /\ next' = st) \/ next' = FreshState
        BY <2>2 DEF Next, Pipeline, EndStep, ClashStep, RaiseStep, Abandon, StartAgent,
           CacheHit, SaveLastAttempt, CachePut, WriteSpec, Kill, Rerun, Finished, vars, agent
      <3>2. ~IsPublished(FreshState)
        BY DEF IsPublished, FreshState, Open
      <3>3. phase = "authoring" => ~IsPublished(st)
        BY DEF OpenInv, IsPublished, Open
      <3>4. QED BY <3>1, <3>2, <3>3
    <2>3. QED BY <2>1, <2>2
  <1>2. QED
    BY <1>1, GenuineInductive, OpenInductive, PTL DEF AuthorSpec, PublishGated

-----------------------------------------------------------------------------
(* The store and the disk.                                                  *)

\* StoreAgrees with what it rests on: a result is cached once, after its draft
\* was saved, and no agent is started afterwards.
StoreInv ==
  /\ StoreAgrees
  /\ phase \in {"authoring", "returned", "raised", "assembled"} => cache = NoResult
  /\ phase = "assembled" => lastAttempt = st.curr_spec
  /\ phase = "cached" => cache # NoResult

\* Steps of the agent leave the store alone and happen only before the cache
\* is filled, so that a filled cache keeps its checkpoint.
LEMMA AgentSteps ==
  ASSUME ToolCall \/ EndStep \/ Abandon
  PROVE  /\ phase = "authoring" /\ UNCHANGED store
         /\ phase' \in {"authoring", "returned", "raised"}
  BY DEF ToolCall, Call, PutCVL, EditCVL, FeedbackTool, RecordSkip, Unskip, VerifySpec,
     ExpectRuleFailure, ExpectRulePassage, PublishResult, GiveUp, EndStep, Abandon

LEMMA StoreInductive == AuthorSpec => [](TypeInv /\ StoreInv)
  <1>1. Init => StoreInv
    BY DEF Init, StoreInv, StoreAgrees
  <1>2. TypeInv /\ StoreInv /\ [Next]_vars => StoreInv'
    <2> SUFFICES ASSUME TypeInv, StoreInv, [Next]_vars PROVE StoreInv'
      OBVIOUS
    <2> USE DEF StoreInv, StoreAgrees
    <2>1. CASE ToolCall \/ EndStep \/ Abandon
      BY <2>1, AgentSteps DEF store
    <2>2. CASE StartAgent BY <2>2 DEF StartAgent, store
    <2>3. CASE CacheHit BY <2>3 DEF CacheHit, agent, store, IsPublished, Generated
    <2>4. CASE SaveLastAttempt
      <3>1. cache = NoResult /\ UNCHANGED <<st, cache, written>>
        BY <2>4 DEF SaveLastAttempt, agent
      <3>2. phase' = "assembled" => lastAttempt' = st.curr_spec
        <4>1. phase' = "assembled" => phase = "returned" /\ st.outcome # GivenUp
          BY <2>4 DEF SaveLastAttempt
        <4>2. phase' = "assembled" => IsPublished(st)
          BY <4>1, OutcomeKind DEF TypeInv, TypeOK, HasSpec, AuthorState, IsPublished
        <4>3. QED BY <2>4, <4>2 DEF SaveLastAttempt, DraftToKeep, TypeInv, HasSpec
      <3>3. phase' \in {"failed", "gave_up", "assembled"}
        BY <2>4 DEF SaveLastAttempt
      <3>4. QED BY <3>1, <3>2, <3>3
    <2>5. CASE CachePut
      <3>1. IsPublished(st) /\ written = NoResult /\ Generated(st) # NoResult
        <4>1. IsPublished(st) /\ st.curr_spec # NoSpec
          BY <2>5 DEF CachePut, TypeInv, HasSpec
        <4>2. Generated(st) \in GeneratedCVL
          BY <4>1, OutcomeKind DEF Generated, GeneratedCVL, TypeInv, TypeOK, AuthorState, IsPublished
        <4>3. QED BY <2>5, <4>1, <4>2, SentinelAssumption2 DEF CachePut
      <3>2. lastAttempt = Generated(st).cvl
        BY <2>5 DEF CachePut, Generated
      <3>3. QED
        BY <2>5, <3>1, <3>2 DEF CachePut, agent, IsPublished, Generated
    <2>6. CASE WriteSpec BY <2>6 DEF WriteSpec, agent, IsPublished, Generated
    <2>7. CASE Kill BY <2>7 DEF Kill, agent, store, IsPublished, Generated
    <2>8. CASE Rerun BY <2>8 DEF Rerun, Final, agent, store, IsPublished, Generated
    <2>9. CASE UNCHANGED vars BY <2>9 DEF vars, agent, store, IsPublished, Generated
    <2>10. QED
      BY <2>1, <2>2, <2>3, <2>4, <2>5, <2>6, <2>7, <2>8, <2>9
      DEF Next, Pipeline, ClashStep, RaiseStep, Finished
  <1>3. QED BY <1>1, <1>2, TypeCorrect, PTL DEF AuthorSpec

\* Crashes and restarts never separate the cache, the saved draft and the files
\* on disk from the published result they come from.
THEOREM StoreIsConsistent == AuthorSpec => []StoreAgrees
  <1>1. StoreInv => StoreAgrees
    BY DEF StoreInv
  <1>2. QED BY <1>1, StoreInductive, PTL

\* A cached result is never replaced and a saved draft is never forgotten.
THEOREM StoreIsMonotone == AuthorSpec => StoreMonotone
  <1>1. TypeInv /\ StoreInv /\ [Next]_vars =>
          [/\ cache # NoResult => cache' = cache
           /\ lastAttempt # NoSpec => lastAttempt' # NoSpec]_vars
    <2> SUFFICES ASSUME TypeInv, StoreInv, [Next]_vars
                 PROVE  /\ cache # NoResult => cache' = cache
                        /\ lastAttempt # NoSpec => lastAttempt' # NoSpec
      OBVIOUS
    <2>1. CASE ToolCall \/ EndStep \/ Abandon
      BY <2>1, AgentSteps DEF store
    <2>2. CASE SaveLastAttempt BY <2>2 DEF SaveLastAttempt, DraftToKeep
    <2>3. CASE CachePut BY <2>3 DEF CachePut, StoreInv
    <2>4. CASE ~(ToolCall \/ EndStep \/ Abandon \/ SaveLastAttempt \/ CachePut)
      BY <2>4 DEF Next, Pipeline, ClashStep, RaiseStep, StartAgent, CacheHit, WriteSpec,
         Kill, Rerun, Finished, vars, store
    <2>5. QED BY <2>1, <2>2, <2>3, <2>4
  <1>2. QED BY <1>1, StoreInductive, PTL DEF AuthorSpec, StoreMonotone

-----------------------------------------------------------------------------
(* The merge of a message.  Whatever calls it holds, what it adds to the    *)
(* judgements and to the outcome speaks of its checkpoint; only the draft   *)
(* follows the other calls.                                                 *)

\* One call, made on the checkpoint s, moves one part of the gate from n to m:
\* the draft, either judgement, or the outcome.
GateMove(s, n, m) ==
  \/ m.judged = n.judged /\ m.verified = n.verified /\ m.outcome = n.outcome
  \/ /\ s.curr_spec # NoSpec
     /\ m.judged = Draft(s)
     /\ Draft(m) = Draft(n) /\ m.verified = n.verified /\ m.outcome = n.outcome
  \/ /\ s.curr_spec # NoSpec
     /\ ProvedDraft(m) = Draft(s)
     /\ Draft(m) = Draft(n) /\ m.judged = n.judged /\ m.outcome = n.outcome
  \/ Draft(m) = Draft(n) /\ m.judged = n.judged /\ m.verified = n.verified

\* What the merge n of a message has to do with its checkpoint s.
FromCheckpoint(s, n) ==
  /\ n.judged = s.judged \/ (s.curr_spec # NoSpec /\ n.judged = Draft(s))
  /\ \/ ProvedDraft(n) = ProvedDraft(s)
     \/ s.curr_spec # NoSpec /\ ProvedDraft(n) = Draft(s)
  /\ IsPublished(n) =>
       /\ s.curr_spec # NoSpec
       /\ AcceptedDraft(s) /\ CoversBatch(n.outcome.property_rules, s.skipped)

\* While the agent acts, the merge comes from the checkpoint; a message of one
\* call has made one move.
MessageInv ==
  phase = "authoring" =>
    /\ FromCheckpoint(st, next)
    /\ calls = 0 => next = st
    /\ MaxCalls = 1 /\ calls # 0 => GateMove(st, st, next)

BaseInv == GenuineInv /\ OpenInv /\ StoreInv

LEMMA BaseInductive == AuthorSpec => []BaseInv
  BY GenuineInductive, OpenInductive, StoreInductive, PTL DEF BaseInv

LEMMA ToolMove ==
  ASSUME BaseInv, ToolCall
  PROVE  GateMove(st, next, next')
  <1>1. st \in AuthorState /\ next \in AuthorState
    BY DEF BaseInv, GenuineInv, TypeInv, TypeOK
  <1>2. CASE next' = next
    BY <1>2 DEF GateMove
  <1>3. CASE PutCVL \/ EditCVL
    BY <1>1, <1>3 DEF PutCVL, EditCVL, Reply, GateMove, AuthorState
  <1>4. CASE FeedbackTool /\ next' # next
    <2>1. /\ st.curr_spec # NoSpec
          /\ next' = [next EXCEPT
                !.validations = MergeValidation(@, Stamp("feedback", st)),
                !.judged = [spec |-> st.curr_spec, skipped |-> st.skipped]]
      BY <1>4 DEF FeedbackTool, Reply
    <2>2. QED BY <1>1, <2>1 DEF GateMove, AuthorState, Draft
  <1>5. CASE RecordSkip \/ Unskip
    BY <1>1, <1>5 DEF RecordSkip, Unskip, GateMove, AuthorState
  <1>6. CASE VerifySpec /\ next' # next
    <2>1. st.curr_spec \in Spec /\ st.skipped \in Skips /\ st.rule_skips \subseteq Rule
      BY <1>1, <1>6 DEF VerifySpec, Reply, AuthorState
    <2>2. PICK given \in BOOLEAN, filter \in SUBSET Rule, failing \in SUBSET Rule,
               summarized \in BOOLEAN : ReportRun(given, filter, failing, summarized)
      BY <1>6, <2>1, VerifyEffect DEF Reply
    <2> DEFINE earned == ~summarized /\ ~given /\ failing \subseteq st.rule_skips
               run == [spec |-> st.curr_spec, skipped |-> st.skipped,
                       failing |-> failing, expected |-> st.rule_skips]
    <2>3. /\ next'.verified = IF earned THEN run ELSE next.verified
          /\ Draft(next') = Draft(next) /\ next'.judged = next.judged
          /\ next'.outcome = next.outcome
      BY <1>1, <2>2 DEF ReportRun, AuthorState, Draft
    <2>4. run \in Run /\ run.spec = st.curr_spec /\ run.skipped = st.skipped
      BY <2>1 DEF Run
    <2> HIDE DEF run, earned
    <2>5. CASE earned
      <3>1. ProvedDraft(next') = Draft(st)
        BY <2>3, <2>4, <2>5, SentinelAssumption2 DEF ProvedDraft, Draft
      <3>2. st.curr_spec # NoSpec
        BY <2>1, SentinelAssumption
      <3>3. QED BY <2>3, <3>1, <3>2 DEF GateMove
    <2>6. CASE ~earned
      BY <2>3, <2>6 DEF GateMove
    <2>7. QED BY <2>5, <2>6
  <1>7. CASE ExpectRuleFailure \/ ExpectRulePassage
    BY <1>1, <1>7 DEF ExpectRuleFailure, ExpectRulePassage, GateMove, AuthorState
  <1>8. CASE PublishResult \/ GiveUp
    BY <1>1, <1>8 DEF PublishResult, GiveUp, Reply, GateMove, AuthorState, Draft
  <1>9. QED
    BY <1>2, <1>3, <1>4, <1>5, <1>6, <1>7, <1>8 DEF ToolCall

\* Another call keeps the merge tied to the checkpoint.
LEMMA ToolFromCheckpoint ==
  ASSUME BaseInv, ToolCall, FromCheckpoint(st, next)
  PROVE  FromCheckpoint(st, next')
  <1>1. GateMove(st, next, next')
    BY ToolMove
  <1>2. /\ next'.judged = next.judged \/ (st.curr_spec # NoSpec /\ next'.judged = Draft(st))
        /\ \/ ProvedDraft(next') = ProvedDraft(next)
           \/ st.curr_spec # NoSpec /\ ProvedDraft(next') = Draft(st)
    BY <1>1 DEF GateMove, ProvedDraft
  <1>3. ASSUME IsPublished(next')
        PROVE  /\ st.curr_spec # NoSpec
               /\ AcceptedDraft(st) /\ CoversBatch(next'.outcome.property_rules, st.skipped)
    <2>1. CASE next'.outcome = next.outcome
      BY <1>3, <2>1 DEF FromCheckpoint, IsPublished
    <2>2. CASE next'.outcome # next.outcome
      BY <1>3, <2>2, ToolPublishes DEF BaseInv
    <2>3. QED BY <2>1, <2>2
  <1>4. QED BY <1>2, <1>3 DEF FromCheckpoint

LEMMA OpenFromCheckpoint ==
  ASSUME NEW s, s.outcome = Open
  PROVE  FromCheckpoint(s, s)
  BY DEF FromCheckpoint, IsPublished, Open

LEMMA MessageInductive == AuthorSpec => []MessageInv
  <1>1. Init => MessageInv
    BY DEF Init, MessageInv
  <1>2. BaseInv /\ MessageInv /\ [Next]_vars => MessageInv'
    <2> SUFFICES ASSUME BaseInv, MessageInv, [Next]_vars, phase' = "authoring"
                 PROVE  /\ FromCheckpoint(st', next')
                        /\ calls' = 0 => next' = st'
                        /\ MaxCalls = 1 /\ calls' # 0 => GateMove(st', st', next')
      BY DEF MessageInv, FromCheckpoint, GateMove, Draft, ProvedDraft, AcceptedDraft,
         IsPublished, CoversBatch, SkippedTitles
    <2>1. CASE ToolCall
      <3>1. phase = "authoring" /\ calls < MaxCalls /\ calls' = calls + 1 /\ st' = st
        BY <2>1 DEF ToolCall, Call, PutCVL, EditCVL, FeedbackTool, RecordSkip, Unskip,
           VerifySpec, ExpectRuleFailure, ExpectRulePassage, PublishResult, GiveUp
      <3>2. calls \in Nat
        BY Bounds DEF BaseInv, GenuineInv, TypeInv, TypeOK
      <3>3. FromCheckpoint(st, next')
        BY <2>1, <3>1, ToolFromCheckpoint DEF MessageInv
      <3>4. MaxCalls = 1 => GateMove(st, st, next')
        <4>1. MaxCalls = 1 => calls = 0
          BY <3>1, <3>2
        <4>2. MaxCalls = 1 => next = st
          BY <3>1, <4>1 DEF MessageInv
        <4>3. QED BY <2>1, <4>2, ToolMove
      <3>5. calls' # 0
        BY <3>1, <3>2
      <3>6. QED BY <3>1, <3>3, <3>4, <3>5
    <2>2. CASE EndStep \/ StartAgent
      <3>1. next' = st' /\ calls' = 0 /\ st'.outcome = Open
        BY <2>2 DEF EndStep, StartAgent, ResetStep, FreshState
      <3>2. QED BY <3>1, OpenFromCheckpoint
    <2>3. CASE ~(ToolCall \/ EndStep \/ StartAgent)
      <3>1. phase = "authoring" /\ UNCHANGED <<st, next, calls>>
        BY <2>3 DEF Next, Pipeline, ClashStep, RaiseStep, Abandon, CacheHit, SaveLastAttempt,
           CachePut, WriteSpec, Kill, Rerun, Final, Finished, vars, agent
      <3>2. QED BY <3>1 DEF MessageInv
    <2>4. QED BY <2>1, <2>2, <2>3
  <1>3. QED BY <1>1, <1>2, BaseInductive, PTL DEF AuthorSpec

\* A checkpoint that becomes published is the merge of a message.
LEMMA CheckpointPublishes ==
  ASSUME [Next]_vars, ~IsPublished(st), IsPublished(st')
  PROVE  EndStep
  <1>1. ~IsPublished(FreshState)
    BY DEF IsPublished, FreshState, Open
  <1>2. SUFFICES ASSUME ~EndStep PROVE st' = st \/ st' = FreshState
    BY <1>1, <1>2
  <1>3. QED
    BY <1>2, ToolKeepsCheckpoint DEF Next, Pipeline, ClashStep, RaiseStep, Abandon,
       StartAgent, CacheHit, SaveLastAttempt, CachePut, WriteSpec, Kill, Rerun, Finished,
       vars, agent

\* What no call of the publishing message edits is published as both judges
\* accepted it, with a mapping that covers the batch (the reducers' merge of the
\* updates of one message, whatever its calls).
THEOREM PublishedAsAccepted == AuthorSpec => PublishedUnlessEdited
  <1>1. ASSUME BaseInv, MessageInv, [Next]_vars, ~IsPublished(st), IsPublished(st')
        PROVE  /\ Draft(st') = Draft(st) => AcceptedDraft(st')
               /\ st'.skipped = st.skipped =>
                    CoversBatch(st'.outcome.property_rules, st'.skipped)
    <2>1. EndStep
      BY <1>1, CheckpointPublishes
    <2>2. st' = next /\ FromCheckpoint(st, next) /\ IsPublished(next)
      BY <1>1, <2>1 DEF EndStep, MessageInv
    <2>3. AcceptedDraft(st) /\ CoversBatch(next.outcome.property_rules, st.skipped)
      BY <2>2 DEF FromCheckpoint
    <2>4. next.judged = Draft(st) /\ ProvedDraft(next) = Draft(st)
      BY <2>2, <2>3 DEF FromCheckpoint, AcceptedDraft
    <2>5. QED BY <2>2, <2>3, <2>4 DEF AcceptedDraft
  <1>2. BaseInv /\ MessageInv /\ [Next]_vars =>
          [~IsPublished(st) /\ IsPublished(st') =>
             /\ Draft(st') = Draft(st) => AcceptedDraft(st')
             /\ st'.skipped = st.skipped =>
                  CoversBatch(st'.outcome.property_rules, st'.skipped)]_vars
    BY <1>1
  <1>3. QED
    BY <1>2, BaseInductive, MessageInductive, PTL DEF AuthorSpec, PublishedUnlessEdited

-----------------------------------------------------------------------------
(* The author implements the gate.                                          *)

\* A step of the author that neither ends a super-step, nor starts an agent,
\* nor fills the cache is a stutter of the gate.
LEMMA GateStutter ==
  ASSUME st' = st, cache' = cache
  PROVE  UNCHANGED Gate!gate
  BY DEF Gate!gate, Draft, ProvedDraft, IsPublished

\* The end of a super-step is one message of the gate.
LEMMA EndStepImplements ==
  ASSUME BaseInv, MessageInv, EndStep
  PROVE  Gate!Message
  <1>1. /\ st' = next /\ phase = "authoring" /\ cache = NoResult /\ cache' = NoResult
        /\ calls # 0
    BY Bounds DEF EndStep, store, BaseInv, StoreInv, GenuineInv, TypeInv, TypeOK
  <1>2. /\ FromCheckpoint(st, next)
        /\ MaxCalls = 1 => GateMove(st, st, next)
    BY <1>1 DEF MessageInv
  <1>3. st.outcome = Open /\ ~IsPublished(st) /\ Open # GivenUp
    BY <1>1 DEF BaseInv, OpenInv, Open, GivenUp, IsPublished
  <1>4. st \in AuthorState /\ next \in AuthorState
    BY DEF BaseInv, GenuineInv, TypeInv, TypeOK
  <1> DEFINE was == IF cache # NoResult THEN "published"
                    ELSE IF IsPublished(st) THEN "accepted"
                    ELSE IF st.outcome = GivenUp THEN "gave_up" ELSE "open"
             is == IF IsPublished(next) THEN "accepted"
                   ELSE IF next.outcome = GivenUp THEN "gave_up" ELSE "open"
  <1>5. was = "open"
    BY <1>1, <1>3
  <1>6. Gate!Revise
    <2>1. Draft(next) \in Gate!Drafts
      BY <1>4 DEF AuthorState, Draft, Gate!Drafts
    <2>2. QED BY <1>1, <2>1 DEF Gate!Revise, Draft
  <1>7. Gate!Judge
    BY <1>1, <1>2 DEF FromCheckpoint, Gate!Judge, Draft
  <1>8. Gate!Prove
    BY <1>1, <1>2 DEF FromCheckpoint, Gate!Prove, Draft, ProvedDraft
  <1>9. Gate!Decide
    <2>1. CASE IsPublished(next)
      <3>1. AcceptedDraft(st) /\ st.curr_spec # NoSpec
        BY <1>2, <2>1 DEF FromCheckpoint
      <3>2. QED BY <1>1, <2>1, <3>1 DEF Gate!Decide, AcceptedDraft, Draft, ProvedDraft, IsPublished
    <2>2. CASE ~IsPublished(next)
      BY <1>1, <2>2 DEF Gate!Decide, IsPublished
    <2>3. QED BY <2>1, <2>2
  <1>10. ASSUME MaxCalls = 1 PROVE Gate!OneThing
    <2>1. GateMove(st, st, next)
      BY <1>2, <1>10
    <2>2. next.outcome = st.outcome => is = was
      BY <1>1, <1>3 DEF IsPublished
    <2>3. QED
      BY <1>1, <2>1, <2>2 DEF GateMove, Gate!OneThing, Draft, ProvedDraft, IsPublished
  <1>11. QED
    BY <1>5, <1>6, <1>7, <1>8, <1>9, <1>10 DEF Gate!Message

\* Filling the cache is the publication.
LEMMA CachePutImplements ==
  ASSUME BaseInv, CachePut
  PROVE  Gate!Publish
  <1>1. /\ phase = "assembled" /\ st' = st /\ cache' = Generated(st) /\ cache = NoResult
    BY DEF CachePut, agent, BaseInv, StoreInv
  <1>2. IsPublished(st) /\ st.curr_spec # NoSpec /\ st \in AuthorState
    BY <1>1 DEF BaseInv, GenuineInv, TypeInv, TypeOK, HasSpec
  <1>3. Generated(st) # NoResult
    <2>1. Generated(st) \in GeneratedCVL
      BY <1>2, OutcomeKind DEF Generated, GeneratedCVL, AuthorState, IsPublished
    <2>2. QED BY <2>1, SentinelAssumption2
  <1>4. QED
    BY <1>1, <1>2, <1>3 DEF Gate!Publish, Draft, ProvedDraft

\* A new agent starts the gate again.
LEMMA StartImplements ==
  ASSUME BaseInv, StartAgent
  PROVE  Gate!Restart
  <1>1. st' = FreshState /\ cache = NoResult /\ cache' = NoResult
    BY DEF StartAgent, store
  <1>2. Open # GivenUp /\ ~IsPublished(FreshState)
    BY DEF Open, GivenUp, IsPublished, FreshState
  <1>3. QED
    BY <1>1, <1>2
    DEF Gate!Restart, Gate!GateInit, FreshState, Draft, ProvedDraft, IsPublished

\* The author implements SpecGate, for messages of any number of calls: it
\* accepts a result only on a draft that the judge and the prover accepted, and
\* publishes it once; with one call per message, it publishes that very draft.
THEOREM AuthorImplementsGate == AuthorSpec => ImplementsGate
  <1>1. Init => Gate!GateInit
    <2>1. Open # GivenUp
      BY DEF Open, GivenUp
    <2>2. QED
      BY <2>1 DEF Init, Gate!GateInit, FreshState, Draft, ProvedDraft, IsPublished, Open
  <1>2. BaseInv /\ MessageInv /\ [Next]_vars => [Gate!GateNext]_(Gate!gate)
    <2> SUFFICES ASSUME BaseInv, MessageInv, [Next]_vars
                 PROVE  [Gate!GateNext]_(Gate!gate)
      OBVIOUS
    <2>1. CASE EndStep
      BY <2>1, EndStepImplements DEF Gate!GateNext
    <2>2. CASE StartAgent
      BY <2>2, StartImplements DEF Gate!GateNext
    <2>3. CASE CachePut
      BY <2>3, CachePutImplements DEF Gate!GateNext
    <2>4. CASE ToolCall
      <3>1. cache' = cache
        BY <2>4, AgentSteps DEF store
      <3>2. QED BY <2>4, <3>1, ToolKeepsCheckpoint, GateStutter
    <2>5. CASE ~(EndStep \/ StartAgent \/ CachePut \/ ToolCall)
      <3>1. st' = st /\ cache' = cache
        BY <2>5 DEF Next, Pipeline, ClashStep, RaiseStep, Abandon, CacheHit, SaveLastAttempt,
           WriteSpec, Kill, Rerun, Finished, vars, agent, store
      <3>2. QED BY <3>1, GateStutter
    <2>6. QED BY <2>1, <2>2, <2>3, <2>4, <2>5
  <1>3. QED
    BY <1>1, <1>2, BaseInductive, MessageInductive, PTL
    DEF AuthorSpec, ImplementsGate, Gate!GateSpec
=============================================================================
