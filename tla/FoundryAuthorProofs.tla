------------------------- MODULE FoundryAuthorProofs -------------------------
(***************************************************************************)
(* Theorems about FoundryAuthor, for any number of batches, seeds, files    *)
(* and tests, of calls in a message, and of places of the semaphore.        *)
(***************************************************************************)
EXTENDS FoundryAuthor, FiniteSetTheorems, TLAPS

Statuses == UNION {[T -> Status] : T \in SUBSET TestName}
Digests == {Hash(source, skipped) : source \in TestSource, skipped \in G!Skips}
Sources == TestSource \cup {NoTest}
Outcomes == [kind : {"open", "gave_up", "raised", "published"}, property_tests : MappingList \cup {<< >>}]
Reports == {Killed, NoResults} \cup [kind : {"results"}, source : Sources, status : Statuses]
StateType ==
  [curr_test : Sources, skipped : G!Skips, validations : [FoundryKey -> Digests \cup {NoStamp}],
   expected_failures : SUBSET TestName, last_test_names : (SUBSET TestName) \cup {NotRun},
   outcome : Outcomes, gate : Gates \cup {NoGate}]
CallType ==
  [step : {"idle", "queued", "running", "exited"}, seed : Seed \cup {NoSeed}, report : Reports]

AgentType ==
  /\ st \in [Batch -> StateType]
  /\ next \in [Batch -> StateType]
  /\ wrote \in [Batch -> SUBSET LastValue]
  /\ clash \in [Batch -> BOOLEAN]
  /\ made \in [Batch -> 0..MaxCalls]
  /\ turns \in [Batch -> Nat]
ForgeType ==
  /\ call \in [Call -> CallType]
  /\ files \in [Path -> Sources]
  /\ queue \in Seq(Call)
TypeInv == AgentType /\ ForgeType

-----------------------------------------------------------------------------
(* The inductive invariant *)

\* The gate of a state is genuine.
Genuine(s) ==
  s.validations["forge_test"] # NoStamp =>
    /\ s.gate \in Gates
    /\ s.validations["forge_test"] = Hash(s.gate.source, s.gate.skipped)
    /\ \A t \in DOMAIN s.gate.status : s.gate.status[t] # "Failure"

\* What the merge n of a super-step has to do with its checkpoint s: a new stamp
\* is that of the checkpoint, and so is what a new publication was checked on.
FromCheckpoint(s, n) ==
  /\ Genuine(n)
  /\ n.validations["forge_test"] \in {s.validations["forge_test"], FoundryDigest(s)}
  /\ IsPublished(n) /\ ~IsPublished(s) =>
       n.outcome.property_tests \in MappingList /\ Accepts(s, n.outcome.property_tests)

\* The calls an agent in a super-step has not made yet are idle.
SlotsFree(a) ==
  st[a].outcome = Open => \A c \in Call : By(c) = a /\ c[2] > made[a] => call[c] = Idle

AgentInv(a) == Genuine(st[a]) /\ FromCheckpoint(st[a], next[a]) /\ SlotsFree(a)

\* What a call says of the checkpoint it was made on, which it keeps from
\* changing, and of the file it has staged.
CallInv(c) ==
  /\ call[c].step = "idle" => call[c] = Idle
  /\ call[c].step # "idle" => st[By(c)].curr_test \in TestSource
  /\ call[c].step \in {"running", "exited"} /\ call[c].seed = NoSeed =>
       files[StagedPath(c, NoSeed)] = st[By(c)].curr_test
  /\ call[c].step = "exited" /\ call[c].seed = NoSeed /\ call[c].report.kind = "results" =>
       call[c].report.source = st[By(c)].curr_test

Inv == /\ TypeInv
       /\ \A a \in Batch : AgentInv(a)
       /\ \A c \in Call : CallInv(c)

LEMMA IdleFacts ==
  /\ Idle \in CallType /\ Idle.step = "idle"
  /\ \A seed \in Seed \cup {NoSeed} :
       /\ Queued(seed) \in CallType /\ Queued(seed).step = "queued"
       /\ Running(seed) \in CallType /\ Running(seed).step = "running" /\ Running(seed).seed = seed
       /\ \A report \in Reports :
            /\ Exited(seed, report) \in CallType /\ Exited(seed, report).step = "exited"
            /\ Exited(seed, report).seed = seed /\ Exited(seed, report).report = report
  <1>1. Killed \in Reports
    BY DEF Reports
  <1>2. QED BY <1>1 DEF Idle, Queued, Running, Exited, CallType

LEMMA CallFacts ==
  /\ MaxCalls \in Nat
  /\ \A c \in Call : By(c) \in Batch /\ c[2] \in 1..MaxCalls /\ c = <<By(c), c[2]>>
  /\ \A a \in Batch, k \in 1..MaxCalls : <<a, k>> \in Call /\ By(<<a, k>>) = a /\ <<a, k>>[2] = k
  BY FoundryAssumption DEF Call, By

LEMMA PathFacts ==
  ASSUME NEW c \in Call, NEW seed \in Seed \cup {NoSeed}
  PROVE  /\ StagedPath(c, seed) \in Path
         /\ \A d \in Call : d # c => StagedPath(c, seed) # StagedPath(d, NoSeed)
         /\ StagedPath(c, NoSeed) = c
  BY FoundryAssumption DEF StagedPath, Path

LEMMA Types ==
  ASSUME TypeInv, NEW a \in Batch
  PROVE  /\ st[a] \in StateType /\ next[a] \in StateType
         /\ st[a].curr_test \in Sources /\ st[a].skipped \in G!Skips
         /\ next[a].curr_test \in Sources /\ next[a].skipped \in G!Skips
         /\ next[a].validations \in [FoundryKey -> Digests \cup {NoStamp}]
         /\ next[a].outcome \in Outcomes
         /\ wrote[a] \in SUBSET LastValue /\ clash[a] \in BOOLEAN
         /\ made[a] \in 0..MaxCalls /\ turns[a] \in Nat
  BY DEF TypeInv, AgentType, StateType

LEMMA CallTypes ==
  ASSUME TypeInv, NEW c \in Call
  PROVE  /\ call[c] \in CallType
         /\ call[c].seed \in Seed \cup {NoSeed} /\ call[c].report \in Reports
  BY DEF TypeInv, ForgeType, CallType

LEMMA FreshType ==
  FreshState \in StateType /\ Genuine(FreshState) /\ FromCheckpoint(FreshState, FreshState)
  <1>1. FreshState \in StateType
    BY DEF FreshState, StateType, Sources, G!Skips, Outcomes, Open
  <1>2. FreshState.validations["forge_test"] = NoStamp
    BY DEF FreshState, FoundryKey
  <1>3. QED BY <1>1, <1>2 DEF Genuine, FromCheckpoint

LEMMA InitInv == Init => Inv
  <1> SUFFICES ASSUME Init PROVE Inv
    OBVIOUS
  <1>1. AgentType
    BY FreshType, CallFacts DEF Init, AgentType
  <1>2. ForgeType
    BY IdleFacts DEF Init, ForgeType, Sources
  <1>3. ASSUME NEW c \in Call PROVE CallInv(c)
    <2>1. call[c] = Idle
      BY DEF Init
    <2>2. QED BY <2>1, IdleFacts DEF CallInv
  <1>4. ASSUME NEW a \in Batch PROVE AgentInv(a)
    <2>1. st[a] = FreshState /\ next[a] = FreshState /\ \A c \in Call : call[c] = Idle
      BY DEF Init
    <2>2. QED BY <2>1, FreshType DEF AgentInv, SlotsFree
  <1>5. QED BY <1>1, <1>2, <1>3, <1>4 DEF Inv, TypeInv

-----------------------------------------------------------------------------
(* The tools that answer at once *)

LEMMA MergeType ==
  ASSUME TypeInv, NEW a \in Batch, NEW n \in StateType, NEW channels \in SUBSET LastValue,
         Merge(a, n, channels)
  PROVE  /\ next' \in [Batch -> StateType]
         /\ wrote' \in [Batch -> SUBSET LastValue]
         /\ clash' \in [Batch -> BOOLEAN]
         /\ next'[a] = n
         /\ \A b \in Batch : b # a => next'[b] = next[b]
  BY DEF Merge, TypeInv, AgentType

LEMMA MessageType ==
  ASSUME TypeInv, NEW a \in Batch, Message(a)
  PROVE  /\ st' = st /\ turns' = turns /\ st[a].outcome = Open
         /\ made' \in [Batch -> 0..MaxCalls]
         /\ made[a] \in Nat /\ made[a] < MaxCalls /\ made'[a] = made[a] + 1
         /\ \A b \in Batch : b # a => made'[b] = made[b]
  <1>1. made[a] \in Nat /\ made[a] < MaxCalls /\ MaxCalls \in Nat /\ made' = [made EXCEPT ![a] = made[a] + 1]
    BY CallFacts, Types DEF Message
  <1>2. made[a] + 1 \in 0..MaxCalls
    BY <1>1
  <1>3. QED BY <1>1, <1>2 DEF Message, InStep, TypeInv, AgentType

LEMMA UpdateKeeps ==
  ASSUME Inv, NEW a \in Batch, NEW n \in StateType, NEW channels \in SUBSET LastValue,
         Update(a, n, channels), FromCheckpoint(st[a], n)
  PROVE  Inv'
  <1>1. TypeInv /\ Message(a) /\ Merge(a, n, channels)
    BY DEF Inv, Update
  <1>2. call' = call /\ files' = files /\ queue' = queue
    BY DEF Update, forge
  <1>3. st' = st /\ turns' = turns
    BY <1>1 DEF Message
  <1>4. TypeInv'
    BY <1>1, <1>2, <1>3, MergeType, MessageType DEF TypeInv, AgentType, ForgeType
  <1>5. ASSUME NEW c \in Call PROVE CallInv(c)'
    BY <1>2, <1>3 DEF Inv, CallInv
  <1>6. ASSUME NEW b \in Batch PROVE AgentInv(b)'
    <2>1. Genuine(st'[b]) /\ FromCheckpoint(st'[b], next'[b])
      BY <1>1, <1>3, MergeType DEF Inv, AgentInv
    <2>2. ASSUME NEW c \in Call, st[b].outcome = Open, By(c) = b, c[2] > made'[b]
          PROVE  call[c] = Idle
      <3>1. c[2] > made[b]
        <4>1. c[2] \in Nat /\ made[b] \in Nat
          BY <1>1, CallFacts, Types
        <4>2. made'[b] = made[b] \/ made'[b] = made[b] + 1
          BY <1>1, MessageType
        <4>3. QED BY <2>2, <4>1, <4>2
      <3>2. QED BY <2>2, <3>1 DEF Inv, AgentInv, SlotsFree
    <2>3. SlotsFree(b)'
      BY <1>2, <1>3, <2>2 DEF SlotsFree
    <2>4. QED BY <2>1, <2>3 DEF AgentInv
  <1>7. QED BY <1>4, <1>5, <1>6 DEF Inv

\* A tool that neither stamps the gate nor ends the run.
LEMMA OpenUpdateKeeps ==
  ASSUME Inv, NEW a \in Batch, NEW n \in StateType, NEW channels \in SUBSET LastValue,
         Update(a, n, channels), n.outcome = next[a].outcome, n.gate = next[a].gate,
         n.validations["forge_test"] = next[a].validations["forge_test"]
  PROVE  Inv'
  <1>1. FromCheckpoint(st[a], next[a])
    BY DEF Inv, AgentInv
  <1>2. FromCheckpoint(st[a], n)
    BY <1>1 DEF FromCheckpoint, Genuine, IsPublished
  <1>3. QED BY <1>2, UpdateKeeps

LEMMA ReplyKeeps ==
  ASSUME Inv, NEW a \in Batch, Reply(a)
  PROVE  Inv'
  <1>1. next[a] \in StateType /\ Update(a, next[a], {})
    BY Types DEF Inv, Reply
  <1>2. QED BY <1>1, OpenUpdateKeeps

LEMMA SkipType ==
  ASSUME NEW skipped \in G!Skips, NEW title \in Title, NEW reason \in Reason \cup {NoReason}
  PROVE  G!MergeSkips(skipped, [t \in {title} |-> reason]) \in G!Skips
  BY DEF G!MergeSkips, G!Skips

LEMMA PutTestKeeps == ASSUME Inv, NEW a \in Batch, PutTestRaw(a) PROVE Inv'
  <1>1. PICK source \in TestSource :
          Update(a, [next[a] EXCEPT !.curr_test = source], {"curr_test"})
    BY DEF PutTestRaw
  <1> DEFINE n == [next[a] EXCEPT !.curr_test = source]
  <1>2. /\ n \in StateType /\ n.outcome = next[a].outcome /\ n.gate = next[a].gate
        /\ n.validations["forge_test"] = next[a].validations["forge_test"]
    BY Types DEF Inv, StateType, Sources
  <1>3. {"curr_test"} \in SUBSET LastValue
    BY DEF LastValue
  <1>4. QED BY <1>1, <1>2, <1>3, OpenUpdateKeeps

LEMMA SkippedUpdateKeeps ==
  ASSUME Inv, NEW a \in Batch, NEW title \in Title, NEW reason \in Reason \cup {NoReason},
         Update(a, [next[a] EXCEPT !.skipped = G!MergeSkips(@, [t \in {title} |-> reason])], {})
  PROVE  Inv'
  <1> DEFINE n == [next[a] EXCEPT !.skipped = G!MergeSkips(@, [t \in {title} |-> reason])]
  <1>1. G!MergeSkips(next[a].skipped, [t \in {title} |-> reason]) \in G!Skips
    BY Types, SkipType DEF Inv
  <1>2. /\ n \in StateType /\ n.outcome = next[a].outcome /\ n.gate = next[a].gate
        /\ n.validations["forge_test"] = next[a].validations["forge_test"]
    BY <1>1, Types DEF Inv, StateType
  <1>3. Update(a, n, {})
    OBVIOUS
  <1> HIDE DEF n
  <1>4. {} \in SUBSET LastValue
    OBVIOUS
  <1>5. QED BY <1>2, <1>3, <1>4, OpenUpdateKeeps

LEMMA RecordSkipKeeps == ASSUME Inv, NEW a \in Batch, RecordSkip(a) PROVE Inv'
  <1>1. CASE Reply(a)
    BY <1>1, ReplyKeeps
  <1>2. ASSUME NEW title \in Title, NEW reason \in Reason \cup {NoReason},
          Update(a, [next[a] EXCEPT !.skipped = G!MergeSkips(@, [t \in {title} |-> reason])], {})
        PROVE  Inv'
    BY <1>2, SkippedUpdateKeeps
  <1>3. QED BY <1>1, <1>2 DEF RecordSkip

LEMMA UnskipKeeps == ASSUME Inv, NEW a \in Batch, Unskip(a) PROVE Inv'
  <1>1. CASE Reply(a)
    BY <1>1, ReplyKeeps
  <1>2. ASSUME NEW title \in Title,
          Update(a, [next[a] EXCEPT !.skipped = G!MergeSkips(@, [t \in {title} |-> NoReason])], {})
        PROVE  Inv'
    BY <1>2, SkippedUpdateKeeps
  <1>3. QED BY <1>1, <1>2 DEF Unskip

LEMMA ExpectedUpdateKeeps ==
  ASSUME Inv, NEW a \in Batch, NEW expected \in SUBSET TestName,
         Update(a, [next[a] EXCEPT !.expected_failures = expected], {})
  PROVE  Inv'
  <1> DEFINE n == [next[a] EXCEPT !.expected_failures = expected]
  <1>1. /\ n \in StateType /\ n.outcome = next[a].outcome /\ n.gate = next[a].gate
        /\ n.validations["forge_test"] = next[a].validations["forge_test"]
    BY Types DEF Inv, StateType
  <1>2. Update(a, n, {})
    OBVIOUS
  <1> HIDE DEF n
  <1>3. {} \in SUBSET LastValue
    OBVIOUS
  <1>4. QED BY <1>1, <1>2, <1>3, OpenUpdateKeeps

LEMMA ExpectKeeps ==
  ASSUME Inv, NEW a \in Batch, ExpectTestFailure(a) \/ ExpectTestPassage(a) PROVE Inv'
  <1>1. next[a].expected_failures \in SUBSET TestName
    BY Types DEF Inv, StateType
  <1>2. CASE Reply(a)
    BY <1>2, ReplyKeeps
  <1>3. ASSUME NEW name \in TestName,
               Update(a, [next[a] EXCEPT !.expected_failures = @ \cup {name}], {})
        PROVE  Inv'
    BY <1>1, <1>3, ExpectedUpdateKeeps
  <1>4. ASSUME NEW name \in TestName,
               Update(a, [next[a] EXCEPT !.expected_failures = @ \ {name}], {})
        PROVE  Inv'
    BY <1>1, <1>4, ExpectedUpdateKeeps
  <1>5. QED BY <1>2, <1>3, <1>4 DEF ExpectTestFailure, ExpectTestPassage

LEMMA DigestType ==
  ASSUME TypeInv, NEW a \in Batch, st[a].curr_test # NoTest
  PROVE  FoundryDigest(st[a]) \in Digests
  BY Types DEF FoundryDigest, Digests, Sources

LEMMA FeedbackKeeps == ASSUME Inv, NEW a \in Batch, FeedbackTool(a) PROVE Inv'
  <1>1. CASE Reply(a)
    BY <1>1, ReplyKeeps
  <1>2. CASE /\ st[a].curr_test # NoTest
             /\ Update(a, [next[a] EXCEPT !.validations["feedback"] = FoundryDigest(st[a])], {})
    <2> DEFINE n == [next[a] EXCEPT !.validations["feedback"] = FoundryDigest(st[a])]
    <2>1. FoundryDigest(st[a]) \in Digests
      BY <1>2, DigestType DEF Inv
    <2>2. /\ n \in StateType /\ n.outcome = next[a].outcome /\ n.gate = next[a].gate
          /\ n.validations["forge_test"] = next[a].validations["forge_test"]
      BY <2>1, Types DEF Inv, StateType, FoundryKey
    <2>3. Update(a, n, {})
      BY <1>2
    <2> HIDE DEF n
    <2>4. {} \in SUBSET LastValue
      OBVIOUS
    <2>5. QED BY <2>2, <2>3, <2>4, OpenUpdateKeeps
  <1>3. QED BY <1>1, <1>2 DEF FeedbackTool

\* An end of the run leaves the gate as it is.
LEMMA EndKeeps ==
  ASSUME Inv, NEW a \in Batch, NEW end \in Outcomes,
         Update(a, [next[a] EXCEPT !.outcome = end], {"result"}),
         end.kind = "published" =>
           end.property_tests \in MappingList /\ Accepts(st[a], end.property_tests)
  PROVE  Inv'
  <1> DEFINE n == [next[a] EXCEPT !.outcome = end]
  <1>1. FromCheckpoint(st[a], next[a])
    BY DEF Inv, AgentInv
  <1>2. /\ n \in StateType /\ n.outcome = end /\ n.gate = next[a].gate
        /\ n.validations = next[a].validations
    BY Types DEF Inv, StateType
  <1>3. FromCheckpoint(st[a], n)
    BY <1>1, <1>2 DEF FromCheckpoint, Genuine, IsPublished
  <1>4. {"result"} \in SUBSET LastValue
    BY DEF LastValue
  <1>5. QED BY <1>2, <1>3, <1>4, UpdateKeeps

LEMMA PublishKeeps == ASSUME Inv, NEW a \in Batch, PublishResult(a) PROVE Inv'
  <1>1. CASE Reply(a)
    BY <1>1, ReplyKeeps
  <1>2. ASSUME NEW tests \in MappingList, Accepts(st[a], tests),
               Update(a, [next[a] EXCEPT !.outcome = Published(tests)], {"result"})
        PROVE  Inv'
    <2>1. Published(tests) \in Outcomes /\ Published(tests).property_tests = tests
      BY DEF Published, Outcomes
    <2>2. QED BY <1>2, <2>1, EndKeeps
  <1>3. QED BY <1>1, <1>2 DEF PublishResult

LEMMA GiveUpKeeps == ASSUME Inv, NEW a \in Batch, GiveUp(a) PROVE Inv'
  <1>1. GivenUp \in Outcomes /\ GivenUp.kind # "published"
    BY DEF GivenUp, Outcomes
  <1>2. QED BY <1>1, EndKeeps DEF GiveUp

-----------------------------------------------------------------------------
(* forge_test *)

\* A step of one call leaves the checkpoints and the other calls alone, and does
\* not touch the files they have staged without a seed.
LEMMA CallStep ==
  ASSUME Inv, NEW c \in Call, NEW k \in CallType, call' = [call EXCEPT ![c] = k],
         st' = st, AgentType',
         \A b \in Batch : FromCheckpoint(st[b], next'[b]) /\ SlotsFree(b)',
         files' \in [Path -> Sources], queue' \in Seq(Call),
         \A d \in Call : d # c => files'[StagedPath(d, NoSeed)] = files[StagedPath(d, NoSeed)],
         CallInv(c)'
  PROVE  Inv'
  <1>1. TypeInv'
    BY DEF Inv, TypeInv, ForgeType
  <1>2. ASSUME NEW d \in Call PROVE CallInv(d)'
    <2>1. CASE d = c
      BY <2>1
    <2>2. CASE d # c
      <3>1. call'[d] = call[d] /\ CallInv(d)
        BY <2>2 DEF Inv, TypeInv, ForgeType
      <3>2. files'[StagedPath(d, NoSeed)] = files[StagedPath(d, NoSeed)]
        BY <2>2
      <3>3. QED BY <3>1, <3>2 DEF CallInv
    <2>3. QED BY <2>1, <2>2
  <1>3. ASSUME NEW b \in Batch PROVE AgentInv(b)'
    BY DEF Inv, AgentInv
  <1>4. QED BY <1>1, <1>2, <1>3 DEF Inv

\* A call that is not idle goes on or becomes idle: its agent's later slots stay free.
LEMMA SlotsStep ==
  ASSUME Inv, NEW c \in Call, NEW k \in CallType, call' = [call EXCEPT ![c] = k],
         call[c].step # "idle", st' = st, made' = made, NEW b \in Batch
  PROVE  SlotsFree(b)'
  <1>1. ASSUME NEW d \in Call, st[b].outcome = Open, By(d) = b, d[2] > made[b]
        PROVE  call'[d] = Idle
    <2>1. call[d] = Idle
      BY <1>1 DEF Inv, AgentInv, SlotsFree
    <2>2. d # c
      BY <2>1, IdleFacts
    <2>3. QED BY <2>1, <2>2 DEF Inv, TypeInv, ForgeType
  <1>2. QED BY <1>1 DEF SlotsFree

LEMMA ForgeTestKeeps == ASSUME Inv, NEW a \in Batch, ForgeTest(a) PROVE Inv'
  <1>1. CASE Reply(a)
    BY <1>1, ReplyKeeps
  <1>2. CASE st[a].curr_test # NoTest /\ Message(a)
    <2>1. TypeInv /\ made[a] \in Nat /\ made[a] < MaxCalls /\ MaxCalls \in Nat
      BY <1>2, CallFacts, MessageType DEF Inv
    <2>2. made[a] + 1 \in 1..MaxCalls
      BY <2>1
    <2>3. PICK c \in Call : c = <<a, made[a] + 1>> /\ By(c) = a /\ c[2] = made[a] + 1
      BY <2>2, CallFacts
    <2>4. PICK seed \in Seed \cup {NoSeed} :
            /\ call' = [call EXCEPT ![c] = Queued(seed)] /\ queue' = Append(queue, c)
            /\ next' = next /\ wrote' = wrote /\ clash' = clash /\ files' = files
      BY <1>2, <2>3 DEF ForgeTest, Reply, Update, step
    <2>5. /\ files' \in [Path -> Sources] /\ queue' \in Seq(Call) /\ st' = st /\ AgentType'
      BY <1>2, <2>4, <2>1, <2>3, MessageType DEF TypeInv, AgentType, ForgeType
    <2>6. CallInv(c)'
      <3>1. call'[c] = Queued(seed)
        BY <2>4, <2>1, <2>3 DEF TypeInv, ForgeType
      <3>2. st'[By(c)].curr_test \in TestSource
        BY <1>2, <2>1, <2>3, <2>5, Types DEF Sources
      <3>3. call'[c].step = "queued"
        BY <3>1, IdleFacts
      <3>4. QED BY <3>2, <3>3 DEF CallInv
    <2>7. ASSUME NEW b \in Batch PROVE SlotsFree(b)'
      <3>1. ASSUME NEW d \in Call, st[b].outcome = Open, By(d) = b, d[2] > made'[b]
            PROVE  call'[d] = Idle
        <4>1. d[2] \in Nat /\ made[b] \in Nat
          BY <2>1, CallFacts, Types
        <4>2. d[2] > made[b] /\ d # c
          <5>1. CASE b = a
            <6>1. made'[b] = made[a] + 1
              BY <1>2, <2>1, <5>1, MessageType
            <6>2. QED BY <2>1, <2>3, <3>1, <4>1, <5>1, <6>1
          <5>2. CASE b # a
            BY <1>2, <2>1, <2>3, <3>1, <5>2, MessageType
          <5>3. QED BY <5>1, <5>2
        <4>3. call[d] = Idle
          BY <3>1, <4>2 DEF Inv, AgentInv, SlotsFree
        <4>4. QED BY <2>4, <2>1, <4>2, <4>3 DEF TypeInv, ForgeType
      <3>2. QED BY <2>5, <3>1 DEF SlotsFree
    <2>8. \A b \in Batch : FromCheckpoint(st[b], next'[b])
      BY <2>4 DEF Inv, AgentInv
    <2>9. /\ Queued(seed) \in CallType
          /\ \A d \in Call : d # c => files'[StagedPath(d, NoSeed)] = files[StagedPath(d, NoSeed)]
      BY <2>4, IdleFacts
    <2>10. call' = [call EXCEPT ![c] = Queued(seed)]
      BY <2>4
    <2>11. QED BY <2>3, <2>5, <2>6, <2>7, <2>8, <2>9, <2>10, CallStep
  <1>3. QED BY <1>1, <1>2 DEF ForgeTest

\* A step of a call that no agent sees.
LEMMA QuietCallStep ==
  ASSUME Inv, NEW c \in Call, NEW k \in CallType, call' = [call EXCEPT ![c] = k],
         call[c].step # "idle", UNCHANGED agent,
         files' \in [Path -> Sources], queue' \in Seq(Call),
         \A d \in Call : d # c => files'[StagedPath(d, NoSeed)] = files[StagedPath(d, NoSeed)],
         CallInv(c)'
  PROVE  Inv'
  <1>1. st' = st /\ next' = next /\ wrote' = wrote /\ clash' = clash /\ made' = made /\ turns' = turns
    BY DEF agent, step
  <1>2. AgentType' /\ \A b \in Batch : FromCheckpoint(st[b], next'[b])
    BY <1>1 DEF Inv, TypeInv, AgentType, AgentInv
  <1>3. \A b \in Batch : SlotsFree(b)'
    BY <1>1, SlotsStep
  <1>4. QED BY <1>1, <1>2, <1>3, CallStep

LEMMA ForgeStartKeeps == ASSUME Inv, NEW c \in Call, ForgeStart(c) PROVE Inv'
  <1> DEFINE seed == call[c].seed
             path == StagedPath(c, seed)
  <1>1. /\ TypeInv /\ CallInv(c) /\ call[c].step = "queued" /\ queue # << >>
        /\ queue' = Tail(queue) /\ files' = [files EXCEPT ![path] = st[By(c)].curr_test]
        /\ call' = [call EXCEPT ![c] = Running(seed)] /\ UNCHANGED agent
    BY DEF Inv, ForgeStart
  <1>2. /\ seed \in Seed \cup {NoSeed} /\ path \in Path /\ By(c) \in Batch
        /\ st[By(c)].curr_test \in Sources
    BY <1>1, CallFacts, CallTypes, Types, PathFacts
  <1>3. queue' \in Seq(Call) /\ st' = st
    BY <1>1 DEF TypeInv, ForgeType, agent
  <1>4. files' \in [Path -> Sources]
    BY <1>1, <1>2 DEF TypeInv, ForgeType
  <1>5. ASSUME NEW d \in Call, d # c
        PROVE  files'[StagedPath(d, NoSeed)] = files[StagedPath(d, NoSeed)]
    <2>1. path # StagedPath(d, NoSeed)
      BY <1>2, <1>5, PathFacts
    <2>2. StagedPath(d, NoSeed) \in Path
      BY PathFacts
    <2>3. QED BY <1>1, <1>2, <2>1, <2>2 DEF TypeInv, ForgeType
  <1>6. call'[c] = Running(seed)
    BY <1>1 DEF TypeInv, ForgeType
  <1>7. seed = NoSeed => files'[StagedPath(c, NoSeed)] = st[By(c)].curr_test
    BY <1>1, <1>2 DEF TypeInv, ForgeType
  <1>8. CallInv(c)'
    BY <1>1, <1>2, <1>3, <1>6, <1>7, IdleFacts DEF CallInv
  <1>9. QED BY <1>1, <1>2, <1>3, <1>4, <1>5, <1>8, IdleFacts, QuietCallStep

\* The process has ended: with the tests of the file it found, or without.
LEMMA ExitKeeps ==
  ASSUME Inv, NEW c \in Call, NEW report \in Reports, call[c].step = "running",
         call' = [call EXCEPT ![c] = Exited(@.seed, report)],
         report.kind = "results" => report.source = files[StagedPath(c, call[c].seed)],
         UNCHANGED <<agent, files, queue>>
  PROVE  Inv'
  <1> DEFINE seed == call[c].seed
  <1>1. TypeInv /\ CallInv(c) /\ seed \in Seed \cup {NoSeed}
    BY CallTypes DEF Inv
  <1>2. call'[c] = Exited(seed, report) /\ st' = st
    BY <1>1 DEF TypeInv, ForgeType, agent
  <1>3. CallInv(c)'
    BY <1>1, <1>2, IdleFacts DEF CallInv
  <1>4. Exited(seed, report) \in CallType
    BY <1>1, IdleFacts
  <1>5. files' \in [Path -> Sources] /\ queue' \in Seq(Call)
    BY <1>1 DEF TypeInv, ForgeType
  <1>6. QED BY <1>3, <1>4, <1>5, QuietCallStep

LEMMA RunReports ==
  ASSUME TypeInv, NEW c \in Call, ForgeRuns(c)
  PROVE  \E report \in Reports :
           /\ call' = [call EXCEPT ![c] = Exited(@.seed, report)]
           /\ report.kind = "results" => report.source = files[StagedPath(c, call[c].seed)]
  <1> DEFINE source == files[StagedPath(c, call[c].seed)]
             tests  == IF source = NoTest THEN {} ELSE TestsOf[source]
  <1>1. PICK report \in {NoResults} \cup {Ran(source, status) : status \in [tests -> Status]} :
          call' = [call EXCEPT ![c] = Exited(@.seed, report)]
    BY DEF ForgeRuns
  <1>2. source \in Sources
    BY CallTypes, PathFacts DEF TypeInv, ForgeType
  <1>3. tests \in SUBSET TestName
    BY <1>2, FoundryAssumption DEF Sources
  <1>4. report \in Reports /\ (report.kind = "results" => report.source = source)
    BY <1>1, <1>2, <1>3 DEF Reports, Statuses, Ran, NoResults
  <1>5. QED BY <1>1, <1>4

LEMMA ForgeRunsKeeps == ASSUME Inv, NEW c \in Call, ForgeRuns(c) PROVE Inv'
  <1>1. PICK report \in Reports :
          /\ call' = [call EXCEPT ![c] = Exited(@.seed, report)]
          /\ report.kind = "results" => report.source = files[StagedPath(c, call[c].seed)]
    BY RunReports DEF Inv
  <1>2. QED BY <1>1, ExitKeeps DEF ForgeRuns

LEMMA ForgeTimesOutKeeps == ASSUME Inv, NEW c \in Call, ForgeTimesOut(c) PROVE Inv'
  <1>1. Killed \in Reports /\ Killed.kind # "results"
    BY DEF Reports, Killed
  <1>2. QED BY <1>1, ExitKeeps DEF ForgeTimesOut

\* What the tool makes of a report keeps the gate genuine: the file it stamps is
\* the file that ran.
LEMMA AfterRunFacts ==
  ASSUME Inv, NEW c \in Call, call[c].step = "exited"
  PROVE  LET n == AfterRun(st[By(c)], next[By(c)], call[c].seed, call[c].report) IN
         n \in StateType /\ FromCheckpoint(st[By(c)], n) /\ n.outcome = next[By(c)].outcome
  <1> DEFINE a == By(c)
             seed   == call[c].seed
             report == call[c].report
             n      == AfterRun(st[a], next[a], seed, report)
  <1>1. /\ TypeInv /\ CallInv(c) /\ a \in Batch /\ report \in Reports
        /\ next[a] \in StateType /\ FromCheckpoint(st[a], next[a])
    BY CallFacts, CallTypes, Types DEF Inv, AgentInv
  <1>2. st[a].curr_test \in TestSource
    BY <1>1 DEF CallInv
  <1>3. CASE report.kind = "killed"
    BY <1>1, <1>3 DEF AfterRun
  <1>4. ASSUME NEW names \in SUBSET TestName, n = [next[a] EXCEPT !.last_test_names = names]
        PROVE  n \in StateType /\ FromCheckpoint(st[a], n) /\ n.outcome = next[a].outcome
    <2>1. /\ n \in StateType /\ n.outcome = next[a].outcome /\ n.gate = next[a].gate
          /\ n.validations = next[a].validations
      BY <1>1, <1>4 DEF StateType
    <2>2. QED BY <1>1, <2>1 DEF FromCheckpoint, Genuine, IsPublished
  <1>5. CASE report.kind = "garbage"
    <2>1. n = [next[a] EXCEPT !.last_test_names = {}]
      BY <1>5 DEF AfterRun
    <2>2. QED BY <1>4, <2>1
  <1>6. CASE report.kind \notin {"killed", "garbage"}
    <2>1. report.kind = "results" /\ report.source \in Sources /\ report.status \in Statuses
      BY <1>1, <1>6 DEF Reports, Killed, NoResults
    <2>2. DOMAIN report.status \in SUBSET TestName
      BY <2>1 DEF Statuses
    <2>3. CASE ~StampsRun(seed, report.status, st[a].expected_failures)
      <3>1. n = [next[a] EXCEPT !.last_test_names = DOMAIN report.status]
        BY <1>6, <2>3 DEF AfterRun
      <3>2. QED BY <1>4, <2>2, <3>1
    <2>4. CASE StampsRun(seed, report.status, st[a].expected_failures)
      <3> DEFINE gate == [source |-> report.source, skipped |-> st[a].skipped,
                          status |-> report.status]
      <3>1. n = [next[a] EXCEPT !.last_test_names = DOMAIN report.status,
                                !.validations["forge_test"] = FoundryDigest(st[a]), !.gate = gate]
        BY <1>6, <2>4 DEF AfterRun
      <3>2. report.source = st[a].curr_test
        BY <1>1, <2>1, <2>4 DEF CallInv, StampsRun
      <3>3. gate \in Gates
        BY <1>1, <1>2, <2>1, <3>2, Types DEF Gates, Statuses
      <3>4. FoundryDigest(st[a]) = Hash(gate.source, gate.skipped) /\ FoundryDigest(st[a]) \in Digests
        BY <1>1, <1>2, <3>2, Types DEF FoundryDigest, Digests
      <3>5. \A t \in DOMAIN gate.status : gate.status[t] # "Failure"
        BY <2>4 DEF StampsRun, Clean, ReturnCode
      <3> DEFINE digest == FoundryDigest(st[a])
                 stamps == [next[a].validations EXCEPT !["forge_test"] = digest]
      <3>6. next[a].validations \in [FoundryKey -> Digests \cup {NoStamp}]
        BY <1>1, Types
      <3>7. digest \in Digests /\ digest = Hash(gate.source, gate.skipped)
        BY <3>4
      <3> HIDE DEF gate, digest
      <3>8. stamps \in [FoundryKey -> Digests \cup {NoStamp}] /\ stamps["forge_test"] = digest
        BY <3>6, <3>7 DEF FoundryKey
      <3>9. n = [next[a] EXCEPT !.last_test_names = DOMAIN report.status,
                                !.validations = stamps, !.gate = gate]
        BY <3>1 DEF digest
      <3> HIDE DEF stamps, n
      <3>10. n \in StateType
        BY <1>1, <2>2, <3>3, <3>8, <3>9 DEF StateType
      <3>11. n.outcome = next[a].outcome /\ n.gate = gate /\ n.validations = stamps
        BY <1>1, <3>9 DEF StateType
      <3>12. Genuine(n)
        BY <3>3, <3>5, <3>7, <3>8, <3>11 DEF Genuine
      <3>13. n.validations["forge_test"] \in {st[a].validations["forge_test"], FoundryDigest(st[a])}
        BY <3>8, <3>11 DEF digest
      <3>14. n \in StateType /\ FromCheckpoint(st[a], n) /\ n.outcome = next[a].outcome
        BY <1>1, <3>10, <3>11, <3>12, <3>13 DEF FromCheckpoint, IsPublished
      <3>15. QED BY <3>14 DEF n
    <2>5. QED BY <2>3, <2>4
  <1>7. QED BY <1>3, <1>5, <1>6

LEMMA AnswerFacts ==
  ASSUME Inv, NEW c \in Call, ForgeReturns(c)
  PROVE  /\ AgentType'
         /\ \A b \in Batch : FromCheckpoint(st[b], next'[b])
         /\ \A b \in Batch : next'[b].outcome = next[b].outcome
  <1> DEFINE a == By(c)
             n == AfterRun(st[a], next[a], call[c].seed, call[c].report)
             channels == IF call[c].report.kind = "killed" THEN {} ELSE {"last_test_names"}
  <1>1. /\ TypeInv /\ a \in Batch /\ st' = st /\ made' = made /\ turns' = turns
        /\ \A b \in Batch : FromCheckpoint(st[b], next[b])
    BY CallFacts DEF Inv, AgentInv, ForgeReturns
  <1>2. n \in StateType /\ FromCheckpoint(st[a], n) /\ n.outcome = next[a].outcome
    BY AfterRunFacts DEF ForgeReturns
  <1>3. CASE st[a].outcome = Open
    <2>1. channels \in SUBSET LastValue
      BY DEF LastValue
    <2>2. Merge(a, n, channels)
      BY <1>3 DEF ForgeReturns, Answer
    <2> HIDE DEF n, channels, a
    <2>3. /\ next' \in [Batch -> StateType] /\ wrote' \in [Batch -> SUBSET LastValue]
          /\ clash' \in [Batch -> BOOLEAN] /\ next'[a] = n
          /\ \A b \in Batch : b # a => next'[b] = next[b]
      BY <1>1, <1>2, <2>1, <2>2, MergeType
    <2>4. QED BY <1>1, <1>2, <2>3 DEF TypeInv, AgentType
  <1>4. CASE st[a].outcome # Open
    <2>1. next' = next /\ wrote' = wrote /\ clash' = clash
      BY <1>4 DEF ForgeReturns, Answer, step
    <2>2. QED BY <1>1, <2>1 DEF TypeInv, AgentType
  <1>5. QED BY <1>3, <1>4

LEMMA ForgeReturnsKeeps == ASSUME Inv, NEW c \in Call, ForgeReturns(c) PROVE Inv'
  <1> DEFINE seed == call[c].seed
             path == StagedPath(c, seed)
  <1>1. /\ TypeInv /\ call[c].step = "exited" /\ st' = st /\ made' = made
        /\ files' = [files EXCEPT ![path] = NoTest]
        /\ call' = [call EXCEPT ![c] = Idle] /\ queue' = queue
    BY DEF Inv, ForgeReturns, Unstage
  <1>2. AgentType' /\ \A b \in Batch : FromCheckpoint(st[b], next'[b])
    BY AnswerFacts
  <1>3. seed \in Seed \cup {NoSeed} /\ path \in Path
    BY <1>1, CallTypes, PathFacts
  <1>4. files' \in [Path -> Sources] /\ queue' \in Seq(Call)
    BY <1>1, <1>3 DEF TypeInv, ForgeType, Sources
  <1>5. ASSUME NEW d \in Call, d # c
        PROVE  files'[StagedPath(d, NoSeed)] = files[StagedPath(d, NoSeed)]
    <2>1. path # StagedPath(d, NoSeed) /\ StagedPath(d, NoSeed) \in Path
      BY <1>3, <1>5, PathFacts
    <2>2. QED BY <1>1, <1>3, <2>1 DEF TypeInv, ForgeType
  <1>6. CallInv(c)'
    <2>1. call'[c] = Idle
      BY <1>1 DEF TypeInv, ForgeType
    <2>2. QED BY <2>1, IdleFacts DEF CallInv
  <1>7. \A b \in Batch : SlotsFree(b)'
    BY <1>1, IdleFacts, SlotsStep
  <1>8. QED BY <1>1, <1>2, <1>4, <1>5, <1>6, <1>7, IdleFacts, CallStep

-----------------------------------------------------------------------------
(* The graph of an agent *)

LEMMA StartStepKeeps ==
  ASSUME Inv, NEW a \in Batch, NEW s \in StateType, StartStep(a, s), turns' \in [Batch -> Nat],
         Genuine(s), s.outcome = Open => AllReturned(a),
         AllReturned(a) \/ s.curr_test = st[a].curr_test
  PROVE  Inv'
  <1>1. /\ st' = [st EXCEPT ![a] = s] /\ next' = [next EXCEPT ![a] = s]
        /\ wrote' = [wrote EXCEPT ![a] = {}] /\ clash' = [clash EXCEPT ![a] = FALSE]
        /\ made' = [made EXCEPT ![a] = 0] /\ call' = call /\ files' = files /\ queue' = queue
    BY DEF StartStep, forge
  <1>2. TypeInv'
    <2>1. 0 \in 0..MaxCalls
      BY CallFacts
    <2>2. QED BY <1>1, <2>1 DEF Inv, TypeInv, AgentType, ForgeType
  <1>3. ASSUME NEW b \in Batch PROVE AgentInv(b)'
    <2>1. CASE b = a
      <3>1. st'[b] = s /\ next'[b] = s
        BY <1>1, <2>1 DEF Inv, TypeInv, AgentType
      <3>2. FromCheckpoint(s, s)
        BY DEF FromCheckpoint
      <3>3. SlotsFree(b)'
        BY <1>1, <2>1, <3>1 DEF SlotsFree, AllReturned
      <3>4. QED BY <3>1, <3>2, <3>3 DEF AgentInv
    <2>2. CASE b # a
      <3>1. st'[b] = st[b] /\ next'[b] = next[b] /\ made'[b] = made[b]
        BY <1>1, <2>2 DEF Inv, TypeInv, AgentType
      <3>2. QED BY <1>1, <3>1 DEF Inv, AgentInv, SlotsFree
    <2>3. QED BY <2>1, <2>2
  <1>4. ASSUME NEW c \in Call PROVE CallInv(c)'
    <2>1. CallInv(c)
      BY DEF Inv
    <2>2. CASE By(c) = a /\ AllReturned(a)
      <3>1. call'[c] = Idle
        BY <1>1, <2>2 DEF AllReturned
      <3>2. QED BY <3>1, IdleFacts DEF CallInv
    <2>3. CASE By(c) # a \/ ~AllReturned(a)
      <3>1. st'[By(c)].curr_test = st[By(c)].curr_test
        BY <1>1, <2>3, CallFacts DEF Inv, TypeInv, AgentType
      <3>2. QED BY <1>1, <2>1, <3>1 DEF CallInv
    <2>4. QED BY <2>2, <2>3
  <1>5. QED BY <1>2, <1>3, <1>4 DEF Inv

LEMMA EndStepKeeps == ASSUME Inv, NEW a \in Batch, EndStep(a) PROVE Inv'
  <1>1. next[a] \in StateType /\ Genuine(next[a])
    BY Types DEF Inv, AgentInv, FromCheckpoint
  <1>2. turns' \in [Batch -> Nat] /\ AllReturned(a) /\ StartStep(a, next[a])
    BY DEF EndStep, Inv, TypeInv, AgentType
  <1>3. QED BY <1>1, <1>2, StartStepKeeps

LEMMA RaisedState ==
  ASSUME Inv, NEW a \in Batch
  PROVE  LET s == [st[a] EXCEPT !.outcome = Raised] IN
         /\ s \in StateType /\ Genuine(s) /\ s.outcome = Raised /\ s.curr_test = st[a].curr_test
         /\ Raised # Open /\ ~IsPublished(s)
  <1> DEFINE s == [st[a] EXCEPT !.outcome = Raised]
  <1>1. st[a] \in StateType /\ Genuine(st[a])
    BY Types DEF Inv, AgentInv
  <1>2. Raised \in Outcomes /\ Raised # Open /\ Raised.kind # "published"
    BY DEF Raised, Outcomes, Open
  <1>3. /\ s \in StateType /\ s.outcome = Raised /\ s.curr_test = st[a].curr_test
        /\ s.gate = st[a].gate /\ s.validations = st[a].validations
    BY <1>1, <1>2 DEF StateType
  <1>4. QED BY <1>1, <1>2, <1>3 DEF Genuine, IsPublished

LEMMA RaiseKeeps == ASSUME Inv, NEW a \in Batch, Raise(a) PROVE Inv'
  <1> DEFINE s == [st[a] EXCEPT !.outcome = Raised]
  <1>1. turns' \in [Batch -> Nat] /\ StartStep(a, s)
    BY DEF Raise, Inv, TypeInv, AgentType
  <1>2. QED BY <1>1, RaisedState, StartStepKeeps

LEMMA NextInv == Inv /\ [Next]_vars => Inv'
  <1> SUFFICES ASSUME Inv, [Next]_vars PROVE Inv'
    OBVIOUS
  <1>1. ASSUME NEW a \in Batch, Tool(a) PROVE Inv'
    BY <1>1, PutTestKeeps, RecordSkipKeeps, UnskipKeeps, ExpectKeeps, FeedbackKeeps, PublishKeeps,
       GiveUpKeeps, ForgeTestKeeps DEF Tool
  <1>2. ASSUME NEW c \in Call, Forge(c) PROVE Inv'
    BY <1>2, ForgeStartKeeps, ForgeRunsKeeps, ForgeTimesOutKeeps, ForgeReturnsKeeps DEF Forge
  <1>3. CASE UNCHANGED vars
    <2>1. /\ st' = st /\ next' = next /\ wrote' = wrote /\ clash' = clash /\ made' = made
          /\ turns' = turns /\ call' = call /\ files' = files /\ queue' = queue
      BY <1>3 DEF vars, agent, step, forge
    <2>2. QED BY <2>1 DEF Inv, TypeInv, AgentType, ForgeType, AgentInv, SlotsFree, CallInv
  <1>4. QED BY <1>1, <1>2, <1>3, EndStepKeeps, RaiseKeeps DEF Next, Finished

LEMMA FoundryInvariant == FoundrySpec => []Inv
  BY InitInv, NextInv, PTL DEF FoundrySpec

-----------------------------------------------------------------------------
(* Results *)

\* The types of a run: what an agent stamps, stages and publishes are digests,
\* drafts and mappings of the kinds FoundryGenerationState declares.
THEOREM FoundryTypeCorrect == FoundrySpec => []TypeInv
  <1>1. Inv => TypeInv
    BY DEF Inv
  <1>2. QED BY <1>1, FoundryInvariant, PTL

\* The forge_test stamp is the digest of the file forge really compiled in a run
\* without failures (runner.py, ForgeTestTool.run).
THEOREM GateIsGenuine == FoundrySpec => []GateGenuine
  <1>1. Inv => GateGenuine
    BY FoundrySentinelAssumption DEF Inv, AgentInv, Genuine, GateGenuine
  <1>2. QED BY <1>1, FoundryInvariant, PTL

\* No other run disturbs an unseeded one: its path holds the draft it was called
\* with from staging to exit (runner.py, the UUID of an unseeded draft).
THEOREM UnseededRunsIntact == FoundrySpec => []UnseededRunIntact
  <1>1. Inv => UnseededRunIntact
    BY DEF Inv, CallInv, UnseededRunIntact
  <1>2. QED BY <1>1, FoundryInvariant, PTL

\* The check of a mapping leaves a bijection between its entries and the titles
\* that are not skipped.
LEMMA MappingBijection ==
  ASSUME NEW tests \in Seq(G!Mapping), NEW skipped \in G!Skips,
         G!ValidatePropertyRules(tests, skipped)
  PROVE  LET titles == Title \ G!SkippedTitles(skipped) IN
         /\ {tests[i].title : i \in 1..Len(tests)} = titles
         /\ Len(tests) = Cardinality(titles)
  <1> DEFINE titles == Title \ G!SkippedTitles(skipped)
             entries == 1..Len(tests)
             f == [i \in entries |-> tests[i].title]
  <1>1. /\ \A i \in entries : tests[i].title \in titles
        /\ \A i \in entries : \A j \in 1..(i - 1) : tests[j].title # tests[i].title
        /\ \A t \in titles : \E i \in entries : tests[i].title = t
    BY DEF G!ValidatePropertyRules
  <1>2. Len(tests) \in Nat
    OBVIOUS
  <1>3. ASSUME NEW i \in entries, NEW j \in entries, tests[i].title = tests[j].title
        PROVE  i = j
    <2>1. i \in Int /\ j \in Int /\ 1 <= i /\ 1 <= j
      BY <1>2
    <2>2. CASE i < j
      BY <1>1, <1>3, <2>1, <2>2
    <2>3. CASE j < i
      BY <1>1, <1>3, <2>1, <2>3
    <2>4. QED BY <2>1, <2>2, <2>3
  <1>4. f \in Bijection(entries, titles)
    <2>1. f \in [entries -> titles]
      BY <1>1
    <2>2. \A i, j \in entries : f[i] = f[j] => i = j
      BY <1>3
    <2>3. \A t \in titles : \E i \in entries : f[i] = t
      BY <1>1
    <2>4. QED BY <2>1, <2>2, <2>3 DEF Bijection, Injection, Surjection, IsInjective
  <1>5. IsFiniteSet(entries) /\ Cardinality(entries) = Len(tests)
    BY <1>2, FS_Interval
  <1>6. Cardinality(titles) = Len(tests)
    <2>1. ExistsBijection(entries, titles)
      BY <1>4 DEF ExistsBijection
    <2>2. QED BY <1>5, <2>1, FS_Bijection
  <1>7. {tests[i].title : i \in entries} = titles
    BY <1>1
  <1>8. QED BY <1>6, <1>7

\* A stamp that is the digest of a state names the run of that very state.
LEMMA StampedState ==
  ASSUME NEW s \in StateType, Genuine(s), s.curr_test # NoTest,
         s.validations["forge_test"] = FoundryDigest(s)
  PROVE  PassedGate(s)
  <1>1. s.curr_test \in TestSource /\ s.skipped \in G!Skips
    BY DEF StateType, Sources
  <1>2. s.validations["forge_test"] = Hash(s.curr_test, s.skipped)
    BY DEF FoundryDigest
  <1>3. s.validations["forge_test"] # NoStamp
    BY <1>1, <1>2, FoundrySentinelAssumption
  <1>4. s.gate \in Gates /\ s.validations["forge_test"] = Hash(s.gate.source, s.gate.skipped)
    BY <1>3 DEF Genuine
  <1>5. s.gate.source \in TestSource /\ s.gate.skipped \in G!Skips
    BY <1>4 DEF Gates
  <1>6. Hash(s.gate.source, s.gate.skipped) = Hash(s.curr_test, s.skipped)
    BY <1>2, <1>4
  <1>7. s.gate.source = s.curr_test /\ s.gate.skipped = s.skipped
    BY <1>1, <1>5, <1>6, FoundrySentinelAssumption
  <1>8. QED BY <1>4, <1>7, FoundrySentinelAssumption DEF PassedGate

LEMMA AcceptedMapping ==
  ASSUME NEW s \in StateType, NEW tests \in MappingList, Accepts(s, tests)
  PROVE  MappingExact(tests, s)
  <1>1. tests \in Seq(G!Mapping) /\ s.skipped \in G!Skips
    BY FoundryAssumption DEF StateType
  <1>2. G!ValidatePropertyRules(tests, s.skipped) /\ Claimed(tests) = s.last_test_names
    BY DEF Accepts, ValidatePropertyTests
  <1>3. QED BY <1>1, <1>2, MappingBijection DEF MappingExact

LEMMA AcceptedState ==
  ASSUME NEW s \in StateType, Genuine(s), NEW tests \in MappingList, Accepts(s, tests)
  PROVE  PassedGate(s)
  <1>1. s.curr_test # NoTest /\ s.validations["forge_test"] = FoundryDigest(s)
    BY DEF Accepts, CheckFoundryCompletion, Required
  <1>2. QED BY <1>1, StampedState

\* Which steps publish: the call of `result' for the merge of its super-step, and
\* the end of the super-step for the checkpoint.
LEMMA MergePublishes ==
  ASSUME Inv, [Next]_vars, NEW a \in Batch, ~IsPublished(next[a]), IsPublished(next'[a])
  PROVE  \E tests \in MappingList :
           Accepts(st[a], tests) /\ next'[a].outcome.property_tests = tests
  <1>1. ASSUME NEW b \in Batch, NEW n, NEW channels, Update(b, n, channels)
        PROVE  b = a /\ next'[a] = n
    <2>1. next' = [next EXCEPT ![b] = n]
      BY <1>1 DEF Update, Merge
    <2>2. QED BY <2>1 DEF Inv, TypeInv, AgentType
  <1>2. ASSUME NEW b \in Batch, NEW n \in StateType, NEW channels, Update(b, n, channels),
               n.outcome = next[b].outcome
        PROVE  FALSE
    BY <1>1, <1>2 DEF IsPublished
  <1>3. ASSUME NEW b \in Batch, Reply(b) PROVE FALSE
    <2>1. next[b] \in StateType /\ Update(b, next[b], {})
      BY <1>3, Types DEF Inv, Reply
    <2>2. QED BY <1>2, <2>1
  <1>4. ASSUME NEW b \in Batch, PublishResult(b)
        PROVE  \E tests \in MappingList :
                 Accepts(st[a], tests) /\ next'[a].outcome.property_tests = tests
    <2>1. PICK tests \in MappingList :
            /\ Accepts(st[b], tests)
            /\ Update(b, [next[b] EXCEPT !.outcome = Published(tests)], {"result"})
      BY <1>3, <1>4 DEF PublishResult
    <2>2. b = a /\ next'[a] = [next[b] EXCEPT !.outcome = Published(tests)]
      BY <1>1, <2>1
    <2>3. next'[a].outcome = Published(tests)
      BY <2>2, Types DEF Inv, StateType
    <2>4. QED BY <2>1, <2>2, <2>3 DEF Published
  <1>5. ASSUME NEW b \in Batch, GiveUp(b) PROVE FALSE
    <2>1. b = a /\ next'[a] = [next[b] EXCEPT !.outcome = GivenUp]
      BY <1>1, <1>5 DEF GiveUp
    <2>2. next'[a].outcome = GivenUp
      BY <2>1, Types DEF Inv, StateType
    <2>3. QED BY <2>2 DEF IsPublished, GivenUp
  <1>6. ASSUME NEW b \in Batch, PutTestRaw(b) PROVE FALSE
    <2>1. PICK source \in TestSource :
            Update(b, [next[b] EXCEPT !.curr_test = source], {"curr_test"})
      BY <1>6 DEF PutTestRaw
    <2>2. next'[a].outcome = next[a].outcome
      BY <1>1, <2>1, Types DEF Inv, StateType
    <2>3. QED BY <2>2 DEF IsPublished
  <1>7. ASSUME NEW b \in Batch, RecordSkip(b) \/ Unskip(b) PROVE FALSE
    <2>1. PICK skipped : Update(b, [next[b] EXCEPT !.skipped = skipped], {})
      BY <1>3, <1>7 DEF RecordSkip, Unskip
    <2>2. next'[a].outcome = next[a].outcome
      BY <1>1, <2>1, Types DEF Inv, StateType
    <2>3. QED BY <2>2 DEF IsPublished
  <1>8. ASSUME NEW b \in Batch, ExpectTestFailure(b) \/ ExpectTestPassage(b) PROVE FALSE
    <2>1. PICK expected : Update(b, [next[b] EXCEPT !.expected_failures = expected], {})
      BY <1>3, <1>8 DEF ExpectTestFailure, ExpectTestPassage
    <2>2. next'[a].outcome = next[a].outcome
      BY <1>1, <2>1, Types DEF Inv, StateType
    <2>3. QED BY <2>2 DEF IsPublished
  <1>9. ASSUME NEW b \in Batch, FeedbackTool(b) PROVE FALSE
    <2>1. Update(b, [next[b] EXCEPT !.validations["feedback"] = FoundryDigest(st[b])], {})
      BY <1>3, <1>9 DEF FeedbackTool
    <2>2. next'[a].outcome = next[a].outcome
      BY <1>1, <2>1, Types DEF Inv, StateType
    <2>3. QED BY <2>2 DEF IsPublished
  <1>10. ASSUME NEW b \in Batch, ForgeTest(b) PROVE FALSE
    <2>1. next' = next
      BY <1>3, <1>10 DEF ForgeTest, step
    <2>2. QED BY <2>1
  <1>11. ASSUME NEW b \in Batch, EndStep(b) \/ Raise(b) PROVE FALSE
    <2>1. CASE EndStep(b)
      BY <2>1 DEF EndStep, StartStep, Inv, TypeInv, AgentType
    <2>2. CASE Raise(b)
      <3>1. next' = [next EXCEPT ![b] = [st[b] EXCEPT !.outcome = Raised]]
        BY <2>2 DEF Raise, StartStep
      <3>2. b # a => next'[a] = next[a]
        BY <3>1 DEF Inv, TypeInv, AgentType
      <3>3. b = a => next'[a] = [st[a] EXCEPT !.outcome = Raised]
        BY <3>1 DEF Inv, TypeInv, AgentType
      <3>4. QED BY <3>2, <3>3, RaisedState
    <2>3. QED BY <1>11, <2>1, <2>2
  <1>12. ASSUME NEW c \in Call, Forge(c) PROVE FALSE
    <2>1. next'[a].outcome = next[a].outcome
      BY <1>12, AnswerFacts DEF Forge, ForgeStart, ForgeRuns, ForgeTimesOut, agent, step
    <2>2. QED BY <2>1 DEF IsPublished
  <1>13. CASE UNCHANGED vars
    BY <1>13 DEF vars, agent, step
  <1>14. QED BY <1>4, <1>5, <1>6, <1>7, <1>8, <1>9, <1>10, <1>11, <1>12, <1>13
             DEF Next, Finished, Tool

LEMMA CheckpointPublishes ==
  ASSUME Inv, [Next]_vars, NEW a \in Batch, ~IsPublished(st[a]), IsPublished(st'[a])
  PROVE  st'[a] = next[a]
  <1>1. ASSUME NEW b \in Batch, EndStep(b) PROVE st'[a] = next[a]
    BY <1>1 DEF EndStep, StartStep, Inv, TypeInv, AgentType
  <1>2. ASSUME NEW b \in Batch, Raise(b) PROVE FALSE
    <2>1. st' = [st EXCEPT ![b] = [st[b] EXCEPT !.outcome = Raised]]
      BY <1>2 DEF Raise, StartStep
    <2>2. b # a => st'[a] = st[a]
      BY <2>1 DEF Inv, TypeInv, AgentType
    <2>3. b = a => st'[a] = [st[a] EXCEPT !.outcome = Raised]
      BY <2>1 DEF Inv, TypeInv, AgentType
    <2>4. QED BY <2>2, <2>3, RaisedState
  <1>3. ASSUME NEW b \in Batch, Tool(b) PROVE st' = st
    BY <1>3 DEF Tool, PutTestRaw, RecordSkip, Unskip, ExpectTestFailure, ExpectTestPassage,
                FeedbackTool, PublishResult, GiveUp, ForgeTest, Reply, Update, Message
  <1>4. ASSUME NEW c \in Call, Forge(c) PROVE st' = st
    BY <1>4 DEF Forge, ForgeStart, ForgeRuns, ForgeTimesOut, ForgeReturns, agent
  <1>5. CASE UNCHANGED vars
    BY <1>5 DEF vars, agent
  <1>6. QED BY <1>1, <1>2, <1>3, <1>4, <1>5 DEF Next, Finished

\* Whatever calls its message makes beside it, `result' is accepted only on a
\* checkpoint that passed its gate, with a mapping that is exact for it
\* (PublishResultTool, check_foundry_completion, validate_property_tests).
THEOREM PublicationIsGated == FoundrySpec => PublishGated
  <1>1. ASSUME Inv, [Next]_vars, NEW a \in Batch, ~IsPublished(next[a]), IsPublished(next'[a])
        PROVE  PassedGate(st[a]) /\ MappingExact(next'[a].outcome.property_tests, st[a])
    <2>1. PICK tests \in MappingList :
            Accepts(st[a], tests) /\ next'[a].outcome.property_tests = tests
      BY <1>1, MergePublishes
    <2>2. st[a] \in StateType /\ Genuine(st[a])
      BY <1>1, Types DEF Inv, AgentInv
    <2>3. QED BY <2>1, <2>2, AcceptedState, AcceptedMapping
  <1>2. Inv /\ [Next]_vars =>
          [\A a \in Batch : ~IsPublished(next[a]) /\ IsPublished(next'[a]) =>
             PassedGate(st[a]) /\ MappingExact(next'[a].outcome.property_tests, st[a])]_vars
    BY <1>1
  <1>3. QED BY <1>2, FoundryInvariant, PTL DEF FoundrySpec, PublishGated

\* What no call of the publishing message edits is published as it passed the
\* gate (the merge of the message's updates by FoundryGenerationState's reducers).
THEOREM PublishedAsAccepted == FoundrySpec => PublishedUnlessEdited
  <1>1. ASSUME Inv, [Next]_vars, NEW a \in Batch, ~IsPublished(st[a]), IsPublished(st'[a])
        PROVE  LET s == st'[a] IN
               /\ s.curr_test = st[a].curr_test /\ s.skipped = st[a].skipped => PassedGate(s)
               /\ s.skipped = st[a].skipped /\ s.last_test_names = st[a].last_test_names =>
                    MappingExact(s.outcome.property_tests, s)
    <2> DEFINE s == st'[a]
               tests == s.outcome.property_tests
    <2>1. s = next[a] /\ s \in StateType /\ st[a] \in StateType
      BY <1>1, CheckpointPublishes, Types DEF Inv
    <2>2. /\ Genuine(s) /\ s.validations["forge_test"] \in {st[a].validations["forge_test"], FoundryDigest(st[a])}
          /\ tests \in MappingList /\ Accepts(st[a], tests)
      BY <1>1, <2>1 DEF Inv, AgentInv, FromCheckpoint
    <2>3. ASSUME s.curr_test = st[a].curr_test, s.skipped = st[a].skipped
          PROVE  PassedGate(s)
      <3>1. /\ st[a].curr_test # NoTest
            /\ st[a].validations["forge_test"] = FoundryDigest(st[a])
        BY <2>2 DEF Accepts, CheckFoundryCompletion, Required
      <3>2. FoundryDigest(s) = FoundryDigest(st[a])
        BY <2>3 DEF FoundryDigest
      <3>3. s.validations["forge_test"] = FoundryDigest(s)
        BY <2>2, <3>1, <3>2
      <3> HIDE DEF s
      <3>4. QED BY <2>1, <2>2, <2>3, <3>1, <3>3, StampedState
    <2>4. ASSUME s.skipped = st[a].skipped, s.last_test_names = st[a].last_test_names
          PROVE  MappingExact(tests, s)
      <3>1. MappingExact(tests, st[a])
        BY <2>1, <2>2, AcceptedMapping
      <3>2. QED BY <2>4, <3>1 DEF MappingExact
    <2>5. QED BY <2>3, <2>4
  <1>2. Inv /\ [Next]_vars =>
          [\A a \in Batch : ~IsPublished(st[a]) /\ IsPublished(st'[a]) =>
             LET s == st'[a] IN
             /\ s.curr_test = st[a].curr_test /\ s.skipped = st[a].skipped => PassedGate(s)
             /\ s.skipped = st[a].skipped /\ s.last_test_names = st[a].last_test_names =>
                  MappingExact(s.outcome.property_tests, s)]_vars
    BY <1>1
  <1>3. QED BY <1>2, FoundryInvariant, PTL DEF FoundrySpec, PublishedUnlessEdited

-----------------------------------------------------------------------------
(* The test directory and the semaphore *)

LEMMA HoldersFinite == IsFiniteSet(Holders) /\ Cardinality(Holders) \in Nat
  <1>1. Holders \in SUBSET Call
    BY DEF Holders
  <1>2. IsFiniteSet(Holders)
    <2>1. IsFiniteSet(1..MaxCalls)
      BY CallFacts, FS_Interval
    <2>2. IsFiniteSet(Call)
      BY <2>1, FoundryAssumption, FS_Product DEF Call
    <2>3. QED BY <1>1, <2>2, FS_Subset
  <1>3. QED BY <1>2, FS_CardinalityType

\* A step of one call makes its agent a holder or not, and no other.
LEMMA HoldersStep ==
  ASSUME TypeInv, NEW c \in Call, NEW k \in CallType, call' = [call EXCEPT ![c] = k]
  PROVE  /\ call'[c] = k
         /\ \A d \in Call : d # c => call'[d] = call[d]
         /\ k.step \in {"running", "exited"} => Holders' = Holders \cup {c}
         /\ k.step \notin {"running", "exited"} => Holders' = Holders \ {c}
  <1>1. call'[c] = k /\ \A d \in Call : d # c => call'[d] = call[d]
    BY DEF TypeInv, ForgeType
  <1>2. QED BY <1>1 DEF Holders

LEMMA QuietStep == ASSUME DirectoryClean, UNCHANGED <<call, files>> PROVE DirectoryClean'
  BY DEF DirectoryClean, Holders

LEMMA ForgeTestClean ==
  ASSUME Inv, DirectoryClean, NEW a \in Batch, ForgeTest(a) PROVE DirectoryClean'
  <1>1. CASE Reply(a)
    BY <1>1, QuietStep DEF Reply, Update, forge
  <1>2. CASE st[a].curr_test # NoTest /\ Message(a)
    <2> DEFINE c == <<a, made[a] + 1>>
    <2>1. PICK seed \in Seed \cup {NoSeed} :
            call' = [call EXCEPT ![c] = Queued(seed)] /\ files' = files
      BY <1>2 DEF ForgeTest, Reply, Update
    <2>2. made[a] \in Nat /\ made[a] < MaxCalls /\ MaxCalls \in Nat /\ st[a].outcome = Open
      BY <1>2, CallFacts, MessageType DEF Inv
    <2>3. made[a] + 1 \in 1..MaxCalls /\ made[a] + 1 > made[a]
      BY <2>2
    <2>4. c \in Call /\ By(c) = a /\ c[2] > made[a]
      BY <2>3, CallFacts
    <2>5. call[c] = Idle
      BY <2>2, <2>4 DEF Inv, AgentInv, SlotsFree
    <2> HIDE DEF c
    <2>6. c \notin Holders
      BY <2>5, IdleFacts DEF Holders
    <2>7. Holders' = Holders /\ \A d \in Holders : call'[d] = call[d]
      BY <2>1, <2>4, <2>6, IdleFacts, HoldersStep DEF Holders, Inv
    <2>8. QED BY <2>1, <2>7 DEF DirectoryClean
  <1>3. QED BY <1>1, <1>2 DEF ForgeTest

LEMMA ForgeStartClean ==
  ASSUME TypeInv, DirectoryClean, NEW c \in Call, ForgeStart(c) PROVE DirectoryClean'
  <1> DEFINE seed == call[c].seed
  <1>1. /\ call[c].step = "queued" /\ Cardinality(Holders) < MaxForge
        /\ files' = [files EXCEPT ![StagedPath(c, seed)] = st[By(c)].curr_test]
        /\ call' = [call EXCEPT ![c] = Running(seed)] /\ seed \in Seed \cup {NoSeed}
    BY CallTypes DEF ForgeStart
  <1>2. c \notin Holders
    BY <1>1 DEF Holders
  <1>3. /\ call'[c] = Running(seed) /\ Holders' = Holders \cup {c}
        /\ \A d \in Holders : call'[d] = call[d]
    <2>1. Running(seed) \in CallType /\ Running(seed).step = "running"
      BY <1>1, IdleFacts
    <2>2. \A d \in Holders : d \in Call /\ d # c
      BY <1>2 DEF Holders
    <2>3. QED BY <1>1, <2>1, <2>2, HoldersStep
  <1>4. Cardinality(Holders') <= MaxForge
    <2>1. Cardinality(Holders \cup {c}) = Cardinality(Holders) + 1
      BY <1>2, HoldersFinite, FS_AddElement
    <2>2. QED BY <1>1, <1>3, <2>1, HoldersFinite, FoundryAssumption
  <1>5. ASSUME NEW p \in Path, files'[p] # NoTest
        PROVE  \E d \in Holders' : StagedPath(d, call'[d].seed) = p
    <2>1. CASE p = StagedPath(c, seed)
      BY <1>1, <1>3, <2>1, IdleFacts
    <2>2. CASE p # StagedPath(c, seed)
      <3>1. files[p] # NoTest
        BY <1>1, <1>5, <2>2 DEF TypeInv, ForgeType
      <3>2. QED BY <1>3, <3>1 DEF DirectoryClean
    <2>3. QED BY <2>1, <2>2
  <1>6. QED BY <1>4, <1>5 DEF DirectoryClean

LEMMA ExitClean ==
  ASSUME TypeInv, DirectoryClean, NEW c \in Call, NEW report \in Reports,
         call[c].step = "running", call' = [call EXCEPT ![c] = Exited(@.seed, report)],
         files' = files
  PROVE  DirectoryClean'
  <1>1. c \in Holders /\ call[c].seed \in Seed \cup {NoSeed}
    BY CallTypes DEF Holders
  <1>2. Holders' = Holders /\ \A d \in Holders : call'[d].seed = call[d].seed
    BY <1>1, IdleFacts, HoldersStep DEF Holders
  <1>3. QED BY <1>2 DEF DirectoryClean

LEMMA ForgeReturnsClean ==
  ASSUME TypeInv, DirectoryClean, NEW c \in Call, ForgeReturns(c) PROVE DirectoryClean'
  <1> DEFINE path == StagedPath(c, call[c].seed)
  <1>1. files' = [files EXCEPT ![path] = NoTest] /\ call' = [call EXCEPT ![c] = Idle]
    BY DEF ForgeReturns, Unstage
  <1>2. Holders' = Holders \ {c} /\ \A d \in Holders' : call'[d] = call[d]
    BY <1>1, IdleFacts, HoldersStep DEF Holders
  <1>3. Cardinality(Holders') <= MaxForge
    <2>1. Cardinality(Holders') <= Cardinality(Holders) /\ Cardinality(Holders') \in Nat
      <3>1. Holders' \in SUBSET Holders
        BY <1>2
      <3>2. IsFiniteSet(Holders') /\ Cardinality(Holders') <= Cardinality(Holders)
        BY <3>1, HoldersFinite, FS_Subset
      <3>3. QED BY <3>2, FS_CardinalityType
    <2>2. QED BY <2>1, HoldersFinite, FoundryAssumption DEF DirectoryClean
  <1>4. ASSUME NEW p \in Path, files'[p] # NoTest
        PROVE  \E d \in Holders' : StagedPath(d, call'[d].seed) = p
    <2>1. p # path /\ files[p] # NoTest
      BY <1>1, <1>4 DEF TypeInv, ForgeType
    <2>2. PICK d \in Holders : StagedPath(d, call[d].seed) = p
      BY <2>1 DEF DirectoryClean
    <2>3. QED BY <1>2, <2>1, <2>2
  <1>5. QED BY <1>3, <1>4 DEF DirectoryClean

LEMMA InitClean == Init => DirectoryClean
  <1> SUFFICES ASSUME Init PROVE DirectoryClean
    OBVIOUS
  <1>1. Holders = {}
    BY IdleFacts DEF Init, Holders
  <1>2. Cardinality(Holders) <= MaxForge
    BY <1>1, FS_EmptySet, FoundryAssumption
  <1>3. QED BY <1>2 DEF Init, DirectoryClean

LEMMA NextClean == Inv /\ DirectoryClean /\ [Next]_vars => DirectoryClean'
  <1> SUFFICES ASSUME Inv, DirectoryClean, [Next]_vars PROVE DirectoryClean'
    OBVIOUS
  <1>1. TypeInv
    BY DEF Inv
  <1>2. ASSUME NEW a \in Batch, Tool(a) PROVE DirectoryClean'
    <2>1. ForgeTest(a) \/ UNCHANGED <<call, files>>
      BY <1>2 DEF Tool, PutTestRaw, RecordSkip, Unskip, ExpectTestFailure, ExpectTestPassage,
                  FeedbackTool, PublishResult, GiveUp, Reply, Update, forge
    <2>2. QED BY <2>1, ForgeTestClean, QuietStep
  <1>3. ASSUME NEW a \in Batch, EndStep(a) \/ Raise(a) PROVE DirectoryClean'
    BY <1>3, QuietStep DEF EndStep, Raise, StartStep, forge
  <1>4. ASSUME NEW c \in Call, ForgeRuns(c) PROVE DirectoryClean'
    <2>1. PICK report \in Reports :
            call' = [call EXCEPT ![c] = Exited(@.seed, report)]
      BY <1>1, <1>4, RunReports
    <2>2. QED BY <1>1, <1>4, <2>1, ExitClean DEF ForgeRuns
  <1>5. ASSUME NEW c \in Call, ForgeTimesOut(c) PROVE DirectoryClean'
    <2>1. Killed \in Reports
      BY DEF Reports
    <2>2. QED BY <1>1, <1>5, <2>1, ExitClean DEF ForgeTimesOut
  <1>6. CASE UNCHANGED vars
    BY <1>6, QuietStep DEF vars, forge
  <1>7. QED BY <1>1, <1>2, <1>3, <1>4, <1>5, <1>6, ForgeStartClean, ForgeReturnsClean
            DEF Next, Finished, Forge

\* Once no run uses a path, no draft is left there, and the runs never exceed
\* forge_concurrency (runner.py, the finally that unlinks, and the semaphore).
THEOREM DirectoryIsClean == FoundrySpec => []DirectoryClean
  BY FoundryInvariant, InitClean, NextClean, PTL DEF FoundrySpec
=============================================================================
