---------------------------- MODULE FoundryAuthor ----------------------------
(***************************************************************************)
(* The Foundry test authors of one run (composer/foundry/state.py,          *)
(* author.py, runner.py): one agent per batch of properties, each with its  *)
(* own draft, skips, stamps and expected failures, and what they share: the *)
(* project's test directory, into which forge_test stages a draft for the   *)
(* time of one forge process, and the semaphore that bounds those           *)
(* processes.                                                               *)
(*                                                                          *)
(* An agent works in super-steps, as in CVLAuthor: all calls of a message   *)
(* read the checkpoint `st', their updates are merged into `next', and the  *)
(* merge becomes the checkpoint once every call has returned. A forge_test  *)
(* call is several steps, and calls of one message and of different agents  *)
(* interleave. When a message raises, forge_test calls beside it go on.     *)
(***************************************************************************)
EXTENDS Naturals, Sequences, FiniteSets

CONSTANTS
  Batch,         \* batches of properties, one agent each
  TestSource,    \* contents of a test file
  TestName,      \* names of test functions
  TestsOf,       \* TestSource -> the tests forge finds in it
  Title,         \* property titles of a batch
  Reason,        \* non-blank justifications
  Seed,          \* seeds the agents pass to forge_test
  MappingList,   \* the property_tests arguments the agents may submit
  NoTest,        \* curr_test = None; no such file
  NoReason,      \* the empty justification
  NoStamp,       \* the key is absent from validations
  NoSeed,        \* forge_test without a seed
  NoGate,        \* no run has stamped the gate yet
  NotRun,        \* last_test_names = None
  UnknownTitle,  \* any title that is not one of the batch's
  Hash(_, _),    \* md5 of the source followed by the "title:reason" entries
  MaxForge,      \* forge_concurrency
  MaxCalls,      \* tool calls in one message
  MaxTurns       \* messages of an agent before the recursion limit

\* The reducer for skips is the CVL author's.
G == INSTANCE CVLGeneration WITH
  Spec <- TestSource, Rule <- TestName, NoSpec <- NoTest

\* The calls in progress: an agent, and the place of the call in its message.
Call == Batch \X (1..MaxCalls)
By(c) == c[1]

ASSUME FoundryAssumption ==
  /\ TestsOf \in [TestSource -> SUBSET TestName]
  /\ NoTest \notin TestSource
  /\ NoSeed \notin Seed
  /\ Seed \cap Call = {}
  /\ IsFiniteSet(Batch)
  /\ MappingList \subseteq Seq(G!Mapping)
  /\ MaxForge \in Nat \ {0}
  /\ MaxCalls \in Nat \ {0}
  /\ MaxTurns \in Nat \ {0}

FoundryKey == {"forge_test", "feedback"}
Status     == {"Success", "Failure", "Skipped"}

\* md5 does not collide on the drafts of one run; NoGate is no run.
Gates == [source : TestSource, skipped : G!Skips, status : UNION {[T -> Status] : T \in SUBSET TestName}]
ASSUME FoundrySentinelAssumption ==
  /\ NoGate \notin Gates
  /\ \A s1, s2 \in TestSource, k1, k2 \in G!Skips :
        Hash(s1, k1) # NoStamp /\ (Hash(s1, k1) = Hash(s2, k2) => s1 = s2 /\ k1 = k2)

Open    == [kind |-> "open",    property_tests |-> << >>]
GivenUp == [kind |-> "gave_up", property_tests |-> << >>]
Raised  == [kind |-> "raised",  property_tests |-> << >>]
Published(tests) == [kind |-> "published", property_tests |-> tests]

\* Where a draft is staged: under its seed, or under a UUID no other run has,
\* for which the call itself stands.
Path == Seed \cup Call

\* What a forge process leaves behind: nothing (killed at the timeout), output
\* that is not JSON, or the tests of the file it compiled and how they ended.
Killed    == [kind |-> "killed",  source |-> NoTest, status |-> << >>]
NoResults == [kind |-> "garbage", source |-> NoTest, status |-> << >>]
Ran(source, status) == [kind |-> "results", source |-> source, status |-> status]

\* The state of a forge_test call.
Idle          == [step |-> "idle",   seed |-> NoSeed, report |-> Killed]
Queued(seed)  == [step |-> "queued", seed |-> seed,   report |-> Killed]
Running(seed) == [step |-> "running", seed |-> seed,  report |-> Killed]
Exited(seed, report) == [step |-> "exited", seed |-> seed, report |-> report]

\* The channels without a reducer: one super-step may write each of them once.
LastValue == {"curr_test", "last_test_names", "result"}

VARIABLES
  st,      \* per agent, the checkpoint its tools read
  next,    \* per agent, st with the updates of this super-step merged so far
  wrote,   \* per agent, LastValue channels written in this super-step
  clash,   \* per agent, one of them was written twice
  made,    \* per agent, calls made in this super-step
  turns,   \* per agent, super-steps taken
  call,    \* the forge_test calls
  files,   \* the staged drafts in the test directory
  queue    \* the calls waiting for the semaphore, first come first served

step  == <<next, wrote, clash>>
agent == <<st, step, made, turns>>
forge == <<call, files, queue>>
vars  == <<agent, forge>>

\* gate: the run that stamped, as the file forge compiled, the skips it was
\* stamped with, and how each test ended. A record for the properties.
FreshState ==
  [curr_test         |-> NoTest,
   skipped           |-> [t \in Title |-> NoReason],
   validations       |-> [k \in FoundryKey |-> NoStamp],
   expected_failures |-> {},
   last_test_names   |-> NotRun,
   outcome           |-> Open,
   gate              |-> NoGate]

Required == {"forge_test", "feedback"}

Init ==
  /\ st = [a \in Batch |-> FreshState]
  /\ next = [a \in Batch |-> FreshState]
  /\ wrote = [a \in Batch |-> {}]
  /\ clash = [a \in Batch |-> FALSE]
  /\ made = [a \in Batch |-> 0]
  /\ turns = [a \in Batch |-> 0]
  /\ call = [c \in Call |-> Idle]
  /\ files = [p \in Path |-> NoTest]
  /\ queue = << >>

-----------------------------------------------------------------------------
\* _foundry_digest: the stamp of a state (make_foundry_validation_stamper).
FoundryDigest(s) == Hash(s.curr_test, s.skipped)

\* check_foundry_completion.
CompletionPresence(s) ==  \* mutant: a stale stamp will do
  s.curr_test # NoTest /\ \A key \in Required : s.validations[key] # NoStamp
CheckFoundryCompletion(s) ==
  /\ s.curr_test # NoTest
  /\ \A key \in Required : s.validations[key] = FoundryDigest(s)

\* validate_property_tests: every entry is in order, every title is skipped or
\* mapped, and the tests claimed are exactly the tests that ran.
Claimed(tests) == UNION {tests[i].rules : i \in 1..Len(tests)}
ValidateForward(tests, skipped, ran) ==  \* mutant: tests tied to no property pass
  /\ G!ValidatePropertyRules(tests, skipped)
  /\ Claimed(tests) \subseteq ran
ValidatePropertyTests(tests, skipped, ran) ==
  /\ G!ValidatePropertyRules(tests, skipped)
  /\ Claimed(tests) = ran

-----------------------------------------------------------------------------
(* The tools that answer at once. Each is one call of the current message.  *)

\* The graph of the agent goes on, below the recursion limit.
InStep(a) == st[a].outcome = Open /\ turns[a] < MaxTurns

Message(a) ==
  /\ InStep(a)
  /\ made[a] < MaxCalls
  /\ made' = [made EXCEPT ![a] = @ + 1]
  /\ UNCHANGED <<st, turns>>

\* The updates of a call join those of its super-step; `channels' are the
\* LastValue channels among them.
Merge(a, s, channels) ==
  /\ next' = [next EXCEPT ![a] = s]
  /\ wrote' = [wrote EXCEPT ![a] = @ \cup channels]
  /\ clash' = [clash EXCEPT ![a] = @ \/ wrote[a] \cap channels # {}]

Update(a, s, channels) ==
  /\ Message(a)
  /\ Merge(a, s, channels)
  /\ UNCHANGED forge

\* A tool that answers with a message only.
Reply(a) == Update(a, next[a], {})

PutTestRaw(a) ==
  \E source \in TestSource : Update(a, [next[a] EXCEPT !.curr_test = source], {"curr_test"})

\* record_skip, which refuses unknown titles and blank reasons, and
\* unskip_property, which sends the empty reason.
RecordSkip(a) ==
  \E title \in Title \cup {UnknownTitle}, reason \in Reason \cup {NoReason} :
     IF title \in Title /\ reason # NoReason
     THEN Update(a, [next[a] EXCEPT !.skipped = G!MergeSkips(@, [t \in {title} |-> reason])], {})
     ELSE Reply(a)

Unskip(a) ==
  \E title \in Title \cup {UnknownTitle} :
     IF title \in Title
     THEN Update(a, [next[a] EXCEPT !.skipped = G!MergeSkips(@, [t \in {title} |-> NoReason])], {})
     ELSE Reply(a)

\* Through _merge_expected_failures; a blank reason is refused.
ExpectTestFailure(a) ==
  \/ Reply(a)
  \/ \E name \in TestName : Update(a, [next[a] EXCEPT !.expected_failures = @ \cup {name}], {})

ExpectTestPassage(a) ==
  \E name \in TestName : Update(a, [next[a] EXCEPT !.expected_failures = @ \ {name}], {})

FeedbackTool(a) ==
  \/ Reply(a)
  \/ /\ st[a].curr_test # NoTest
     /\ Update(a, [next[a] EXCEPT !.validations["feedback"] = FoundryDigest(st[a])], {})

\* Both checks look at the checkpoint.
Accepts(s, tests) ==
  /\ CheckFoundryCompletion(s)
  /\ s.last_test_names # NotRun
  /\ ValidatePropertyTests(tests, s.skipped, s.last_test_names)

PublishResult(a) ==
  \E tests \in MappingList :
     IF Accepts(st[a], tests)
     THEN Update(a, [next[a] EXCEPT !.outcome = Published(tests)], {"result"})
     ELSE Reply(a)

GiveUp(a) == Update(a, [next[a] EXCEPT !.outcome = GivenUp], {"result"})

-----------------------------------------------------------------------------
(* forge_test.                                                              *)

\* Without a draft the tool answers at once; otherwise it queues for the
\* semaphore.
ForgeTest(a) ==
  IF st[a].curr_test = NoTest THEN Reply(a)
  ELSE /\ Message(a)
       /\ UNCHANGED <<step, files>>
       /\ queue' = Append(queue, <<a, made[a] + 1>>)
       /\ \E seed \in Seed \cup {NoSeed} :
            call' = [call EXCEPT ![<<a, made[a] + 1>>] = Queued(seed)]

FixedPath(c, seed) ==  \* mutant: all unseeded runs share one name
  IF seed = NoSeed THEN CHOOSE d \in Call : TRUE ELSE seed
StagedPath(c, seed) == IF seed = NoSeed THEN c ELSE seed

Holders == {c \in Call : call[c].step \in {"running", "exited"}}

\* The semaphore is free: the draft is staged and the process started.
ForgeStart(c) ==
  /\ call[c].step = "queued"
  /\ queue # << >> /\ Head(queue) = c
  /\ Cardinality(Holders) < MaxForge
  /\ queue' = Tail(queue)
  /\ files' = [files EXCEPT ![StagedPath(c, call[c].seed)] = st[By(c)].curr_test]
  /\ call' = [call EXCEPT ![c] = Running(@.seed)]
  /\ UNCHANGED agent

\* forge compiles the file it finds under the path and runs its tests; or it
\* does not get to them (a file that does not build, or no longer exists).
ForgeRuns(c) ==
  /\ call[c].step = "running"
  /\ LET source == files[StagedPath(c, call[c].seed)]
         tests  == IF source = NoTest THEN {} ELSE TestsOf[source]
     IN \E report \in {NoResults} \cup {Ran(source, status) : status \in [tests -> Status]} :
          call' = [call EXCEPT ![c] = Exited(@.seed, report)]
  /\ UNCHANGED <<agent, files, queue>>

\* timeout_s has passed and the process is killed, or it could not be started.
ForgeTimesOut(c) ==
  /\ call[c].step = "running"
  /\ call' = [call EXCEPT ![c] = Exited(@.seed, Killed)]
  /\ UNCHANGED <<agent, files, queue>>

\* forge exits with 0 when no test failed.
ReturnCode(status) == IF \E t \in DOMAIN status : status[t] = "Failure" THEN 1 ELSE 0

\* A run is clean when forge says so, and the tests that failed are expected
\* to, and none of the tests that passed is.
CleanByMarks(status, expected) ==  \* mutant: forge's exit code is not asked
  \A t \in DOMAIN status :
     /\ status[t] = "Failure" => t \in expected
     /\ status[t] = "Success" => t \notin expected
Clean(status, expected) ==
  /\ ReturnCode(status) = 0
  /\ \A t \in DOMAIN status :
        /\ status[t] = "Failure" => t \in expected
        /\ status[t] = "Success" => t \notin expected

\* Only a clean run without a seed stamps.
StampsRun(seed, status, expected) == seed = NoSeed /\ Clean(status, expected)

\* What the tool makes of the report: every run that ends by itself records
\* the names of its tests; a run that stamps does so for the checkpoint `s'.
AfterRun(s, merged, seed, report) ==
  CASE report.kind = "killed"  -> merged
    [] report.kind = "garbage" -> [merged EXCEPT !.last_test_names = {}]
    [] OTHER ->
         IF StampsRun(seed, report.status, s.expected_failures)
         THEN [merged EXCEPT !.last_test_names = DOMAIN report.status,
                             !.validations["forge_test"] = FoundryDigest(s),
                             !.gate = [source |-> report.source, skipped |-> s.skipped,
                                       status |-> report.status]]
         ELSE [merged EXCEPT !.last_test_names = DOMAIN report.status]

\* The staged file goes whatever happened to the process.
UnstageResults(c) ==  \* mutant: a killed run leaves its file behind
  IF call[c].report = Killed THEN files
  ELSE [files EXCEPT ![StagedPath(c, call[c].seed)] = NoTest]
Unstage(c) == [files EXCEPT ![StagedPath(c, call[c].seed)] = NoTest]

\* The answer joins the super-step of its message, unless that was abandoned.
Answer(c) ==
  LET a == By(c) IN
  IF st[a].outcome = Open
  THEN Merge(a, AfterRun(st[a], next[a], call[c].seed, call[c].report),
             IF call[c].report.kind = "killed" THEN {} ELSE {"last_test_names"})
  ELSE UNCHANGED step

\* The file is deleted, the semaphore released and the tool answers.
ReturnIfRan(c) ==  \* mutant: the semaphore is kept by a run that was killed
  /\ call[c].step = "exited"
  /\ call[c].report # Killed
  /\ Answer(c)
  /\ files' = Unstage(c)
  /\ call' = [call EXCEPT ![c] = Idle]
  /\ UNCHANGED <<st, made, turns, queue>>
ForgeReturns(c) ==
  /\ call[c].step = "exited"
  /\ Answer(c)
  /\ files' = Unstage(c)
  /\ call' = [call EXCEPT ![c] = Idle]
  /\ UNCHANGED <<st, made, turns, queue>>

-----------------------------------------------------------------------------
(* The graph that runs an agent.                                            *)

AllReturned(a) == \A c \in Call : By(c) = a => call[c] = Idle

\* A super-step starts from checkpoint s with nothing merged.
StartStep(a, s) ==
  /\ st' = [st EXCEPT ![a] = s]
  /\ next' = [next EXCEPT ![a] = s]
  /\ wrote' = [wrote EXCEPT ![a] = {}]
  /\ clash' = [clash EXCEPT ![a] = FALSE]
  /\ made' = [made EXCEPT ![a] = 0]
  /\ UNCHANGED forge

\* Every call has returned: the merged updates become the checkpoint.
EndStep(a) ==
  /\ InStep(a)
  /\ made[a] > 0 /\ AllReturned(a) /\ ~clash[a]
  /\ turns' = [turns EXCEPT ![a] = @ + 1]
  /\ StartStep(a, next[a])

\* The run of the agent raises: two updates of a channel without a reducer
\* (InvalidUpdateError), or a tool or the language model at any moment. Its
\* forge_test calls are not cancelled.
Raise(a) ==
  /\ InStep(a)
  /\ StartStep(a, [st[a] EXCEPT !.outcome = Raised])
  /\ UNCHANGED turns

-----------------------------------------------------------------------------
\* Every agent has published, given up, raised or hit its recursion limit.
Finished ==
  /\ \A a \in Batch : ~InStep(a) /\ AllReturned(a)
  /\ UNCHANGED vars

Tool(a) ==
  \/ PutTestRaw(a) \/ RecordSkip(a) \/ Unskip(a)
  \/ ExpectTestFailure(a) \/ ExpectTestPassage(a)
  \/ FeedbackTool(a) \/ PublishResult(a) \/ GiveUp(a) \/ ForgeTest(a)

Forge(c) == ForgeStart(c) \/ ForgeRuns(c) \/ ForgeTimesOut(c) \/ ForgeReturns(c)

Next ==
  \/ \E a \in Batch : Tool(a) \/ EndStep(a) \/ Raise(a)
  \/ \E c \in Call : Forge(c)
  \/ Finished

FoundrySpec == Init /\ [][Next]_vars

\* A forge process ends or times out and its call goes on. Nothing makes the
\* agents call tools.
FairFoundrySpec == FoundrySpec /\ \A c \in Call : WF_vars(Forge(c))

-----------------------------------------------------------------------------
(* Properties                                                               *)

IsPublished(s) == s.outcome.kind = "published"

\* The forge_test stamp is the digest of the file that forge really compiled in
\* a run without failures, and of the skips at that time, whatever the other
\* agents stage in the same directory meanwhile.
GateGenuine ==
  \A a \in Batch : st[a].validations["forge_test"] # NoStamp =>
    LET gate == st[a].gate IN
    /\ gate # NoGate
    /\ st[a].validations["forge_test"] = Hash(gate.source, gate.skipped)
    /\ \A t \in DOMAIN gate.status : gate.status[t] # "Failure"

\* The gate was stamped for the file and the skips of s.
PassedGate(s) == s.gate # NoGate /\ s.gate.source = s.curr_test /\ s.gate.skipped = s.skipped

\* `tests' has each property of the batch once, unless s skips it, and ties every
\* test name that s records to a property, and no other name.
MappingExact(tests, s) ==
  LET skipped == G!SkippedTitles(s.skipped) IN
  /\ {tests[i].title : i \in 1..Len(tests)} = Title \ skipped
  /\ Len(tests) = Cardinality(Title \ skipped)
  /\ Claimed(tests) = s.last_test_names

\* Whatever else its message does, `result' is accepted only on a checkpoint
\* whose file and skips passed an unseeded run, with a mapping that is exact for
\* the skips and the recorded test names of that checkpoint.
PublishGated ==
  [][\A a \in Batch : ~IsPublished(next[a]) /\ IsPublished(next'[a]) =>
       PassedGate(st[a]) /\ MappingExact(next'[a].outcome.property_tests, st[a])]_vars

\* What the message of `result' leaves alone is published as it was accepted: the
\* file and the skips, if no other call edits them, passed the gating run, and
\* the mapping is exact if no other call changes skips or recorded names.
PublishedUnlessEdited ==
  [][\A a \in Batch : ~IsPublished(st[a]) /\ IsPublished(st'[a]) =>
       LET s == st'[a] IN
       /\ s.curr_test = st[a].curr_test /\ s.skipped = st[a].skipped => PassedGate(s)
       /\ s.skipped = st[a].skipped /\ s.last_test_names = st[a].last_test_names =>
            MappingExact(s.outcome.property_tests, s)]_vars

\* No unseeded run finds another file under its path than the draft its agent
\* called forge_test with, from staging to exit.
UnseededRunIntact ==
  \A c \in Call : call[c].step \in {"running", "exited"} /\ call[c].seed = NoSeed =>
    files[StagedPath(c, NoSeed)] = st[By(c)].curr_test

\* No draft is left in the project's test directory, where forge would pick it
\* up, once no run uses its path; and the runs respect the semaphore.
DirectoryClean ==
  /\ \A p \in Path : files[p] # NoTest =>
        \E c \in Holders : StagedPath(c, call[c].seed) = p
  /\ Cardinality(Holders) <= MaxForge

\* Every forge_test call is answered: a run that is killed gives its place in
\* the queue on like any other, and a message that raised does not keep one.
CallsReturn == \A c \in Call : (call[c].step = "queued") ~> (call[c].step = "idle")

\* "Both ``forge_test`` and the feedback judge must have stamped the *current*
\* ``curr_test``": the published file and skips are those that passed the gating
\* run. Not so when put_test_raw or record_skip is in the message of `result'.
PublishedPassedGate == \A a \in Batch : IsPublished(st[a]) => PassedGate(st[a])

\* The published mapping is exact for what is published. Not so when a call
\* beside `result' changes the skips or the recorded names.
PublishedMappingExact ==
  \A a \in Batch : IsPublished(st[a]) => MappingExact(st[a].outcome.property_tests, st[a])

\* "The runner excludes expected-fail tests from the all-green check": a run
\* without a seed whose failures are all expected, and whose passes are all
\* unexpected to fail, stamps the gate. The code asks forge's exit code too.
ExpectedFailuresExcluded ==
  [][\A c \in Call :
       LET report == call[c].report
           s      == st[By(c)]
       IN (/\ call[c].step = "exited" /\ call'[c].step = "idle" /\ s.outcome = Open
           /\ call[c].seed = NoSeed /\ report.kind = "results"
           /\ CleanByMarks(report.status, s.expected_failures))
          => next'[By(c)].validations["forge_test"] = FoundryDigest(s)]_vars

\* "Run the project's foundry test suite against your current draft": the file
\* forge compiles for an agent is the agent's draft.
RunsOwnDraft ==
  \A c \in Call : call[c].step = "exited" /\ call[c].report.kind = "results" =>
    call[c].report.source = st[By(c)].curr_test

\* "The tests that actually ran in the gating unseeded run": the published test
\* names are those of the run that stamped the gate.
PublishedNamesOfGate ==
  \A a \in Batch : IsPublished(st[a]) /\ st[a].gate # NoGate =>
    st[a].last_test_names = DOMAIN st[a].gate.status
=============================================================================
