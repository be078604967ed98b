# A TLA+ model of Certora AI Composer

Certora AI Composer drives language-model agents that write and check smart
contract verification artefacts: CVL specifications (autoprove), Foundry tests,
and code with a specification (natspec, codegen). The language model is free to
call any tool with any argument, so what makes the system correct is not the
model but the code around it: the state the tools keep, the gates a result has
to pass, the agents' super-steps, the caches that let a run resume, and the
processes that are started underneath. These modules model that code.

## 1. Inventory

Paths are relative to `src/composer/`. "Hard" names what a test hardly reaches.

| Component | State it keeps | Operations | Interacts with | Hard | What makes it correct |
|---|---|---|---|---|---|
| CVL generation core: `spec/cvl_generation.py`, `core/state.py` | draft (`curr_spec`, `skipped`), `validations`, `property_rules` | reducers `_merge_skips`, `merge_validation`; digest and stamper; `check_completion`; `validate_property_rules` | every author agent | stale stamps, updates merged in one super-step | a stamp is the digest of what was accepted; a published draft is the accepted one and covers its batch |
| CVL author: `spec/source/author.py`, `spec/source/prover.py`, `cvl/tools.py` | the above, `rule_skips`, `config`, `prover_link`, `result`, `failed` | put/edit, feedback, verify, skip/unskip, expect failure/passage, result, give up (`ConfigEditTool` is given to no agent) | feedback judge, prover runner, result store | several tools in one message; expectations that change after the run; crashes; last draft | as above; the last draft is never lost; a run ends |
| Feedback judge: `spec/feedback.py` | rough draft, `did_read` | draft, read, verdict | authors | none beyond its own gate | a verdict needs a read-back |
| Prover runner: `prover/core.py`, `runner.py`, `cloud.py`, `results.py` | subprocess, pipes, polling deadline | spawn, stream, collect, poll, parse, analyse, summarise | authors, codegen | pipes filling up, timeouts, partial results | a rule counts as verified only when all of its checks are; a run returns |
| Result store and contexts: `spec/context.py`, `spec/source/artifacts.py`, `spec/artifacts.py` | cache entries, thread ids, artefacts on disk | `cache_get`, `cache_put`, `child`, writes | all pipelines | crash between cache and disk | what is on disk is what is cached |
| Autoprove pipeline: `spec/source/pipeline.py`, `common_pipeline.py`, `direct_pipeline.py`, `autosetup.py`, `harness.py`, `summarizer.py`, `struct_invariant.py` | phases, batches, tasks | phases, bounded parallel batches, report | agents, store, report | one batch of several failing; cancellation | one failing batch does not lose the others; counts add up |
| Report: `spec/source/report/*` | verdict maps, rules by key, groups | collect, roll up, group, build, render | store, prover output API | several runs naming one rule | every property appears once; no group claims more than its rules show |
| Property inference and refinement: `spec/prop_inference.py`, `spec/refinement.py` | rounds, title set, conversation | extract, deduplicate, refine | human, agents | empty rounds, duplicates, user interrupts | titles of a batch are unique |
| Foundry author: `foundry/state.py`, `author.py`, `runner.py` | test draft, skips, stamps, expected failures, names of the last run; staged files; a semaphore | put, forge_test, feedback, skip/unskip, expect, result, give up | forge, the project's test directory shared by all batches | staged files of concurrent batches; several tools in one message; stamps and names of different runs | what is accepted passed an unseeded run, with a mapping that names the tests that ran; a message publishes nothing else than what it accepts and edits itself |
| Foundry pipeline: `foundry/pipeline.py`, `entry.py`, `artifacts.py` | batches, file names, results | extract, generate, write, roll up | author, store | name collisions; failing batches | one file per batch |
| NatSpec pipeline: `spec/natspec/*`, `natreq/*` | interface and stub registries, agents, async results | request field, register file, type-check, author | agents share the registries | concurrent requests, merges, revisions | a field that was granted is lost only when an agent leaves it out of its stub; a published spec typechecks against the stubs, also against the delivered ones |
| Codegen: `core/*`, `tools/*`, `workflow/*` | virtual files, `validation`, `skipped_reqs`, `working_spec` | put file, prover, working spec, proposal, relaxation, result | human, prover, audit | stale validations | the delivered code is the one that was proved |
| Tasks and events: `io/context.py`, `io/stream.py`, `io/graph_runner.py`, `io/multi_job.py`, `ui/multi_job_app.py` | queue and drainer of a scope, graphs that run and nest, rows and statuses of tasks, the panel of a conversation | publish, drain, run graph, run task, ask the human | all pipelines | producer and consumer racing at the exit of a scope; handlers that raise; permits | no event lost or reordered; the summary is truthful; waiting tasks end |
| Threads and their log: `io/mnemonic_store.py`, `io/thread_logging.py`, `io/thread_timeline.py`, `io/run_index.py` | names of threads, records of run segments, checkpoints | assign a name, open and close a segment, load a timeline | every graph | two processes drawing one name; branches of a thread; kills | a name stays with its thread; a timeline shows the branch of its segment |
| Agent index: `spec/agent_index.py` | questions and answers in layers | look up, put | research agents | check-then-act over `await` | a reference that was given out resolves |
| Audit store: `audit/db.py` | runs, their files and results | start, complete, resume | codegen | a thread completed twice; a kill before the completion | what is resumed from is what was delivered |
| CVL syntax: `cvl/schema.py`, `cvl/pretty_print.py` | syntax trees, buffered lines | compose, pretty-print | `put_cvl` of the authors | parentheses by precedence, lines put together over nested builders | what is printed is read back as the same tree |
| Manual: `scripts/ragbuild.py`, `scripts/text_processors.py`, `rag/db.py` | a page's open sections, chunks, sections, keywords | walk, cut, store; search by keywords, get by headers | the agents' search tools | overlaps of chunks that carry code; two databases of one build | a chunk is the page's text, and stored unless its insert fails; what is found can be fetched |
| User interfaces, CLI, diagnostics, templates, scripts, examples | widgets, text | rendering | - | - | - |

`PROJECT.json` lists each of them with its sources and status, and the hazards
with the lines where they bite.

## 2. Modules

| Module | What it is |
|---|---|
| `CVLGeneration` | Constants and the pure operators every author shares: reducers, digest, stamp, completion check, mapping check. No variables. |
| `CVLAuthor` | One batch of properties from an empty draft to a spec on disk: the agent's tools, super-steps, crash and restart, cache and file. |
| `SpecGate` | The abstract promise of an author: messages in which a draft changes freely and two judges judge it as it was before, an acceptance that needs both judgements on that draft, a publication that is final; with `OneCall`, a message does one of these. |
| `MCCVLAuthor` | Values of the constants for TLC. |
| `CVLAuthorProofs` | Theorems about `CVLAuthor`, with the refinement of `SpecGate`, for any number of calls per message. |
| `FoundryAuthor`, `MCFoundryAuthor` | The Foundry authors of one run, the test directory and the semaphore they share; instantiates `CVLGeneration` for the skips and the mapping check. |
| `FoundryAuthorProofs` | Theorems about `FoundryAuthor`, for any number of batches, seeds and places of the semaphore. |
| `NatspecStubs`, `MCNatspecStubs` | The stub registry, the authors that grow the stubs through it, the store it resumes from, and the delivery. |
| `NatspecStubsProofs` | Theorems about `NatspecStubs`. |
| `ResultCache`, `PropertyInference`, `AutoprovePipeline`, `MCAutoprovePipeline` | What outlives a run; the rounds of property extraction; the whole autoprove or foundry pipeline over both, in which an author is one step. |
| `AutoprovePipelineProofs` | Theorems about `AutoprovePipeline`: imports, titles, the account of the batches, over any number of runs. |
| `Report`, `MCReport` | From the prover runs' checks to the report: collection, merge, grouping, validation, fallback. |
| `FoldProofs` | Theorems about `Report`, for any components, checks and groupings, and about `CVLBlocks`, for any file; before them, what the library's `FlattenSeq`, `FoldSeq` and `FoldLeft` return, by which both compute. |
| `AsyncDataQueue`, `Conversation`, `JobRun`, `MCJobRun` | The event queue as operators; a refinement conversation with its panel; the tasks of a run with their scopes, drainers, graphs and permits. |
| `JobRunProofs` | Theorems about the queues, the summary, the event paths and the conversation of `JobRun`, for any number of tasks, graphs and permits. |
| `ProverRun`, `Codegen`, `MCCodegen` | The prover's child, its cloud job and its verdicts; the code generation workflow, which runs it, with its virtual files, stamps, proposals and audit rows. |
| `CodegenProofs` | Theorems about `Codegen`, for any threads, paths and contents. |
| `Mnemonics`, `AgentIndex`, `ThreadLog`, `ManualText`, `ManualBuild`, `StoreClients`, `MCStoreClients` | Names of threads; the agents' semantic cache; the log of threads; how a manual is cut; how it is walked and stored; the processes that do all of it, killed anywhere. |
| `StoreClientsProofs` | Theorems about the names, the index, the timelines and the sections of the manual of `StoreClients`, for any number of processes and checkpoints and any page. |
| `CVLExpressions`, `CVLPrinter` | Expressions, their printing and a reader of what is printed; the composition of expressions. |
| `LineBuilder`, `CVLBlocks`, `MCCVLPrinter` | The buffering of lines; the printers of commands and blocks, and the composition of whole files; both kinds of composition for TLC. |

`CVLAuthor` extends `CVLGeneration`; `FoundryAuthor` takes it as an instance;
`SpecGate` is instantiated by `CVLAuthor` under a refinement mapping.
`AutoprovePipeline` extends `PropertyInference`, which extends `ResultCache`;
`JobRun` extends `Conversation`, which extends `AsyncDataQueue`; `Codegen`
extends `ProverRun`; `StoreClients` extends its four parts, and
`ManualBuild` extends `ManualText`. Every
operator named as a mutant (the comment behind it says so) is a plausible bug
kept beside the definition it would replace; nothing else refers to it.

### What is abstracted everywhere

- Texts (specs, test files, justifications, rule names) are opaque values. The
  code compares, hashes and stores them. What a text *contains* appears only as
  a function of it: `RulesOf` (the rules the prover checks), `TestsOf` (the
  tests forge finds), and, for natspec, a spec is the set of stub fields it uses
  and a stub the set of its storage fields.
- The language model is a nondeterministic choice: any tool, any argument, in
  any order, including refused arguments.
- The judge, the prover, forge and the typechecker are external: any answer
  their callers can receive is a choice, except that forge's exit code follows
  from its results and the typechecker accepts a spec when the stubs have the
  fields it uses.
- `md5` is the constant `Hash`, assumed not to collide on the texts of one run
  (`HashAssumption`).
- An asyncio task runs undisturbed between two `await`s, so an action is the
  code between two of them, or several of them where nothing another task
  does can be seen in between.

### CVLAuthor and the code

| Model | Code |
|---|---|
| `st`, `next` | The checkpoint of LangGraph and the merge of the updates returned so far in this super-step. A tool reads the first and writes the second: `InjectedState` is the state before the message. |
| `MergeSkips`, `MergeValidation`, `rule_skips` | The reducers `_merge_skips`, `merge_validation`, `_merge_rule_skips` |
| `wrote`, `clash`, `ClashStep` | `curr_spec`, `prover_link`, `result` are channels without a reducer: two writes in one step raise `InvalidUpdateError` |
| `PutCVL` ... `GiveUp` | The tools of `author.py`, `prover.py`, `cvl_generation.py`, `cvl/tools.py`, one action each |
| `EndStep`, `turns` | End of a super-step: stop on the output key, raise at the recursion limit |
| `SaveLastAttempt` | the `finally` of `run_cvl_generator` |
| `StartAgent`, `CacheHit`, `CachePut`, `WriteSpec` | `generate_all_component_cvl` for one batch |
| `Kill`, `Rerun` | the process dies; it is started again with the same store |
| `judged`, `verified` in `st` | no state of the code: what was really accepted, for the properties |

`ConfigEditTool` is defined in `author.py` but given to no agent, so it is left
out.

### FoundryAuthor and the code

| Model | Code |
|---|---|
| `st[a]`, `next[a]` | `FoundryGenerationState` of batch `a`: the checkpoint, and the merge of the updates of the current message, as in `CVLAuthor`; `gate` records, for the properties, the run that stamped |
| `wrote`, `clash`, `Raise` | `curr_test`, `last_test_names` and `result` have no reducer: two writes in one message raise `InvalidUpdateError`. A tool or the model may raise as well |
| `call[c]`, `By(c)` | a `forge_test` call, named by its agent and its place in the message; it outlives a message that raises, since `asyncio.gather` cancels no sibling |
| `files`, `StagedPath` | `_composer_draft_<seed or uuid>.t.sol` in the project's test directory (`runner.py`); the project is taken to have its `foundry.toml` |
| `queue`, `Holders`, `MaxForge` | the `asyncio.Semaphore(forge_concurrency)` of `pipeline.py`, which serves in order |
| `ForgeTest`, `ForgeStart`, `ForgeRuns` or `ForgeTimesOut`, `ForgeReturns` | one `forge_test` call: wait for the semaphore and stage; the process ends or is killed; parse, stamp, delete the file, release |
| `Clean`, `StampsRun` | the all-green check and the rule that only unseeded runs stamp |
| the other tools | one action each, as in `CVLAuthor`; several calls of a message read one checkpoint |
| `EndStep` | every call has returned: the merge becomes the checkpoint, and the run ends if it has a `result` |

### NatspecStubs and the code

| Model | Code |
|---|---|
| `content`, `mirror` | `_state_by_id[c]._content`, read by `request_field`, and `_mirror_by_path`, read by the typechecker and by the agents' file tools |
| `durable` | the store's record: the field metadata and the content |
| `lock[c]` | the `asyncio.Lock` of a stub: holder first, then the waiters in order |
| `ReadMetadata`, `AssertionFails` | the start of `request_field`: the record has to agree with the memory |
| `Reject`, `ReuseField`, `UpdateStub` then `WriteMetadata` or `WriteRaises`, `AgentRaises` | the outcomes of the registry agent: any name, and any stub that compiles. `UpdateStub` changes memory and mirror, the store follows after an `await` |
| `st`, `next`, `wrote`, `clash`, `made`; `Update`, `Begin`, `EndStep`, `Raise` | super-steps as in `CVLAuthor`; `call[<<a, i>>]` is a request or a publication that the `i`-th call of the message began |
| `PublishTool`, `Assemble`, `TypecheckReturns` | the publish gate, on the checkpoint; the project directory is assembled from the stubs of that moment, the answer joins the merge |
| `granted`, `dropped`, `vetted` | no code: what authors were told and the stub had, what an agent was given and has left out, the draft the publish tool accepted; the properties need them |
| `CachePut`, `TaskRaises`, `Deliver` | `generate_cvl_batch`'s cache, `gather(return_exceptions=True)`, the pipeline's result |
| `Start`, `Crash` | `acreate`, which resumes preserved stubs; the death of the process |

The code looks at an agent's answer only to see that the stub compiles. So
`ReuseField` names any field, there or not, and `UpdateStub` takes any stub and any name. The
prompt asks for more; what holds only if agents keep to it is in section 5.

### AutoprovePipeline and the code

| Model | Code |
|---|---|
| `backend` | the program: autoprove with the prover, or foundry; the two share the extraction and the cache |
| `cache`, `files` | the store behind `WorkflowContext`, by its path of cache keys; the files that the artifact stores wrote |
| `auto`, `invs`, `bugs` | the three streams of `pipeline.py` that are gathered; in foundry only the third |
| `comp[c]` | the rounds of property inference of component `c`, each cached under a key of its own |
| `gen[c]` | one batch: an author (`CVLAuthor`, `FoundryAuthor`) seen from outside, which delivers, gives up or raises |
| `Quit`, `StartRun`, `RemoveOutputs` | the process ends or is killed; the next run, perhaps interactive; the user deletes what was written |

### JobRun and the code

| Model | Code |
|---|---|
| `pc[t]`, `sem`, `status`, `section` | `run_task` and the callbacks of the application that show a task |
| `queue[t]`, `drainer[t]` | the `EventQueue` of a scope and the task that drains it into the handler |
| `graph[t][g]` | a `run_graph` call in the scope, with the path of threads above it; below a graph that raised, or was interrupted, the calls of its message run on with nobody waiting for them, also while the scope closes |
| `conv` | a conversation of `refinement.py`: the graph, the panel with its reader, the human |
| `pushed`, `handled`, `due` | no state of the code: the events of a scope, those its handler was given, and how many there were when its body ended, for the properties |

### Report, ProverRun and Codegen and the code

| Model | Code |
|---|---|
| `Report`: `checks[k]`, `BuildReport` | the thread that fetches the checks of one link; everything after it, which runs without an `await` that anyone could use |
| `ProverRun`: `proc` | the child, its two pipes, the reader that reads output before errors; the cloud job and its deadline |
| `Codegen`: `ckpt[t]`, `run.next` | the checkpoint of a thread and the merged updates of the message, as in `CVLAuthor` |
| `View`, `Digest` | the virtual files over the directory; the digest of the contents in the order of their paths |
| `audit` | the rows of the audit database a later workflow resumes from |
| `proved`, `judged`, `late` | no state of the code: what the stamps were given for, and what changed after the acceptance |

### StoreClients and the code

| Model | Code |
|---|---|
| `ms`, `ts` | the two namespaces of `mnemonic_store.py`; the claim is an insert that does nothing on a conflict |
| `layers` | the pools of the agent index: base, and the overlay of a user |
| `ckpts`, `records` | the checkpointer's tree of checkpoints; the log of the runs over it |
| `streams`, `page`, `stack`, `buffer` | a run of `ragbuild`: the sections' texts, what was read (the input, made as it is read), the active calls of `translate_block`, the chunks to insert |
| `manual` | the database of the manual, in PostgreSQL or in Chroma and SQLite; its `lost` is no state of the code: the documents whose insert failed, which PostgreSQL's `add_chunks_batch` logs and goes on |
| `SkipElement` | navigation, notes on versions, empty spans, headings, and what no case of `translate_block` handles and is printed; what it has is in no section |
| `client[p]`, `Kill` | a process and the point it is at; its death at any point, also where the code would raise |

A behaviour of `StoreClients` that builds the manual does nothing else, since
the manual shares no state with the rest. One build runs at a time; later ones
work over what earlier ones, perhaps killed, have left.

### CVLPrinter, CVLBlocks and the code

| Model | Code |
|---|---|
| `exprs` | the expressions of `schema.py`, pydantic trees, composed bottom-up, so that every tree within the bounds is reached |
| `cmds`, `file` | its commands and basic blocks, composed in the same way; of a command that is composed the model keeps what its printer does with a `LineBuilder`, which does not depend on where the command stands, and of an `if` also what it does as an `else if` |
| `Exps` | the texts of expressions, any with as many brackets closed as opened |
| `Precedence`, `PrintInner` and the rest of `CVLExpressions` | `print_expression`, `needs_parentheses`, the precedences |
| `ReadText` | no code of the repository: a reader by the precedences of the CVL grammar, to compare with |
| `Build` over instructions (`LineBuilder`) | `LineBuilder` and `LineInterleaver`; a printer of a block is the sequence of the calls it makes |

Tokens stand for texts, so spaces and wording are left out; line breaks, commas,
braces and indentation are kept, because `BlocksLaidOut` is about them.

## 3. Runs

| Run | Question | Bounds |
|---|---|---|
| `author_sequential` | With one call per message: does the author implement `SpecGate`, so that a published draft is what judge and prover accepted, are stamps genuine, is what was published what is cached and on disk across crashes? | 2 specs, 2 titles, 2 rules, 1 call per message, 7 super-steps, 2 starts of the program |
| `author_parallel` | With several calls per message: is acceptance gated, is what the message leaves alone published as accepted and does it cover its batch, do calls add up, does a run end and its result reach the disk? | 2 specs, 2 titles, 2 calls per message, 4 super-steps, 1 start |
| `foundry_batch` | Are stamps genuine, is `result` accepted only on a file that passed an unseeded run with these skips, with an exact mapping, and is what the message leaves alone published so? | 1 batch, 2 files of which one extends the other, 2 properties, 1 seed, 2 calls per message, 4 super-steps |
| `foundry_shared` | Do concurrent calls disturb each other's unseeded runs, leave files behind or starve? | 2 batches, 2 slots, 2 calls per message, 2 super-steps; files without tests, no seeds and no skips, which `foundry_batch` has |
| `natspec_stubs` | Is a granted field lost but by an agent that leaves it out, do metadata only grow, does what was published unedited keep its fields, is every request answered? | 2 authors, one with 2 calls per message and 3 super-steps, one with a call; 1 stub, 1 field, 2 specs, 2 metadata entries, 1 crash, a store whose writes may raise |
| `autoprove` | Over one cache and killed anywhere: do delivered specs import the invariants that lie beside them, is every batch accounted for under its name, do titles stay distinct? | 2 components of one slug, drafts of at most 1 property, 2 rounds, 1 invariant, 1 permit, 2 runs of which the first may be interactive |
| `report` | Is every property that its author's result answers in the report once, and is what is reported as verified what the checks show? | 1 component and the invariants, 2 properties (or one title twice, or one that is unanswered, or both skipped and mapped), 2 checks per run, six groupings |
| `jobs` | Do handlers get every event in order, do paths nest, is the summary truthful, is the refined list the one that is used, do waiting tasks end? | 2 tasks of one phase, 1 permit, 2 graphs each, 1 stream item per graph, 2 model calls, 2 answers |
| `jobs_interrupt` | Is a graph resumed with the human's answer? (It is not, section 5.) | as `jobs` |
| `codegen` | Was what is handed over proved and judged, is it what a later workflow resumes from, does a workflow end? | 2 threads, 2 paths, 2 contents each, 2 calls per message, 3 messages and 3 starts in all, pipes of 1 line |
| `stores` | Do names stay with threads, do timelines show their branch, do references resolve, is a manual cut as it is, and stored but for what failed inserts lose? | 2 processes, 2 threads, 3 runs, 2 attempts at a name, 4 checkpoints, 1 user, 2 wordings of 1 question; pages of 4 elements over 3 header levels, chunks of 2 sentences, batches of 2 |
| `cvl_printer` | Is a printed expression read back as the same tree, and is a file laid out by its braces? | cost 7, in which one operator of each precedence costs 1 and the others 2; 3 commands that nest, or 1 of the others, with an expression that has brackets; 1 block with up to 2 parts |

Why the bounds are enough for what is asked:

- Staleness needs two values of a thing: a stamp goes stale when the draft, or
  the skips, change after it was given, hence two specs and two titles; the
  reducers and digests treat every value alike. Two rules tell an expected from
  an unexpected failure in one run.
- The shortest publication takes a put, a feedback, a verification and the
  result. Seven steps leave three for skips, for changes after a stamp and for
  the repair that follows; the two starts of the program let a second run meet
  the draft, the cache and the file of the first one.
- Two calls per message are the smallest case in which updates are merged and
  in which a channel clashes; a longer message is a sequence of such pairs.
- Two graphs of a task are one that emits below another one, also when the outer
  one has ended by an exception; longer chains of graphs are for `EventPathsNest`.
- Two batches with two calls each on two slots give two running calls and two that
  wait, of one batch or of both; two tasks on one permit, one that waits while a
  human is asked. The shortest publication of a Foundry author takes three
  super-steps (put; `forge_test` and feedback; `result`), one less than the bound.
- Two authors on one stub are the smallest case of a contended lock, and two
  calls of one message contend for it as well; put, feedback and publish take the three
  super-steps of one author, while the other one changes the stub. One field
  suffices to be granted, left out, named though it is not there and named twice;
  two entries let a second write meet the first. One crash separates what is in
  memory from what is in the store.
- Two components of one slug are the case in which files are named apart. A
  second run over the cache meets every prefix of what the first one stored.
- Four checkpoints are two branches of two steps. Two attempts at a name let
  the first one be lost to another process and the second one be drawn with its
  suffix. `MCSymmetry` permutes processes and threads, which no action and no
  property of the run tells apart.
- Four elements of a page are a section, a section within it and two texts or
  codes, or a section with a text, a code and the text that overflows the chunk
  with the code; what earlier builds have stored takes a share of that bound.
- One operator of each precedence as the operand of every other one, on both
  sides, and with a third below it, is what parentheses depend on.

`MaxCalls`, `MaxTurns`, `MaxFields`, `MaxRuns`, `MaxCrashes`, `MaxRounds`, `MaxItems`,
`MaxSteps`, `MaxAnswers`, `MaxCheckpoints`, `Attempts`, `MayAsk`, `MaxLines`,
`MaxErrors`, `PipeSize`, `MaxLength`, `Depth`, `BatchSize`, `MaxElements`,
`MaxCost`, `MaxCommands`, `MaxParts` and `MaxBlocks` are the bounds. Of them `MaxTurns` and `MaxSteps`
(recursion limits), `MaxRounds` (`--max-bug-rounds`), `Attempts`, `PipeSize`,
`MaxLength` (2000 characters), `Depth` (6) and `BatchSize` (50) are limits of
the program itself, as are the permits `MaxForge`, `MaxRunning` and
`MaxConcurrent`. The safety theorems below do not depend on any of their values. Deadlock is not checked
in the runs whose behaviours end: pipelines, reports, stores and printers stop
when their bounds are used up.

## 4. Liveness and fairness

| Property | Run | Fairness | Why the code justifies it |
|---|---|---|---|
| `RunEnds`, `ResultWritten` | `author_parallel` | `WF(Progress)`: tool calls, super-steps, pipeline steps; not `Kill`, `Rerun`, `RaiseStep` | Tools return or raise, and the graph then takes its next step. A model that never stops is stopped by the recursion limit, which is what `RunEnds` depends on. |
| `CallsReturn` | `foundry_shared` | `WF(Forge(c))` for each call | A forge process ends or is killed at `timeout_s`; the semaphore is released in a context manager and wakes its waiters in order. Nothing makes agents call tools. |
| `RequestsReturn` | `natspec_stubs` | `WF(Serve(k))` for each call | A registry agent is bounded by its recursion limit, a typecheck and a write return or raise, and the event loop resumes who waited. Nothing makes authors call tools. |
| `TasksEnd` | `jobs` | `WF` of each task's own steps, its drainer's and the conversation's; not of the human's answers, and not of handlers that raise | The event loop resumes whoever can run. The property excepts a permit that is held while a human is asked, and a conversation whose reader died: its prompt is never mounted, and that task never ends. |
| `RunEnds` | `codegen` | `WF(Work)`: the workflow, the prover's child and the cloud | The graph is bounded by its recursion limit and the polling by its deadline. The property excepts `ErrorsFill`: a child that fills the pipe of its errors blocks while its output is read to the end (`prover/core.py:201`). |

## 5. What the counterexamples show

One run checks a sentence of the repository and finds it violated:

1. `jobs_interrupt`, `AnswerResumes` - "calls human_handler with the interrupt
   value and current state, then resumes with the returned string"
   (`io/graph_runner.py:51-53`). `run_graph` asks, stores the answer as the
   next input and returns; the graph is not resumed with it. Hence a proposal a
   human accepts in codegen is not applied (`AskHuman` in `Codegen`).

The following are stated in the modules beside the properties that hold, and no
run checks them: TLC finds each of them violated when it is put in place of the
properties of the run named with it. They are what a maintainer may want to
decide about.

| Formula | Run | Behaviour |
|---|---|---|
| `PublishedRulesAccounted` | `author_sequential` | a rule fails and is marked as expected, the prover stamps, `expect_rule_passage` unmarks the rule, `result` is accepted; `rule_skips` is in no digest |
| `PublishedWasAccepted` with `MaxCalls = 2` | `author_parallel` | a message with `result` and `put_cvl_raw`: the gate reads the checkpoint, the merge publishes the other call's draft |
| `PublishedCoversBatch` with `MaxCalls = 2` | `author_parallel` | `unskip_property` beside `result`: the title is neither skipped nor mapped in what is published. The report then drops it, though its comment says that "the completion validator guarantees skipped-or-mapped" (`collect.py:143`) |
| `PublishedPassedGate`, `PublishedMappingExact` | `foundry_batch` | `put_test_raw` or `record_skip` beside `result`: the gate and the mapping were checked on the checkpoint, the merge is published |
| `ExpectedFailuresExcluded` | `foundry_batch` | a test that fails as expected makes forge exit with 1, and the all-green check asks for 0 |
| `RunsOwnDraft` | `foundry_shared`, with `Seed = {seed1}` | two batches with one seed stage into one file; unseeded runs are safe (`UnseededRunIntact`) |
| `PublishedNamesOfGate` | `foundry_batch` | a stamp survives the return to an earlier draft, `last_test_names` does not follow it |
| `GrantsKept`, `MetadataExact` | `natspec_stubs` | an agent returns a stub without a field that was granted; a name is reported twice, or names no field: nothing but the compiler looks at the answer |
| `PublishedVetted` | `natspec_stubs` | `put_cvl` beside `publish`: the merge returns a draft that was neither judged nor typechecked |
| `DeliveredTypechecks` | `natspec_stubs` | the delivered stubs are those of before the authors' requests, the delivered specs use the fields requested since |
| `CachedTypechecks` | `natspec_stubs` | a spec typechecks against a field that is in the memory but not yet in the store, is cached, and is used after a crash with a stub without it |
| `RoundsYield` | `autoprove` | a component whose first round finds nothing caches the empty round and ends in the assertion of `prop_inference.py:373`, in every later run too |
| `AlwaysReported` | `report` | after a conversation two properties of a component may share a title; the fallback grouping, which "cannot raise", then raises |
| `ReadsBack` | `cvl_printer` | a conditional or a quantifier as the condition of a conditional is printed without parentheses; the state of a call (`at`) is not printed |

Smaller observations, made while reading:

- *Pipelines.* `system_model.py:250` calls the slug of a component collision-free. It
  is not: an index is appended only to equal slugs, so of components that come out as
  `a`, `a` and `a_1` two write to one file and one link, and the last one wins. A
  component named "invariants" loses its link to that of the invariants. A hit of the AutoSetup
  cache only asks whether the summaries exist, not whether the mode is the same
  (`harness.py:548`). `--max-bug-rounds 0` ends in an assertion. A stream that
  raises leaves the others running.
- *Stamps.* The digest hashes contents without separators. `put_file` in the
  message of `code_result` delivers a file no stamp covers (`late` in `Codegen`).
  A prover run that reports no rule counts as verified, and `rule=""` stamps as
  a full one. `prover_link` is the link of the last run, also of a partial one.
  Of two results for one path the last one wins.
- *Codegen.* `commit_working_spec` needs a file that `--resume-dir` does not put
  into the state; the interface the commentary names is not validated.
- *Tasks.* When a tool of a message raises, the other calls of the message run on
  without a permit, their events come behind the end of the graph that started
  them, and what they emit once the scope is left is lost.
- *Index and log.* `aput` looks and then writes with an `await` between, so the
  second of two agents overwrites the first one's answer; references resolve
  still. They dangle in a thread that is resumed under another mode of the
  index, and the docstring of `agent_index_config_from_env` names another
  default than the code has. The end of a killed segment is unknown, so its
  timeline is anchored at the latest checkpoint.
- *Printer.* A fallback target prints as `preservedfallback()`, and a methods
  entry prints ` returns (...)` also without results. The header comment has
  `**` for the exponent where the code prints `^`.
- *Manual.* `append_text` looks for the first sentence of a paragraph that does
  not fit in order to add it to the full chunk, but the loop skips every
  sentence that is not blank. A failing insert aborts the transaction of its whole
  batch (`rag/db.py:311`); that is only logged, the batch is lost, and the build ends
  with success. Elements that `translate_block` does not know are printed and
  dropped (`ragbuild.py:231`). A second build adds its rows to the first
  one's, and only rows with all six headers are refused.
  `foundry_ragbuild.py`'s header comment says that it writes sections; it does not, so the
  keyword search over that database finds nothing. Headers of `find_refs` are cut
  off at the first gap, so they need not name a section.

## 6. What is proved

Every theorem is about all values of the constants that satisfy the named
assumptions. Besides types, and values that stand for "none" being no others,
these say:

| Assumption | What it rests on |
|---|---|
| `HashAssumption`, `FoundrySentinelAssumption` | md5 does not collide on the drafts of one run |
| `AuthorAssumption`, `FoundryAssumption`, `NatspecAssumption` | bounds are numbers, at least one for calls, turns and starts but in `NatspecStubs`; a seed is named unlike the batches, which are finitely many |
| `PipelineAssumption`, `InferenceAssumption` | a slug is a sequence, a draft a list of titles; finitely many components |
| `ReportAssumption` | components have names of their own, files have names, and a rule has one file in a run's checks |
| `CodegenAssumption` | threads are distinct (each is a new uuid), the spec is one of the paths and no code is a spec |
| `JobAssumption`, `ConversationAssumption` | at least one permit; there is a list to return |
| `MnemonicAssumption`, `IndexAssumption`, `ManualAssumption` | at least one attempt at a name; chunks, batches and header levels of at least one |
| `BlocksAssumption` | expressions are texts that close the brackets they open |

No theorem has another hypothesis. Where the code does not keep what one might
expect, the property says what it keeps instead:

- What a message with `result` and other calls publishes is what was accepted, but for
  what those calls edit themselves (`PublishedUnlessEdited`); in `SpecGate` an acceptance
  refers to the draft as it was before the message.
- What lies under the name of a batch is the batch's own, or that of another one the
  pipeline has given the same name although their slugs differ (`Namesakes` in
  `BatchesAccounted`).
- A property is in the report once if the author's result skips or maps it, and nowhere
  if it does neither (`Answered` in `PropertiesPartitioned`).
- What was granted is kept but by an agent that leaves it out (`GrantedKept`), and a chunk
  is stored unless its insert failed (`ChunksFaithful`).

| Theorem | Statement |
|---|---|
| `TypeCorrect` | `AuthorSpec => []TypeInv` |
| `StampsAreGenuine` | `AuthorSpec => []StampsGenuine` |
| `PublicationIsGated`, `EveryCallAddsUp` | `AuthorSpec => PublishGated`, `CallsAddUp`, for any number of calls per message |
| `StoreIsConsistent`, `StoreIsMonotone` | `AuthorSpec => []StoreAgrees`, `AuthorSpec => StoreMonotone` |
| `PublishedAsAccepted` | `AuthorSpec => PublishedUnlessEdited`, for any number of calls per message |
| `AuthorImplementsGate` | `AuthorSpec => ImplementsGate`: `CVLAuthor` refines `SpecGate`, whose `OneCall` is `MaxCalls = 1`, for any number of calls per message |
| `FoundryTypeCorrect` | `FoundrySpec => []TypeInv` |
| `GateIsGenuine` | `FoundrySpec => []GateGenuine` |
| `PublicationIsGated`, `PublishedAsAccepted` | `FoundrySpec => PublishGated`, `PublishedUnlessEdited`, for any number of calls per message |
| `UnseededRunsIntact`, `DirectoryIsClean` | `FoundrySpec => []UnseededRunIntact`, `[]DirectoryClean`, for any finite set of batches and any number of calls |
| `NatspecTypeCorrect` | `NatspecSpec => []TypeOK` |
| `GrantsAreKept`, `PublishedSpecsTypecheck` | `NatspecSpec => []GrantedKept`, `[]PublishedTypechecks`, whatever the registry agents answer, for any number of calls per message |
| `MetadataGrowsAlways`, `AnswersAlwaysAgree` | `NatspecSpec => MetadataGrows`, `AnswersAgree` |
| `ImportsAreDelivered`, `TitlesStayDistinct` | `AutoprovePipeline`'s `Spec => []ImportsDelivered`, `[]TitlesDistinct`, for any number of runs over one cache |
| `BatchesAreAccounted` | `AutoprovePipeline`'s `Spec => []BatchesAccounted`, whatever the slugs |
| `EveryPropertyIsReported` | `Report`'s `Spec => []PropertiesPartitioned`, whatever the authors published |
| `VerifiedMeansVerified` | `Report`'s `Spec => []VerifiedHonest` |
| `EventsAreDelivered`, `EventPathsNest`, `SummaryIsTruthful` | `JobRun`'s `Spec => []EventsDelivered`, `[]PathsNest`, `[]SummaryTruthful`, for any tasks, graphs, permits and number of items |
| `RefinementReturnsLastSet` | `JobRun`'s `Spec => []RefinedIsLastSet` |
| `DeliveredIsValidated`, `ResumeIsFaithful` | `Codegen`'s `Spec => []DeliveredValidated`, `[]ResumeFaithful` |
| `NamesAreKept`, `RefsAlwaysResolve` | `StoreClients`' `Spec => []MnemonicNamesThread`, `[]RefsResolve`, for any number of processes |
| `TimelinesAreTrue` | `StoreClients`' `Spec => []TimelineFaithful`, for any tree of checkpoints |
| `HitsAlwaysResolve` | `StoreClients`' `Spec => []HitsResolve`, for any page |
| `ChunksAreFaithful` | `StoreClients`' `Spec => []ChunksFaithful`, for any page, any length of chunks and whatever inserts fail |
| `BlocksAreLaidOut` | `BlocksSpec => []BlocksLaidOut`, for any expressions, nesting and number of parts |

The arguments:

- **Stamps.** `StampsGenuine` of `st` is not inductive, since a super-step makes
  the merge the checkpoint: `GenuineInv` asserts it of `next` as well, with the
  types. `HashAssumption` turns "the stamp is the digest of the current draft"
  into "the current draft is the one that was accepted"; that is the step from
  `GenuineInv` to `PublishGated`. `OpenInv` (an agent at work has no outcome)
  excludes a second publication.
- **Calls.** Only a tool adds one to `calls`; `ToolDecides` says of every tool that
  what it changes in the merge lies within one title, one stamp and one rule.
- **Store.** `StoreInv` adds to `StoreAgrees` what each phase knows: nothing is
  cached while the agent works, the last attempt is the checkpoint's draft once
  the result is assembled. A step then either leaves the store alone or goes
  through one of the four pipeline actions.
- **Messages.** `MessageInv` says of the merge `next` that it comes from the checkpoint
  (`FromCheckpoint`): its acceptances are the checkpoint's old ones or of the checkpoint's
  draft, and a publication in it was accepted on the checkpoint, whatever else the
  message does. With one call per message it is one abstract move away from the
  checkpoint (`GateMove`). The refinement maps the end of the super-step to `Message` and
  the cache write to `Publish`.
- **Foundry.** `GateGenuine` of `st` says nothing of the merge or of a call in
  flight. `FromCheckpoint` says of the merge `next[a]` that its gate is genuine too,
  that its `forge_test` stamp is the checkpoint's old one or the digest of the
  checkpoint, and that a publication in it was accepted on the checkpoint: no
  call of a message sees what another one of it does. `CallInv` says that a
  call's unseeded path holds the draft of its checkpoint from staging to exit, and
  that a report of an unseeded run names that draft; the step that needs
  the path to be the call's own is another call's staging or unlinking
  (`PathFacts`: seeds are never an unseeded name). `FoundrySentinelAssumption` turns
  equal digests into equal drafts. That a
  mapping accepted by the check has as many entries as there are titles to map is
  a bijection between the two (`MappingBijection`). `DirectoryClean` is inductive
  once the types are known; each step adds one holder below the bound, or
  removes one, or neither.
- **Stubs.** `RequestOK` says of a request that once it is past the read it holds
  its lock, that the record it was given is the store's and the memory's, and
  what it is about to write grows out of it; two holders of one lock are one call,
  so no step of another call disturbs it (`OthersKept`). `StubsOK` says that memory and
  mirror agree, and that what was granted and not left out is in both and in the
  store. The fields a stub has or was given and has lost only grow (`EverGrows`), which is why
  the stale copy a typecheck reads is harmless (`PublishOK`). `FromCheckpoint` says of
  the merge that a publication in it is of the checkpoint's draft, accepted and backed; a
  message that goes on after its author raised is merged into nothing.
- **Imports.** That a spec imports the file beside it rests on the cache, since
  batches of earlier runs are written again by later ones. `CacheOK`: whatever
  batch is cached imports nothing or the cached CVL of the cached invariants, and
  these two are never replaced once a batch can have seen them. The run then writes that CVL
  before any batch (`PhaseOK`), to a path no batch has.
- **Titles.** `TitleInv` says that the cached rounds of a component have titles
  of their own, each and between them (`RoundsOK`), that what a component has so far are
  the titles of the rounds it has cached (`SoFar`), whichever run cached them,
  and that cached results are distinct (`ResultsOK`).
- **Batches.** `BatchInv` says what a batch has on disk at each point of its way, and
  that the steps of others leave it there, but for its namesakes', which leave theirs:
  paths of other batches differ, by `NamesApart` and `BasesApart`.
- **Report.** `InputsInv` has only the inputs and where the checks came from; the
  work is in `BuildReport`, one step that is a composition of folds. A grouping
  that is valid is a partition of the keys, the fallback is one too, and what
  is in no group is missing if it is a key, and otherwise skipped, given up or
  unanswered; of skip and mapping the skip wins. A verdict is the fold
  of the checks of a rule: it is VERIFIED only if all of them are, since the
  merge takes the higher priority and VERIFIED has the lowest.
- **Events.** What has been handled says nothing about what will be: `Accounts`
  says that it and what the queue has from its cursor on are together what was
  pushed, and that survives the buffer's reset since the consumer resets it
  only when the cursor has reached the end. A queue is closed only while its
  scope waits, and its drainer returns at a moment when it has handled all there is
  (`ScopeOK`), hence at least what was `due`; what a graph left behind emits later
  comes behind the drainer's return.
  In the conversation a checkpoint is the last thing in the queue while the loop
  drains (`Marked`); when the reader takes it the queue is empty, and stays so
  until the human has answered, since the loop is the only producer.
- **Paths.** The events tell which graphs began, which run and which were left by
  an exception or an interrupt (`RowOK`); a path ends in its own graph, so no two are
  alike. A graph ends in the usual way only when none runs below it, hence whatever
  is around a running graph runs too, or began and some graph from it on was left
  (`Covered`). The property is of every prefix of the events, so each push adds one prefix.
- **Summary.** `SumInv` ties the status to the point of `run_task`, the permit to the
  status, and the timing record to both; that the semaphore is not handed to two
  tasks is `Distinct`.
- **Refinement.** `RefinedOK`: the list the agent asked for is in the graph's
  state, is about to be, or was lost with the message that ended the conversation.
- **Codegen.** `Inv` says of each thread that a stamp is the digest of files the thread
  had, and that a thread never loses a file (`Held`). Equal digests
  of the contents in the order of their paths then mean equal files, since both
  have the paths of the thread; but for files that appear after the acceptance
  (`late`), which the property names.
- **Names.** A claimed row is never overwritten and a process past its claim
  holds the row it claimed (`NamesInv`, `ClientOK`), also when another process
  names the same thread meanwhile and both names come to be claimed for it.
- **References.** A document is stored under its own key, and a key of a layer
  that has a document keeps one (`IndexInv`): a second writer can replace it
  only by a document of a question with the same key.
- **Timelines.** `LogInv` says that the checkpoints are a tree whose parents come
  first (`WellLogged`), that the end of a recorded segment descends from its
  start, and that the tip of a running graph descends from where it started. The tree only
  grows, so this survives other branches and processes. `load_timeline` walks from
  the end to the start and reads the messages of the checkpoints in turn; that it
  comes out with what happened is an induction along the branch: what has been read up to a checkpoint
  is what happened up to it, and a message it has seen is not told twice
  (`Followed`).
- **Sections.** `WalkInv` holds of the page being walked: a stream, its tags
  replaced by the codes they name, reads what the page has from its heading to its
  end, or to now (`StreamsOK`); the streams of the open sections nest, each
  the parent of the next or shared with it, and exactly they have no end
  (`FramesOK`), so that a text reaches the stretches it belongs to and no other. When
  the walk is over all have ended. `BuildInv` says that one builder is alone, that what keywords
  can find is stored, and that each stored row is a section of a page, padded.
  That a hit finds its row needs that padding and dropping the missing headers undo
  each other, which they do because `SectionHeader` has no gap.
- **Chunks.** Chunks overlap and take in sentences of the sections within, so what
  a builder has written (`Written`) is not what its section has. `FrameOK` says of
  each open section that a reader who looks for the section's own places reads
  exactly those there, in order (`ReadIn`), and that every other place is of a
  section within it. What the operations of a builder preserve is stronger: the new text
  is the old one and the piece, for every reader (`SameRead`, for all sets of
  places), since what is repeated is always the last place written; an
  equality of readings for one set would not survive the next piece. With it goes
  `Sound`: every tag, of the text at hand as well as of closed chunks, names a code of its own
  chunk, which is where `FixupCodeRefs` is used. `Covered` says that each place read so
  far is in a builder, in a chunk that waits, or in a document that was stored or whose insert
  failed; a closed section hands it from the first to the second, a batch to the third. `ChunkInv` adds what connects builds: a page
  is read only while a process builds, so that the next build, which forgets what is stored,
  begins with an empty one.
- **Layout.** `LaidOut` is about a program of instructions run from the start, and a
  nested builder is not at the start. `Prints(P, d, e)` says what composes: on any
  builder that has no line open, whatever is around it and has been written before, `P` adds
  lines that hold exactly its own text and take the depth of braces from `d` to `e`,
  each indented by the depth it is at, relative to the builder's own (`Laid`). Programs one after another
  add up (`PrintsConcat`), nested ones go one deeper (`PrintsNested`), and a line put
  together in pieces around a nested list is two lines with those between
  (`PrintsAround`), which is where flushing the open pieces before nesting is
  needed. Every printer is then such a program from 0 to 0, an `else if` one
  from 1 to 0. `BlocksInv` says so of each command (`Sound`), with the types, and
  that the blocks have sound commands. It speaks of all builders, so TLC cannot
  evaluate it; what it implies, `BlocksLaidOut`, is what `cvl_printer` checks.

Two notes on method. The provers cannot take the library's induction theorems,
which have an operator as parameter, but induction itself is within reach: a
set of counterexamples has a least element (`WFMin` of `WellFoundedInduction`).
`NatClosed` and `Recursion` of `StoreClientsProofs`, and their like in `FoldProofs`,
derive from it that a recursive function or `FoldLeft`, `FlattenSeq` and
`FoldSeq` exist and satisfy their equations; everything proved of folds rests on
these. And the type invariants of `CVLAuthor`, `FoundryAuthor` and
`NatspecStubs` are proved and therefore in no run.

Only model-checked:

- `ExpressionsReadBack` of `CVLPrinter`: printer and reader are RECURSIVE operators, which
  the provers do not take, over trees without a bound. It is checked over all trees
  within the bounds. It is the only invariant of the runs without a theorem.
- The liveness properties `RunEnds`, `ResultWritten`, `CallsReturn`, `TasksEnd` and
  `RequestsReturn`: reasoning under fairness, and `ENABLED`, is out of this prover's
  reach.

## 7. Not modelled, and why

- *Feedback judge, research agents, prompts.* What they contribute to state is
  an answer, which is a choice here; their own gate is a single flag.
- *Natspec pipeline* beyond the stubs: phases and async results,
  `FileRegistry`, the stub namespace that is keyed by the document's digest.
  `Deliver` has the failures of single authors.
- *`direct_pipeline.py` and the codegen of natspec* run the phases that
  `AutoprovePipeline` and `NatspecStubs` have, in a fixed order.
- *User interfaces, command lines, start-up.* They render events and parse
  options. What a panel and the rows of tasks keep as state is in `JobRun`.
- *Retrieval.* The similarity search and the embedding are external; the other
  loaders (`foundry_ragbuild`, `kb_populate`) fill the same tables from flat
  inputs. Two builders over one directory of Chroma would give out the same ids;
  the model has one at a time.
- *Diagnostics, recorded answers, analyzers and stand-alone scripts.* They read
  what others wrote.

Worth adding next: a printer and a reader of expressions by recursive functions,
so that `ExpressionsReadBack` could be proved as well, and the phases of the natspec
pipeline around the stubs.

`PROJECT.json` gives status and reason for each component.

## 8. Running

`tlc -workers 2 -config CVLAuthorSequential.cfg MCCVLAuthor` and likewise for the
other configurations, each with the MC module of its run; `tlapm
CVLAuthorProofs.tla` and likewise for the other modules whose name ends in
`Proofs`, of which `StoreClientsProofs` takes about eleven minutes and `FoldProofs`
five. The largest run, `stores`, has 5.4 million distinct states; it, `jobs` and
`natspec_stubs` take two to three minutes with two workers.
