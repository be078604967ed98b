------------------------- MODULE AutoprovePipeline -------------------------
(***************************************************************************)
(* The runs of the autoprove pipeline (spec/source/pipeline.py and         *)
(* common_pipeline.py) or of the foundry pipeline (foundry/pipeline.py)    *)
(* over one cache and one project: analysis, harnesses, the three parallel *)
(* streams, the invariants' CVL and the parallel generations.  A run may   *)
(* be killed at any step, and started again, with other options or after   *)
(* the user removed the files that an earlier run wrote.                   *)
(***************************************************************************)
EXTENDS PropertyInference, Functions

CONSTANTS
  Slug,           \* slugify_filename of the component's name, a sequence
  MaxConcurrent,  \* permits of the pipeline's semaphore
  Modes,          \* prover options that AutoSetup is given
  Setups,         \* outcomes of the harness agents: [harnessed, external]
  InvNames, Wordings,
  MaxRuns,        \* bound: runs over one cache
  MayAsk          \* bound: whether the n-th of them may be interactive

ASSUME PipelineAssumption ==
  /\ DOMAIN Slug = Components /\ \A c \in Components : Slug[c] \in Seq(Range(Slug[c]))
  /\ {MaxRuns, MaxConcurrent} \subseteq Nat \ {0} /\ MayAsk \in [1..MaxRuns -> SUBSET BOOLEAN]

VARIABLES
  backend,        \* the program: "prover" or "foundry"
  run,            \* the pipeline's own progress and options
  auto,           \* stream_autosetup
  invs,           \* stream_invariants, and the verdicts of its judge
  bugs,           \* stream_bugs, beyond its components
  gen             \* the generation of each batch, with its GeneratedCVL

streams == <<auto, invs, bugs, comp>>
vars == <<backend, run, interactive, streams, gen, durableVars>>

NotGenerated == [at |-> "none", cvl |-> {}]

Fresh ==
  /\ auto' = [at |-> "start", config |-> {}]
  /\ invs' = [at |-> "start", accepted |-> {}, inv |-> {}, cvl |-> {}]
  /\ bugs' = "idle"
  /\ comp' = [c \in Components |-> NotStarted]
  /\ gen' = [c \in Components |-> NotGenerated]

Init ==
  /\ DurableInit
  /\ backend \in {"prover", "foundry"}
  /\ run = [no |-> 0, pc |-> "idle", mode |-> CHOOSE m \in Modes : TRUE, desc |-> {}, failures |-> {}]
  /\ interactive = FALSE
  /\ auto = [at |-> "start", config |-> {}]
  /\ invs = [at |-> "start", accepted |-> {}, inv |-> {}, cvl |-> {}]
  /\ bugs = "idle"
  /\ comp = [c \in Components |-> NotStarted]
  /\ gen = [c \in Components |-> NotGenerated]

Goto(pc) == run' = [run EXCEPT !.pc = pc]
Fail == Goto("failed")

\* Options are fixed at the start of a run.
StartRun ==
  /\ run.pc = "idle" /\ run.no < MaxRuns
  /\ \E m \in Modes : run' = [run EXCEPT !.no = @ + 1, !.pc = "analysis", !.mode = m]
  /\ interactive' \in MayAsk[run'.no]
  /\ UNCHANGED <<backend, streams, gen, durableVars>>

\* The process ends, by itself or killed, with whatever was still running.
Quit ==
  /\ run.pc # "idle"
  /\ run' = [run EXCEPT !.pc = "idle", !.desc = {}, !.failures = {}]
  /\ interactive' = FALSE
  /\ Fresh
  /\ UNCHANGED <<backend, durableVars>>

RemoveOutputs ==
  /\ run.pc = "idle" /\ run.no < MaxRuns /\ DOMAIN files # {}
  /\ files' = [f \in {} |-> f]
  /\ UNCHANGED <<backend, run, interactive, streams, gen, cache>>

-----------------------------------------------------------------------------
(* Analysis and harnesses *)

SourceAnalysisKey == <<backend, "source-analysis">>

AnalyseComponents ==
  /\ run.pc = "analysis"
  /\ \/ /\ IF Cached(SourceAnalysisKey) THEN UNCHANGED cache ELSE CachePut(SourceAnalysisKey, "application")
        /\ IF backend = "prover" THEN Goto("harness") /\ UNCHANGED bugs ELSE Goto("streams") /\ bugs' = "running"
     \/ ~Cached(SourceAnalysisKey) /\ Fail /\ UNCHANGED <<bugs, cache>>
  /\ UNCHANGED <<backend, interactive, auto, invs, comp, gen, files>>

SetupKey == <<"config", "system-setup">>

\* run_setup_part1 up to the classification.
ClassifyContracts ==
  /\ run.pc = "harness"
  /\ LET k == Child(SetupKey, "harness-analysis")
     IN  IF Cached(SetupKey)
         THEN run' = [run EXCEPT !.desc = {CacheGet(SetupKey)}, !.pc = "harnessed"] /\ UNCHANGED cache
         ELSE \E d \in (IF Cached(k) THEN {CacheGet(k)} ELSE Setups) :
                /\ run' = [run EXCEPT !.desc = {d}, !.pc = IF d.harnessed THEN "harnessing" ELSE "described"]
                /\ IF Cached(k) THEN UNCHANGED cache ELSE CachePut(k, d)
  /\ UNCHANGED <<backend, interactive, streams, gen, files>>

GenerateHarnesses ==
  /\ run.pc = "harnessing"
  /\ LET k == Child(SetupKey, "harnesses")
     IN  \/ /\ IF Cached(k) THEN UNCHANGED cache ELSE CachePut(k, "sources")
            /\ Goto("described")
         \/ ~Cached(k) /\ Fail /\ UNCHANGED cache
  /\ UNCHANGED <<backend, interactive, streams, gen, files>>

ApplyHarnessResult ==
  /\ run.pc = "described"
  /\ \E d \in run.desc : CachePut(SetupKey, d)
  /\ Goto("harnessed")
  /\ UNCHANGED <<backend, interactive, streams, gen, files>>

\* run_and_apply_part1 writes the harnesses of a cached description again.
WriteHarnesses ==
  /\ run.pc = "harnessed"
  /\ IF \E d \in run.desc : d.harnessed THEN WriteText(<<"harness">>, "sources") ELSE UNCHANGED files
  /\ Goto("streams") /\ bugs' = "running"
  /\ UNCHANGED <<backend, interactive, auto, invs, comp, gen, cache>>

-----------------------------------------------------------------------------
(* Stream A: AutoSetup and the custom summaries *)

\* The streams go on after one of them has failed the run.
InStreams == run.pc \in {"streams", "failed"} /\ bugs # "idle" /\ backend = "prover"

AutoSetupKey == <<"config", "autosetup", run.mode>>
NeedsSummaries == \E d \in run.desc : d.external

\* A cached result counts only if the file it names is still there.
RunAutoSetupPhase ==
  /\ InStreams /\ auto.at = "start"
  /\ LET next == IF NeedsSummaries THEN "summaries" ELSE "done"
         Usable == Cached(AutoSetupKey) /\ <<"summaries">> \in DOMAIN files
         fresh == [mode |-> run.mode, by |-> run.no]
     IN  IF Usable
         THEN auto' = [at |-> next, config |-> {CacheGet(AutoSetupKey)}] /\ UNCHANGED durableVars
         ELSE \/ /\ auto' = [at |-> next, config |-> {fresh}]
                 /\ WriteText(<<"summaries">>, fresh) /\ CachePut(AutoSetupKey, fresh)
              \/ auto' = [auto EXCEPT !.at = "raised"] /\ UNCHANGED durableVars
  /\ UNCHANGED <<backend, run, interactive, invs, bugs, comp, gen>>

\* The key is the description with the configuration.
SetupSummaries ==
  /\ InStreams /\ auto.at = "summaries"
  /\ \E config \in auto.config :
       LET k == <<"summary", config>>
       IN  \/ /\ IF Cached(k) THEN UNCHANGED cache ELSE CachePut(k, config)
              /\ WriteText(<<"custom_summaries">>, config)
              /\ auto' = [auto EXCEPT !.at = "done"]
           \/ ~Cached(k) /\ auto' = [auto EXCEPT !.at = "raised"] /\ UNCHANGED durableVars
  /\ UNCHANGED <<backend, run, interactive, invs, bugs, comp, gen>>

-----------------------------------------------------------------------------
(* Stream B: the structural invariants *)

InvariantsKey == <<"structural-inv">>

ReuseInvariants ==
  /\ InStreams /\ invs.at = "start" /\ Cached(InvariantsKey)
  /\ invs' = [invs EXCEPT !.at = "done", !.inv = CacheGet(InvariantsKey)]
  /\ UNCHANGED <<backend, run, interactive, auto, bugs, comp, gen, durableVars>>

\* The last verdict on a name replaces the earlier ones.
JudgeInvariant(n) ==
  /\ InStreams /\ invs.at = "start" /\ ~Cached(InvariantsKey)
  /\ \E w \in Wordings, good \in BOOLEAN :
       invs' = [invs EXCEPT !.accepted = {a \in @ : a[1] # n} \cup (IF good THEN {<<n, w>>} ELSE {})]
  /\ UNCHANGED <<backend, run, interactive, auto, bugs, comp, gen, durableVars>>

\* _validate_invariants: every one delivered was accepted with these words.
DeliverInvariants ==
  /\ InStreams /\ invs.at = "start" /\ ~Cached(InvariantsKey)
  /\ \/ \E inv \in SUBSET invs.accepted :
          /\ CachePut(InvariantsKey, inv)
          /\ invs' = [invs EXCEPT !.at = "done", !.inv = inv, !.accepted = {}]
     \/ invs' = [invs EXCEPT !.at = "raised", !.accepted = {}] /\ UNCHANGED cache
  /\ UNCHANGED <<backend, run, interactive, auto, bugs, comp, gen, files>>

-----------------------------------------------------------------------------
(* Stream C: property extraction *)

\* The tasks of the components share a semaphore, in both phases.
Permits(busy) == Cardinality(busy) < MaxConcurrent

Extract(c) ==
  /\ run.pc \in {"streams", "failed"} /\ bugs # "idle"
  /\ comp[c].at = "idle" => Permits({d \in Components : comp[d].at \in {"rounds", "ending", "extracted"}})
  /\ Infer(c)
  /\ UNCHANGED <<backend, run, interactive, auto, invs, bugs, gen>>

Batches == {c \in Components : comp[c].at = "done" /\ comp[c].props # <<>>}

\* Mutant: the slug of the name alone.
PlainSlug(c) == Slug[c]

HasTwin(c) == \E d \in Components \ {c} : Slug[d] = Slug[c]

\* The index is appended when a sibling has the same slug.
SlugifiedName(c) == IF HasTwin(c) THEN Append(Slug[c], c) ELSE Slug[c]

\* The foundry pipeline counts the slugs of the batches only.
FoundryBase(c) == IF \E d \in Batches \ {c} : Slug[d] = Slug[c] THEN Append(Slug[c], c) ELSE Slug[c]

Stem(c) == IF backend = "prover" THEN <<"autospec">> \o SlugifiedName(c) ELSE <<"composer">> \o FoundryBase(c)
InvStem == <<"invariants">>
SpecFile(stem) == <<"spec">> \o stem
PropertiesFile(stem) == <<"properties">> \o stem

WriteAnalysisProperties(cs) ==
  files' = [f \in DOMAIN files \cup {PropertiesFile(Stem(c)) : c \in cs} |->
              IF \E c \in cs : f = PropertiesFile(Stem(c))
              THEN comp[CHOOSE c \in cs : f = PropertiesFile(Stem(c))].props ELSE files[f]]

\* The gather over the components: the first exception is that of the stream.
EndExtraction ==
  /\ run.pc \in {"streams", "failed"} /\ bugs = "running"
  /\ \/ /\ \E c \in Components : comp[c].at \in {"raised", "asserted"}
        /\ bugs' = "raised" /\ UNCHANGED files
     \/ /\ \A c \in Components : comp[c].at = "done"
        /\ bugs' = "done" /\ WriteAnalysisProperties(Batches)
  /\ UNCHANGED <<backend, run, interactive, auto, invs, comp, gen, cache>>

-----------------------------------------------------------------------------
(* The join *)

JoinStreams ==
  /\ run.pc = "streams"
  /\ LET Prover == backend = "prover"
         Raised == bugs = "raised" \/ (Prover /\ "raised" \in {auto.at, invs.at})
         Done == bugs = "done" /\ (Prover => auto.at = "done" /\ invs.at = "done")
     IN  \/ Raised /\ Fail
         \/ Done /\ IF Batches = {} THEN Fail
                    ELSE Goto(IF Prover /\ invs.inv # {} THEN "invariants" ELSE "generate")
  /\ UNCHANGED <<backend, interactive, streams, gen, durableVars>>

InvCVLKey == <<"invariant-cvl">>

\* Mutant: the invariants' CVL is not cached.
GenerateInvariantsUncached ==
  /\ run.pc = "invariants" /\ invs.cvl = {}
  /\ WriteText(PropertiesFile(InvStem), invs.inv)
  /\ \/ Fail /\ UNCHANGED invs
     \/ invs' = [invs EXCEPT !.cvl = {[inv |-> invs.inv, by |-> run.no]}] /\ UNCHANGED run
  /\ UNCHANGED <<backend, interactive, auto, bugs, comp, gen, cache>>

\* Giving up raises, as a failed agent does.
GenerateInvariants ==
  /\ run.pc = "invariants" /\ invs.cvl = {}
  /\ WriteText(PropertiesFile(InvStem), invs.inv)
  /\ IF Cached(InvCVLKey)
     THEN invs' = [invs EXCEPT !.cvl = {CacheGet(InvCVLKey)}] /\ UNCHANGED <<run, cache>>
     ELSE \/ Fail /\ UNCHANGED <<invs, cache>>
          \/ LET cvl == [inv |-> invs.inv, by |-> run.no]
             IN  invs' = [invs EXCEPT !.cvl = {cvl}] /\ CachePut(InvCVLKey, cvl) /\ UNCHANGED run
  /\ UNCHANGED <<backend, interactive, auto, bugs, comp, gen>>

\* The file is written before any component may import it.
WriteInvariants ==
  /\ run.pc = "invariants"
  /\ \E cvl \in invs.cvl : WriteText(SpecFile(InvStem), cvl)
  /\ Goto("generate")
  /\ UNCHANGED <<backend, interactive, streams, gen, cache>>

-----------------------------------------------------------------------------
(* The generations *)

BatchKey(c) == <<"properties", c, "batch", comp[c].props>>

\* What the agent of module CVLAuthor or FoundryAuthor delivers.
GeneratedCVL(c) == [props |-> comp[c].props, imports |-> invs.cvl, config |-> auto.config]

GenerateBatch(c) ==
  /\ run.pc = "generate" /\ c \in Batches /\ gen[c].at = "none"
  /\ Cached(BatchKey(c)) \/ Permits({d \in Components : gen[d].at = "generating"})
  /\ gen' = [gen EXCEPT ![c] = IF Cached(BatchKey(c)) THEN [at |-> "result", cvl |-> {CacheGet(BatchKey(c))}]
                                                      ELSE [@ EXCEPT !.at = "generating"]]
  /\ UNCHANGED <<backend, run, interactive, streams, durableVars>>

\* The agent publishes, gives up or raises; a published result is cached.
EndBatch(c) ==
  /\ gen[c].at = "generating"
  /\ \/ /\ CachePut(BatchKey(c), GeneratedCVL(c))
        /\ gen' = [gen EXCEPT ![c] = [at |-> "result", cvl |-> {GeneratedCVL(c)}]]
     \/ /\ \E how \in {"gave_up", "raised"} : gen' = [gen EXCEPT ![c].at = how]
        /\ UNCHANGED cache
  /\ UNCHANGED <<backend, run, interactive, streams, files>>

WriteBatch(c) ==
  /\ gen[c].at = "result"
  /\ \E cvl \in gen[c].cvl : WriteText(SpecFile(Stem(c)), cvl)
  /\ gen' = [gen EXCEPT ![c].at = "written"]
  /\ UNCHANGED <<backend, run, interactive, streams, cache>>

Gathered == \A c \in Batches : gen[c].at \in {"written", "gave_up", "raised"}
Failures == {c \in Batches : gen[c].at \in {"gave_up", "raised"}}

\* The prover run of each delivered spec, under the slug or "invariants".  Of
\* several under one name the code keeps the last; nothing here tells which.
RunKey(c) == SlugifiedName(c)
ComponentRuns ==
  LET done == Batches \ Failures
      keys == {RunKey(c) : c \in done} \cup (IF invs.cvl # {} THEN {InvStem} ELSE {})
  IN  [k \in keys |-> IF invs.cvl # {} /\ k = InvStem THEN invs.cvl
                     ELSE gen[CHOOSE c \in done : RunKey(c) = k].cvl]

\* The report is best effort: without it the run ends as well.
EndRun ==
  /\ run.pc = "generate" /\ backend = "prover" /\ Gathered
  /\ LET linked == Extended(files, <<"component_runs">>, ComponentRuns)
     IN  files' \in {linked, Extended(linked, <<"report">>, Failures)}
  /\ run' = [run EXCEPT !.pc = "over", !.failures = Failures]
  /\ UNCHANGED <<backend, interactive, streams, gen, cache>>

EndFoundryRun ==
  /\ run.pc = "generate" /\ backend = "foundry" /\ Gathered
  /\ WriteText(<<"report">>, Failures)
  /\ run' = [run EXCEPT !.pc = "over", !.failures = Failures]
  /\ UNCHANGED <<backend, interactive, streams, gen, cache>>

-----------------------------------------------------------------------------

Next ==
  \/ StartRun \/ Quit \/ RemoveOutputs
  \/ AnalyseComponents \/ ClassifyContracts \/ GenerateHarnesses \/ ApplyHarnessResult \/ WriteHarnesses
  \/ RunAutoSetupPhase \/ SetupSummaries
  \/ ReuseInvariants \/ (\E n \in InvNames : JudgeInvariant(n)) \/ DeliverInvariants
  \/ EndExtraction \/ JoinStreams \/ GenerateInvariants \/ WriteInvariants
  \/ \E c \in Components : Extract(c) \/ GenerateBatch(c) \/ EndBatch(c) \/ WriteBatch(c)
  \/ EndRun \/ EndFoundryRun

Spec == Init /\ [][Next]_vars

-----------------------------------------------------------------------------
(* Properties *)

\* A spec that this run delivered imports the invariants.spec that lies beside
\* it, as it was when the spec was generated and verified, however many runs
\* it took to generate both (pipeline.py, common_pipeline.py).
ImportsDelivered ==
  \A c \in Components : gen[c].at = "written" =>
    \A cvl \in gen[c].cvl : \A inv \in cvl.imports :
      SpecFile(InvStem) \in DOMAIN files /\ files[SpecFile(InvStem)] = inv

\* The titles of a component's properties differ, over all its rounds and over
\* the runs that contributed them, unless the user was asked (prop_inference.py).
TitlesDistinct ==
  \A c \in Components :
    /\ Distinct(comp[c].prev)
    /\ comp[c].at = "done" /\ ~interactive => Distinct(comp[c].props)

\* The batches that may lie under the name of c. Equal slugs are told apart, but
\* a slug with an index may be the slug of another component.
Namesakes(c) == {d \in Batches : d = c \/ (Slug[d] # Slug[c] /\ Stem(d) = Stem(c))}

\* A run that is over accounts for every batch: it is counted as a failure, or a
\* result lies under its name on disk, with a list of properties and a link to a
\* prover run, and they are its own unless another batch has the same name, or
\* the invariants have the key of its run. A batch that fails does not fail the
\* run (common_pipeline.py, foundry/pipeline.py).
BatchesAccounted ==
  /\ run.pc = "over" =>
       \A c \in Batches :
          IF c \in run.failures THEN gen[c].cvl = {}
          ELSE /\ gen[c].cvl # {}
               /\ SpecFile(Stem(c)) \in DOMAIN files
               /\ \E d \in Namesakes(c) : gen[d].cvl = {files[SpecFile(Stem(c))]}
               /\ \E d \in Namesakes(c) : files[PropertiesFile(Stem(c))] = comp[d].props
               /\ \A cvl \in gen[c].cvl : cvl.props = comp[c].props
               /\ backend = "prover" =>
                    LET link == files[<<"component_runs">>][RunKey(c)]
                    IN  IF RunKey(c) = InvStem /\ invs.cvl # {} THEN link = invs.cvl
                        ELSE \E d \in Namesakes(c) : link # {} /\ link = gen[d].cvl
  /\ run.pc = "failed" => \A c \in Components : gen[c].at = "none"

\* prop_inference.py:373 and 379 assert that the rounds of a component leave a
\* conversation behind, so the extraction of the component does not end in an
\* assertion but yields its list of properties.
RoundsYield == \A c \in Components : comp[c].at # "asserted"
=============================================================================
