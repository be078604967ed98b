----------------------- MODULE AutoprovePipelineProofs -----------------------
(***************************************************************************)
(* Theorems about AutoprovePipeline: what is delivered over one cache by   *)
(* any number of runs, killed anywhere and started again, of either        *)
(* program, for any components, names, drafts and bounds.                  *)
(***************************************************************************)
EXTENDS AutoprovePipeline, FiniteSetTheorems, SequenceTheorems, TLAPS

-----------------------------------------------------------------------------
(* The records of the state *)

RunShape == run = [no |-> run.no, pc |-> run.pc, mode |-> run.mode, desc |-> run.desc, failures |-> run.failures]
AutoShape == auto = [at |-> auto.at, config |-> auto.config]
InvsShape == invs = [at |-> invs.at, accepted |-> invs.accepted, inv |-> invs.inv, cvl |-> invs.cvl]
Inference(r) == r = [at |-> r.at, round |-> r.round, prev |-> r.prev, props |-> r.props]
CompShape == comp = [c \in Components |-> comp[c]] /\ \A c \in Components : Inference(comp[c])
Generation(g) == g = [at |-> g.at, cvl |-> g.cvl]
GenShape == gen = [c \in Components |-> gen[c]] /\ \A c \in Components : Generation(gen[c])

Shape == RunShape /\ AutoShape /\ InvsShape /\ CompShape /\ GenShape

LEMMA ShapeInit == Init => Shape
  BY DEF Init, Shape, RunShape, AutoShape, InvsShape, CompShape, GenShape, Inference, Generation,
         NotStarted, NotGenerated

LEMMA AfterRoundShape ==
  ASSUME NEW r, Inference(r), NEW items
  PROVE  Inference(AfterRound(r, items))
  <1>1. CASE items # <<>>
    BY <1>1 DEF Inference, AfterRound
  <1>2. CASE items = <<>> /\ r.prev = <<>>
    BY <1>2 DEF Inference, AfterRound
  <1>3. CASE items = <<>> /\ r.prev # <<>>
    BY <1>3 DEF Inference, AfterRound
  <1>4. QED BY <1>1, <1>2, <1>3

LEMMA InferenceExcept ==
  ASSUME NEW r, Inference(r), NEW a, NEW l
  PROVE  /\ [r EXCEPT !.at = a] = [at |-> a, round |-> r.round, prev |-> r.prev, props |-> r.props]
         /\ [r EXCEPT !.at = a, !.props = l] = [at |-> a, round |-> r.round, prev |-> r.prev, props |-> l]
         /\ [r EXCEPT !.at = a, !.prev = l] = [at |-> a, round |-> r.round, prev |-> l, props |-> r.props]
         /\ Inference([r EXCEPT !.at = a])
         /\ Inference([r EXCEPT !.at = a, !.props = l]) /\ Inference([r EXCEPT !.at = a, !.prev = l])
  <1>1. /\ [r EXCEPT !.at = a] = [at |-> a, round |-> r.round, prev |-> r.prev, props |-> r.props]
        /\ [r EXCEPT !.at = a, !.props = l] = [at |-> a, round |-> r.round, prev |-> r.prev, props |-> l]
        /\ [r EXCEPT !.at = a, !.prev = l] = [at |-> a, round |-> r.round, prev |-> l, props |-> r.props]
    <2>1. ASSUME NEW x, NEW b, NEW m, NEW n, r = [at |-> x, round |-> b, prev |-> m, props |-> n]
          PROVE  [r EXCEPT !.at = a] = [at |-> a, round |-> b, prev |-> m, props |-> n]
      BY <2>1
    <2>2. ASSUME NEW x, NEW b, NEW m, NEW n, r = [at |-> x, round |-> b, prev |-> m, props |-> n]
          PROVE  [r EXCEPT !.at = a, !.props = l] = [at |-> a, round |-> b, prev |-> m, props |-> l]
      <3>1. [r EXCEPT !.at = a, !.props = l] = [[r EXCEPT !.at = a] EXCEPT !.props = l]
        OBVIOUS
      <3>2. [[at |-> a, round |-> b, prev |-> m, props |-> n] EXCEPT !.props = l] = [at |-> a, round |-> b, prev |-> m, props |-> l]
        OBVIOUS
      <3>3. QED BY <2>1, <2>2, <3>1, <3>2
    <2>3. ASSUME NEW x, NEW b, NEW m, NEW n, r = [at |-> x, round |-> b, prev |-> m, props |-> n]
          PROVE  [r EXCEPT !.at = a, !.prev = l] = [at |-> a, round |-> b, prev |-> l, props |-> n]
      <3>1. [r EXCEPT !.at = a, !.prev = l] = [[r EXCEPT !.at = a] EXCEPT !.prev = l]
        OBVIOUS
      <3>2. [[at |-> a, round |-> b, prev |-> m, props |-> n] EXCEPT !.prev = l] = [at |-> a, round |-> b, prev |-> l, props |-> n]
        OBVIOUS
      <3>3. QED BY <2>1, <2>3, <3>1, <3>2
    <2>4. QED BY <2>1, <2>2, <2>3 DEF Inference
  <1>2. \A b, m, n : Inference([at |-> a, round |-> b, prev |-> m, props |-> n])
    BY DEF Inference
  <1>3. QED BY <1>1, <1>2

LEMMA OneInference ==
  ASSUME CompShape, NEW c \in Components, NEW r, Inference(r), comp' = [comp EXCEPT ![c] = r]
  PROVE  CompShape' /\ comp'[c] = r /\ \A d \in Components \ {c} : comp'[d] = comp[d]
  BY DEF CompShape, Inference

LEMMA InferShape ==
  ASSUME CompShape, NEW c \in Components, Infer(c)
  PROVE  /\ CompShape' /\ \A d \in Components \ {c} : comp'[d] = comp[d]
         /\ \E r : Inference(r) /\ comp' = [comp EXCEPT ![c] = r]
  <1>1. Inference(comp[c])
    BY DEF CompShape
  <1>2. \E r : Inference(r) /\ comp' = [comp EXCEPT ![c] = r]
    <2>1. CASE ReuseAnalysis(c)
      <3>1. CASE Cached(BugAnalysisKey(c))
        <4>1. comp' = [comp EXCEPT ![c] = [comp[c] EXCEPT !.at = "done", !.props = CacheGet(BugAnalysisKey(c))]]
          BY <2>1, <3>1 DEF ReuseAnalysis
        <4>2. QED BY <1>1, <4>1, InferenceExcept
      <3>2. CASE ~Cached(BugAnalysisKey(c))
        <4>1. comp' = [comp EXCEPT ![c] = [comp[c] EXCEPT !.at = "extracted", !.prev = CacheGet(AgentResultKey(c))]]
          BY <2>1, <3>2 DEF ReuseAnalysis
        <4>2. QED BY <1>1, <4>1, InferenceExcept
      <3>3. QED BY <3>1, <3>2
    <2>2. CASE RunBugRound(c)
      <3>1. PICK items : comp' = [comp EXCEPT ![c] = AfterRound(comp[c], items)]
        BY <2>2 DEF RunBugRound
      <3>2. QED BY <1>1, <3>1, AfterRoundShape
    <2>3. CASE EndRounds(c)
      <3>1. PICK at : comp' = [comp EXCEPT ![c] = [comp[c] EXCEPT !.at = at]]
        BY <1>1, <2>3 DEF EndRounds, CompShape
      <3>2. Inference([comp[c] EXCEPT !.at = at])
        BY <1>1, InferenceExcept
      <3>3. QED BY <3>1, <3>2
    <2>4. CASE SettleProperties(c)
      <3>1. PICK props : comp' = [comp EXCEPT ![c] = [comp[c] EXCEPT !.at = "done", !.props = props]]
        BY <1>1, <2>4 DEF SettleProperties, CompShape, Inference
      <3>2. Inference([comp[c] EXCEPT !.at = "done", !.props = props])
        BY <1>1, InferenceExcept
      <3>3. QED BY <3>1, <3>2
    <2>5. CASE InferenceRaises(c)
      <3>1. comp' = [comp EXCEPT ![c] = [comp[c] EXCEPT !.at = "raised"]]
        BY <1>1, <2>5 DEF InferenceRaises, CompShape
      <3>2. Inference([comp[c] EXCEPT !.at = "raised"])
        BY <1>1, InferenceExcept
      <3>3. QED BY <3>1, <3>2
    <2>6. QED BY <2>1, <2>2, <2>3, <2>4, <2>5 DEF Infer
  <1>3. QED BY <1>2, OneInference

\* What the steps of the pipeline itself do to the records.
LEMMA ShapeNext == Shape /\ [Next]_vars => Shape'
  <1> SUFFICES ASSUME Shape, [Next]_vars PROVE Shape'
    OBVIOUS
  <1> USE DEF Shape
  <1>1. CASE UNCHANGED <<run, streams, gen>>
    BY <1>1 DEF RunShape, AutoShape, InvsShape, CompShape, GenShape, Inference, Generation, streams
  <1>2. ASSUME NEW pc, run' = [run EXCEPT !.pc = pc], UNCHANGED <<auto, invs, comp, gen>> PROVE Shape'
    BY <1>2 DEF RunShape, AutoShape, InvsShape, CompShape, GenShape, Inference, Generation
  <1>3. CASE StartRun
    BY <1>3 DEF StartRun, streams, RunShape, AutoShape, InvsShape, CompShape, GenShape, Inference, Generation
  <1>4. CASE Quit
    BY <1>4 DEF Quit, Fresh, RunShape, AutoShape, InvsShape, CompShape, GenShape, Inference, Generation,
                NotStarted, NotGenerated
  <1>5. CASE RemoveOutputs
    BY <1>1, <1>5 DEF RemoveOutputs
  <1>6. CASE AnalyseComponents \/ GenerateHarnesses \/ ApplyHarnessResult \/ WriteHarnesses \/ JoinStreams
             \/ WriteInvariants
    <2>1. (\E pc : run' = [run EXCEPT !.pc = pc]) /\ UNCHANGED <<auto, invs, comp, gen>>
      BY <1>6 DEF AnalyseComponents, GenerateHarnesses, ApplyHarnessResult, WriteHarnesses, JoinStreams,
                  WriteInvariants, Goto, Fail, streams
    <2>2. QED BY <1>2, <2>1
  <1>7. CASE ClassifyContracts
    <2>1. (\E pc, d : run' = [run EXCEPT !.desc = {d}, !.pc = pc]) /\ UNCHANGED <<auto, invs, comp, gen>>
      BY <1>7 DEF ClassifyContracts, streams
    <2>2. QED BY <2>1 DEF RunShape, AutoShape, InvsShape, CompShape, GenShape, Inference, Generation
  <1>8. CASE RunAutoSetupPhase \/ SetupSummaries
    <2>1. /\ \/ \E at, config : auto' = [at |-> at, config |-> config]
             \/ \E at : auto' = [auto EXCEPT !.at = at]
          /\ UNCHANGED <<run, invs, comp, gen>>
      BY <1>8 DEF RunAutoSetupPhase, SetupSummaries
    <2>2. QED BY <2>1 DEF RunShape, AutoShape, InvsShape, CompShape, GenShape, Inference, Generation
  <1>9. ASSUME ReuseInvariants \/ (\E n \in InvNames : JudgeInvariant(n)) \/ DeliverInvariants
               \/ GenerateInvariants
        PROVE  Shape'
    <2>1. /\ \/ invs' = invs
             \/ \E at, inv : invs' = [invs EXCEPT !.at = at, !.inv = inv]
             \/ \E a : invs' = [invs EXCEPT !.accepted = a]
             \/ \E at, inv : invs' = [invs EXCEPT !.at = at, !.inv = inv, !.accepted = {}]
             \/ \E at : invs' = [invs EXCEPT !.at = at, !.accepted = {}]
             \/ \E cvl : invs' = [invs EXCEPT !.cvl = cvl]
          /\ (\E pc : run' = [run EXCEPT !.pc = pc]) \/ run' = run
          /\ UNCHANGED <<auto, comp, gen>>
      BY <1>9 DEF ReuseInvariants, JudgeInvariant, DeliverInvariants, GenerateInvariants, Fail, Goto
    <2>2. InvsShape'
      BY <2>1 DEF InvsShape
    <2>3. QED BY <2>1, <2>2 DEF RunShape, AutoShape, CompShape, GenShape, Inference, Generation
  <1>10. CASE EndExtraction
    BY <1>1, <1>10 DEF EndExtraction, RunShape, AutoShape, InvsShape, CompShape, GenShape, Inference, Generation
  <1>11. ASSUME NEW c \in Components, Extract(c) PROVE Shape'
    <2>1. Infer(c) /\ UNCHANGED <<run, auto, invs, gen>>
      BY <1>11 DEF Extract
    <2>2. CompShape'
      BY <2>1, InferShape
    <2>3. QED BY <2>1, <2>2 DEF RunShape, AutoShape, InvsShape, GenShape, Generation
  <1>12. ASSUME NEW c \in Components, GenerateBatch(c) \/ EndBatch(c) \/ WriteBatch(c) PROVE Shape'
    <2>1. /\ \/ \E at, cvl : gen' = [gen EXCEPT ![c] = [at |-> at, cvl |-> cvl]]
             \/ \E at : gen' = [gen EXCEPT ![c] = [gen[c] EXCEPT !.at = at]]
          /\ UNCHANGED <<run, auto, invs, comp>>
      BY <1>12 DEF GenerateBatch, EndBatch, WriteBatch, streams, GenShape
    <2>2. GenShape'
      BY <2>1 DEF GenShape, Generation
    <2>3. QED BY <2>1, <2>2 DEF RunShape, AutoShape, InvsShape, CompShape, Inference
  <1>13. CASE EndRun \/ EndFoundryRun
    <2>1. (\E pc, f : run' = [run EXCEPT !.pc = pc, !.failures = f]) /\ UNCHANGED <<auto, invs, comp, gen>>
      BY <1>13 DEF EndRun, EndFoundryRun, streams
    <2>2. QED BY <2>1 DEF RunShape, AutoShape, InvsShape, CompShape, GenShape, Inference, Generation
  <1>14. CASE UNCHANGED vars
    BY <1>1, <1>14 DEF vars
  <1>15. QED BY <1>3, <1>4, <1>5, <1>6, <1>7, <1>8, <1>9, <1>10, <1>11, <1>12, <1>13, <1>14 DEF Next

-----------------------------------------------------------------------------
(* The cache and the files *)

LEMMA PutFacts ==
  ASSUME NEW k, NEW v, CachePut(k, v)
  PROVE  /\ DOMAIN cache' = DOMAIN cache \cup {k} /\ cache'[k] = v
         /\ \A x \in DOMAIN cache : x # k => cache'[x] = cache[x]
  BY DEF CachePut, Extended

LEMMA WriteFacts ==
  ASSUME NEW f, NEW v, WriteText(f, v)
  PROVE  /\ DOMAIN files' = DOMAIN files \cup {f} /\ files'[f] = v
         /\ \A x \in DOMAIN files : x # f => files'[x] = files[x]
  BY DEF WriteText, Extended

LEMMA SameSequence ==
  ASSUME NEW S, NEW f \in Seq(S), NEW g \in Seq(S), Len(f) = Len(g), \A i \in 1..Len(f) : f[i] = g[i]
  PROVE  f = g
  <1>1. f = [i \in 1..Len(f) |-> f[i]] /\ g = [i \in 1..Len(g) |-> g[i]]
    OBVIOUS
  <1>2. QED BY <1>1

LEMMA AppendTwo ==
  ASSUME NEW a, NEW b, NEW k
  PROVE  Append(<<a, b>>, k) = <<a, b, k>>
  <1> DEFINE S == {a, b, k}
             f == Append(<<a, b>>, k)
             g == <<a, b, k>>
  <1>1. f \in Seq(S) /\ g \in Seq(S) /\ Len(f) = 3 /\ Len(g) = 3
    OBVIOUS
  <1>2. f[1] = a /\ f[2] = b /\ f[3] = k
    OBVIOUS
  <1>3. g[1] = a /\ g[2] = b /\ g[3] = k
    OBVIOUS
  <1> HIDE DEF S, f, g
  <1>4. \A i \in 1..3 : f[i] = g[i]
    BY <1>2, <1>3
  <1>5. f = g
    BY <1>1, <1>4, SameSequence
  <1>6. QED BY <1>5 DEF f, g

LEMMA AppendThree ==
  ASSUME NEW a, NEW b, NEW c, NEW k
  PROVE  Append(<<a, b, c>>, k) = <<a, b, c, k>>
  <1> DEFINE S == {a, b, c, k}
             f == Append(<<a, b, c>>, k)
             g == <<a, b, c, k>>
  <1>1. f \in Seq(S) /\ g \in Seq(S) /\ Len(f) = 4 /\ Len(g) = 4
    OBVIOUS
  <1>2. f[1] = a /\ f[2] = b /\ f[3] = c /\ f[4] = k
    OBVIOUS
  <1>3. g[1] = a /\ g[2] = b /\ g[3] = c /\ g[4] = k
    OBVIOUS
  <1> HIDE DEF S, f, g
  <1>4. \A i \in 1..4 : f[i] = g[i]
    BY <1>2, <1>3
  <1>5. f = g
    BY <1>1, <1>4, SameSequence
  <1>6. QED BY <1>5 DEF f, g

LEMMA AppendFour ==
  ASSUME NEW a, NEW b, NEW c, NEW d, NEW k
  PROVE  Append(<<a, b, c, d>>, k) = <<a, b, c, d, k>>
  <1> DEFINE S == {a, b, c, d, k}
             f == Append(<<a, b, c, d>>, k)
             g == <<a, b, c, d, k>>
  <1>1. f \in Seq(S) /\ g \in Seq(S) /\ Len(f) = 5 /\ Len(g) = 5
    OBVIOUS
  <1>2. f[1] = a /\ f[2] = b /\ f[3] = c /\ f[4] = d /\ f[5] = k
    OBVIOUS
  <1>3. g[1] = a /\ g[2] = b /\ g[3] = c /\ g[4] = d /\ g[5] = k
    OBVIOUS
  <1> HIDE DEF S, f, g
  <1>4. \A i \in 1..5 : f[i] = g[i]
    BY <1>2, <1>3
  <1>5. f = g
    BY <1>1, <1>4, SameSequence
  <1>6. QED BY <1>5 DEF f, g

LEMMA JoinOnes ==
  ASSUME NEW a, NEW b
  PROVE  <<a>> \o <<b>> = <<a, b>>
  <1> DEFINE S == {a, b}
             f == <<a>> \o <<b>>
             g == <<a, b>>
  <1>1. f \in Seq(S) /\ g \in Seq(S) /\ Len(f) = 2 /\ Len(g) = 2
    OBVIOUS
  <1>2. f[1] = a /\ f[2] = b
    OBVIOUS
  <1>3. g[1] = a /\ g[2] = b
    OBVIOUS
  <1> HIDE DEF S, f, g
  <1>4. \A i \in 1..2 : f[i] = g[i]
    BY <1>2, <1>3
  <1>5. f = g
    BY <1>1, <1>4, SameSequence
  <1>6. QED BY <1>5 DEF f, g

BatchLike(k) == Len(k) = 4 /\ k[3] = "batch"
OwnKeys == {InvariantsKey, InvCVLKey}

\* The keys of the steps other than the ones an invariant is about.
OtherKey(k) == ~BatchLike(k) /\ k \notin OwnKeys

LEMMA PipelineKeys ==
  /\ OtherKey(SourceAnalysisKey) /\ OtherKey(SetupKey) /\ OtherKey(AutoSetupKey)
  /\ OtherKey(Child(SetupKey, "harness-analysis")) /\ OtherKey(Child(SetupKey, "harnesses"))
  /\ \A config : OtherKey(<<"summary", config>>)
  /\ InvariantsKey # InvCVLKey /\ ~BatchLike(InvariantsKey) /\ ~BatchLike(InvCVLKey)
  BY DEF OtherKey, BatchLike, OwnKeys, InvariantsKey, InvCVLKey, SourceAnalysisKey, SetupKey, AutoSetupKey, Child

LEMMA InferenceKeys ==
  ASSUME NEW c, NEW i
  PROVE  OtherKey(BugAnalysisKey(c)) /\ OtherKey(AgentResultKey(c)) /\ OtherKey(AgentRoundKey(c, i))
  <1> DEFINE kind == IF interactive THEN "bug_analysis|refine" ELSE "bug_analysis"
  <1>1. BugAnalysisKey(c) = <<"properties", c, kind>>
    BY AppendTwo DEF BugAnalysisKey, Child
  <1>2. kind # "batch"
    OBVIOUS
  <1> HIDE DEF kind
  <1>3. AgentResultKey(c) = <<"properties", c, kind, "agent">>
    BY <1>1, AppendThree DEF AgentResultKey, Child
  <1>4. AgentRoundKey(c, i) = <<"properties", c, kind, "agent", i>>
    BY <1>3, AppendFour DEF AgentRoundKey, Child
  <1>5. QED BY <1>1, <1>2, <1>3, <1>4 DEF OtherKey, BatchLike, OwnKeys, InvariantsKey, InvCVLKey

LEMMA BatchKeys ==
  ASSUME NEW c PROVE BatchLike(BatchKey(c)) /\ BatchKey(c) \notin OwnKeys /\ BatchKey(c)[4] = comp[c].props
  BY DEF BatchLike, BatchKey, OwnKeys, InvariantsKey, InvCVLKey

InvFile == SpecFile(InvStem)

LEMMA OtherFiles ==
  /\ InvFile \notin {<<"harness">>, <<"summaries">>, <<"custom_summaries">>, <<"report">>, <<"component_runs">>}
  /\ InvFile # PropertiesFile(InvStem)
  /\ \A c \in Components : InvFile \notin {PropertiesFile(Stem(c)), SpecFile(Stem(c))}
  <1>1. InvFile = <<"spec", "invariants">> /\ PropertiesFile(InvStem) = <<"properties", "invariants">>
    BY JoinOnes DEF InvFile, SpecFile, PropertiesFile, InvStem
  <1>2. ASSUME NEW c \in Components PROVE InvFile \notin {PropertiesFile(Stem(c)), SpecFile(Stem(c))}
    <2> DEFINE S == {"autospec", "composer", "spec", "properties", c} \cup Range(Slug[c])
    <2>1. Slug[c] \in Seq(S) /\ Append(Slug[c], c) \in Seq(S)
      BY PipelineAssumption
    <2>2. PICK base \in Seq(S), first \in {"autospec", "composer"} : Stem(c) = <<first>> \o base
      BY <2>1 DEF Stem, SlugifiedName, FoundryBase
    <2>3. <<first>> \in Seq(S) /\ <<"spec">> \in Seq(S) /\ <<"properties">> \in Seq(S)
      OBVIOUS
    <2> HIDE DEF S
    <2>4. Stem(c) \in Seq(S) /\ Len(Stem(c)) >= 1 /\ Stem(c)[1] = first
      BY <2>2, <2>3
    <2>5. SpecFile(Stem(c))[2] = first /\ PropertiesFile(Stem(c))[1] = "properties"
      BY <2>3, <2>4 DEF SpecFile, PropertiesFile
    <2>6. QED BY <1>1, <2>5
  <1>3. QED BY <1>1, <1>2

-----------------------------------------------------------------------------
(* The invariants' CVL *)

ImportOK(v) == v.imports # {} => Cached(InvCVLKey) /\ v.imports = {CacheGet(InvCVLKey)}

\* What batches import is the one cached CVL of the cached invariants.
CacheOK ==
  /\ \A k \in DOMAIN cache : BatchLike(k) => ImportOK(cache[k])
  /\ Cached(InvCVLKey) => backend = "prover" /\ Cached(InvariantsKey) /\ CacheGet(InvariantsKey) # {}

InvsOK ==
  /\ invs.inv # {} => invs.at = "done" /\ backend = "prover"
  /\ invs.at = "done" => Cached(InvariantsKey) /\ invs.inv = CacheGet(InvariantsKey)
  /\ invs.cvl # {} => Cached(InvCVLKey) /\ invs.cvl = {CacheGet(InvCVLKey)}

Generating == run.pc \in {"generate", "over"}
PhaseOK ==
  /\ run.pc = "invariants" => backend = "prover" /\ invs.inv # {} /\ invs.at = "done"
  /\ invs.cvl # {} => run.pc = "invariants" \/ Generating
  /\ Generating => /\ backend = "prover" => invs.at = "done"
                   /\ invs.inv # {} => invs.cvl # {}
                   /\ \A cvl \in invs.cvl : InvFile \in DOMAIN files /\ files[InvFile] = cvl

GenOK ==
  \A c \in Components :
    /\ gen[c].at # "none" => Generating
    /\ \A v \in gen[c].cvl : ImportOK(v)

ImportInv == Shape /\ CacheOK /\ InvsOK /\ PhaseOK /\ GenOK

LEMMA ImportInit == Init => ImportInv
  <1> SUFFICES ASSUME Init PROVE ImportInv
    OBVIOUS
  <1>1. DOMAIN cache = {}
    BY DEF Init, DurableInit
  <1>2. CacheOK
    BY <1>1 DEF CacheOK, Cached
  <1>3. InvsOK /\ PhaseOK /\ GenOK
    BY DEF Init, InvsOK, PhaseOK, Generating, GenOK, NotGenerated
  <1>4. QED BY <1>2, <1>3, ShapeInit DEF ImportInv

KeepsOwn ==
  /\ \A k \in OwnKeys : (k \in DOMAIN cache' <=> k \in DOMAIN cache) /\ (k \in DOMAIN cache => cache'[k] = cache[k])
  /\ \A k \in DOMAIN cache' : BatchLike(k) => k \in DOMAIN cache /\ cache'[k] = cache[k]
KeepsInvFile == InvFile \in DOMAIN files => InvFile \in DOMAIN files' /\ files'[InvFile] = files[InvFile]

LEMMA PutOther ==
  ASSUME NEW k, OtherKey(k), NEW v, CachePut(k, v) PROVE KeepsOwn
  <1>1. /\ DOMAIN cache' = DOMAIN cache \cup {k}
        /\ \A x \in DOMAIN cache : x # k => cache'[x] = cache[x]
    BY PutFacts
  <1>2. QED BY <1>1 DEF OtherKey, KeepsOwn

LEMMA WriteOther ==
  ASSUME NEW f, NEW v, f # InvFile, WriteText(f, v) PROVE KeepsInvFile
  <1>1. /\ DOMAIN files' = DOMAIN files \cup {f}
        /\ \A x \in DOMAIN files : x # f => files'[x] = files[x]
    BY WriteFacts
  <1>2. QED BY <1>1 DEF KeepsInvFile

\* A step that has nothing to do with invariants or batches.
LEMMA QuietStep ==
  ASSUME ImportInv, Shape', KeepsOwn, KeepsInvFile, UNCHANGED <<backend, gen>>,
         invs'.at = invs.at /\ invs'.inv = invs.inv /\ invs'.cvl = invs.cvl,
         \/ run'.pc = run.pc
         \/ /\ run.pc \notin {"invariants", "generate", "over"}
            /\ run'.pc \notin {"invariants", "generate", "over"}
         \/ run.pc = "generate" /\ run'.pc = "over"
  PROVE  ImportInv'
  <1>1. CacheOK' /\ \A v : ImportOK(v) => ImportOK(v)'
    BY DEF ImportInv, CacheOK, ImportOK, KeepsOwn, OwnKeys, Cached, CacheGet
  <1>2. InvsOK'
    BY DEF ImportInv, InvsOK, KeepsOwn, OwnKeys, Cached, CacheGet
  <1>3. PhaseOK'
    BY DEF ImportInv, PhaseOK, Generating, KeepsInvFile, InvFile, SpecFile, InvStem
  <1>4. GenOK'
    BY <1>1 DEF ImportInv, GenOK, Generating
  <1>5. QED BY <1>1, <1>2, <1>3, <1>4 DEF ImportInv

LEMMA Unchanged ==
  /\ UNCHANGED cache => KeepsOwn
  /\ UNCHANGED files => KeepsInvFile
  BY DEF KeepsOwn, KeepsInvFile

\* Extraction touches the keys of the components' contexts only.
LEMMA ExtractKeeps ==
  ASSUME NEW c \in Components, Extract(c) PROVE KeepsOwn /\ KeepsInvFile
  <1>1. Infer(c)
    BY DEF Extract
  <1>2. /\ UNCHANGED files
        /\ \/ UNCHANGED cache
           \/ \E k \in {BugAnalysisKey(c), AgentResultKey(c), AgentRoundKey(c, comp[c].round)} :
                \E v : CachePut(k, v)
    BY <1>1 DEF Infer, ReuseAnalysis, RunBugRound, EndRounds, SettleProperties, InferenceRaises, durableVars
  <1>3. QED BY <1>2, Unchanged, PutOther, InferenceKeys

LEMMA QuietActions ==
  ASSUME ImportInv, Shape',
         \/ StartRun \/ AnalyseComponents \/ ClassifyContracts \/ GenerateHarnesses \/ ApplyHarnessResult
         \/ WriteHarnesses \/ RunAutoSetupPhase \/ SetupSummaries \/ EndExtraction \/ EndRun \/ EndFoundryRun
         \/ \E n \in InvNames : JudgeInvariant(n)
         \/ \E c \in Components : Extract(c)
  PROVE  ImportInv'
  <1> DEFINE Fine == /\ KeepsOwn /\ KeepsInvFile /\ UNCHANGED <<backend, gen>>
                     /\ invs'.at = invs.at /\ invs'.inv = invs.inv /\ invs'.cvl = invs.cvl
                     /\ \/ run'.pc = run.pc
                        \/ /\ run.pc \notin {"invariants", "generate", "over"}
                           /\ run'.pc \notin {"invariants", "generate", "over"}
                        \/ run.pc = "generate" /\ run'.pc = "over"
  <1> SUFFICES Fine
    BY QuietStep
  <1>0. RunShape /\ InvsShape
    BY DEF ImportInv, Shape
  <1> USE Unchanged
  <1>1. CASE StartRun
    BY <1>0, <1>1 DEF StartRun, streams, durableVars, Generating, RunShape
  <1>2. CASE AnalyseComponents
    <2>1. KeepsOwn /\ KeepsInvFile
      BY <1>2, PutOther, PipelineKeys DEF AnalyseComponents
    <2>2. QED BY <1>0, <1>2, <2>1 DEF AnalyseComponents, Goto, Fail, Generating, RunShape
  <1>3. CASE ClassifyContracts
    <2>1. KeepsOwn /\ KeepsInvFile
      <3>1. UNCHANGED cache \/ \E d : CachePut(Child(SetupKey, "harness-analysis"), d)
        BY <1>3 DEF ClassifyContracts
      <3>2. QED BY <1>3, <3>1, PutOther, PipelineKeys DEF ClassifyContracts
    <2>2. \E pc \in {"harnessed", "harnessing", "described"} : \E d : run' = [run EXCEPT !.desc = {d}, !.pc = pc]
      BY <1>3 DEF ClassifyContracts
    <2>3. QED BY <1>0, <1>3, <2>1, <2>2 DEF ClassifyContracts, streams, Generating, RunShape
  <1>4. CASE GenerateHarnesses
    <2>1. KeepsOwn /\ KeepsInvFile
      BY <1>4, PutOther, PipelineKeys DEF GenerateHarnesses
    <2>2. QED BY <1>0, <1>4, <2>1 DEF GenerateHarnesses, streams, Goto, Fail, Generating, RunShape
  <1>5. CASE ApplyHarnessResult
    <2>1. KeepsOwn /\ KeepsInvFile
      BY <1>5, PutOther, PipelineKeys DEF ApplyHarnessResult
    <2>2. QED BY <1>0, <1>5, <2>1 DEF ApplyHarnessResult, streams, Goto, Generating, RunShape
  <1>6. CASE WriteHarnesses
    <2>1. KeepsOwn /\ KeepsInvFile
      BY <1>6, WriteOther, OtherFiles DEF WriteHarnesses
    <2>2. QED BY <1>0, <1>6, <2>1 DEF WriteHarnesses, Goto, Generating, RunShape
  <1>7. CASE RunAutoSetupPhase
    <2>1. KeepsOwn /\ KeepsInvFile
      <3>1. \/ UNCHANGED durableVars
            \/ \E v : WriteText(<<"summaries">>, v) /\ CachePut(AutoSetupKey, v)
        BY <1>7 DEF RunAutoSetupPhase
      <3>2. QED BY <3>1, PutOther, WriteOther, PipelineKeys, OtherFiles DEF durableVars
    <2>2. QED BY <1>7, <2>1 DEF RunAutoSetupPhase
  <1>8. CASE SetupSummaries
    <2>1. KeepsOwn /\ KeepsInvFile
      <3>1. \/ UNCHANGED durableVars
            \/ \E config : /\ WriteText(<<"custom_summaries">>, config)
                           /\ UNCHANGED cache \/ CachePut(<<"summary", config>>, config)
        BY <1>8 DEF SetupSummaries
      <3>2. QED BY <3>1, PutOther, WriteOther, PipelineKeys, OtherFiles DEF durableVars
    <2>2. QED BY <1>8, <2>1 DEF SetupSummaries
  <1>9. CASE EndExtraction
    <2>1. KeepsInvFile
      <3>1. UNCHANGED files \/ WriteAnalysisProperties(Batches)
        BY <1>9 DEF EndExtraction
      <3>2. \A c \in Batches : InvFile # PropertiesFile(Stem(c))
        BY OtherFiles DEF Batches
      <3>3. QED BY <3>1, <3>2 DEF WriteAnalysisProperties, KeepsInvFile
    <2>2. QED BY <1>9, <2>1 DEF EndExtraction
  <1>10. CASE EndRun
    <2>1. KeepsInvFile
      <3>1. PICK a, b : files' = Extended(files, <<"component_runs">>, a)
                        \/ files' = Extended(Extended(files, <<"component_runs">>, a), <<"report">>, b)
        BY <1>10 DEF EndRun
      <3>2. InvFile \notin {<<"component_runs">>, <<"report">>}
        BY OtherFiles
      <3>3. QED BY <3>1, <3>2 DEF KeepsInvFile, Extended
    <2>2. QED BY <1>0, <1>10, <2>1 DEF EndRun, streams, RunShape
  <1>11. CASE EndFoundryRun
    <2>1. KeepsInvFile
      BY <1>11, WriteOther, OtherFiles DEF EndFoundryRun
    <2>2. QED BY <1>0, <1>11, <2>1 DEF EndFoundryRun, streams, RunShape
  <1>12. ASSUME NEW n \in InvNames, JudgeInvariant(n) PROVE Fine
    <2>1. \E a : invs' = [invs EXCEPT !.accepted = a]
      BY <1>12 DEF JudgeInvariant
    <2>2. QED BY <1>0, <1>12, <2>1 DEF JudgeInvariant, InvsShape, durableVars
  <1>13. ASSUME NEW c \in Components, Extract(c) PROVE Fine
    BY <1>13, ExtractKeeps DEF Extract
  <1>14. QED BY <1>1, <1>2, <1>3, <1>4, <1>5, <1>6, <1>7, <1>8, <1>9, <1>10, <1>11, <1>12, <1>13

\* A killed run leaves the cache and the files behind.
LEMMA ImportQuit ==
  ASSUME ImportInv, Shape', Quit PROVE ImportInv'
  <1>1. run'.pc = "idle"
    BY DEF ImportInv, Shape, RunShape, Quit
  <1>2. UNCHANGED <<backend, cache>>
    BY DEF Quit, durableVars
  <1>3. invs' = [at |-> "start", accepted |-> {}, inv |-> {}, cvl |-> {}]
        /\ gen' = [c \in Components |-> NotGenerated]
    BY DEF Quit, Fresh
  <1>4. CacheOK'
    BY <1>2 DEF ImportInv, CacheOK, ImportOK, Cached, CacheGet
  <1>5. InvsOK' /\ PhaseOK' /\ GenOK'
    BY <1>1, <1>3 DEF InvsOK, PhaseOK, Generating, GenOK, NotGenerated
  <1>6. QED BY <1>4, <1>5 DEF ImportInv

LEMMA ImportRemove ==
  ASSUME ImportInv, Shape', RemoveOutputs PROVE ImportInv'
  <1>1. UNCHANGED <<backend, run, invs, gen, cache>> /\ run.pc = "idle"
    BY DEF RemoveOutputs, streams
  <1>2. CacheOK' /\ InvsOK' /\ GenOK'
    BY <1>1 DEF ImportInv, CacheOK, InvsOK, GenOK, Generating, ImportOK, Cached, CacheGet
  <1>3. PhaseOK'
    BY <1>1 DEF ImportInv, PhaseOK, Generating
  <1>4. QED BY <1>2, <1>3 DEF ImportInv

\* The invariants are settled by the first run that delivers them.
LEMMA ImportReuse ==
  ASSUME ImportInv, Shape', ReuseInvariants PROVE ImportInv'
  <1>1. /\ UNCHANGED <<backend, run, gen, cache, files>> /\ Cached(InvariantsKey)
        /\ invs' = [invs EXCEPT !.at = "done", !.inv = CacheGet(InvariantsKey)]
        /\ run.pc \in {"streams", "failed"} /\ backend = "prover"
    BY DEF ReuseInvariants, durableVars, InStreams
  <1>2. invs'.at = "done" /\ invs'.inv = CacheGet(InvariantsKey) /\ invs'.cvl = invs.cvl
    BY <1>1 DEF ImportInv, Shape, InvsShape
  <1>3. CacheOK' /\ GenOK'
    BY <1>1 DEF ImportInv, CacheOK, GenOK, Generating, ImportOK, Cached, CacheGet
  <1>4. InvsOK'
    BY <1>1, <1>2 DEF ImportInv, InvsOK, Cached, CacheGet
  <1>5. PhaseOK'
    BY <1>1, <1>2 DEF ImportInv, PhaseOK, Generating
  <1>6. QED BY <1>3, <1>4, <1>5 DEF ImportInv

LEMMA ImportDeliver ==
  ASSUME ImportInv, Shape', DeliverInvariants PROVE ImportInv'
  <1>1. /\ UNCHANGED <<backend, run, gen, files>> /\ ~Cached(InvariantsKey) /\ invs.at = "start"
        /\ run.pc \in {"streams", "failed"} /\ backend = "prover"
    BY DEF DeliverInvariants, InStreams
  <1>2. ~Cached(InvCVLKey) /\ invs.inv = {} /\ invs.cvl = {}
    BY <1>1 DEF ImportInv, CacheOK, InvsOK
  <1>3. CASE \E inv \in SUBSET invs.accepted :
               /\ CachePut(InvariantsKey, inv)
               /\ invs' = [invs EXCEPT !.at = "done", !.inv = inv, !.accepted = {}]
    <2>1. PICK inv : /\ CachePut(InvariantsKey, inv)
                     /\ invs' = [invs EXCEPT !.at = "done", !.inv = inv, !.accepted = {}]
      BY <1>3
    <2>2. invs'.at = "done" /\ invs'.inv = inv /\ invs'.cvl = invs.cvl
      BY <2>1 DEF ImportInv, Shape, InvsShape
    <2>3. /\ DOMAIN cache' = DOMAIN cache \cup {InvariantsKey} /\ cache'[InvariantsKey] = inv
          /\ \A x \in DOMAIN cache : x # InvariantsKey => cache'[x] = cache[x]
      BY <2>1, PutFacts
    <2>4. ~Cached(InvCVLKey)'
      BY <1>2, <2>3, PipelineKeys DEF Cached
    <2>5. \A v : ImportOK(v) => ImportOK(v)'
      BY <1>2 DEF ImportOK
    <2>6. CacheOK'
      BY <2>3, <2>4, <2>5, PipelineKeys DEF ImportInv, CacheOK
    <2>7. InvsOK'
      BY <1>1, <1>2, <2>2, <2>3 DEF InvsOK, Cached, CacheGet
    <2>8. GenOK' /\ PhaseOK'
      BY <1>1, <1>2, <2>2, <2>5 DEF ImportInv, GenOK, PhaseOK, Generating
    <2>9. QED BY <2>6, <2>7, <2>8 DEF ImportInv
  <1>4. CASE invs' = [invs EXCEPT !.at = "raised", !.accepted = {}] /\ UNCHANGED cache
    <2>1. invs'.at = "raised" /\ invs'.inv = {} /\ invs'.cvl = {}
      BY <1>2, <1>4 DEF ImportInv, Shape, InvsShape
    <2>2. CacheOK' /\ GenOK' /\ PhaseOK'
      BY <1>1, <1>4, <2>1 DEF ImportInv, CacheOK, GenOK, PhaseOK, Generating, ImportOK, Cached, CacheGet
    <2>3. InvsOK'
      BY <2>1 DEF InvsOK
    <2>4. QED BY <2>2, <2>3 DEF ImportInv
  <1>5. QED BY <1>3, <1>4 DEF DeliverInvariants

LEMMA ImportJoin ==
  ASSUME ImportInv, Shape', JoinStreams PROVE ImportInv'
  <1>1. /\ UNCHANGED <<backend, invs, gen, cache, files>> /\ run.pc = "streams"
        /\ \/ run' = [run EXCEPT !.pc = "failed"]
           \/ /\ backend = "prover" => invs.at = "done"
              /\ run' = [run EXCEPT !.pc = IF backend = "prover" /\ invs.inv # {} THEN "invariants" ELSE "generate"]
    BY DEF JoinStreams, streams, durableVars, Fail, Goto
  <1>2. \/ run'.pc = "failed"
        \/ /\ backend = "prover" => invs.at = "done"
           /\ run'.pc = IF backend = "prover" /\ invs.inv # {} THEN "invariants" ELSE "generate"
    BY <1>1 DEF ImportInv, Shape, RunShape
  <1>3. CacheOK' /\ InvsOK'
    BY <1>1 DEF ImportInv, CacheOK, InvsOK, ImportOK, Cached, CacheGet
  <1>4. GenOK'
    BY <1>1 DEF ImportInv, GenOK, Generating, ImportOK, Cached, CacheGet
  <1>5. invs.cvl = {}
    BY <1>1 DEF ImportInv, PhaseOK, Generating
  <1>6. PhaseOK'
    BY <1>1, <1>2, <1>5 DEF ImportInv, InvsOK, PhaseOK, Generating
  <1>7. QED BY <1>3, <1>4, <1>6 DEF ImportInv

\* A cached CVL is of the cached invariants; a new one is of the run's, which are
\* the cached ones too.
LEMMA ImportInvariantsCVL ==
  ASSUME ImportInv, Shape', GenerateInvariants PROVE ImportInv'
  <1>1. /\ UNCHANGED <<backend, gen>> /\ run.pc = "invariants" /\ invs.cvl = {}
        /\ \E v : WriteText(PropertiesFile(InvStem), v)
    BY DEF GenerateInvariants
  <1>2. KeepsInvFile
    BY <1>1, WriteOther, OtherFiles
  <1>3. backend = "prover" /\ invs.inv # {} /\ invs.at = "done" /\ Cached(InvariantsKey) /\ invs.inv = CacheGet(InvariantsKey)
    BY <1>1 DEF ImportInv, PhaseOK, InvsOK
  <1>4. CASE Fail /\ UNCHANGED <<invs, cache>>
    <2>1. run'.pc = "failed"
      BY <1>4 DEF Fail, Goto, ImportInv, Shape, RunShape
    <2>2. CacheOK' /\ InvsOK'
      BY <1>1, <1>4 DEF ImportInv, CacheOK, InvsOK, ImportOK, Cached, CacheGet
    <2>3. GenOK' /\ PhaseOK'
      BY <1>1, <1>4, <2>1 DEF ImportInv, GenOK, PhaseOK, Generating, ImportOK, Cached, CacheGet
    <2>4. QED BY <2>2, <2>3 DEF ImportInv
  <1>5. CASE Cached(InvCVLKey) /\ invs' = [invs EXCEPT !.cvl = {CacheGet(InvCVLKey)}] /\ UNCHANGED <<run, cache>>
    <2>1. invs'.at = invs.at /\ invs'.inv = invs.inv /\ invs'.cvl = {CacheGet(InvCVLKey)}
      BY <1>5 DEF ImportInv, Shape, InvsShape
    <2>2. CacheOK' /\ InvsOK'
      BY <1>1, <1>5, <2>1 DEF ImportInv, CacheOK, InvsOK, ImportOK, Cached, CacheGet
    <2>3. GenOK' /\ PhaseOK'
      BY <1>1, <1>3, <1>5, <2>1 DEF ImportInv, GenOK, PhaseOK, Generating, ImportOK, Cached, CacheGet
    <2>4. QED BY <2>2, <2>3 DEF ImportInv
  <1>6. ASSUME NEW cvl, ~Cached(InvCVLKey), invs' = [invs EXCEPT !.cvl = {cvl}], CachePut(InvCVLKey, cvl), UNCHANGED run
        PROVE  ImportInv'
    <2>1. invs'.at = invs.at /\ invs'.inv = invs.inv /\ invs'.cvl = {cvl}
      BY <1>6 DEF ImportInv, Shape, InvsShape
    <2>2. /\ DOMAIN cache' = DOMAIN cache \cup {InvCVLKey} /\ cache'[InvCVLKey] = cvl
          /\ \A x \in DOMAIN cache : x # InvCVLKey => cache'[x] = cache[x]
      BY <1>6, PutFacts
    <2>3. Cached(InvariantsKey)' /\ CacheGet(InvariantsKey)' = CacheGet(InvariantsKey)
          /\ Cached(InvCVLKey)' /\ CacheGet(InvCVLKey)' = cvl
      BY <1>3, <2>2, PipelineKeys DEF Cached, CacheGet
    <2>4. \A v : ImportOK(v) => ImportOK(v)'
      BY <1>6 DEF ImportOK
    <2>5. CacheOK'
      BY <1>1, <1>3, <2>2, <2>3, <2>4, PipelineKeys DEF ImportInv, CacheOK
    <2>6. InvsOK'
      BY <1>1, <1>3, <2>1, <2>3 DEF InvsOK
    <2>7. GenOK' /\ PhaseOK'
      BY <1>1, <1>3, <1>6, <2>1, <2>4 DEF ImportInv, GenOK, PhaseOK, Generating
    <2>8. QED BY <2>5, <2>6, <2>7 DEF ImportInv
  <1>7. QED BY <1>4, <1>5, <1>6 DEF GenerateInvariants

LEMMA ImportWriteInvariants ==
  ASSUME ImportInv, Shape', WriteInvariants PROVE ImportInv'
  <1>1. PICK cvl \in invs.cvl : WriteText(InvFile, cvl)
    BY DEF WriteInvariants, InvFile
  <1>2. UNCHANGED <<backend, invs, gen, cache>> /\ run.pc = "invariants" /\ run'.pc = "generate"
    BY DEF WriteInvariants, streams, Goto, ImportInv, Shape, RunShape
  <1>3. InvFile \in DOMAIN files' /\ files'[InvFile] = cvl
    BY <1>1, WriteFacts
  <1>4. CacheOK' /\ InvsOK'
    BY <1>2 DEF ImportInv, CacheOK, InvsOK, ImportOK, Cached, CacheGet
  <1>5. GenOK'
    BY <1>2 DEF ImportInv, GenOK, Generating, ImportOK, Cached, CacheGet
  <1>6. invs.cvl = {cvl} /\ invs.at = "done"
    BY <1>1, <1>2 DEF ImportInv, InvsOK, PhaseOK
  <1>7. PhaseOK'
    <2>1. InvFile' = InvFile
      BY DEF InvFile, SpecFile, InvStem
    <2>2. QED BY <1>2, <1>3, <1>6, <2>1 DEF PhaseOK, Generating
  <1>8. QED BY <1>4, <1>5, <1>7 DEF ImportInv

\* A batch takes what is cached under its key, or imports the run's CVL.
LEMMA ImportBatch ==
  ASSUME ImportInv, Shape', NEW c \in Components, GenerateBatch(c) \/ EndBatch(c) \/ WriteBatch(c)
  PROVE  ImportInv'
  <1>0. GenShape
    BY DEF ImportInv, Shape
  <1>1. UNCHANGED <<backend, run, invs>> /\ (\A d \in Components \ {c} : gen'[d] = gen[d]) /\ Generating
    BY <1>0 DEF GenerateBatch, EndBatch, WriteBatch, streams, GenShape, ImportInv, GenOK, Generating
  <1>2. KeepsInvFile
    BY WriteOther, OtherFiles, Unchanged DEF GenerateBatch, EndBatch, WriteBatch, durableVars
  <1>3. /\ \A k \in OwnKeys : (k \in DOMAIN cache' <=> k \in DOMAIN cache) /\ (k \in DOMAIN cache => cache'[k] = cache[k])
        /\ \/ UNCHANGED cache
           \/ /\ DOMAIN cache' = DOMAIN cache \cup {BatchKey(c)} /\ cache'[BatchKey(c)] = GeneratedCVL(c)
              /\ \A x \in DOMAIN cache : x # BatchKey(c) => cache'[x] = cache[x]
    <2>1. UNCHANGED cache \/ CachePut(BatchKey(c), GeneratedCVL(c))
      BY DEF GenerateBatch, EndBatch, WriteBatch, durableVars
    <2>2. BatchKey(c) \notin OwnKeys
      BY BatchKeys
    <2>3. CASE UNCHANGED cache
      BY <2>3
    <2>4. CASE CachePut(BatchKey(c), GeneratedCVL(c))
      BY <2>2, <2>4, PutFacts
    <2>5. QED BY <2>1, <2>3, <2>4
  <1>4. /\ Cached(InvCVLKey)' = Cached(InvCVLKey) /\ (Cached(InvCVLKey) => CacheGet(InvCVLKey)' = CacheGet(InvCVLKey))
        /\ Cached(InvariantsKey)' = Cached(InvariantsKey)
        /\ Cached(InvariantsKey) => CacheGet(InvariantsKey)' = CacheGet(InvariantsKey)
    BY <1>3 DEF OwnKeys, Cached, CacheGet
  <1>5. \A v : ImportOK(v) => ImportOK(v)'
    BY <1>4 DEF ImportOK
  <1>6. ImportOK(GeneratedCVL(c))
    BY DEF ImportInv, InvsOK, ImportOK, GeneratedCVL
  <1>7. CacheOK'
    BY <1>1, <1>3, <1>4, <1>5, <1>6 DEF ImportInv, CacheOK
  <1>8. InvsOK'
    BY <1>1, <1>4 DEF ImportInv, InvsOK
  <1>9. PhaseOK'
    BY <1>1, <1>2 DEF ImportInv, PhaseOK, Generating, KeepsInvFile, InvFile, SpecFile, InvStem
  <1>10. \A v \in gen'[c].cvl : ImportOK(v)
    <2>1. CASE GenerateBatch(c) /\ Cached(BatchKey(c))
      <3>1. gen'[c].cvl = {CacheGet(BatchKey(c))}
        BY <1>0, <2>1 DEF GenerateBatch, GenShape
      <3>2. QED BY <2>1, <3>1, BatchKeys DEF ImportInv, CacheOK, Cached, CacheGet
    <2>2. CASE GenerateBatch(c) /\ ~Cached(BatchKey(c))
      <3>1. gen'[c].cvl = gen[c].cvl
        BY <1>0, <2>2 DEF GenerateBatch, GenShape, Generation
      <3>2. QED BY <3>1 DEF ImportInv, GenOK
    <2>3. CASE EndBatch(c)
      <3>1. gen'[c].cvl \in {gen[c].cvl, {GeneratedCVL(c)}}
        BY <1>0, <2>3 DEF EndBatch, GenShape, Generation
      <3>2. QED BY <1>6, <3>1 DEF ImportInv, GenOK
    <2>4. CASE WriteBatch(c)
      <3>1. gen'[c].cvl = gen[c].cvl
        BY <1>0, <2>4 DEF WriteBatch, GenShape, Generation
      <3>2. QED BY <3>1 DEF ImportInv, GenOK
    <2>5. QED BY <2>1, <2>2, <2>3, <2>4
  <1>11. GenOK'
    BY <1>1, <1>5, <1>10 DEF ImportInv, GenOK, Generating
  <1>12. QED BY <1>7, <1>8, <1>9, <1>11 DEF ImportInv

LEMMA ImportNext == ImportInv /\ [Next]_vars => ImportInv'
  <1> SUFFICES ASSUME ImportInv, [Next]_vars PROVE ImportInv'
    OBVIOUS
  <1>1. Shape'
    BY ShapeNext DEF ImportInv
  <1>2. CASE UNCHANGED vars
    <2>1. UNCHANGED <<backend, run, invs, gen, cache, files>>
      BY <1>2 DEF vars, streams, durableVars
    <2>2. QED BY <1>1, <2>1, QuietStep, Unchanged
  <1>3. CASE Next
    BY <1>1, <1>3, QuietActions, ImportQuit, ImportRemove, ImportReuse, ImportDeliver, ImportJoin,
       ImportInvariantsCVL, ImportWriteInvariants, ImportBatch DEF Next
  <1>4. QED BY <1>2, <1>3

\* The pipelines reuse cached invariants, cached CVL and cached batches of
\* earlier runs, each found under a key of its own (pipeline.py,
\* common_pipeline.py); every delivered spec nevertheless imports exactly the
\* invariants.spec that lies beside it.
THEOREM ImportsAreDelivered == Spec => []ImportsDelivered
  <1>1. ImportInv => ImportsDelivered
    <2>1. SUFFICES ASSUME ImportInv, NEW c \in Components, gen[c].at = "written",
                          NEW cvl \in gen[c].cvl, NEW inv \in cvl.imports
                   PROVE  InvFile \in DOMAIN files /\ files[InvFile] = inv
      BY DEF ImportsDelivered, InvFile
    <2>2. Generating /\ ImportOK(cvl)
      BY <2>1 DEF ImportInv, GenOK
    <2>3. Cached(InvCVLKey) /\ inv = CacheGet(InvCVLKey)
      BY <2>1, <2>2 DEF ImportOK
    <2>4. backend = "prover" /\ CacheGet(InvariantsKey) # {}
      BY <2>1, <2>3 DEF ImportInv, CacheOK
    <2>5. invs.inv # {}
      BY <2>1, <2>2, <2>4 DEF ImportInv, PhaseOK, InvsOK
    <2>6. invs.cvl = {inv}
      BY <2>1, <2>2, <2>3, <2>5 DEF ImportInv, PhaseOK, InvsOK
    <2>7. QED BY <2>1, <2>2, <2>6 DEF ImportInv, PhaseOK
  <1>2. QED BY <1>1, ImportInit, ImportNext, PTL DEF Spec

-----------------------------------------------------------------------------
(* Lists of titles *)

List(l) == l \in Seq(TitlesOf(l))
Good(l) == List(l) /\ Distinct(l)

LEMMA DistinctIff ==
  ASSUME NEW l, List(l)
  PROVE  Distinct(l) <=> \A i, j \in 1..Len(l) : l[i] = l[j] => i = j
  <1>1. Len(l) \in Nat /\ DOMAIN l = 1..Len(l) /\ l \in [1..Len(l) -> TitlesOf(l)]
    BY DEF List
  <1>2. l \in Surjection(1..Len(l), TitlesOf(l))
    BY <1>1 DEF Surjection, TitlesOf
  <1>3. IsFiniteSet(1..Len(l)) /\ Cardinality(1..Len(l)) = Len(l)
    <2>1. 1 \in Int /\ Len(l) \in Int
      BY <1>1
    <2>2. /\ IsFiniteSet(1..Len(l))
          /\ Cardinality(1..Len(l)) = IF 1 > Len(l) THEN 0 ELSE Len(l) - 1 + 1
      BY <2>1, FS_Interval
    <2>3. QED BY <1>1, <2>2
  <1>4. Cardinality(TitlesOf(l)) = Cardinality(1..Len(l)) <=> l \in Injection(1..Len(l), TitlesOf(l))
    BY <1>2, <1>3, FS_Surjection
  <1>5. l \in Injection(1..Len(l), TitlesOf(l)) <=> \A i, j \in 1..Len(l) : l[i] = l[j] => i = j
    BY <1>1 DEF Injection, IsInjective
  <1>6. QED BY <1>3, <1>4, <1>5 DEF Distinct

LEMMA JoinLists ==
  ASSUME NEW s, List(s), NEW t, List(t)
  PROVE  /\ List(s \o t) /\ TitlesOf(s \o t) = TitlesOf(s) \cup TitlesOf(t)
         /\ Len(s) \in Nat /\ Len(t) \in Nat /\ Len(s \o t) = Len(s) + Len(t)
         /\ \A i \in 1..Len(s) : (s \o t)[i] = s[i]
         /\ \A i \in 1..Len(t) : (s \o t)[Len(s) + i] = t[i]
         /\ \A i \in (Len(s) + 1)..(Len(s) + Len(t)) : i - Len(s) \in 1..Len(t) /\ (s \o t)[i] = t[i - Len(s)]
  <1> DEFINE S == TitlesOf(s) \cup TitlesOf(t)
             st == s \o t
  <1>1. s \in Seq(S) /\ t \in Seq(S)
    <2>1. s \in Seq(TitlesOf(s)) /\ t \in Seq(TitlesOf(t))
      BY DEF List
    <2>2. \A i \in 1..Len(s) : s[i] \in S
      BY <2>1
    <2>3. \A i \in 1..Len(t) : t[i] \in S
      BY <2>1
    <2> HIDE DEF S
    <2>4. QED BY <2>1, <2>2, <2>3
  <1>2. /\ st \in Seq(S) /\ Len(s) \in Nat /\ Len(t) \in Nat /\ Len(st) = Len(s) + Len(t)
        /\ \A i \in 1..(Len(s) + Len(t)) : st[i] = IF i <= Len(s) THEN s[i] ELSE t[i - Len(s)]
    BY <1>1, ConcatProperties
  <1>3. \A i \in 1..Len(s) : st[i] = s[i]
    BY <1>2
  <1>4. \A i \in (Len(s) + 1)..(Len(s) + Len(t)) : i - Len(s) \in 1..Len(t) /\ st[i] = t[i - Len(s)]
    BY <1>2
  <1>5. \A i \in 1..Len(t) : st[Len(s) + i] = t[i]
    <2>1. SUFFICES ASSUME NEW i \in 1..Len(t) PROVE st[Len(s) + i] = t[i]
      OBVIOUS
    <2>2. Len(s) + i \in (Len(s) + 1)..(Len(s) + Len(t)) /\ (Len(s) + i) - Len(s) = i
      BY <1>2
    <2>3. QED BY <1>4, <2>2
  <1> HIDE DEF st
  <1>6. DOMAIN st = 1..(Len(s) + Len(t)) /\ DOMAIN s = 1..Len(s) /\ DOMAIN t = 1..Len(t)
    BY <1>1, <1>2
  <1>7. TitlesOf(st) = S
    <2>1. ASSUME NEW x \in TitlesOf(st) PROVE x \in S
      BY <1>2, <1>6, <2>1 DEF TitlesOf
    <2>2. ASSUME NEW x \in TitlesOf(s) PROVE x \in TitlesOf(st)
      <3>1. PICK i \in 1..Len(s) : x = s[i]
        BY <1>6 DEF TitlesOf
      <3>2. i \in DOMAIN st
        BY <1>2, <1>6
      <3>3. QED BY <1>3, <3>1, <3>2 DEF TitlesOf
    <2>3. ASSUME NEW x \in TitlesOf(t) PROVE x \in TitlesOf(st)
      <3>1. PICK i \in 1..Len(t) : x = t[i]
        BY <1>6 DEF TitlesOf
      <3>2. Len(s) + i \in DOMAIN st
        BY <1>2, <1>6
      <3>3. QED BY <1>5, <3>1, <3>2 DEF TitlesOf
    <2>4. QED BY <2>1, <2>2, <2>3
  <1>8. QED BY <1>2, <1>3, <1>4, <1>5, <1>7 DEF List, st

LEMMA JoinGood ==
  ASSUME NEW s, Good(s), NEW t, Good(t), TitlesOf(s) \cap TitlesOf(t) = {}
  PROVE  Good(s \o t)
  <1> DEFINE st == s \o t
  <1>1. List(s) /\ List(t)
    BY DEF Good
  <1>2. /\ List(st) /\ Len(s) \in Nat /\ Len(t) \in Nat /\ Len(st) = Len(s) + Len(t)
        /\ \A i \in 1..Len(s) : st[i] = s[i]
        /\ \A i \in (Len(s) + 1)..(Len(s) + Len(t)) : i - Len(s) \in 1..Len(t) /\ st[i] = t[i - Len(s)]
    BY <1>1, JoinLists
  <1>3. (\A i, j \in 1..Len(s) : s[i] = s[j] => i = j) /\ (\A i, j \in 1..Len(t) : t[i] = t[j] => i = j)
    BY <1>1, DistinctIff DEF Good
  <1>4. \A i \in 1..Len(s), j \in 1..Len(t) : s[i] # t[j]
    <2>1. \A i \in 1..Len(s) : s[i] \in TitlesOf(s)
      BY <1>1 DEF List
    <2>2. \A j \in 1..Len(t) : t[j] \in TitlesOf(t)
      BY <1>1 DEF List
    <2>3. QED BY <2>1, <2>2
  <1> HIDE DEF st
  <1>5. ASSUME NEW i \in 1..Len(st), NEW j \in 1..Len(st), st[i] = st[j] PROVE i = j
    <2>1. i \in 1..Len(s) \/ i \in (Len(s) + 1)..(Len(s) + Len(t))
      BY <1>2
    <2>2. j \in 1..Len(s) \/ j \in (Len(s) + 1)..(Len(s) + Len(t))
      BY <1>2
    <2>3. CASE i \in 1..Len(s) /\ j \in 1..Len(s)
      BY <1>2, <1>3, <1>5, <2>3
    <2>4. CASE i \notin 1..Len(s) /\ j \notin 1..Len(s)
      <3>1. i - Len(s) = j - Len(s)
        BY <1>2, <1>3, <1>5, <2>1, <2>2, <2>4
      <3>2. QED BY <1>2, <3>1
    <2>5. CASE i \in 1..Len(s) /\ j \notin 1..Len(s)
      BY <1>2, <1>4, <1>5, <2>2, <2>5
    <2>6. CASE i \notin 1..Len(s) /\ j \in 1..Len(s)
      BY <1>2, <1>4, <1>5, <2>1, <2>6
    <2>7. QED BY <2>3, <2>4, <2>5, <2>6
  <1>6. Distinct(st)
    BY <1>2, <1>5, DistinctIff
  <1>7. QED BY <1>2, <1>6 DEF Good, st

LEMMA EmptyGood == Good(<<>>) /\ TitlesOf(<<>>) = {}
  <1>1. List(<<>>) /\ TitlesOf(<<>>) = {} /\ Len(<<>>) = 0
    BY DEF List, TitlesOf
  <1>2. QED BY <1>1, DistinctIff DEF Good

-----------------------------------------------------------------------------
(* What the rounds of extraction have cached *)

Kinds == {"bug_analysis", "bug_analysis|refine"}
Kind == IF interactive THEN "bug_analysis|refine" ELSE "bug_analysis"
AnalysisKey(c, kind) == <<"properties", c, kind>>
ResultKey(c, kind) == <<"properties", c, kind, "agent">>
RoundKey(c, kind, i) == <<"properties", c, kind, "agent", i>>

LEMMA OwnKeyForms ==
  ASSUME NEW c, NEW i
  PROVE  /\ Kind \in Kinds /\ BugAnalysisKey(c) = AnalysisKey(c, Kind)
         /\ AgentResultKey(c) = ResultKey(c, Kind) /\ AgentRoundKey(c, i) = RoundKey(c, Kind, i)
  <1> DEFINE kind == Kind
  <1>1. BugAnalysisKey(c) = <<"properties", c, kind>>
    BY AppendTwo DEF BugAnalysisKey, Child, Kind
  <1> HIDE DEF kind
  <1>2. AgentResultKey(c) = <<"properties", c, kind, "agent">>
    BY <1>1, AppendThree DEF AgentResultKey, Child
  <1>3. AgentRoundKey(c, i) = <<"properties", c, kind, "agent", i>>
    BY <1>2, AppendFour DEF AgentRoundKey, Child
  <1>4. Kind \in Kinds
    BY DEF Kind, Kinds
  <1>5. QED BY <1>1, <1>2, <1>3, <1>4 DEF AnalysisKey, ResultKey, RoundKey, kind

\* The keys differ, by their lengths or in a place.
LEMMA KeysApart ==
  ASSUME NEW c, NEW d, NEW k, NEW m
  PROVE  /\ AnalysisKey(c, k) = AnalysisKey(d, m) => c = d /\ k = m
         /\ ResultKey(c, k) = ResultKey(d, m) => c = d /\ k = m
         /\ AnalysisKey(c, k) # ResultKey(d, m)
  <1>1. /\ Len(AnalysisKey(c, k)) = 3 /\ AnalysisKey(c, k)[2] = c /\ AnalysisKey(c, k)[3] = k
        /\ Len(ResultKey(c, k)) = 4 /\ ResultKey(c, k)[2] = c /\ ResultKey(c, k)[3] = k
    BY DEF AnalysisKey, ResultKey
  <1>2. /\ Len(AnalysisKey(d, m)) = 3 /\ AnalysisKey(d, m)[2] = d /\ AnalysisKey(d, m)[3] = m
        /\ Len(ResultKey(d, m)) = 4 /\ ResultKey(d, m)[2] = d /\ ResultKey(d, m)[3] = m
    BY DEF AnalysisKey, ResultKey
  <1>3. QED BY <1>1, <1>2

LEMMA RoundKeyApart ==
  ASSUME NEW c, NEW d, NEW k, NEW m, NEW i, NEW j, RoundKey(c, k, i) = RoundKey(d, m, j)
  PROVE  c = d /\ k = m /\ i = j
  BY DEF RoundKey

LEMMA NoRoundKey ==
  ASSUME NEW c, NEW d, NEW k, NEW m, NEW i
  PROVE  AnalysisKey(c, k) # RoundKey(d, m, i) /\ ResultKey(c, k) # RoundKey(d, m, i)
  <1>1. Len(AnalysisKey(c, k)) = 3 /\ Len(ResultKey(c, k)) = 4 /\ Len(RoundKey(d, m, i)) = 5
    BY DEF AnalysisKey, ResultKey, RoundKey
  <1>2. QED BY <1>1

InferenceLike(k) == k[1] = "properties" /\ Len(k) \in {3, 4, 5} /\ k[3] \in Kinds

LEMMA LikeForms ==
  ASSUME NEW c, NEW k \in Kinds
  PROVE  /\ InferenceLike(AnalysisKey(c, k)) /\ InferenceLike(ResultKey(c, k))
         /\ \A i : InferenceLike(RoundKey(c, k, i))
  BY DEF InferenceLike, AnalysisKey, ResultKey, RoundKey

LEMMA UnlikeKeys ==
  /\ ~InferenceLike(SourceAnalysisKey) /\ ~InferenceLike(SetupKey) /\ ~InferenceLike(AutoSetupKey)
  /\ ~InferenceLike(Child(SetupKey, "harness-analysis")) /\ ~InferenceLike(Child(SetupKey, "harnesses"))
  /\ \A config : ~InferenceLike(<<"summary", config>>)
  /\ ~InferenceLike(InvariantsKey) /\ ~InferenceLike(InvCVLKey)
  /\ \A c : ~InferenceLike(BatchKey(c))
  BY DEF InferenceLike, InvariantsKey, InvCVLKey, SourceAnalysisKey, SetupKey, AutoSetupKey, Child, BatchKey, Kinds

\* Every cached round is of distinct titles that no earlier round has, and all
\* the earlier ones are cached.
RoundsOK ==
  \A c \in Components, kind \in Kinds, i \in Nat : Cached(RoundKey(c, kind, i)) =>
    /\ Good(CacheGet(RoundKey(c, kind, i)))
    /\ \A j \in 0..(i - 1) :
         /\ Cached(RoundKey(c, kind, j))
         /\ TitlesOf(CacheGet(RoundKey(c, kind, j))) \cap TitlesOf(CacheGet(RoundKey(c, kind, i))) = {}

ResultsOK ==
  \A c \in Components :
    /\ \A kind \in Kinds : Cached(ResultKey(c, kind)) => Good(CacheGet(ResultKey(c, kind)))
    /\ Cached(AnalysisKey(c, "bug_analysis")) => Good(CacheGet(AnalysisKey(c, "bug_analysis")))

\* What a component has so far is what its rounds have cached.
SoFar(c) ==
  /\ \A j \in 0..(comp[c].round - 1) :
       Cached(RoundKey(c, Kind, j)) /\ TitlesOf(CacheGet(RoundKey(c, Kind, j))) \subseteq TitlesOf(comp[c].prev)
  /\ \A x \in TitlesOf(comp[c].prev) : \E j \in 0..(comp[c].round - 1) : x \in TitlesOf(CacheGet(RoundKey(c, Kind, j)))

CompOK(c) ==
  /\ run.pc = "idle" => comp[c] = NotStarted
  /\ comp[c].round \in Nat /\ Good(comp[c].prev)
  /\ comp[c].at \in {"idle", "rounds"} => SoFar(c)
  /\ comp[c].at = "done" /\ ~interactive => Good(comp[c].props)

TitleInv == Shape /\ RoundsOK /\ ResultsOK /\ \A c \in Components : CompOK(c)

LEMMA NotStartedOK ==
  ASSUME NEW c \in Components, comp[c] = NotStarted PROVE CompOK(c)
  <1>1. comp[c].round = 0 /\ comp[c].prev = <<>> /\ comp[c].at = "idle"
    BY DEF NotStarted
  <1>2. 0..(comp[c].round - 1) = {}
    BY <1>1
  <1>3. SoFar(c)
    BY <1>1, <1>2, EmptyGood DEF SoFar
  <1>4. QED BY <1>1, <1>3, EmptyGood DEF CompOK

LEMMA TitleInit == Init => TitleInv
  <1> SUFFICES ASSUME Init PROVE TitleInv
    OBVIOUS
  <1>1. DOMAIN cache = {}
    BY DEF Init, DurableInit
  <1>2. RoundsOK /\ ResultsOK
    BY <1>1 DEF RoundsOK, ResultsOK, Cached
  <1>3. \A c \in Components : CompOK(c)
    BY NotStartedOK DEF Init
  <1>4. QED BY <1>2, <1>3, ShapeInit DEF TitleInv

KeepsLists ==
  \A k : InferenceLike(k) =>
    (k \in DOMAIN cache' <=> k \in DOMAIN cache) /\ (k \in DOMAIN cache => cache'[k] = cache[k])

LEMMA PutUnlike ==
  ASSUME NEW k, ~InferenceLike(k), NEW v, CachePut(k, v) PROVE KeepsLists
  <1>1. /\ DOMAIN cache' = DOMAIN cache \cup {k}
        /\ \A x \in DOMAIN cache : x # k => cache'[x] = cache[x]
    BY PutFacts
  <1>2. QED BY <1>1 DEF KeepsLists

LEMMA ListsKept ==
  ASSUME KeepsLists, RoundsOK, ResultsOK
  PROVE  /\ RoundsOK' /\ ResultsOK'
         /\ \A c \in Components : comp'[c] = comp[c] /\ interactive' = interactive /\ SoFar(c) => SoFar(c)'
  <1>1. ASSUME NEW c, NEW kind \in Kinds
        PROVE  /\ Cached(AnalysisKey(c, kind))' = Cached(AnalysisKey(c, kind))
               /\ Cached(AnalysisKey(c, kind)) => CacheGet(AnalysisKey(c, kind))' = CacheGet(AnalysisKey(c, kind))
               /\ Cached(ResultKey(c, kind))' = Cached(ResultKey(c, kind))
               /\ Cached(ResultKey(c, kind)) => CacheGet(ResultKey(c, kind))' = CacheGet(ResultKey(c, kind))
               /\ \A i : /\ Cached(RoundKey(c, kind, i))' = Cached(RoundKey(c, kind, i))
                         /\ Cached(RoundKey(c, kind, i)) =>
                              CacheGet(RoundKey(c, kind, i))' = CacheGet(RoundKey(c, kind, i))
    BY LikeForms DEF KeepsLists, Cached, CacheGet
  <1>2. RoundsOK'
    <2>1. SUFFICES ASSUME NEW c \in Components, NEW kind \in Kinds, NEW i \in Nat, Cached(RoundKey(c, kind, i))'
                   PROVE  /\ Good(CacheGet(RoundKey(c, kind, i))')
                          /\ \A j \in 0..(i - 1) :
                               /\ Cached(RoundKey(c, kind, j))'
                               /\ TitlesOf(CacheGet(RoundKey(c, kind, j))') \cap TitlesOf(CacheGet(RoundKey(c, kind, i))') = {}
      BY DEF RoundsOK, Good, List, Distinct, TitlesOf
    <2>2. /\ Good(CacheGet(RoundKey(c, kind, i)))
          /\ \A j \in 0..(i - 1) :
               /\ Cached(RoundKey(c, kind, j))
               /\ TitlesOf(CacheGet(RoundKey(c, kind, j))) \cap TitlesOf(CacheGet(RoundKey(c, kind, i))) = {}
      <3>1. Cached(RoundKey(c, kind, i))
        BY <1>1, <2>1
      <3>2. QED BY <3>1 DEF RoundsOK
    <2>3. QED BY <1>1, <2>1, <2>2
  <1>3. ResultsOK'
    BY <1>1 DEF ResultsOK, Kinds
  <1>4. ASSUME NEW c \in Components, comp'[c] = comp[c], interactive' = interactive, SoFar(c) PROVE SoFar(c)'
    <2>1. Kind' = Kind /\ Kind \in Kinds
      BY <1>4 DEF Kind, Kinds
    <2>2. QED BY <1>1, <1>4, <2>1 DEF SoFar
  <1>5. QED BY <1>2, <1>3, <1>4

\* A step that leaves the components and what they have cached.
LEMMA TitleQuiet ==
  ASSUME TitleInv, Shape', KeepsLists, UNCHANGED <<comp, interactive>>, run'.pc # "idle" \/ run'.pc = run.pc
  PROVE  TitleInv'
  <1>1. RoundsOK' /\ ResultsOK'
    BY ListsKept DEF TitleInv
  <1>2. ASSUME NEW c \in Components PROVE CompOK(c)'
    BY ListsKept DEF TitleInv, CompOK
  <1>3. QED BY <1>1, <1>2 DEF TitleInv

\* The steps of one component: what it does to its own record and its own keys.
LEMMA TitleStep ==
  ASSUME TitleInv, Shape', NEW c \in Components, UNCHANGED <<interactive, run>>, run.pc # "idle",
         \A d \in Components \ {c} : comp'[d] = comp[d], RoundsOK', ResultsOK', CompOK(c)',
         \A d \in Components \ {c} : SoFar(d) => SoFar(d)'
  PROVE  TitleInv'
  <1>1. ASSUME NEW d \in Components PROVE CompOK(d)'
    <2>1. CASE d # c
      BY <2>1 DEF TitleInv, CompOK
    <2>2. QED BY <2>1
  <1>2. QED BY <1>1 DEF TitleInv

LEMMA TitleReuse ==
  ASSUME TitleInv, Shape', NEW c \in Components, UNCHANGED <<interactive, run>>, run.pc # "idle", ReuseAnalysis(c)
  PROVE  TitleInv'
  <1>0. CompShape /\ Inference(comp[c]) /\ CompOK(c)
    BY DEF TitleInv, Shape, CompShape
  <1>1. KeepsLists /\ \A d \in Components \ {c} : comp'[d] = comp[d]
    BY <1>0 DEF ReuseAnalysis, durableVars, KeepsLists, CompShape
  <1>2. RoundsOK' /\ ResultsOK' /\ \A d \in Components \ {c} : SoFar(d) => SoFar(d)'
    BY <1>1, ListsKept DEF TitleInv
  <1>3. CASE Cached(AnalysisKey(c, Kind))
    <2>1. comp' = [comp EXCEPT ![c] = [comp[c] EXCEPT !.at = "done", !.props = CacheGet(AnalysisKey(c, Kind))]]
      BY <1>3, OwnKeyForms DEF ReuseAnalysis
    <2>2. comp'[c] = [at |-> "done", round |-> comp[c].round, prev |-> comp[c].prev,
                      props |-> CacheGet(AnalysisKey(c, Kind))]
      BY <1>0, <2>1, InferenceExcept DEF CompShape
    <2>3. ~interactive => Good(CacheGet(AnalysisKey(c, Kind)))
      BY <1>3 DEF TitleInv, ResultsOK, Kind
    <2>4. CompOK(c)'
      BY <1>0, <2>2, <2>3 DEF CompOK
    <2>5. QED BY <1>1, <1>2, <2>4, TitleStep
  <1>4. CASE ~Cached(AnalysisKey(c, Kind))
    <2>1. /\ comp' = [comp EXCEPT ![c] = [comp[c] EXCEPT !.at = "extracted", !.prev = CacheGet(ResultKey(c, Kind))]]
          /\ Cached(ResultKey(c, Kind))
      BY <1>4, OwnKeyForms DEF ReuseAnalysis, Hit
    <2>2. comp'[c] = [at |-> "extracted", round |-> comp[c].round, prev |-> CacheGet(ResultKey(c, Kind)),
                      props |-> comp[c].props]
      BY <1>0, <2>1, InferenceExcept DEF CompShape
    <2>3. Good(CacheGet(ResultKey(c, Kind)))
      BY <2>1, OwnKeyForms DEF TitleInv, ResultsOK
    <2>4. CompOK(c)'
      BY <1>0, <2>2, <2>3 DEF CompOK
    <2>5. QED BY <1>1, <1>2, <2>4, TitleStep
  <1>5. QED BY <1>3, <1>4

\* The items of a round are apart from those of the rounds before it, when they
\* are fresh because the validation saw them all, and when they are cached because
\* it saw then what is cached now.
LEMMA RoundStep ==
  ASSUME TitleInv, Shape', NEW c \in Components, UNCHANGED <<interactive, run>>, run.pc # "idle", RunBugRound(c)
  PROVE  TitleInv'
  <1>a. PICK r \in Nat : r = comp[c].round
    BY DEF TitleInv, CompOK
  <1>b. PICK kind \in Kinds : kind = Kind
    BY OwnKeyForms
  <1> DEFINE k == RoundKey(c, kind, r)
  <1>0. CompShape /\ Inference(comp[c]) /\ CompOK(c) /\ SoFar(c) /\ Good(comp[c].prev)
    BY DEF TitleInv, Shape, CompShape, RunBugRound, InRounds, CompOK
  <1>1. PICK items :
          /\ comp' = [comp EXCEPT ![c] = AfterRound(comp[c], items)]
          /\ \/ Cached(k) /\ items = CacheGet(k) /\ UNCHANGED cache
             \/ /\ ~Cached(k) /\ items \in Drafts
                /\ UniqueTitles(comp[c].prev, items) /\ CachePut(k, items)
    BY <1>a, <1>b, OwnKeyForms DEF RunBugRound
  <1>2. /\ Good(items) /\ TitlesOf(comp[c].prev) \cap TitlesOf(items) = {}
        /\ Cached(k)' /\ CacheGet(k)' = items
        /\ \A x \in DOMAIN cache : x \in DOMAIN cache' /\ cache'[x] = cache[x]
        /\ \A x \in DOMAIN cache' : x \in DOMAIN cache \/ x = k
    <2>1. CASE Cached(k) /\ items = CacheGet(k) /\ UNCHANGED cache
      <3>1. Good(items) /\ \A j \in 0..(r - 1) : TitlesOf(CacheGet(RoundKey(c, kind, j))) \cap TitlesOf(items) = {}
        BY <1>0, <2>1 DEF TitleInv, RoundsOK
      <3>2. \A x \in TitlesOf(comp[c].prev) : \E j \in 0..(r - 1) : x \in TitlesOf(CacheGet(RoundKey(c, kind, j)))
        BY <1>a, <1>b, <1>0 DEF SoFar
      <3>3. TitlesOf(comp[c].prev) \cap TitlesOf(items) = {}
        BY <3>1, <3>2
      <3>4. QED BY <2>1, <3>1, <3>3 DEF Cached, CacheGet
    <2>2. CASE ~Cached(k) /\ items \in Drafts /\ UniqueTitles(comp[c].prev, items) /\ CachePut(k, items)
      <3>1. Good(items) /\ TitlesOf(comp[c].prev) \cap TitlesOf(items) = {}
        BY <2>2, InferenceAssumption DEF UniqueTitles, Good, List
      <3>2. /\ DOMAIN cache' = DOMAIN cache \cup {k} /\ cache'[k] = items
            /\ \A x \in DOMAIN cache : x # k => cache'[x] = cache[x]
        BY <2>2, PutFacts
      <3>3. QED BY <2>2, <3>1, <3>2 DEF Cached, CacheGet
    <2>3. QED BY <1>1, <2>1, <2>2
  <1>3. ASSUME NEW x \in DOMAIN cache PROVE Cached(x)' /\ CacheGet(x)' = CacheGet(x)
    BY <1>2 DEF Cached, CacheGet
  <1>4. ASSUME NEW x, Cached(x)', x # k PROVE Cached(x)
    BY <1>2, <1>4 DEF Cached
  <1>5. \A j \in 0..(r - 1) :
          /\ Cached(RoundKey(c, kind, j))
          /\ TitlesOf(CacheGet(RoundKey(c, kind, j))) \subseteq TitlesOf(comp[c].prev)
    BY <1>a, <1>b, <1>0 DEF SoFar
  <1> HIDE DEF k
  <1>6. RoundsOK'
    <2>1. SUFFICES ASSUME NEW d \in Components, NEW m \in Kinds, NEW i \in Nat, Cached(RoundKey(d, m, i))'
                   PROVE  /\ Good(CacheGet(RoundKey(d, m, i))')
                          /\ \A j \in 0..(i - 1) :
                               /\ Cached(RoundKey(d, m, j))'
                               /\ TitlesOf(CacheGet(RoundKey(d, m, j))') \cap TitlesOf(CacheGet(RoundKey(d, m, i))') = {}
      BY DEF RoundsOK, Good, List, Distinct, TitlesOf
    <2>2. CASE Cached(RoundKey(d, m, i))
      <3>1. /\ Good(CacheGet(RoundKey(d, m, i)))
            /\ \A j \in 0..(i - 1) :
                 /\ Cached(RoundKey(d, m, j))
                 /\ TitlesOf(CacheGet(RoundKey(d, m, j))) \cap TitlesOf(CacheGet(RoundKey(d, m, i))) = {}
        BY <2>2 DEF TitleInv, RoundsOK
      <3>2. \A x \in DOMAIN cache : Cached(x)' /\ CacheGet(x)' = CacheGet(x)
        BY <1>3
      <3>3. QED BY <2>2, <3>1, <3>2 DEF Cached
    <2>3. CASE ~Cached(RoundKey(d, m, i))
      <3>1. RoundKey(d, m, i) = k
        BY <1>4, <2>1, <2>3
      <3>2. d = c /\ m = kind /\ i = r
        <4>1. RoundKey(d, m, i) = RoundKey(c, kind, r) => d = c /\ m = kind /\ i = r
          BY RoundKeyApart
        <4>2. QED BY <3>1, <4>1 DEF k
      <3>3. CacheGet(RoundKey(d, m, i))' = items
        BY <1>2, <3>1
      <3>4. \A j \in 0..(r - 1) : /\ Cached(RoundKey(c, kind, j))'
                                  /\ CacheGet(RoundKey(c, kind, j))' = CacheGet(RoundKey(c, kind, j))
        BY <1>3, <1>5 DEF Cached
      <3>5. \A j \in 0..(r - 1) : TitlesOf(CacheGet(RoundKey(c, kind, j))) \cap TitlesOf(items) = {}
        BY <1>2, <1>5
      <3>6. QED BY <1>2, <3>2, <3>3, <3>4, <3>5
    <2>4. QED BY <2>2, <2>3
  <1>7. ResultsOK'
    <2>1. ASSUME NEW x, Cached(x)', x # k, Cached(x) => Good(CacheGet(x)) PROVE Good(CacheGet(x)')
      <3>1. Cached(x)
        BY <1>4, <2>1
      <3>2. CacheGet(x)' = CacheGet(x)
        BY <1>3, <3>1 DEF Cached
      <3>3. QED BY <2>1, <3>1, <3>2
    <2>2. \A d, m : ResultKey(d, m) # k /\ AnalysisKey(d, m) # k
      <3>1. ASSUME NEW d, NEW m
            PROVE  ResultKey(d, m) # RoundKey(c, kind, r) /\ AnalysisKey(d, m) # RoundKey(c, kind, r)
        BY NoRoundKey
      <3>2. QED BY <3>1 DEF k
    <2>3. QED BY <2>1, <2>2 DEF ResultsOK, TitleInv
  <1>8. \A d \in Components \ {c} : comp'[d] = comp[d]
    BY <1>0, <1>1 DEF CompShape
  <1>9. ASSUME NEW d \in Components \ {c}, SoFar(d) PROVE SoFar(d)'
    <2>1. comp'[d] = comp[d] /\ Kind' = kind
      BY <1>b, <1>8 DEF Kind
    <2>2. \A j \in 0..(comp[d].round - 1) :
            Cached(RoundKey(d, kind, j))' /\ CacheGet(RoundKey(d, kind, j))' = CacheGet(RoundKey(d, kind, j))
      BY <1>b, <1>3, <1>9 DEF SoFar, Cached
    <2>3. QED BY <1>b, <1>9, <2>1, <2>2 DEF SoFar
  <1>10. CompOK(c)'
    <2>1. comp'[c] = AfterRound(comp[c], items) /\ Kind' = kind
      BY <1>b, <1>0, <1>1 DEF CompShape, Kind
    <2>2. CASE items # <<>>
      <3> DEFINE all == comp[c].prev \o items
      <3>1. comp'[c].at = "rounds" /\ comp'[c].round = r + 1 /\ comp'[c].prev = all
        BY <1>a, <1>0, <2>1, <2>2 DEF AfterRound, Inference
      <3>2. Good(all) /\ TitlesOf(all) = TitlesOf(comp[c].prev) \cup TitlesOf(items)
        <4>1. Good(all)
          BY <1>0, <1>2, JoinGood
        <4>2. TitlesOf(all) = TitlesOf(comp[c].prev) \cup TitlesOf(items)
          BY <1>0, <1>2, JoinLists DEF Good
        <4>3. QED BY <4>1, <4>2
      <3> HIDE DEF all
      <3>3. \A j \in 0..r : j = r \/ j \in 0..(r - 1)
        BY <1>0
      <3>4. r \in 0..r /\ \A j \in 0..(r - 1) : j \in 0..r
        BY <1>0
      <3>5. /\ Cached(RoundKey(c, kind, r))' /\ CacheGet(RoundKey(c, kind, r))' = items
            /\ \A j \in 0..(r - 1) : /\ Cached(RoundKey(c, kind, j))'
                                     /\ CacheGet(RoundKey(c, kind, j))' = CacheGet(RoundKey(c, kind, j))
        BY <1>2, <1>3, <1>5 DEF k, Cached
      <3>6. \A j \in 0..r : Cached(RoundKey(c, kind, j))' /\ TitlesOf(CacheGet(RoundKey(c, kind, j))') \subseteq TitlesOf(all)
        BY <1>5, <3>2, <3>3, <3>5
      <3>7. \A x \in TitlesOf(all) : \E j \in 0..r : x \in TitlesOf(CacheGet(RoundKey(c, kind, j))')
        <4>1. SUFFICES ASSUME NEW x \in TitlesOf(all) PROVE \E j \in 0..r : x \in TitlesOf(CacheGet(RoundKey(c, kind, j))')
          OBVIOUS
        <4>2. CASE x \in TitlesOf(items)
          BY <3>4, <3>5, <4>2
        <4>3. CASE x \in TitlesOf(comp[c].prev)
          <5>1. PICK j \in 0..(r - 1) : x \in TitlesOf(CacheGet(RoundKey(c, kind, j)))
            BY <1>a, <1>b, <1>0, <4>3 DEF SoFar
          <5>2. QED BY <3>4, <3>5, <5>1
        <4>4. QED BY <3>2, <4>2, <4>3
      <3>8. (r + 1) - 1 = r /\ r + 1 \in Nat
        BY <1>0
      <3>9. SoFar(c)'
        BY <2>1, <3>1, <3>6, <3>7, <3>8 DEF SoFar, TitlesOf
      <3>10. QED BY <3>1, <3>2, <3>8, <3>9 DEF CompOK
    <2>3. CASE items = <<>>
      <3>1. comp'[c].at \in {"asserted", "ending"} /\ comp'[c].round = r /\ comp'[c].prev = comp[c].prev
        BY <1>a, <1>0, <2>1, <2>3 DEF AfterRound, Inference
      <3>2. QED BY <1>0, <3>1 DEF CompOK
    <2>4. QED BY <2>2, <2>3
  <1>11. QED BY <1>6, <1>7, <1>8, <1>9, <1>10, TitleStep

\* A cached result or list of properties leaves the cached rounds alone.
LEMMA PutResult ==
  ASSUME RoundsOK, ResultsOK, NEW k, NEW v, CachePut(k, v), \A d, m, i : k # RoundKey(d, m, i),
         \/ Good(v)
         \/ \A d, m : k # ResultKey(d, m) /\ k # AnalysisKey(d, "bug_analysis")
  PROVE  /\ RoundsOK' /\ ResultsOK'
         /\ \A d \in Components : comp'[d] = comp[d] /\ interactive' = interactive /\ SoFar(d) => SoFar(d)'
  <1>1. /\ DOMAIN cache' = DOMAIN cache \cup {k} /\ cache'[k] = v
        /\ \A x \in DOMAIN cache : x # k => cache'[x] = cache[x]
    BY PutFacts
  <1>2. ASSUME NEW x, x # k
        PROVE  Cached(x)' = Cached(x) /\ (Cached(x) => CacheGet(x)' = CacheGet(x))
    BY <1>1, <1>2 DEF Cached, CacheGet
  <1>3. ASSUME NEW d, NEW m, NEW i
        PROVE  /\ Cached(RoundKey(d, m, i))' = Cached(RoundKey(d, m, i))
               /\ Cached(RoundKey(d, m, i)) => CacheGet(RoundKey(d, m, i))' = CacheGet(RoundKey(d, m, i))
    <2>1. PICK x : x = RoundKey(d, m, i)
      OBVIOUS
    <2>2. x # k
      BY <2>1
    <2>3. QED BY <1>2, <2>1, <2>2
  <1>4. RoundsOK'
    <2>1. SUFFICES ASSUME NEW c \in Components, NEW kind \in Kinds, NEW i \in Nat, Cached(RoundKey(c, kind, i))'
                   PROVE  /\ Good(CacheGet(RoundKey(c, kind, i))')
                          /\ \A j \in 0..(i - 1) :
                               /\ Cached(RoundKey(c, kind, j))'
                               /\ TitlesOf(CacheGet(RoundKey(c, kind, j))') \cap TitlesOf(CacheGet(RoundKey(c, kind, i))') = {}
      BY DEF RoundsOK, Good, List, Distinct, TitlesOf
    <2>2. /\ Good(CacheGet(RoundKey(c, kind, i)))
          /\ \A j \in 0..(i - 1) :
               /\ Cached(RoundKey(c, kind, j))
               /\ TitlesOf(CacheGet(RoundKey(c, kind, j))) \cap TitlesOf(CacheGet(RoundKey(c, kind, i))) = {}
      <3>1. Cached(RoundKey(c, kind, i))
        BY <1>3, <2>1
      <3>2. QED BY <3>1 DEF RoundsOK
    <2>3. QED BY <1>3, <2>1, <2>2
  <1>5. ASSUME NEW x, Cached(x)', x # k \/ Good(v), Cached(x) => Good(CacheGet(x)) PROVE Good(CacheGet(x)')
    <2>1. CASE x = k
      BY <1>1, <1>5, <2>1 DEF CacheGet
    <2>2. CASE x # k
      BY <1>2, <1>5, <2>2
    <2>3. QED BY <2>1, <2>2
  <1>6. ResultsOK'
    BY <1>5 DEF ResultsOK
  <1>7. ASSUME NEW d \in Components, comp'[d] = comp[d], interactive' = interactive, SoFar(d) PROVE SoFar(d)'
    <2>1. Kind' = Kind
      BY <1>7 DEF Kind
    <2>2. QED BY <1>3, <1>7, <2>1 DEF SoFar
  <1>8. QED BY <1>4, <1>6, <1>7

LEMMA TitleEnd ==
  ASSUME TitleInv, Shape', NEW c \in Components, UNCHANGED <<interactive, run>>, run.pc # "idle", EndRounds(c)
  PROVE  TitleInv'
  <1>0. CompShape /\ Inference(comp[c]) /\ CompOK(c) /\ Good(comp[c].prev)
    BY DEF TitleInv, Shape, CompShape, CompOK
  <1>1. PICK at \in {"asserted", "extracted"} :
          /\ comp' = [comp EXCEPT ![c] = [comp[c] EXCEPT !.at = at]]
          /\ UNCHANGED cache \/ CachePut(ResultKey(c, Kind), comp[c].prev)
    BY <1>0, OwnKeyForms DEF EndRounds, CompShape
  <1>2. /\ \A d \in Components \ {c} : comp'[d] = comp[d]
        /\ comp'[c] = [at |-> at, round |-> comp[c].round, prev |-> comp[c].prev, props |-> comp[c].props]
    BY <1>0, <1>1, InferenceExcept DEF CompShape
  <1>3. RoundsOK' /\ ResultsOK' /\ \A d \in Components \ {c} : SoFar(d) => SoFar(d)'
    <2>1. CASE UNCHANGED cache
      <3>1. KeepsLists
        BY <2>1 DEF KeepsLists
      <3>2. QED BY <1>2, <3>1, ListsKept DEF TitleInv
    <2>2. CASE CachePut(ResultKey(c, Kind), comp[c].prev)
      <3>1. \A d, m, i : ResultKey(c, Kind) # RoundKey(d, m, i)
        BY NoRoundKey
      <3>2. QED BY <1>0, <1>2, <2>2, <3>1, PutResult DEF TitleInv
    <2>3. QED BY <1>1, <2>1, <2>2
  <1>4. CompOK(c)'
    BY <1>0, <1>2 DEF CompOK
  <1>5. QED BY <1>2, <1>3, <1>4, TitleStep

LEMMA SettledRecord ==
  ASSUME CompShape, NEW c \in Components, Inference(comp[c]), NEW props,
         comp' = [comp EXCEPT ![c].at = "done", ![c].props = props]
  PROVE  comp' = [comp EXCEPT ![c] = [comp[c] EXCEPT !.at = "done", !.props = props]]
  BY DEF CompShape, Inference

\* Only a conversation settles on a list of its own, and has a key of its own.
LEMMA TitleSettle ==
  ASSUME TitleInv, Shape', NEW c \in Components, UNCHANGED <<interactive, run>>, run.pc # "idle",
         SettleProperties(c)
  PROVE  TitleInv'
  <1>0. CompShape /\ Inference(comp[c]) /\ CompOK(c) /\ Good(comp[c].prev)
    BY DEF TitleInv, Shape, CompShape, CompOK
  <1>1. PICK props :
          /\ ~interactive => props = comp[c].prev
          /\ CachePut(AnalysisKey(c, Kind), props)
          /\ comp' = [comp EXCEPT ![c] = [comp[c] EXCEPT !.at = "done", !.props = props]]
    <2>1. PICK props :
            /\ ~interactive => props = comp[c].prev
            /\ CachePut(BugAnalysisKey(c), props)
            /\ comp' = [comp EXCEPT ![c].at = "done", ![c].props = props]
      BY DEF SettleProperties
    <2>2. comp' = [comp EXCEPT ![c] = [comp[c] EXCEPT !.at = "done", !.props = props]]
      BY <1>0, <2>1, SettledRecord
    <2>3. CachePut(AnalysisKey(c, Kind), props)
      BY <2>1, OwnKeyForms
    <2>4. QED BY <2>1, <2>2, <2>3
  <1>2. /\ \A d \in Components \ {c} : comp'[d] = comp[d]
        /\ comp'[c] = [at |-> "done", round |-> comp[c].round, prev |-> comp[c].prev, props |-> props]
    BY <1>0, <1>1, InferenceExcept DEF CompShape
  <1>3. Good(props) \/ \A d, m : AnalysisKey(c, Kind) # ResultKey(d, m) /\ AnalysisKey(c, Kind) # AnalysisKey(d, "bug_analysis")
    <2>1. CASE ~interactive
      BY <1>0, <1>1, <2>1
    <2>2. CASE interactive
      <3>1. Kind # "bug_analysis"
        BY <2>2 DEF Kind
      <3>2. QED BY <3>1, KeysApart
    <2>3. QED BY <2>1, <2>2
  <1>4. \A d, m, i : AnalysisKey(c, Kind) # RoundKey(d, m, i)
    BY NoRoundKey
  <1>5. RoundsOK' /\ ResultsOK' /\ \A d \in Components \ {c} : SoFar(d) => SoFar(d)'
    BY <1>1, <1>2, <1>3, <1>4, PutResult DEF TitleInv
  <1>6. CompOK(c)'
    BY <1>0, <1>1, <1>2 DEF CompOK
  <1>7. QED BY <1>2, <1>5, <1>6, TitleStep

LEMMA TitleExtract ==
  ASSUME TitleInv, Shape', NEW c \in Components, Extract(c)
  PROVE  TitleInv'
  <1>1. UNCHANGED <<interactive, run>> /\ run.pc # "idle" /\ Infer(c)
    BY DEF Extract
  <1>2. CASE InferenceRaises(c)
    <2>0. CompShape /\ Inference(comp[c]) /\ CompOK(c)
      BY DEF TitleInv, Shape, CompShape
    <2>1. comp' = [comp EXCEPT ![c] = [comp[c] EXCEPT !.at = "raised"]] /\ UNCHANGED cache
      BY <1>2, <2>0 DEF InferenceRaises, CompShape, durableVars
    <2>2. /\ \A d \in Components \ {c} : comp'[d] = comp[d]
          /\ comp'[c] = [at |-> "raised", round |-> comp[c].round, prev |-> comp[c].prev, props |-> comp[c].props]
      BY <2>0, <2>1, InferenceExcept DEF CompShape
    <2>3. KeepsLists
      BY <2>1 DEF KeepsLists
    <2>4. RoundsOK' /\ ResultsOK' /\ \A d \in Components \ {c} : SoFar(d) => SoFar(d)'
      BY <1>1, <2>2, <2>3, ListsKept DEF TitleInv
    <2>5. CompOK(c)'
      BY <1>1, <2>0, <2>2 DEF CompOK
    <2>6. QED BY <1>1, <2>2, <2>4, <2>5, TitleStep
  <1>3. QED BY <1>1, <1>2, TitleReuse, RoundStep, TitleEnd, TitleSettle DEF Infer

\* What the pipeline caches itself is of other keys.
LEMMA TitlePipeline ==
  ASSUME TitleInv, Shape',
         \/ AnalyseComponents \/ ClassifyContracts \/ GenerateHarnesses \/ ApplyHarnessResult \/ WriteHarnesses
         \/ RunAutoSetupPhase \/ SetupSummaries
         \/ ReuseInvariants \/ (\E n \in InvNames : JudgeInvariant(n)) \/ DeliverInvariants
         \/ EndExtraction \/ JoinStreams \/ GenerateInvariants \/ WriteInvariants
         \/ \E c \in Components : GenerateBatch(c) \/ EndBatch(c) \/ WriteBatch(c)
         \/ EndRun \/ EndFoundryRun \/ RemoveOutputs
  PROVE  TitleInv'
  <1> DEFINE Own == {SourceAnalysisKey, SetupKey, AutoSetupKey, Child(SetupKey, "harness-analysis"),
                     Child(SetupKey, "harnesses"), InvariantsKey, InvCVLKey}
                    \cup {BatchKey(c) : c \in Components} \cup {<<"summary", config>> : config \in auto.config}
  <1>0. RunShape
    BY DEF TitleInv, Shape
  <1>1. UNCHANGED cache \/ \E k \in Own : \E v : CachePut(k, v)
    <2>1. CASE AnalyseComponents
      BY <2>1 DEF AnalyseComponents
    <2>2. CASE ClassifyContracts
      BY <2>2 DEF ClassifyContracts
    <2>3. CASE GenerateHarnesses \/ ApplyHarnessResult \/ WriteHarnesses
      BY <2>3 DEF GenerateHarnesses, ApplyHarnessResult, WriteHarnesses
    <2>4. CASE RunAutoSetupPhase
      BY <2>4 DEF RunAutoSetupPhase, durableVars
    <2>5. CASE SetupSummaries
      BY <2>5 DEF SetupSummaries, durableVars
    <2>6. CASE ReuseInvariants \/ DeliverInvariants \/ (\E n \in InvNames : JudgeInvariant(n))
      BY <2>6 DEF ReuseInvariants, DeliverInvariants, JudgeInvariant, durableVars
    <2>7. CASE EndExtraction \/ JoinStreams \/ WriteInvariants \/ EndRun \/ EndFoundryRun \/ RemoveOutputs
      BY <2>7 DEF EndExtraction, JoinStreams, WriteInvariants, EndRun, EndFoundryRun, RemoveOutputs, durableVars
    <2>8. CASE GenerateInvariants
      BY <2>8 DEF GenerateInvariants
    <2>9. ASSUME NEW c \in Components, GenerateBatch(c) \/ EndBatch(c) \/ WriteBatch(c)
          PROVE  UNCHANGED cache \/ CachePut(BatchKey(c), GeneratedCVL(c))
      BY <2>9 DEF GenerateBatch, EndBatch, WriteBatch, durableVars
    <2>10. QED BY <2>1, <2>2, <2>3, <2>4, <2>5, <2>6, <2>7, <2>8, <2>9
  <1>2. \A k \in Own : ~InferenceLike(k)
    BY UnlikeKeys
  <1> HIDE DEF Own
  <1>3. KeepsLists
    <2>1. CASE UNCHANGED cache
      BY <2>1 DEF KeepsLists
    <2>2. QED BY <1>1, <1>2, <2>1, PutUnlike
  <1>4. UNCHANGED <<comp, interactive>>
    BY DEF AnalyseComponents, ClassifyContracts, GenerateHarnesses, ApplyHarnessResult, WriteHarnesses,
           RunAutoSetupPhase, SetupSummaries, ReuseInvariants, JudgeInvariant, DeliverInvariants, EndExtraction,
           JoinStreams, GenerateInvariants, WriteInvariants, GenerateBatch, EndBatch, WriteBatch, EndRun,
           EndFoundryRun, RemoveOutputs, streams
  <1>5. run'.pc # "idle" \/ run'.pc = run.pc
    <2>1. \/ UNCHANGED run
          \/ \E pc : run' = [run EXCEPT !.pc = pc] /\ pc # "idle"
          \/ \E pc, d : run' = [run EXCEPT !.desc = {d}, !.pc = pc] /\ pc # "idle"
          \/ run' = [run EXCEPT !.pc = "over", !.failures = Failures]
      <3>1. CASE AnalyseComponents \/ GenerateHarnesses \/ ApplyHarnessResult \/ WriteHarnesses
        BY <3>1 DEF AnalyseComponents, GenerateHarnesses, ApplyHarnessResult, WriteHarnesses, Goto, Fail
      <3>2. CASE ClassifyContracts
        <4>1. \E pc \in {"harnessed", "harnessing", "described"} : \E d : run' = [run EXCEPT !.desc = {d}, !.pc = pc]
          BY <3>2 DEF ClassifyContracts
        <4>2. QED BY <4>1
      <3>3. CASE RunAutoSetupPhase \/ SetupSummaries \/ ReuseInvariants \/ DeliverInvariants \/ EndExtraction
                 \/ (\E n \in InvNames : JudgeInvariant(n)) \/ RemoveOutputs
        BY <3>3 DEF RunAutoSetupPhase, SetupSummaries, ReuseInvariants, DeliverInvariants, EndExtraction,
                    JudgeInvariant, RemoveOutputs
      <3>4. CASE JoinStreams
        BY <3>4 DEF JoinStreams, Goto, Fail
      <3>5. CASE GenerateInvariants \/ WriteInvariants
        BY <3>5 DEF GenerateInvariants, WriteInvariants, Goto, Fail
      <3>6. ASSUME NEW c \in Components, GenerateBatch(c) \/ EndBatch(c) \/ WriteBatch(c) PROVE UNCHANGED run
        BY <3>6 DEF GenerateBatch, EndBatch, WriteBatch
      <3>7. CASE EndRun \/ EndFoundryRun
        BY <3>7 DEF EndRun, EndFoundryRun
      <3>8. QED BY <3>1, <3>2, <3>3, <3>4, <3>5, <3>6, <3>7
    <2>2. QED BY <1>0, <2>1 DEF RunShape
  <1>6. QED BY <1>3, <1>4, <1>5, TitleQuiet

\* A run begins and ends with nothing extracted, whatever it is asked.
LEMMA TitleRuns ==
  ASSUME TitleInv, Shape', StartRun \/ Quit
  PROVE  TitleInv'
  <1>1. UNCHANGED cache
    BY DEF StartRun, Quit, durableVars
  <1>2. KeepsLists
    BY <1>1 DEF KeepsLists
  <1>3. RoundsOK' /\ ResultsOK'
    BY <1>2, ListsKept DEF TitleInv
  <1>4. \A c \in Components : comp'[c] = NotStarted
    BY DEF StartRun, Quit, Fresh, streams, TitleInv, CompOK
  <1>5. ASSUME NEW c \in Components PROVE CompOK(c)'
    <2>1. comp'[c].round = 0 /\ comp'[c].prev = <<>> /\ comp'[c].at = "idle"
      BY <1>4 DEF NotStarted
    <2>2. 0..(comp'[c].round - 1) = {}
      BY <2>1
    <2>3. SoFar(c)'
      BY <2>1, <2>2, EmptyGood DEF SoFar, TitlesOf
    <2>4. QED BY <1>4, <2>1, <2>3, EmptyGood DEF CompOK, NotStarted, Good, List, Distinct, TitlesOf
  <1>6. QED BY <1>3, <1>5 DEF TitleInv

LEMMA TitleNext == TitleInv /\ [Next]_vars => TitleInv'
  <1> SUFFICES ASSUME TitleInv, [Next]_vars PROVE TitleInv'
    OBVIOUS
  <1>1. Shape'
    BY ShapeNext DEF TitleInv
  <1>2. CASE UNCHANGED vars
    <2>1. UNCHANGED <<comp, interactive, run, cache>>
      BY <1>2 DEF vars, streams, durableVars
    <2>2. KeepsLists
      BY <2>1 DEF KeepsLists
    <2>3. QED BY <1>1, <2>1, <2>2, TitleQuiet
  <1>3. CASE Next
    BY <1>1, <1>3, TitleRuns, TitlePipeline, TitleExtract DEF Next
  <1>4. QED BY <1>2, <1>3

\* Rounds are cached one by one and their results under keys that depend on
\* whether the user is asked (prop_inference.py); whichever run cached them, a
\* component's properties have titles of their own, but for the user's changes.
THEOREM TitlesStayDistinct == Spec => []TitlesDistinct
  <1>1. TitleInv => TitlesDistinct
    BY DEF TitleInv, CompOK, Good, TitlesDistinct
  <1>2. QED BY <1>1, TitleInit, TitleNext, PTL DEF Spec

-----------------------------------------------------------------------------
(* The names of the batches *)

LEMMA TailsAgree ==
  ASSUME NEW S, NEW a, NEW s \in Seq(S), NEW t \in Seq(S), <<a>> \o s = <<a>> \o t
  PROVE  s = t
  <1> DEFINE T == S \cup {a}
             u == <<a>> \o s
             v == <<a>> \o t
  <1>1. <<a>> \in Seq(T) /\ Len(<<a>>) = 1
    OBVIOUS
  <1>2. s \in Seq(T) /\ t \in Seq(T) /\ Len(s) \in Nat /\ Len(t) \in Nat
    OBVIOUS
  <1>3. /\ Len(u) = 1 + Len(s) /\ \A i \in 1..(1 + Len(s)) : u[i] = IF i <= 1 THEN <<a>>[i] ELSE s[i - 1]
        /\ Len(v) = 1 + Len(t) /\ \A i \in 1..(1 + Len(t)) : v[i] = IF i <= 1 THEN <<a>>[i] ELSE t[i - 1]
    <2> HIDE DEF T
    <2>1. QED BY <1>1, <1>2, ConcatProperties
  <1>4. u = v
    OBVIOUS
  <1> HIDE DEF u, v
  <1>5. Len(s) = Len(t)
    BY <1>2, <1>3, <1>4
  <1>6. \A i \in 1..Len(s) : s[i] = t[i]
    <2>1. SUFFICES ASSUME NEW i \in 1..Len(s) PROVE s[i] = t[i]
      OBVIOUS
    <2>2. i + 1 \in 1..(1 + Len(s)) /\ ~(i + 1 <= 1) /\ (i + 1) - 1 = i
      BY <1>2
    <2>3. u[i + 1] = s[i] /\ v[i + 1] = t[i]
      BY <1>3, <1>5, <2>2
    <2>4. QED BY <1>4, <2>3
  <1>7. QED BY <1>5, <1>6, SameSequence

LEMMA AppendAgree ==
  ASSUME NEW S, NEW s \in Seq(S), NEW t \in Seq(S), NEW a \in S, NEW b \in S, Append(s, a) = Append(t, b)
  PROVE  a = b
  <1>1. Len(Append(s, a)) = Len(s) + 1 /\ Append(s, a)[Len(s) + 1] = a /\ Len(s) \in Nat
    OBVIOUS
  <1>2. Len(Append(t, b)) = Len(t) + 1 /\ Append(t, b)[Len(t) + 1] = b /\ Len(t) \in Nat
    OBVIOUS
  <1>3. Len(s) + 1 = Len(t) + 1
    BY <1>1, <1>2
  <1>4. QED BY <1>1, <1>2, <1>3

Letters == Components \cup UNION {Range(Slug[c]) : c \in Components}

LEMMA SlugSeqs ==
  ASSUME NEW c \in Components
  PROVE  /\ Slug[c] \in Seq(Letters) /\ Append(Slug[c], c) \in Seq(Letters)
         /\ SlugifiedName(c) \in Seq(Letters) /\ FoundryBase(c) \in Seq(Letters)
  <1>1. Slug[c] \in Seq(Range(Slug[c])) /\ Range(Slug[c]) \subseteq Letters /\ c \in Letters
    BY PipelineAssumption DEF Letters
  <1>2. Slug[c] \in Seq(Letters)
    BY <1>1
  <1>3. Append(Slug[c], c) \in Seq(Letters)
    BY <1>1, <1>2
  <1>4. QED BY <1>2, <1>3 DEF SlugifiedName, FoundryBase

\* Equal slugs are told apart by the index.
LEMMA NamesApart ==
  ASSUME NEW c \in Components, NEW d \in Components,
         SlugifiedName(c) = SlugifiedName(d), Slug[c] = Slug[d]
  PROVE  c = d
  <1> SUFFICES ASSUME c # d PROVE FALSE
    OBVIOUS
  <1>1. HasTwin(c) /\ HasTwin(d)
    BY DEF HasTwin
  <1>2. Append(Slug[c], c) = Append(Slug[d], d) /\ c \in Letters /\ d \in Letters
    BY <1>1 DEF SlugifiedName, Letters
  <1>3. QED BY <1>2, SlugSeqs, AppendAgree

LEMMA BasesApart ==
  ASSUME NEW c \in Batches, NEW d \in Batches, FoundryBase(c) = FoundryBase(d), Slug[c] = Slug[d]
  PROVE  c = d
  <1> SUFFICES ASSUME c # d PROVE FALSE
    OBVIOUS
  <1>0. c \in Components /\ d \in Components
    BY DEF Batches
  <1>1. FoundryBase(c) = Append(Slug[c], c)
    BY DEF FoundryBase
  <1>2. FoundryBase(d) = Append(Slug[d], d)
    BY DEF FoundryBase
  <1>3. Append(Slug[c], c) = Append(Slug[d], d) /\ c \in Letters /\ d \in Letters
    BY <1>0, <1>1, <1>2 DEF Letters
  <1>4. QED BY <1>0, <1>3, SlugSeqs, AppendAgree

Places == Letters \cup {"autospec", "composer", "invariants", "spec", "properties"}

LEMMA StemSeqs ==
  ASSUME NEW c \in Components
  PROVE  /\ Stem(c) \in Seq(Places) /\ Len(Stem(c)) >= 1 /\ Stem(c)[1] \in {"autospec", "composer"}
         /\ SpecFile(Stem(c))[1] = "spec" /\ SpecFile(Stem(c))[2] \in {"autospec", "composer"}
         /\ PropertiesFile(Stem(c))[1] = "properties" /\ PropertiesFile(Stem(c))[2] \in {"autospec", "composer"}
         /\ Len(SpecFile(Stem(c))) >= 2 /\ Len(PropertiesFile(Stem(c))) >= 2
  <1>1. PICK base \in Seq(Letters), first \in {"autospec", "composer"} : Stem(c) = <<first>> \o base
    BY SlugSeqs DEF Stem
  <1>2. base \in Seq(Places) /\ <<first>> \in Seq(Places) /\ <<"spec">> \in Seq(Places) /\ <<"properties">> \in Seq(Places)
    BY DEF Places
  <1>3. Stem(c) \in Seq(Places) /\ Len(Stem(c)) >= 1 /\ Stem(c)[1] = first
    BY <1>1, <1>2
  <1>4. QED BY <1>2, <1>3 DEF SpecFile, PropertiesFile

\* Batches of one name are namesakes: their slugs differ.
LEMMA StemsApart ==
  ASSUME NEW c \in Batches, NEW d \in Batches, Stem(c) = Stem(d)
  PROVE  d \in Namesakes(c)
  <1> SUFFICES ASSUME Slug[c] = Slug[d] PROVE c = d
    BY DEF Namesakes
  <1>0. c \in Components /\ d \in Components
    BY DEF Batches
  <1>1. CASE backend = "prover"
    <2>1. <<"autospec">> \o SlugifiedName(c) = <<"autospec">> \o SlugifiedName(d)
      BY <1>1 DEF Stem
    <2>2. SlugifiedName(c) \in Seq(Letters) /\ SlugifiedName(d) \in Seq(Letters)
      BY <1>0, SlugSeqs
    <2>3. SlugifiedName(c) = SlugifiedName(d)
      BY <2>1, <2>2, TailsAgree
    <2>4. QED BY <1>0, <2>3, NamesApart
  <1>2. CASE backend # "prover"
    <2>1. <<"composer">> \o FoundryBase(c) = <<"composer">> \o FoundryBase(d)
      BY <1>2 DEF Stem
    <2>2. FoundryBase(c) \in Seq(Letters) /\ FoundryBase(d) \in Seq(Letters)
      BY <1>0, SlugSeqs
    <2>3. FoundryBase(c) = FoundryBase(d)
      BY <2>1, <2>2, TailsAgree
    <2>4. QED BY <2>3, BasesApart
  <1>3. QED BY <1>1, <1>2

LEMMA FilesApart ==
  ASSUME NEW c \in Batches, NEW d \in Batches
  PROVE  /\ SpecFile(Stem(c)) = SpecFile(Stem(d)) => d \in Namesakes(c)
         /\ PropertiesFile(Stem(c)) = PropertiesFile(Stem(d)) => d \in Namesakes(c)
         /\ SpecFile(Stem(c)) # PropertiesFile(Stem(d))
  <1>0. c \in Components /\ d \in Components
    BY DEF Batches
  <1>1. Stem(c) \in Seq(Places) /\ Stem(d) \in Seq(Places)
    BY <1>0, StemSeqs
  <1>2. SpecFile(Stem(c)) = SpecFile(Stem(d)) => Stem(c) = Stem(d)
    BY <1>1, TailsAgree DEF SpecFile
  <1>3. PropertiesFile(Stem(c)) = PropertiesFile(Stem(d)) => Stem(c) = Stem(d)
    BY <1>1, TailsAgree DEF PropertiesFile
  <1>4. SpecFile(Stem(c))[1] = "spec" /\ PropertiesFile(Stem(d))[1] = "properties"
    BY <1>0, StemSeqs
  <1>5. QED BY <1>2, <1>3, <1>4, StemsApart

AuxFiles == {<<"harness">>, <<"summaries">>, <<"custom_summaries">>, <<"report">>, <<"component_runs">>,
             PropertiesFile(InvStem), InvFile}

LEMMA AuxApart ==
  ASSUME NEW c \in Components
  PROVE  SpecFile(Stem(c)) \notin AuxFiles /\ PropertiesFile(Stem(c)) \notin AuxFiles
  <1>1. ASSUME NEW f \in {SpecFile(Stem(c)), PropertiesFile(Stem(c))}
        PROVE  Len(f) >= 2 /\ f[2] \in {"autospec", "composer"}
    BY StemSeqs
  <1>2. ASSUME NEW g \in AuxFiles PROVE Len(g) = 1 \/ g[2] = "invariants"
    BY JoinOnes DEF AuxFiles, InvFile, SpecFile, PropertiesFile, InvStem
  <1>3. QED BY <1>1, <1>2

-----------------------------------------------------------------------------
(* What becomes of every batch *)

\* The key of a cached batch ends in its properties.
BatchCacheOK == \A k \in DOMAIN cache : BatchLike(k) => cache[k].props = k[4]

\* Under the name of c lies a list, a spec, or a link, of one of its namesakes.
Listed(c) ==
  /\ PropertiesFile(Stem(c)) \in DOMAIN files
  /\ \E d \in Namesakes(c) : files[PropertiesFile(Stem(c))] = comp[d].props

Delivered(c) ==
  /\ SpecFile(Stem(c)) \in DOMAIN files
  /\ \E d \in Namesakes(c) : gen[d].cvl = {files[SpecFile(Stem(c))]}

LinkOf(runs, c) ==
  IF RunKey(c) = InvStem /\ invs.cvl # {} THEN runs[RunKey(c)] = invs.cvl
  ELSE \E d \in Namesakes(c) : runs[RunKey(c)] # {} /\ runs[RunKey(c)] = gen[d].cvl

BugsOK ==
  /\ bugs = "done" => /\ \A c \in Components : comp[c].at = "done"
                      /\ \A c \in Batches : Listed(c)
  /\ run.pc \in {"invariants", "generate", "over"} => bugs = "done"
  /\ run.pc = "idle" => bugs = "idle"

BatchOK(c) ==
  /\ gen[c].at # "none" => c \in Batches
  /\ gen[c].at \in {"result", "written"} <=> gen[c].cvl # {}
  /\ \A v \in gen[c].cvl : v.props = comp[c].props /\ gen[c].cvl = {v}
  /\ gen[c].at = "written" => Delivered(c)

OverOK ==
  run.pc = "over" =>
    /\ Gathered /\ run.failures = Failures
    /\ backend = "prover" => \A c \in Batches \ Failures : LinkOf(files[<<"component_runs">>], c)

BatchInv == ImportInv /\ BatchCacheOK /\ BugsOK /\ (\A c \in Components : BatchOK(c)) /\ OverOK

LEMMA BatchInit == Init => BatchInv
  <1> SUFFICES ASSUME Init PROVE BatchInv
    OBVIOUS
  <1>1. DOMAIN cache = {} /\ run.pc = "idle" /\ bugs = "idle" /\ \A c \in Components : gen[c] = NotGenerated
    BY DEF Init, DurableInit
  <1>2. \A c \in Components : BatchOK(c)
    BY <1>1 DEF BatchOK, NotGenerated
  <1>3. QED BY <1>1, <1>2, ImportInit DEF BatchInv, BatchCacheOK, BugsOK, OverOK

KeepsBatches == \A k \in DOMAIN cache' : BatchLike(k) => k \in DOMAIN cache /\ cache'[k] = cache[k]
KeepsFile(f) == f \in DOMAIN files => f \in DOMAIN files' /\ files'[f] = files[f]
KeepsBatchFiles == \A c \in Batches : KeepsFile(SpecFile(Stem(c))) /\ KeepsFile(PropertiesFile(Stem(c)))

LEMMA WriteAux ==
  ASSUME NEW f \in AuxFiles, NEW v, WriteText(f, v) PROVE KeepsBatchFiles
  <1>1. /\ DOMAIN files' = DOMAIN files \cup {f}
        /\ \A x \in DOMAIN files : x # f => files'[x] = files[x]
    BY WriteFacts
  <1>2. \A c \in Batches : f # SpecFile(Stem(c)) /\ f # PropertiesFile(Stem(c))
    BY AuxApart DEF Batches
  <1>3. QED BY <1>1, <1>2 DEF KeepsBatchFiles, KeepsFile

LEMMA PutNoBatch ==
  ASSUME NEW k, ~BatchLike(k), NEW v, CachePut(k, v) PROVE KeepsBatches
  <1>1. /\ DOMAIN cache' = DOMAIN cache \cup {k}
        /\ \A x \in DOMAIN cache : x # k => cache'[x] = cache[x]
    BY PutFacts
  <1>2. QED BY <1>1 DEF KeepsBatches

LEMMA NoneKept ==
  /\ UNCHANGED cache => KeepsBatches
  /\ UNCHANGED files => KeepsBatchFiles
  BY DEF KeepsBatches, KeepsBatchFiles, KeepsFile

LEMMA CacheKept ==
  ASSUME BatchCacheOK, KeepsBatches PROVE BatchCacheOK'
  BY DEF BatchCacheOK, KeepsBatches

LEMMA SameNames ==
  ASSUME UNCHANGED <<backend, comp>>
  PROVE  /\ Batches' = Batches
         /\ \A c : Stem(c)' = Stem(c) /\ Namesakes(c)' = Namesakes(c) /\ RunKey(c)' = RunKey(c)
  <1>1. Batches' = Batches
    BY DEF Batches
  <1>2. \A c : Stem(c)' = Stem(c) /\ RunKey(c)' = RunKey(c)
    BY <1>1 DEF Stem, FoundryBase, SlugifiedName, RunKey
  <1>3. \A c : Namesakes(c)' = Namesakes(c)
    BY <1>1, <1>2 DEF Namesakes
  <1>4. QED BY <1>1, <1>2, <1>3

\* A step that has nothing to do with the batches.
LEMMA BatchQuiet ==
  ASSUME BatchInv, ImportInv', UNCHANGED <<backend, comp, gen>>, KeepsBatches, KeepsBatchFiles,
         bugs' = bugs \/ (bugs' # "done" /\ run'.pc \notin {"idle", "invariants", "generate", "over"}),
         run'.pc \in {"invariants", "generate", "over"} => bugs = "done",
         run'.pc = "idle" => run.pc = "idle",
         run'.pc = "over" => UNCHANGED <<run, files, invs>>
  PROVE  BatchInv'
  <1>1. Batches' = Batches /\ (\A c : Stem(c)' = Stem(c)) /\ \A c : Namesakes(c)' = Namesakes(c)
    BY SameNames
  <1>2. BugsOK'
    <2>1. CASE bugs' = "done"
      <3>1. bugs = "done" /\ bugs' = bugs
        BY <2>1 DEF BatchInv, BugsOK
      <3>2. ASSUME NEW c \in Batches, Listed(c) PROVE Listed(c)'
        BY <1>1, <3>2 DEF Listed, KeepsBatchFiles, KeepsFile, PropertiesFile
      <3>3. QED BY <1>1, <3>1, <3>2 DEF BatchInv, BugsOK
    <2>2. CASE bugs' # "done"
      BY <2>2 DEF BatchInv, BugsOK
    <2>3. QED BY <2>1, <2>2
  <1>3. ASSUME NEW c \in Components PROVE BatchOK(c)'
    <2>1. BatchOK(c)
      BY DEF BatchInv
    <2>2. QED BY <1>1, <2>1 DEF BatchOK, Delivered, KeepsBatchFiles, KeepsFile, SpecFile
  <1>4. OverOK'
    <2>1. Gathered' = Gathered /\ Failures' = Failures /\ \A c : RunKey(c)' = RunKey(c)
      BY <1>1 DEF Gathered, Failures, RunKey, SlugifiedName
    <2>2. QED BY <1>1, <2>1 DEF BatchInv, OverOK, LinkOf
  <1>5. BatchCacheOK'
    BY CacheKept DEF BatchInv
  <1>6. QED BY <1>2, <1>3, <1>4, <1>5 DEF BatchInv

LEMMA BatchPipeline ==
  ASSUME BatchInv, ImportInv',
         \/ StartRun \/ AnalyseComponents \/ ClassifyContracts \/ GenerateHarnesses \/ ApplyHarnessResult
         \/ WriteHarnesses \/ RunAutoSetupPhase \/ SetupSummaries
         \/ ReuseInvariants \/ (\E n \in InvNames : JudgeInvariant(n)) \/ DeliverInvariants
         \/ JoinStreams \/ GenerateInvariants \/ WriteInvariants
  PROVE  BatchInv'
  <1> DEFINE Bugs == bugs' = bugs \/ (bugs' # "done" /\ run'.pc \notin {"idle", "invariants", "generate", "over"})
             Pc == /\ run'.pc \in {"invariants", "generate"} => bugs = "done"
                   /\ run'.pc \notin {"idle", "over"}
             Kept == KeepsBatches /\ KeepsBatchFiles /\ UNCHANGED <<backend, comp, gen>>
  <1> SUFFICES Bugs /\ Pc /\ Kept
    BY BatchQuiet
  <1>0. RunShape /\ \A pc : [run EXCEPT !.pc = pc].pc = pc
    BY DEF BatchInv, ImportInv, Shape, RunShape
  <1>a. /\ <<"harness">> \in AuxFiles /\ <<"summaries">> \in AuxFiles /\ <<"custom_summaries">> \in AuxFiles
        /\ PropertiesFile(InvStem) \in AuxFiles /\ InvFile \in AuxFiles
    BY DEF AuxFiles
  <1>b. /\ ~BatchLike(SourceAnalysisKey) /\ ~BatchLike(SetupKey) /\ ~BatchLike(AutoSetupKey)
        /\ ~BatchLike(Child(SetupKey, "harness-analysis")) /\ ~BatchLike(Child(SetupKey, "harnesses"))
        /\ \A config : ~BatchLike(<<"summary", config>>)
        /\ ~BatchLike(InvariantsKey) /\ ~BatchLike(InvCVLKey)
    BY PipelineKeys DEF OtherKey
  <1>1. CASE StartRun
    <2>1. run'.pc = "analysis"
      BY <1>0, <1>1 DEF StartRun, RunShape
    <2>2. QED BY <1>1, <2>1, NoneKept DEF StartRun, streams, durableVars
  <1>2. CASE AnalyseComponents
    <2>1. KeepsBatches /\ KeepsBatchFiles
      BY <1>2, <1>b, PutNoBatch, NoneKept DEF AnalyseComponents
    <2>2. run'.pc \in {"harness", "streams", "failed"} /\ (bugs' = bugs \/ bugs' = "running")
      BY <1>0, <1>2 DEF AnalyseComponents, Goto, Fail
    <2>3. QED BY <1>2, <2>1, <2>2 DEF AnalyseComponents
  <1>3. CASE ClassifyContracts
    <2>1. KeepsBatches /\ KeepsBatchFiles
      <3>1. UNCHANGED cache \/ \E d : CachePut(Child(SetupKey, "harness-analysis"), d)
        BY <1>3 DEF ClassifyContracts
      <3>2. QED BY <1>3, <1>b, <3>1, PutNoBatch, NoneKept DEF ClassifyContracts
    <2>2. \E pc \in {"harnessed", "harnessing", "described"} : \E d : run' = [run EXCEPT !.desc = {d}, !.pc = pc]
      BY <1>3 DEF ClassifyContracts
    <2>3. run'.pc \in {"harnessed", "harnessing", "described"}
      BY <1>0, <2>2 DEF RunShape
    <2>4. QED BY <1>3, <2>1, <2>3 DEF ClassifyContracts, streams
  <1>4. CASE GenerateHarnesses \/ ApplyHarnessResult
    <2>1. KeepsBatches /\ KeepsBatchFiles
      BY <1>4, <1>b, PutNoBatch, NoneKept DEF GenerateHarnesses, ApplyHarnessResult
    <2>2. run'.pc \in {"described", "harnessed", "failed"}
      BY <1>0, <1>4 DEF GenerateHarnesses, ApplyHarnessResult, Goto, Fail
    <2>3. QED BY <1>4, <2>1, <2>2 DEF GenerateHarnesses, ApplyHarnessResult, streams
  <1>5. CASE WriteHarnesses
    <2>1. KeepsBatches /\ KeepsBatchFiles
      BY <1>5, <1>a, WriteAux, NoneKept DEF WriteHarnesses
    <2>2. run'.pc = "streams" /\ bugs' = "running"
      BY <1>0, <1>5 DEF WriteHarnesses, Goto
    <2>3. QED BY <1>5, <2>1, <2>2 DEF WriteHarnesses
  <1>6. CASE RunAutoSetupPhase
    <2>1. KeepsBatches /\ KeepsBatchFiles
      <3>1. \/ UNCHANGED durableVars
            \/ \E v : WriteText(<<"summaries">>, v) /\ CachePut(AutoSetupKey, v)
        BY <1>6 DEF RunAutoSetupPhase
      <3>2. QED BY <1>a, <1>b, <3>1, PutNoBatch, WriteAux, NoneKept DEF durableVars
    <2>2. QED BY <1>6, <2>1 DEF RunAutoSetupPhase, InStreams
  <1>7. CASE SetupSummaries
    <2>1. KeepsBatches /\ KeepsBatchFiles
      <3>1. \/ UNCHANGED durableVars
            \/ \E config : /\ WriteText(<<"custom_summaries">>, config)
                           /\ UNCHANGED cache \/ CachePut(<<"summary", config>>, config)
        BY <1>7 DEF SetupSummaries
      <3>2. QED BY <1>a, <1>b, <3>1, PutNoBatch, WriteAux, NoneKept DEF durableVars
    <2>2. QED BY <1>7, <2>1 DEF SetupSummaries, InStreams
  <1>8. CASE ReuseInvariants \/ DeliverInvariants \/ \E n \in InvNames : JudgeInvariant(n)
    <2>1. /\ UNCHANGED <<backend, run, bugs, comp, gen, files>> /\ run.pc \in {"streams", "failed"}
          /\ UNCHANGED cache \/ \E inv : CachePut(InvariantsKey, inv)
      BY <1>8 DEF ReuseInvariants, DeliverInvariants, JudgeInvariant, InStreams, durableVars
    <2>2. KeepsBatches /\ KeepsBatchFiles
      BY <1>b, <2>1, PutNoBatch, NoneKept
    <2>3. QED BY <2>1, <2>2
  <1>9. CASE JoinStreams
    <2>1. UNCHANGED <<backend, streams, gen, durableVars>>
      BY <1>9 DEF JoinStreams
    <2>2. run'.pc = "failed" \/ (bugs = "done" /\ run'.pc \in {"failed", "invariants", "generate"})
      BY <1>0, <1>9 DEF JoinStreams, Goto, Fail
    <2>3. QED BY <2>1, <2>2, NoneKept DEF streams, durableVars
  <1>10. CASE GenerateInvariants
    <2>1. /\ UNCHANGED <<backend, bugs, comp, gen>> /\ run.pc = "invariants"
          /\ WriteText(PropertiesFile(InvStem), invs.inv)
          /\ UNCHANGED cache \/ \E v : CachePut(InvCVLKey, v)
          /\ UNCHANGED run \/ run' = [run EXCEPT !.pc = "failed"]
      BY <1>10 DEF GenerateInvariants, Fail, Goto
    <2>2. KeepsBatches /\ KeepsBatchFiles
      BY <1>a, <1>b, <2>1, PutNoBatch, WriteAux, NoneKept
    <2>3. run'.pc \in {"invariants", "failed"} /\ bugs = "done"
      BY <1>0, <2>1 DEF BatchInv, BugsOK
    <2>4. QED BY <2>1, <2>2, <2>3
  <1>11. CASE WriteInvariants
    <2>1. \E cvl : WriteText(InvFile, cvl)
      BY <1>11 DEF WriteInvariants, InvFile
    <2>2. KeepsBatches /\ KeepsBatchFiles
      BY <1>11, <1>a, <2>1, WriteAux, NoneKept DEF WriteInvariants
    <2>3. run'.pc = "generate" /\ run.pc = "invariants"
      BY <1>0, <1>11 DEF WriteInvariants, Goto
    <2>4. QED BY <1>11, <2>2, <2>3 DEF WriteInvariants, streams, BatchInv, BugsOK
  <1>12. QED BY <1>1, <1>2, <1>3, <1>4, <1>5, <1>6, <1>7, <1>8, <1>9, <1>10, <1>11

\* A run that ends, or has not begun, has no batches.
LEMMA BatchQuit ==
  ASSUME BatchInv, ImportInv', Quit \/ RemoveOutputs
  PROVE  BatchInv'
  <1>1. BatchCacheOK'
    BY NoneKept, CacheKept DEF BatchInv, Quit, RemoveOutputs, durableVars
  <1>2. CASE Quit
    <2>1. run'.pc = "idle" /\ bugs' = "idle" /\ \A c \in Components : gen'[c] = NotGenerated
      BY <1>2 DEF Quit, Fresh, BatchInv, ImportInv, Shape, RunShape
    <2>2. \A c \in Components : BatchOK(c)'
      BY <2>1 DEF BatchOK, NotGenerated
    <2>3. QED BY <1>1, <2>1, <2>2 DEF BatchInv, BugsOK, OverOK
  <1>3. CASE RemoveOutputs
    <2>1. UNCHANGED <<run, bugs, gen, comp>> /\ run.pc = "idle"
      BY <1>3 DEF RemoveOutputs, streams
    <2>2. bugs = "idle" /\ \A c \in Components : gen[c].at = "none"
      BY <2>1 DEF BatchInv, ImportInv, GenOK, Generating, BugsOK
    <2>3. \A c \in Components : BatchOK(c)'
      BY <2>1, <2>2 DEF BatchInv, BatchOK
    <2>4. QED BY <1>1, <2>1, <2>2, <2>3 DEF BatchInv, BugsOK, OverOK
  <1>4. QED BY <1>2, <1>3

\* Extraction goes on until every component is done, before any generation.
LEMMA BatchExtract ==
  ASSUME BatchInv, ImportInv', NEW c \in Components, Extract(c)
  PROVE  BatchInv'
  <1>1. Infer(c) /\ UNCHANGED <<backend, run, bugs, gen>> /\ run.pc \in {"streams", "failed"} /\ bugs # "idle"
    BY DEF Extract
  <1>2. comp[c].at # "done"
    BY <1>1 DEF Infer, ReuseAnalysis, RunBugRound, EndRounds, SettleProperties, InferenceRaises, InRounds
  <1>3. bugs # "done" /\ \A d \in Components : gen[d].at = "none"
    BY <1>1, <1>2 DEF BatchInv, ImportInv, GenOK, Generating, BugsOK
  <1>4. BatchCacheOK'
    <2>1. \/ UNCHANGED cache
          \/ \E k \in {BugAnalysisKey(c), AgentResultKey(c), AgentRoundKey(c, comp[c].round)} :
                \E v : CachePut(k, v)
      BY <1>1 DEF Infer, ReuseAnalysis, RunBugRound, EndRounds, SettleProperties, InferenceRaises, durableVars
    <2>2. \A k \in {BugAnalysisKey(c), AgentResultKey(c), AgentRoundKey(c, comp[c].round)} : ~BatchLike(k)
      BY InferenceKeys DEF OtherKey
    <2>3. KeepsBatches
      BY <2>1, <2>2, PutNoBatch, NoneKept
    <2>4. QED BY <2>3, CacheKept DEF BatchInv
  <1>5. \A d \in Components : BatchOK(d)'
    BY <1>1, <1>3 DEF BatchInv, BatchOK
  <1>6. BugsOK' /\ OverOK'
    BY <1>1, <1>3 DEF BugsOK, OverOK
  <1>7. QED BY <1>4, <1>5, <1>6 DEF BatchInv

\* The list of each batch lands in a file of its name.
LEMMA BatchListed ==
  ASSUME BatchInv, ImportInv', EndExtraction
  PROVE  BatchInv'
  <1>1. /\ UNCHANGED <<backend, run, comp, gen, cache>> /\ run.pc \in {"streams", "failed"}
        /\ \/ bugs' = "raised"
           \/ /\ \A c \in Components : comp[c].at = "done"
              /\ WriteAnalysisProperties(Batches)
    BY DEF EndExtraction
  <1>2. Batches' = Batches /\ (\A c : Stem(c)' = Stem(c)) /\ \A c : Namesakes(c)' = Namesakes(c)
    BY <1>1, SameNames
  <1>3. BatchCacheOK'
    BY <1>1, NoneKept, CacheKept DEF BatchInv
  <1>4. \A c \in Components : gen[c].at = "none"
    BY <1>1 DEF BatchInv, ImportInv, GenOK, Generating
  <1>5. \A c \in Components : BatchOK(c)'
    BY <1>1, <1>4 DEF BatchInv, BatchOK
  <1>6. BugsOK'
    <2>1. CASE bugs' = "raised"
      BY <1>1, <2>1 DEF BugsOK
    <2>2. CASE (\A c \in Components : comp[c].at = "done") /\ WriteAnalysisProperties(Batches)
      <3>1. ASSUME NEW c \in Batches PROVE Listed(c)'
        <4> DEFINE f == PropertiesFile(Stem(c))
                   d == CHOOSE e \in Batches : f = PropertiesFile(Stem(e))
        <4>1. d \in Batches /\ f = PropertiesFile(Stem(d))
          OBVIOUS
        <4>2. d \in Namesakes(c)
          <5> HIDE DEF d
          <5>1. QED BY <4>1, FilesApart
        <4>3. f \in DOMAIN files' /\ files'[f] = comp[d].props
          BY <2>2 DEF WriteAnalysisProperties
        <4> HIDE DEF d
        <4>4. QED BY <1>1, <1>2, <4>2, <4>3 DEF Listed, PropertiesFile
      <3>2. QED BY <1>1, <1>2, <2>2, <3>1 DEF BugsOK
    <2>3. QED BY <1>1, <2>1, <2>2
  <1>7. QED BY <1>1, <1>3, <1>5, <1>6 DEF BatchInv, OverOK

\* The steps of one batch: what they do to its own record, file and key.
LEMMA BatchStep ==
  ASSUME BatchInv, ImportInv', NEW c \in Components,
         GenerateBatch(c) \/ EndBatch(c) \/ WriteBatch(c)
  PROVE  BatchInv'
  <1>0. GenShape /\ BatchOK(c) /\ Generation(gen[c])
    BY DEF BatchInv, ImportInv, Shape, GenShape
  <1>1. /\ UNCHANGED <<backend, run, bugs, comp>> /\ c \in Batches /\ run.pc \in {"generate", "over"}
        /\ \A d \in Components \ {c} : gen'[d] = gen[d]
    BY <1>0 DEF GenerateBatch, EndBatch, WriteBatch, streams, GenShape, BatchInv, ImportInv, GenOK, Generating, BatchOK
  <1>2. run.pc # "over"
    <2>1. SUFFICES ASSUME run.pc = "over" PROVE FALSE
      OBVIOUS
    <2>2. gen[c].at \in {"written", "gave_up", "raised"}
      BY <1>1, <2>1 DEF BatchInv, OverOK, Gathered
    <2>3. QED BY <2>1, <2>2 DEF GenerateBatch, EndBatch, WriteBatch
  <1>3. Batches' = Batches /\ (\A d : Stem(d)' = Stem(d)) /\ \A d : Namesakes(d)' = Namesakes(d)
    BY <1>1, SameNames
  <1>4. UNCHANGED files \/ \E v : WriteText(SpecFile(Stem(c)), v)
    BY DEF GenerateBatch, EndBatch, WriteBatch, durableVars
  <1>5. ASSUME NEW d \in Batches
        PROVE  /\ KeepsFile(PropertiesFile(Stem(d)))
               /\ SpecFile(Stem(d)) # SpecFile(Stem(c)) => KeepsFile(SpecFile(Stem(d)))
    <2>1. PropertiesFile(Stem(d)) # SpecFile(Stem(c))
      BY <1>1, FilesApart
    <2>2. CASE UNCHANGED files
      BY <2>2 DEF KeepsFile
    <2>3. ASSUME NEW v, WriteText(SpecFile(Stem(c)), v)
          PROVE  /\ KeepsFile(PropertiesFile(Stem(d)))
                 /\ SpecFile(Stem(d)) # SpecFile(Stem(c)) => KeepsFile(SpecFile(Stem(d)))
      <3>1. /\ DOMAIN files' = DOMAIN files \cup {SpecFile(Stem(c))}
            /\ \A x \in DOMAIN files : x # SpecFile(Stem(c)) => files'[x] = files[x]
        BY <2>3, WriteFacts
      <3>2. QED BY <2>1, <3>1 DEF KeepsFile
    <2>4. QED BY <1>4, <2>2, <2>3
  <1>a. ASSUME WriteBatch(c)
        PROVE  /\ SpecFile(Stem(c)) \in DOMAIN files'
               /\ gen'[c].cvl = {files'[SpecFile(Stem(c))]} /\ gen'[c].cvl = gen[c].cvl
               /\ gen'[c].at = "written"
    <2>1. PICK v \in gen[c].cvl : WriteText(SpecFile(Stem(c)), v)
      BY <1>a DEF WriteBatch
    <2>2. gen'[c].at = "written" /\ gen'[c].cvl = gen[c].cvl
      BY <1>0, <1>a DEF WriteBatch, GenShape, Generation
    <2>3. SpecFile(Stem(c)) \in DOMAIN files' /\ files'[SpecFile(Stem(c))] = v
      BY ONLY <2>1 DEF WriteText, Extended
    <2>4. gen[c].cvl = {v}
      BY <1>0, <2>1 DEF BatchOK
    <2>5. QED BY <2>2, <2>3, <2>4
  <1>b. \A e \in Components : gen[e].cvl # {} => gen'[e].cvl = gen[e].cvl
    <2>1. CASE WriteBatch(c)
      BY <1>1, <1>a, <2>1
    <2>2. CASE GenerateBatch(c) \/ EndBatch(c)
      <3>1. gen[c].cvl = {}
        BY <1>0, <2>2 DEF GenerateBatch, EndBatch, BatchOK
      <3>2. QED BY <1>1, <3>1
    <2>3. QED BY <2>1, <2>2
  <1>c. ASSUME NEW d \in Batches, Delivered(d) PROVE Delivered(d)'
    <2>1. CASE KeepsFile(SpecFile(Stem(d)))
      <3>1. PICK e \in Namesakes(d) : gen[e].cvl = {files[SpecFile(Stem(d))]}
        BY <1>c DEF Delivered
      <3>2. e \in Components /\ gen'[e].cvl = gen[e].cvl
        BY <1>b, <3>1 DEF Namesakes, Batches
      <3>3. SpecFile(Stem(d)) \in DOMAIN files' /\ files'[SpecFile(Stem(d))] = files[SpecFile(Stem(d))]
        BY <1>c, <2>1 DEF Delivered, KeepsFile
      <3>4. SpecFile(Stem(d))' = SpecFile(Stem(d)) /\ e \in Namesakes(d)'
        BY <1>3, <3>1 DEF SpecFile
      <3>5. QED BY <3>1, <3>2, <3>3, <3>4 DEF Delivered
    <2>2. CASE ~KeepsFile(SpecFile(Stem(d)))
      <3>1. SpecFile(Stem(d)) = SpecFile(Stem(c))
        BY <1>5, <2>2
      <3>2. c \in Namesakes(d)
        BY <1>1, <3>1, FilesApart
      <3>3. WriteBatch(c)
        BY <2>2 DEF GenerateBatch, EndBatch, durableVars, KeepsFile
      <3>4. /\ SpecFile(Stem(d)) \in DOMAIN files'
            /\ gen'[c].cvl = {files'[SpecFile(Stem(d))]}
        BY <1>a, <3>1, <3>3
      <3>5. SpecFile(Stem(d))' = SpecFile(Stem(d)) /\ c \in Namesakes(d)'
        BY <1>3, <3>2 DEF SpecFile
      <3>6. QED BY <3>4, <3>5 DEF Delivered
    <2>3. QED BY <2>1, <2>2
  <1>6. BatchCacheOK'
    <2>1. CASE UNCHANGED cache
      BY <2>1, NoneKept, CacheKept DEF BatchInv
    <2>2. CASE CachePut(BatchKey(c), GeneratedCVL(c))
      <3>1. /\ DOMAIN cache' = DOMAIN cache \cup {BatchKey(c)} /\ cache'[BatchKey(c)] = GeneratedCVL(c)
            /\ \A x \in DOMAIN cache : x # BatchKey(c) => cache'[x] = cache[x]
        BY <2>2, PutFacts
      <3>2. GeneratedCVL(c).props = BatchKey(c)[4]
        BY BatchKeys DEF GeneratedCVL
      <3>3. QED BY <3>1, <3>2 DEF BatchInv, BatchCacheOK
    <2>3. QED BY <2>1, <2>2 DEF GenerateBatch, EndBatch, WriteBatch, durableVars
  <1>7. BugsOK'
    <2>1. ASSUME NEW d \in Batches, Listed(d) PROVE Listed(d)'
      BY <1>1, <1>3, <1>5, <2>1 DEF Listed, KeepsFile, PropertiesFile
    <2>2. QED BY <1>1, <1>3, <2>1 DEF BatchInv, BugsOK
  <1>8. ASSUME NEW d \in Components \ {c} PROVE BatchOK(d)'
    <2>1. BatchOK(d)
      BY DEF BatchInv
    <2>2. gen[d].at = "written" => Delivered(d)'
      BY <1>c, <2>1 DEF BatchOK
    <2>3. QED BY <1>1, <1>3, <2>1, <2>2 DEF BatchOK
  <1>9. BatchOK(c)'
    <2>1. CASE GenerateBatch(c) /\ Cached(BatchKey(c))
      <3>1. gen'[c] = [at |-> "result", cvl |-> {CacheGet(BatchKey(c))}]
        BY <1>0, <2>1 DEF GenerateBatch, GenShape
      <3>2. CacheGet(BatchKey(c)).props = comp[c].props
        BY <2>1, BatchKeys DEF BatchInv, BatchCacheOK, Cached, CacheGet
      <3>3. QED BY <1>1, <1>3, <3>1, <3>2 DEF BatchOK
    <2>2. CASE GenerateBatch(c) /\ ~Cached(BatchKey(c))
      <3>1. gen'[c].at = "generating" /\ gen'[c].cvl = gen[c].cvl /\ gen[c].at = "none"
        BY <1>0, <2>2 DEF GenerateBatch, GenShape, Generation
      <3>2. QED BY <1>0, <1>1, <1>3, <3>1 DEF BatchOK
    <2>3. CASE EndBatch(c)
      <3>1. \/ gen'[c] = [at |-> "result", cvl |-> {GeneratedCVL(c)}]
            \/ gen'[c].at \in {"gave_up", "raised"} /\ gen'[c].cvl = gen[c].cvl
        BY <1>0, <2>3 DEF EndBatch, GenShape, Generation
      <3>2. GeneratedCVL(c).props = comp[c].props /\ gen[c].cvl = {}
        BY <1>0, <2>3 DEF GeneratedCVL, EndBatch, BatchOK
      <3>3. QED BY <1>1, <1>3, <3>1, <3>2 DEF BatchOK
    <2>4. CASE WriteBatch(c)
      <3>1. Delivered(c)'
        <4>1. c \in Namesakes(c)' /\ SpecFile(Stem(c))' = SpecFile(Stem(c))
          BY <1>1, <1>3 DEF Namesakes, SpecFile
        <4>2. QED BY <1>a, <2>4, <4>1 DEF Delivered
      <3>2. gen[c].cvl # {} /\ \A w \in gen[c].cvl : w.props = comp[c].props /\ gen[c].cvl = {w}
        BY <1>0, <2>4 DEF BatchOK, WriteBatch
      <3>3. QED BY <1>1, <1>3, <1>a, <2>4, <3>1, <3>2 DEF BatchOK
    <2>5. QED BY <2>1, <2>2, <2>3, <2>4
  <1>10. OverOK'
    BY <1>1, <1>2 DEF OverOK
  <1>11. QED BY <1>6, <1>7, <1>8, <1>9, <1>10 DEF BatchInv

\* What the run records of a batch is the result of a batch of its name, or the
\* invariants' where they have its key.
LEMMA RunsRecorded ==
  ASSUME BatchInv, Gathered, backend = "prover", NEW c \in Batches \ Failures
  PROVE  LinkOf(ComponentRuns, c)
  <1> DEFINE done == Batches \ Failures
             keys == {RunKey(e) : e \in done} \cup (IF invs.cvl # {} THEN {InvStem} ELSE {})
             d == CHOOSE e \in done : RunKey(e) = RunKey(c)
  <1>1. RunKey(c) \in keys
    OBVIOUS
  <1>2. CASE RunKey(c) = InvStem /\ invs.cvl # {}
    BY <1>1, <1>2 DEF ComponentRuns, LinkOf
  <1>3. CASE ~(RunKey(c) = InvStem /\ invs.cvl # {})
    <2>1. ComponentRuns[RunKey(c)] = gen[d].cvl
      BY <1>1, <1>3 DEF ComponentRuns
    <2>2. d \in done /\ RunKey(d) = RunKey(c)
      OBVIOUS
    <2> HIDE DEF d
    <2>3. d \in Namesakes(c)
      <3>1. Stem(d) = Stem(c)
        BY <2>2 DEF Stem, RunKey
      <3>2. QED BY <2>2, <3>1, StemsApart
    <2>4. gen[d].cvl # {}
      BY <2>2 DEF Gathered, Failures, BatchInv, BatchOK, Batches
    <2>5. QED BY <1>3, <2>1, <2>3, <2>4 DEF LinkOf
  <1>4. QED BY <1>2, <1>3

LEMMA BatchEnd ==
  ASSUME BatchInv, ImportInv', EndRun \/ EndFoundryRun
  PROVE  BatchInv'
  <1>1. /\ UNCHANGED <<backend, bugs, comp, gen, cache, invs>> /\ run.pc = "generate" /\ Gathered
        /\ run' = [run EXCEPT !.pc = "over", !.failures = Failures]
    BY DEF EndRun, EndFoundryRun, streams
  <1>2. run'.pc = "over" /\ run'.failures = Failures
    BY <1>1 DEF BatchInv, ImportInv, Shape, RunShape
  <1>3. /\ Batches' = Batches /\ Gathered' = Gathered /\ Failures' = Failures
        /\ \A c : Stem(c)' = Stem(c) /\ RunKey(c)' = RunKey(c) /\ Namesakes(c)' = Namesakes(c)
    <2>1. /\ Batches' = Batches
          /\ \A c : Stem(c)' = Stem(c) /\ RunKey(c)' = RunKey(c) /\ Namesakes(c)' = Namesakes(c)
      BY <1>1, SameNames
    <2>2. QED BY <1>1, <2>1 DEF Gathered, Failures
  <1>4. KeepsBatchFiles /\ (backend = "prover" => files'[<<"component_runs">>] = ComponentRuns)
    <2>0. <<"component_runs">> # <<"report">> /\ {<<"component_runs">>, <<"report">>} \subseteq AuxFiles
      BY DEF AuxFiles
    <2>1. CASE EndFoundryRun
      BY <2>0, <2>1, WriteAux DEF EndFoundryRun
    <2>2. CASE EndRun
      <3>1. \A c \in Batches, f \in {<<"component_runs">>, <<"report">>} :
              f # SpecFile(Stem(c)) /\ f # PropertiesFile(Stem(c))
        BY <2>0, AuxApart DEF Batches
      <3>2. PICK a, b : /\ a = ComponentRuns
                        /\ \/ files' = Extended(files, <<"component_runs">>, a)
                           \/ files' = Extended(Extended(files, <<"component_runs">>, a), <<"report">>, b)
        BY <2>2 DEF EndRun
      <3>3. KeepsBatchFiles
        BY <3>1, <3>2 DEF KeepsBatchFiles, KeepsFile, Extended
      <3>4. files'[<<"component_runs">>] = a
        BY <2>0, <3>2 DEF Extended
      <3>5. QED BY <3>2, <3>3, <3>4
    <2>3. QED BY <2>1, <2>2
  <1>5. BatchCacheOK'
    BY <1>1, NoneKept, CacheKept DEF BatchInv
  <1>6. BugsOK'
    <2>1. ASSUME NEW c \in Batches, Listed(c) PROVE Listed(c)'
      BY <1>1, <1>3, <1>4, <2>1 DEF Listed, KeepsBatchFiles, KeepsFile, PropertiesFile
    <2>2. QED BY <1>1, <1>2, <1>3, <2>1 DEF BatchInv, BugsOK
  <1>7. ASSUME NEW c \in Components PROVE BatchOK(c)'
    <2>1. BatchOK(c)
      BY DEF BatchInv
    <2>2. QED BY <1>1, <1>3, <1>4, <2>1 DEF BatchOK, Delivered, KeepsBatchFiles, KeepsFile, SpecFile
  <1>8. OverOK'
    <2>1. backend = "prover" => \A c \in Batches \ Failures : LinkOf(files'[<<"component_runs">>], c)
      BY <1>1, <1>4, RunsRecorded
    <2>2. QED BY <1>1, <1>2, <1>3, <2>1 DEF OverOK, LinkOf
  <1>9. QED BY <1>5, <1>6, <1>7, <1>8 DEF BatchInv

LEMMA BatchNext == BatchInv /\ [Next]_vars => BatchInv'
  <1> SUFFICES ASSUME BatchInv, [Next]_vars PROVE BatchInv'
    OBVIOUS
  <1>1. ImportInv'
    BY ImportNext DEF BatchInv
  <1>2. CASE UNCHANGED vars
    <2>1. UNCHANGED <<backend, run, bugs, invs, comp, gen, cache, files>>
      BY <1>2 DEF vars, streams, durableVars
    <2>2. KeepsBatches /\ KeepsBatchFiles
      BY <2>1, NoneKept
    <2>3. run.pc \in {"invariants", "generate", "over"} => bugs = "done"
      BY DEF BatchInv, BugsOK
    <2>4. UNCHANGED <<backend, comp, gen>> /\ bugs' = bugs /\ run' = run /\ files' = files /\ invs' = invs
      BY <2>1
    <2>5. QED BY <1>1, <2>2, <2>3, <2>4, BatchQuiet
  <1>3. CASE Next
    BY <1>1, <1>3, BatchPipeline, BatchQuit, BatchExtract, BatchListed, BatchStep, BatchEnd DEF Next
  <1>4. QED BY <1>2, <1>3

\* When a run is over, each batch counts as a failure or has a spec, a list and a
\* prover run on record under its name (common_pipeline.py), which are its own but
\* for a batch whose slug is another one's slug with its index.
THEOREM BatchesAreAccounted == Spec => []BatchesAccounted
  <1>1. BatchInv => BatchesAccounted
    <2> SUFFICES ASSUME BatchInv PROVE BatchesAccounted
      OBVIOUS
    <2>1. run.pc = "failed" => \A c \in Components : gen[c].at = "none"
      BY DEF BatchInv, ImportInv, GenOK, Generating
    <2>2. ASSUME run.pc = "over", NEW c \in Batches, c \in run.failures PROVE gen[c].cvl = {}
      <3>1. c \in Components /\ gen[c].at \in {"gave_up", "raised"}
        BY <2>2 DEF BatchInv, OverOK, Failures, Batches
      <3>2. QED BY <3>1 DEF BatchInv, BatchOK
    <2>3. ASSUME run.pc = "over", NEW c \in Batches, c \notin run.failures
          PROVE  /\ gen[c].cvl # {} /\ Delivered(c) /\ Listed(c)
                 /\ \A cvl \in gen[c].cvl : cvl.props = comp[c].props
                 /\ backend = "prover" => LinkOf(files[<<"component_runs">>], c)
      <3>1. c \in Components /\ gen[c].at = "written" /\ c \in Batches \ Failures
        BY <2>3 DEF BatchInv, OverOK, Gathered, Failures, Batches
      <3>2. /\ gen[c].cvl # {} /\ Delivered(c)
            /\ \A cvl \in gen[c].cvl : cvl.props = comp[c].props
        BY <3>1 DEF BatchInv, BatchOK
      <3>3. Listed(c)
        BY <2>3 DEF BatchInv, BugsOK
      <3>4. backend = "prover" => LinkOf(files[<<"component_runs">>], c)
        BY <2>3, <3>1 DEF BatchInv, OverOK
      <3>5. QED BY <3>2, <3>3, <3>4
    <2>4. QED BY <2>1, <2>2, <2>3 DEF BatchesAccounted, Delivered, Listed, LinkOf
  <1>2. QED BY <1>1, BatchInit, BatchNext, PTL DEF Spec
=============================================================================
