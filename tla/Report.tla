------------------------------- MODULE Report -------------------------------
(***************************************************************************)
(* The autoprove report (spec/source/report): the verdicts of the prover   *)
(* runs are fetched, merged and attached to the properties of the          *)
(* components, a model groups the properties, and the grouping is          *)
(* validated or replaced by one bucket.  The inputs are the components in  *)
(* their order with the structural invariants last.                        *)
(***************************************************************************)
EXTENDS Naturals, Sequences, FiniteSets, SequencesExt, Functions

CONSTANTS
  Components,     \* the sequences of inputs to be reported
  RunsOf(_),      \* what the runs of an input's link may have checked
  Groupings(_)    \* drafts a model may return for a set of property keys

\* A check is [rule, file, status]: file is "" without a source location.
Statuses == {"VERIFIED", "VIOLATED", "TIMEOUT", "UNKNOWN"}
Priority == [VIOLATED |-> 6, ERROR |-> 5, TIMEOUT |-> 4, UNKNOWN |-> 3, RUNNING |-> 2, PENDING |-> 1, VERIFIED |-> 0]

\* A run's checks of one rule that have a location have it in one file.
ChecksOk(cs) ==
  /\ cs \in Seq(Range(cs))
  /\ \A i \in DOMAIN cs : cs[i].status \in Statuses
  /\ \A i, j \in DOMAIN cs :
       cs[i].rule = cs[j].rule /\ cs[i].file # "" /\ cs[j].file # "" => cs[i].file = cs[j].file

InputsOk(in) ==
  /\ in \in Seq(Range(in))
  /\ \A k, l \in DOMAIN in : in[k].name = in[l].name => k = l
  /\ \A k \in DOMAIN in :
       /\ in[k].props \in Seq(Range(in[k].props))
       /\ in[k].file # ""
       /\ \A cs \in RunsOf(in[k]) : ChecksOk(cs)

\* What a model may return for some of the keys of the inputs: groups of keys.
GroupingsOk(in) ==
  \A keys \in SUBSET UNION {{in[k].name} \X Range(in[k].props) : k \in DOMAIN in} :
    \A drafts \in Groupings(keys) :
      /\ drafts \in Seq(Range(drafts))
      /\ \A g \in DOMAIN drafts : drafts[g] \in Seq(Range(drafts[g]))

\* The component names are unique, and none is the structural invariants'.
ASSUME ReportAssumption == \A in \in Components : InputsOk(in) /\ GroupingsOk(in)

VARIABLES
  inputs,         \* ReportComponentInput: name, file, props, result
  checks,         \* what get_all_checks returns for each, {} of them if it fails
  stage,          \* "open", then "built" or "failed"
  report          \* the AutoProverReport, once built

vars == <<inputs, checks, stage, report>>

Ran(k) == inputs[k].result.generated

\* Mutant: the verdict that was reported last wins.
MergeLast(v, o) == IF o = <<>> THEN v ELSE [v EXCEPT !.file = IF v.file # "" THEN @ ELSE o.file]

\* _Verdict.merge: the most terminal status wins, the file is kept.
Merge(v, o) ==
  IF o = <<>> THEN v
  ELSE LET hi == IF Priority[v.status] >= Priority[o.status] THEN v ELSE o
           lo == IF hi = v THEN o ELSE v
       IN  [hi EXCEPT !.file = IF hi.file # "" THEN @ ELSE lo.file]

\* One verdict per rule name of a run: a fold over its checks.
AddCheck(c, vs) ==
  [r \in DOMAIN vs \cup {c.rule} |->
     IF r # c.rule THEN vs[r]
     ELSE Merge([status |-> c.status, file |-> c.file], IF r \in DOMAIN vs THEN vs[r] ELSE <<>>)]

Verdicts(cs) == FoldSeq(AddCheck, [r \in {} |-> <<>>], cs)

VerdictsOf(k) == IF Ran(k) /\ inputs[k].link THEN Verdicts(checks[k]) ELSE [r \in {} |-> <<>>]

\* The identity of a rule: the file of its verdict, or the input's own.
Ref(k, rule) ==
  LET vs == VerdictsOf(k)
  IN  <<IF rule \in DOMAIN vs /\ vs[rule].file # "" THEN vs[rule].file ELSE inputs[k].file, rule>>

Skipped(k, title) == title \in inputs[k].result.skipped
Mapped(k, title) == title \in DOMAIN inputs[k].result.rules

\* The formalized properties, in order; a residue is dropped.
Formalized(k, title) ==
  IF ~Ran(k) \/ Skipped(k, title) \/ ~Mapped(k, title) THEN <<>>
  ELSE <<[key |-> <<inputs[k].name, title>>, refs |-> {Ref(k, r) : r \in inputs[k].result.rules[title]}]>>

Properties ==
  FlattenSeq([k \in 1..Len(inputs) |->
    FlattenSeq([i \in DOMAIN inputs[k].props |-> Formalized(k, inputs[k].props[i])])])

SkippedClaims ==
  UNION {{<<inputs[k].name, t>> : t \in {t \in Range(inputs[k].props) : Ran(k) /\ Skipped(k, t)}} :
           k \in 1..Len(inputs)}
GaveUp == {inputs[k].name : k \in {k \in 1..Len(inputs) : ~Ran(k)}}

Referenced == UNION {p.refs : p \in Range(Properties)}

\* rules_by_key: the first run that names a rule wins.
RefsOf(k) == {Ref(k, r) : r \in DOMAIN VerdictsOf(k)}
StatusOf(ref) ==
  IF \E k \in 1..Len(inputs) : ref \in RefsOf(k)
  THEN VerdictsOf(CHOOSE k \in 1..Len(inputs) : ref \in RefsOf(k) /\ \A l \in 1..(k - 1) : ref \notin RefsOf(l))[ref[2]].status
  ELSE "UNKNOWN"
DroppedOrphans == Cardinality((UNION {RefsOf(k) : k \in 1..Len(inputs)}) \ Referenced)

AggregateStatus(statuses) ==
  IF "VIOLATED" \in statuses THEN "VIOLATED"
  ELSE IF "VERIFIED" \notin statuses THEN "NO_RESULTS"
  ELSE IF statuses = {"VERIFIED"} THEN "VERIFIED" ELSE "PARTIAL"

Keys == {p.key : p \in Range(Properties)}
\* props_by_key: the last property with a key is the one found under it.
ByKey(key) == Properties[CHOOSE i \in DOMAIN Properties :
                 Properties[i].key = key /\ \A j \in (i + 1)..Len(Properties) : Properties[j].key # key]

\* A group is given by the sequence of its members.
BuildGroups(drafts) ==
  [g \in DOMAIN drafts |->
     [members |-> drafts[g],
      status |-> AggregateStatus({StatusOf(ref) : ref \in UNION {ByKey(k).refs : k \in Range(drafts[g]) \cap Keys}})]]

BuildFallbackGrouping == <<[i \in DOMAIN Properties |-> Properties[i].key]>>

\* Mutant: an unknown member is accepted.
ValidRepeated(drafts) == LET all == FlattenSeq(drafts) IN Cardinality(Range(all)) = Len(all)

\* validate raises on a member listed twice or unknown, not on a missing one.
Valid(drafts) ==
  LET all == FlattenSeq(drafts)
  IN  Cardinality(Range(all)) = Len(all) /\ Range(all) \subseteq Keys

Accept(drafts) == Valid(drafts) /\ (Keys # {} => FlattenSeq(drafts) # <<>>)

AutoProverReport(drafts) ==
  [groups |-> BuildGroups(drafts), properties |-> Range(Properties),
   rules |-> Referenced, skipped |-> SkippedClaims, gaveUp |-> GaveUp,
   orphans |-> DroppedOrphans, missing |-> Keys \ Range(FlattenSeq(drafts))]

Init ==
  /\ inputs \in Components
  /\ checks \in [1..Len(inputs) -> {<<>>}]
  /\ stage = "open" /\ report = <<>>

\* get_all_checks of every link, one thread each; a failure is an empty answer.
FetchVerdicts(k) ==
  /\ stage = "open" /\ Ran(k) /\ inputs[k].link /\ checks[k] = <<>>
  /\ \E cs \in RunsOf(inputs[k]) : checks' = [checks EXCEPT ![k] = cs]
  /\ UNCHANGED <<inputs, stage, report>>

\* The model's drafts, or the fallback when it raises or they are refused; the
\* fallback is validated too, and its failure is the report's.
BuildReport ==
  /\ stage = "open"
  /\ \E drafts \in Groupings(Keys) \cup {BuildFallbackGrouping} :
       LET used == IF Accept(drafts) THEN drafts ELSE BuildFallbackGrouping
       IN  /\ stage' = IF Valid(used) THEN "built" ELSE "failed"
           /\ report' = IF Valid(used) THEN AutoProverReport(used) ELSE <<>>
  /\ UNCHANGED <<inputs, checks>>

Next == BuildReport \/ \E k \in 1..Len(inputs) : FetchVerdicts(k)

Spec == Init /\ [][Next]_vars

-----------------------------------------------------------------------------
(* Properties *)

Built == stage = "built"

\* What the author's result says of a property; calls that unskip it beside the
\* result leave it without an answer (module CVLAuthor).
Answered(k, title) == Ran(k) => Skipped(k, title) \/ Mapped(k, title)

\* Every property of a component is in the report once, whatever the grouping:
\* in one group, as missing, as skipped, or with its component that gave up;
\* only one that its author's result says nothing of is nowhere (collect.py).
PropertiesPartitioned ==
  Built =>
    /\ \A k \in 1..Len(inputs) : \A t \in Range(inputs[k].props) :
         LET key == <<inputs[k].name, t>>
             homes == {g \in DOMAIN report.groups : key \in Range(report.groups[g].members)}
         IN  Cardinality(homes) + (IF key \in report.missing THEN 1 ELSE 0)
               + (IF key \in report.skipped THEN 1 ELSE 0) + (IF inputs[k].name \in report.gaveUp THEN 1 ELSE 0)
             = IF Answered(k, t) THEN 1 ELSE 0
    /\ \A g \in DOMAIN report.groups : Range(report.groups[g].members) \subseteq {p.key : p \in report.properties}

\* A group that is reported as verified was: every check that the first run
\* naming a rule of its members made of that rule verified it (collect.py).
VerifiedHonest ==
  Built =>
    \A g \in DOMAIN report.groups : report.groups[g].status = "VERIFIED" =>
      \A p \in report.properties : p.key \in Range(report.groups[g].members) =>
        \A ref \in p.refs :
          \E k \in 1..Len(inputs) :
            /\ \E i \in DOMAIN checks[k] : checks[k][i].rule = ref[2]
            /\ \A i \in DOMAIN checks[k] : checks[k][i].rule = ref[2] => checks[k][i].status = "VERIFIED"
            /\ \A l \in 1..(k - 1) : \A i \in DOMAIN checks[l] :
                 ~(checks[l][i].rule = ref[2] /\ checks[l][i].file = ref[1])

\* build.py:40-41: "The fallback bucket holds every property exactly once, so
\* the re-validate below cannot raise": not with two properties of one title.
AlwaysReported == stage # "failed"
=============================================================================
