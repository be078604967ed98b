------------------------------- MODULE Codegen -------------------------------
(***************************************************************************)
(* The code generation workflow: execute_ai_composer_workflow              *)
(* (composer/workflow/executor.py), the tools of its agent                 *)
(* (composer/tools, composer/natreq/judge.py), the stamps of its           *)
(* validations (composer/core) and the audit database                      *)
(* (composer/audit/db.py) from which a later workflow resumes.             *)
(*                                                                         *)
(* As in CVLAuthor a super-step is one message: its calls read the         *)
(* checkpoint ckpt[t] and their updates are merged at its end.             *)
(***************************************************************************)
EXTENDS ProverRun, Sequences, SequencesExt, Functions

CONSTANTS
  Threads,       \* the workflow threads, in the order they may be started
  Specs, Codes,  \* what a spec and a source file may contain, none of it empty
  Paths,         \* the sequence of the paths of a file system, in their order
  MaxCalls,      \* calls in one message
  MaxTurns,      \* messages of all workflows together
  MaxRuns        \* times a workflow is started

ASSUME CodegenAssumption ==
  /\ Paths \in Seq(Range(Paths)) \ {<<>>} /\ Paths[1] = "rules.spec" /\ Specs \cap Codes = {}
  /\ Threads \in Seq(Range(Threads)) /\ IsInjective(Threads)

None == "none"
Contents == Specs \cup Codes
NoFiles == [p \in {} |-> None]

VARIABLES
  ckpt,      \* the checkpoint of each thread: files, stamps and result
  layer,     \* the directory under its file system, with resume-dir
  reqs,      \* the requirements stored for it: "unset", "yes" or "no"
  run,       \* the workflow that runs: its thread, where it is, its message
  audit      \* of each thread: the final files and the resume artifact

vars == <<ckpt, layer, reqs, run, audit, proc>>
stores == <<layer, reqs, audit>>

\* The later map wins: a dict update, the vfs channel, an upsert of rows.
Over(new, old) == [p \in DOMAIN new \cup DOMAIN old |-> IF p \in DOMAIN new THEN new[p] ELSE old[p]]

\* materializer.iterate: the files of the state over those of the directory.
View(t, vfs) == Over(vfs, layer[t])

\* compute_state_digest: the contents in the order of their paths, nothing between.
Order(files) == {i \in DOMAIN Paths : Paths[i] \in files}
Rank(files, i) == Cardinality({j \in Order(files) : j <= i})
Digest(view) ==
  [n \in 1..Cardinality(Order(DOMAIN view)) |->
     view[Paths[CHOOSE i \in Order(DOMAIN view) : Rank(DOMAIN view, i) = n]]]

\* The stamps, and what the last complete verification and the last positive
\* judgement looked at; late: the files changed since the result was accepted, by
\* the rest of its message or by another start of the thread.
NoStamps == [prover |-> <<>>, reqs |-> <<>>, proved |-> NoFiles, judged |-> NoFiles]
Empty == [vfs |-> NoFiles, val |-> NoStamps, code |-> FALSE, late |-> {}]
Idle == [at |-> "idle", t |-> None, turns |-> 0, calls |-> 0, runs |-> 0,
         call |-> "none", next |-> Empty, writes |-> 0]

Init ==
  /\ ckpt = [t \in Range(Threads) |-> Empty]
  /\ layer = [t \in Range(Threads) |-> NoFiles]
  /\ reqs = [t \in Range(Threads) |-> "unset"]
  /\ run = Idle
  /\ audit = [t \in Range(Threads) |-> [files |-> NoFiles, intf |-> None]]
  /\ proc = NoProver

-----------------------------------------------------------------------------
(* The workflow up to its graph *)

\* get_resume_artifact: the joins want the interface among the final files.
HasArtifact(t) == {audit[t].intf, "rules.spec"} \subseteq DOMAIN audit[t].files

\* The input of a fresh run, of resume-id and of resume-dir: files and directory.
Inputs(t, i) ==
  IF i = 1 THEN {<<[p \in {"rules.spec"} |-> s], NoFiles>> : s \in Specs}
  ELSE LET src == Threads[i - 1]
       IN  {<<Over([p \in {"rules.spec"} |-> s], audit[src].files), NoFiles>> : s \in Specs}
             \cup {<<NoFiles, Over([p \in {"rules.spec"} |-> s], audit[src].files)>> : s \in Specs}

\* Requirements are read, extracted or skipped; the run is registered; without a
\* checkpoint id its input is merged into the thread's checkpoint.
Requirements(t, r) == reqs' = [reqs EXCEPT ![t] = IF @ = "unset" THEN r ELSE @]

Start(i) ==
  LET t == Threads[i]
  IN  /\ run.at = "idle" /\ run.runs < MaxRuns
      /\ i > 1 => HasArtifact(Threads[i - 1])
      /\ \E r \in {"yes", "no"} : Requirements(t, r)
      /\ \E in \in Inputs(t, i) :
           /\ layer' = [layer EXCEPT ![t] = in[2]]
           /\ ckpt' = [ckpt EXCEPT ![t].vfs = Over(in[1], @),
                                  ![t].late = IF ckpt[t].code THEN @ \cup DOMAIN in[1] \cup DOMAIN in[2] ELSE @]
           /\ run' = [run EXCEPT !.at = "model", !.t = t, !.runs = @ + 1]
      /\ UNCHANGED <<audit, proc>>

\* --thread-id and --checkpoint-id: the thread goes on from its last checkpoint.
Continue(t) ==
  /\ run.at = "idle" /\ run.runs < MaxRuns /\ reqs[t] # "unset"
  /\ run' = [run EXCEPT !.at = IF ckpt[t].code THEN "commentary" ELSE "model", !.t = t, !.runs = @ + 1]
  /\ UNCHANGED <<ckpt, layer, reqs, audit, proc>>

-----------------------------------------------------------------------------
(* A super-step *)

Now == ckpt[run.t]
Here == View(run.t, Now.vfs)
Frame == UNCHANGED <<ckpt, stores>>
End == run' = [Idle EXCEPT !.t = run.t, !.turns = run.turns, !.runs = run.runs]

\* The model sends its next message, or the recursion limit or an error raises.
SendMessage ==
  /\ run.at = "model" /\ run.turns < MaxTurns
  /\ run' = [run EXCEPT !.at = "tools", !.turns = @ + 1, !.calls = 0, !.next = [Empty EXCEPT !.val = Now.val], !.writes = 0]
  /\ Frame /\ UNCHANGED proc

Calls == run.at = "tools" /\ run.calls < MaxCalls /\ run.call = "none"
Return(update) == run' = [run EXCEPT !.calls = @ + 1, !.next = update]

PutFile ==
  /\ Calls
  /\ \E p \in Range(Paths) \ {"rules.spec"}, c \in Codes :
       Return([run.next EXCEPT !.vfs = Over([q \in {p} |-> c], @)])
  /\ Frame /\ UNCHANGED proc

\* One that does not parse is refused; two in a message make its step fail.  The
\* text is of no effect but on a run of the prover that stamps nothing.
WriteWorkingSpec ==
  /\ Calls
  /\ run' = [run EXCEPT !.calls = @ + 1, !.writes = @ + 1]
  /\ Frame /\ UNCHANGED proc

\* certora_prover: every rule of the master spec, or one rule or a working spec.
CallProver ==
  /\ Calls
  /\ \E c \in {"full", "part"} : run' = [run EXCEPT !.call = c]
  /\ StartProver
  /\ Frame

RunProver ==
  /\ run.call # "none" /\ ProverStep
  /\ UNCHANGED run /\ Frame

Verified == AllVerified /\ run.call = "full"
\* Mutant: a run of one rule stamps too.
StampAlways == AllVerified
\* The stamp needs every rule of the master spec verified.
Stamps == AllVerified /\ run.call = "full"

ProverAnswers ==
  /\ run.call # "none" /\ proc.at = "done" /\ proc.answer # "raised"
  /\ run' = [run EXCEPT !.calls = @ + 1, !.call = "none",
                        !.next.val.prover = IF Stamps THEN Digest(Here) ELSE @,
                        !.next.val.proved = IF Verified THEN Here ELSE @]
  /\ proc' = NoProver
  /\ Frame

\* requirements_evaluation: the judge's answer, one per requirement.
EvaluateRequirements ==
  /\ Calls /\ reqs[run.t] = "yes"
  /\ \/ Return(run.next)
     \/ Return([run.next EXCEPT !.val.reqs = Digest(Here), !.val.judged = Here])
  /\ Frame /\ UNCHANGED proc

CheckCompletion ==
  /\ Now.val.prover = Digest(Here)
  /\ reqs[run.t] = "yes" => Now.val.reqs = Digest(Here)

\* code_result; a refused one has no effect.
CodeResult ==
  /\ Calls /\ CheckCompletion
  /\ Return([run.next EXCEPT !.code = TRUE])
  /\ Frame /\ UNCHANGED proc

\* propose_spec_change, commit_working_spec, human_in_the_loop and
\* requirement_relaxation_request interrupt; the runner asks the human, does not
\* use the answer and returns the checkpoint (see JobRun).
AskHuman ==
  /\ Calls
  /\ IF Now.code THEN run' = [run EXCEPT !.at = "commentary", !.calls = 0, !.next = Empty, !.writes = 0] ELSE End
  /\ Frame /\ UNCHANGED proc

\* The updates are merged by the reducers; a result ends the graph.
EndMessage ==
  /\ run.at = "tools" /\ run.call = "none" /\ run.calls > 0 /\ run.writes < 2
  /\ LET new == [vfs |-> Over(run.next.vfs, Now.vfs), val |-> run.next.val,
                 code |-> Now.code \/ run.next.code,
                 late |-> IF run.next.code THEN DOMAIN run.next.vfs
                          ELSE IF Now.code THEN Now.late \cup DOMAIN run.next.vfs ELSE {}]
     IN  /\ ckpt' = [ckpt EXCEPT ![run.t] = new]
         /\ run' = [run EXCEPT !.at = IF new.code THEN "commentary" ELSE "model", !.next = Empty, !.calls = 0, !.writes = 0]
  /\ UNCHANGED <<stores, proc>>

-----------------------------------------------------------------------------
(* The workflow after its graph *)

\* Mutant: rows of an earlier completion are kept.
KeepFiles(new, old) == Over(old, new)
Upsert(new, old) == Over(new, old)

\* create_resume_commentary and register_complete, in one transaction; the
\* model names the interface.
RegisterComplete ==
  /\ run.at = "commentary"
  /\ \E p \in Range(Paths) \ {"rules.spec"} :
       audit' = [audit EXCEPT ![run.t] = [files |-> Upsert(Here, @.files), intf |-> p]]
  /\ run' = [run EXCEPT !.at = "output"]
  /\ UNCHANGED <<ckpt, layer, reqs, proc>>

\* handler.output: the files of the final state are handed over.
Output ==
  /\ run.at = "output"
  /\ End
  /\ UNCHANGED <<ckpt, layer, reqs, audit, proc>>

\* Whatever raises: the recursion limit, the model, a tool, two writes of one
\* channel, the commentary, the audit database, the output.  The snapshot of the
\* last checkpoint only becomes text of the next run's prompt.
Crash ==
  /\ \/ run.at \in {"model", "commentary", "output"}
     \/ run.at = "tools" /\ run.call = "none" /\ (run.writes > 1 \/ run.calls = 0)
     \/ run.call # "none" /\ proc.answer = "raised"
  /\ End /\ proc' = NoProver
  /\ UNCHANGED <<ckpt, stores>>

Work ==
  \/ SendMessage \/ PutFile \/ WriteWorkingSpec \/ CallProver \/ RunProver \/ ProverAnswers
  \/ EvaluateRequirements \/ CodeResult \/ AskHuman \/ EndMessage
  \/ RegisterComplete \/ Output \/ Crash

Next ==
  \/ \E i \in DOMAIN Threads : Start(i) \/ Continue(Threads[i])
  \/ Work

Spec == Init /\ [][Next]_vars
\* Child, cloud, tools and program go on; nobody has to start a workflow.
FairSpec == Spec /\ WF_vars(Work)

-----------------------------------------------------------------------------
(* Properties *)

\* The code a workflow hands over was verified completely by the prover and, if
\* there are requirements, found to satisfy them, except for the files that
\* changed after the result was accepted (tools/result.py: check_completion).
DeliveredValidated ==
  \A t \in Range(Threads) :
    (run.t = t /\ run.at = "output") =>
      \A v \in {ckpt[t].val.proved} \cup (IF reqs[t] = "yes" THEN {ckpt[t].val.judged} ELSE {}) :
        \A p \in Range(Paths) \ ckpt[t].late :
          /\ p \in DOMAIN v <=> p \in DOMAIN View(t, ckpt[t].vfs)
          /\ p \in DOMAIN v => v[p] = View(t, ckpt[t].vfs)[p]

\* The files a later workflow resumes from are the ones that are handed over,
\* also when the thread completed before (audit/db.py: register_complete).
ResumeFaithful ==
  \A t \in Range(Threads) :
    (run.t = t /\ run.at = "output") => audit[t].files = View(t, ckpt[t].vfs)

\* A started workflow ends, unless the prover's child fills the pipe of its
\* errors while its output is being read (prover/core.py:201).
RunEnds == (run.at # "idle") ~> (run.at = "idle" \/ ErrorsFill)
=============================================================================
