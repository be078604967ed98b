------------------------------ MODULE ProverRun ------------------------------
(***************************************************************************)
(* One run of the prover (composer/prover/core.py, cloud.py): a child      *)
(* process with two pipes, the job it leaves in the cloud, the download    *)
(* and the verdicts.  The module that extends this one decides when a run  *)
(* starts and what its answer means.                                       *)
(***************************************************************************)
EXTENDS Naturals, FiniteSets

CONSTANTS
  MaxLines,      \* lines of output a child writes, at most
  MaxErrors,     \* chunks of errors a child writes, at most
  PipeSize,      \* lines or chunks a pipe and its reader's buffer hold
  Rules          \* the rules of the spec

VARIABLE proc

Verdicts == [Rules -> {"VERIFIED", "VIOLATED", "TIMEOUT"}]

\* at: where run_prover is.  lines, errors: what the child still has to write.
\* out, err: what is buffered and not yet read.  job: the state of the cloud's.
NoProver == [at |-> "none", out |-> 0, err |-> 0, lines |-> 0, errors |-> 0, exited |-> FALSE,
             job |-> "none", answer |-> "none", verdicts |-> [r \in Rules |-> "TIMEOUT"]]

Finish(answer) == proc' = [proc EXCEPT !.at = "done", !.answer = answer]

StartProver ==
  \E l \in 0..MaxLines, e \in 0..MaxErrors :
    proc' = [NoProver EXCEPT !.at = "stdout", !.lines = l, !.errors = e]

\* The child writes errors and output as they come, where there is room: with a
\* full pipe it waits for its reader.  It exits when all is written.
ChildLives == proc.at \in {"stdout", "stderr"} /\ ~proc.exited
ChildWritesLine ==
  /\ ChildLives /\ proc.lines > 0 /\ proc.out < PipeSize
  /\ proc' = [proc EXCEPT !.out = @ + 1, !.lines = @ - 1]
ChildWritesError ==
  /\ ChildLives /\ proc.errors > 0 /\ proc.err < PipeSize
  /\ proc' = [proc EXCEPT !.err = @ + 1, !.errors = @ - 1]
ChildExits ==
  /\ ChildLives /\ proc.lines = 0 /\ proc.errors = 0
  /\ proc' = [proc EXCEPT !.exited = TRUE]

\* Mutant: the child is waited for before its output is read.
WaitThenRead ==
  /\ proc.at = "stdout" /\ proc.exited
  /\ proc' = [proc EXCEPT !.out = 0, !.at = "stderr"]

\* readline: a line, or the end of the stream once the child is gone.
ReadLine ==
  /\ proc.at = "stdout"
  /\ \/ proc.out > 0 /\ proc' = [proc EXCEPT !.out = @ - 1]
     \/ proc.out = 0 /\ proc.exited /\ proc' = [proc EXCEPT !.at = "stderr"]

\* The child waits for room for its errors and the reader for its output.
ErrorsFill == proc.at = "stdout" /\ proc.err = PipeSize /\ proc.errors > 0

ReadErrors ==
  /\ proc.at = "stderr"
  /\ \/ proc.err > 0 /\ proc' = [proc EXCEPT !.err = @ - 1]
     \/ proc.err = 0 /\ proc.exited /\ proc' = [proc EXCEPT !.at = "result"]

\* The exit code and the result file: a message to the agent, or a link to a
\* local directory or to a job.
ReadResult ==
  /\ proc.at = "result"
  /\ \/ Finish("message")
     \/ proc' = [proc EXCEPT !.at = "parse"]
     \/ proc' = [proc EXCEPT !.at = "poll", !.job = "RUNNING"]

JobEnds ==
  /\ proc.at = "poll" /\ proc.job = "RUNNING"
  /\ \E s \in {"SUCCEEDED", "FAILED"} : proc' = [proc EXCEPT !.job = s]

\* A poll that sees the job ended, and the download; a poll, a job or a download
\* that fails and a poll that is cut off at the timeout raise.
Poll ==
  /\ proc.at = "poll"
  /\ \/ proc.job = "SUCCEEDED" /\ proc' = [proc EXCEPT !.at = "parse"]
     \/ Finish("raised")

\* read_and_format_run_result: a message, or a verdict for every rule; the
\* counterexamples are analysed by a model, which may raise.
ParseResults ==
  /\ proc.at = "parse"
  /\ \/ Finish("message")
     \/ \E v \in Verdicts :
          proc' = [proc EXCEPT !.verdicts = v,
                               !.at = IF \E r \in Rules : v[r] = "VIOLATED" THEN "analyse" ELSE "done",
                               !.answer = IF \E r \in Rules : v[r] = "VIOLATED" THEN @ ELSE "report"]
AnalyseViolations ==
  /\ proc.at = "analyse"
  /\ Finish("report") \/ Finish("raised")

AllVerified == proc.answer = "report" /\ \A r \in Rules : proc.verdicts[r] = "VERIFIED"

ProverStep ==
  \/ ChildWritesLine \/ ChildWritesError \/ ChildExits \/ ReadLine \/ ReadErrors
  \/ ReadResult \/ JobEnds \/ Poll \/ ParseResults \/ AnalyseViolations
=============================================================================
