------------------------------- MODULE JobRun -------------------------------
(***************************************************************************)
(* The tasks of one pipeline run: run_task (io/multi_job.py), the scope of *)
(* each with its event queue and drainer (io/context.py), the graphs that  *)
(* run and nest in it (io/graph_runner.py; ThreadLog has their log), what  *)
(* ui/multi_job_app.py shows of them.  The body of the task Refiner is a   *)
(* refinement conversation, that of every other task runs graphs.          *)
(***************************************************************************)
EXTENDS Conversation, SequencesExt

CONSTANTS
  Tasks, Refiner,
  PhaseOf,        \* the section of the summary a task belongs to
  Graphs,         \* threads of one task
  MaxRunning,     \* the permits of the pipeline's semaphore
  MaxItems        \* bound: stream items of one graph

ASSUME JobAssumption ==
  /\ MaxRunning \in Nat \ {0} /\ MaxItems \in Nat
  /\ DOMAIN PhaseOf = Tasks /\ Refiner \in Tasks

VARIABLES
  pc,        \* the point of run_task
  section,   \* _phase_sections: "none", "mounting" or "mounted"
  status,    \* _task_statuses
  sem,       \* holders of the semaphore, then its waiters in order
  body,      \* how the body of the task ended, if it did
  graph,     \* the graphs of a task
  queue,     \* the EventQueue of its scope
  drainer,   \* its background task
  pushed,    \* history: the events emitted in its scope
  handled,   \* history: the events its handler was given
  due,       \* history: how many had been emitted when its body ended
  phases     \* RunSummary.phases: the tasks recorded, with their error flag

jobVars == <<pc, section, status, sem, body, graph, queue, drainer, pushed, handled, due, phases>>
vars == <<jobVars, conv>>

\* No graph is running yet.  A path is the chain of threads of an event.
Idle == [st |-> "new", path |-> <<>>, items |-> 0, unused |-> FALSE]

Init ==
  /\ ConvInit
  /\ pc = [t \in Tasks |-> "new"]
  /\ section = [p \in {PhaseOf[t] : t \in Tasks} |-> "none"]
  /\ status = [t \in Tasks |-> "none"]
  /\ sem = <<>>
  /\ body = [t \in Tasks |-> "none"]
  /\ graph = [t \in Tasks |-> [g \in Graphs |-> Idle]]
  /\ queue = [t \in Tasks |-> EmptyQueue]
  /\ drainer = [t \in Tasks |-> "none"]
  /\ pushed = [t \in Tasks |-> <<>>]
  /\ handled = [t \in Tasks |-> <<>>]
  /\ due = [t \in Tasks |-> 0]
  /\ phases = {}

\* Mutant: the tasks do not share the semaphore.
EveryWaiter == {sem[i] : i \in 1..Len(sem)}

Holders == {sem[i] : i \in 1..(IF Len(sem) < MaxRunning THEN Len(sem) ELSE MaxRunning)}
Running(t, g) == graph[t][g].st \in {"streaming", "interrupted", "answered"}
Terminal(s) == s \in {"done", "error"}

\* The body waits for a graph of its own.
Busy(t) == \E g \in Graphs : Running(t, g) /\ Len(graph[t][g].path) = 1

\* The tool calls of a message are gathered: when one raises or asks a human, the
\* graph ends or stops, and the others run on with nobody waiting for them.
LeavesCalls(r) == r.st \in {"interrupted", "answered", "raised"} \/ r.unused

\* Otherwise a graph waits for those its tools started.
Awaits(t, g) == \E h \in Graphs : Running(t, h) /\ Front(graph[t][h].path) = graph[t][g].path

\* on_task_status_change; the order of the rows is left out.
Show(t, s) == status' = [status EXCEPT ![t] = s]

-----------------------------------------------------------------------------
(* make_handler and run_task *)

\* A section is registered before its mount is awaited.
EnsurePhaseSection(p) == section' = [section EXCEPT ![p] = IF @ = "none" THEN "mounting" ELSE @]

\* A second task of the phase may then look for a child that the section does
\* not have yet: its factory raises, outside of run_task's try.
MakeHandler(t) ==
  /\ pc[t] = "new"
  /\ EnsurePhaseSection(PhaseOf[t])
  /\ pc' = [pc EXCEPT ![t] = CASE section[PhaseOf[t]] = "none" -> "section"
                               [] section[PhaseOf[t]] = "mounting" -> "unhandled"
                               [] OTHER -> "row"]
  /\ UNCHANGED <<status, sem, body, graph, queue, drainer, pushed, handled, due, phases, conv>>

SectionMounted(t) ==
  /\ pc[t] = "section"
  /\ section' = [section EXCEPT ![PhaseOf[t]] = "mounted"]
  /\ pc' = [pc EXCEPT ![t] = "row"]
  /\ UNCHANGED <<status, sem, body, graph, queue, drainer, pushed, handled, due, phases, conv>>

\* The row and the panel are mounted; the task asks for its permit.
RowMounted(t) ==
  /\ pc[t] = "row"
  /\ status' = [status EXCEPT ![t] = "pending"]
  /\ sem' = Append(sem, t)
  /\ pc' = [pc EXCEPT ![t] = "queued"]
  /\ UNCHANGED <<section, body, graph, queue, drainer, pushed, handled, due, phases, conv>>

StartTask(t) ==
  /\ pc[t] = "queued" /\ t \in Holders
  /\ Show(t, "running")
  /\ pc' = [pc EXCEPT ![t] = "body"]
  /\ drainer' = [drainer EXCEPT ![t] = "draining"]
  /\ UNCHANGED <<section, sem, body, graph, queue, pushed, handled, due, phases, conv>>

\* The body is over: with_handler closes the queue and waits for the drainer.
LeaveBody(t, how) ==
  /\ body' = [body EXCEPT ![t] = how]
  /\ queue' = [queue EXCEPT ![t] = Close(@)]
  /\ due' = [due EXCEPT ![t] = Len(pushed[t])]
  /\ pc' = [pc EXCEPT ![t] = "closing"]
  /\ UNCHANGED <<section, status, sem, graph, drainer, pushed, handled, phases>>

\* The body runs no graph of its own; nested ones may run on.
EndBody(t) ==
  /\ pc[t] = "body" /\ ~Busy(t)
  /\ IF t = Refiner
     THEN ConvOver /\ conv' = Opening /\ LeaveBody(t, IF conv.at = "closed" THEN "returned" ELSE "raised")
     ELSE UNCHANGED conv /\ \E how \in {"returned", "raised"} : LeaveBody(t, how)

\* Mutant: an exception of the task keeps the permit.
ReleaseOnSuccess(t) ==
  \E i \in DOMAIN sem : sem[i] = t /\ sem' = IF body[t] = "returned" THEN RemoveAt(sem, i) ELSE sem

Release(t) == \E i \in DOMAIN sem : sem[i] = t /\ sem' = RemoveAt(sem, i)

RecordPhase(t, ok) == phases' = phases \cup {[task |-> t, error |-> ~ok]}

\* The scope's exit: the drainer returned, or raised its handler's exception in
\* the place of the body's outcome, or outlived the timeout and was cancelled.
\* Nobody reads what graphs left behind emit after it, so they end here.
LeaveScope(t) ==
  /\ pc[t] = "closing"
  /\ \/ (queue[t].at = "returned" \/ drainer[t] = "raised") /\ UNCHANGED drainer
     \/ drainer[t] = "draining" /\ queue[t].at = "yield" /\ drainer' = [drainer EXCEPT ![t] = "cancelled"]
  /\ LET ok == body[t] = "returned" /\ drainer[t] # "raised"
     IN  /\ Show(t, IF ok THEN "done" ELSE "error")
         /\ RecordPhase(t, ok)
  /\ Release(t)
  /\ pc' = [pc EXCEPT ![t] = "over"]
  /\ queue' = [queue EXCEPT ![t] = EmptyQueue]
  /\ pushed' = [pushed EXCEPT ![t] = <<>>] /\ handled' = [handled EXCEPT ![t] = <<>>]
  /\ due' = [due EXCEPT ![t] = 0]
  /\ graph' = [graph EXCEPT ![t] = [g \in Graphs |-> Idle]]
  /\ UNCHANGED <<section, body, conv>>

-----------------------------------------------------------------------------
(* run_graph *)

\* The sink of a graph: the queue's push, wrapped once per enclosing graph.
Emit(t, g, kind) ==
  LET e == [kind |-> kind, path |-> graph'[t][g].path]
  IN  /\ pushed' = [pushed EXCEPT ![t] = Append(@, e)]
      /\ queue' = [queue EXCEPT ![t] = Push(@, e)]

\* Graphs left behind by their callers also run while the scope closes.
GraphStep(t) == t # Refiner /\ pc[t] \in {"body", "closing"}
GraphFrame == UNCHANGED <<pc, section, sem, body, drainer, handled, due, phases, conv>>

\* A graph of the body, or one that a tool call of the graph h starts.
StartGraph(t, g) ==
  /\ GraphStep(t) /\ graph[t][g].st = "new"
  /\ \/ /\ pc[t] = "body" /\ ~Busy(t)
        /\ graph' = [graph EXCEPT ![t][g] = [@ EXCEPT !.st = "streaming", !.path = <<g>>]]
     \/ \E h \in Graphs :
          /\ graph[t][h].st = "streaming" \/ LeavesCalls(graph[t][h])
          /\ graph' = [graph EXCEPT ![t][g] = [@ EXCEPT !.st = "streaming", !.path = graph[t][h].path \o <<g>>]]
  /\ Emit(t, g, "start")
  /\ GraphFrame /\ UNCHANGED status

StreamItem(t, g) ==
  /\ GraphStep(t) /\ graph[t][g].st = "streaming" /\ graph[t][g].items < MaxItems
  /\ graph' = [graph EXCEPT ![t][g].items = @ + 1]
  /\ Emit(t, g, "item")
  /\ GraphFrame /\ UNCHANGED status

\* An __interrupt__: human_interaction shows the prompt and waits.  The tools that
\* ask a human belong to the graph of a body.
Interrupt(t, g) ==
  /\ GraphStep(t) /\ graph[t][g].st = "streaming" /\ Len(graph[t][g].path) = 1
  /\ graph' = [graph EXCEPT ![t][g].st = "interrupted"]
  /\ Show(t, "waiting_hitl")
  /\ GraphFrame /\ UNCHANGED <<queue, pushed>>

\* The answer becomes the next input of the graph and the stream is left; the
\* code then goes on behind the loop, so that input is never used.
Answered(t, g) ==
  /\ GraphStep(t) /\ graph[t][g].st = "interrupted"
  /\ graph' = [graph EXCEPT ![t][g] = [@ EXCEPT !.st = "answered", !.unused = TRUE]]
  /\ Show(t, "running")
  /\ GraphFrame /\ UNCHANGED <<queue, pushed>>

\* Mutant: End is emitted on success only.
EndOnSuccess(t, g) ==
  /\ GraphStep(t) /\ graph[t][g].st \in {"streaming", "answered"}
  /\ \/ /\ graph[t][g].st = "streaming" => ~Awaits(t, g)
        /\ graph' = [graph EXCEPT ![t][g].st = "over"]
        /\ Emit(t, g, IF graph[t][g].unused THEN "left" ELSE "end")
     \/ /\ graph' = [graph EXCEPT ![t][g].st = "raised"]
        /\ UNCHANGED <<queue, pushed>>
  /\ GraphFrame /\ UNCHANGED status

\* The run of g ends: End is emitted and the thread's record completed in any
\* case, here with the kind of an end that leaves tool calls behind.
EndGraph(t, g) ==
  /\ GraphStep(t)
  /\ \/ graph[t][g].st = "answered" /\ graph' = [graph EXCEPT ![t][g].st = "over"]
     \/ graph[t][g].st = "streaming" /\ ~Awaits(t, g) /\ graph' = [graph EXCEPT ![t][g].st = "over"]
     \/ graph[t][g].st = "streaming" /\ graph' = [graph EXCEPT ![t][g].st = "raised"]
  /\ Emit(t, g, IF LeavesCalls(graph'[t][g]) THEN "left" ELSE "end")
  /\ GraphFrame /\ UNCHANGED status

-----------------------------------------------------------------------------
(* _queue_drainer *)

DrainFrame == UNCHANGED <<pc, section, status, sem, body, graph, pushed, due, phases, conv>>

Drain(t) ==
  /\ drainer[t] = "draining" /\ CanWake(queue[t])
  /\ queue' = [queue EXCEPT ![t] = Wake(@)]
  /\ UNCHANGED <<handled, drainer>> /\ DrainFrame

Handle(t) ==
  /\ drainer[t] = "draining" /\ queue[t].at = "yield"
  /\ handled' = [handled EXCEPT ![t] = Append(@, Current(queue[t]))]
  /\ queue' = [queue EXCEPT ![t] = Advance(@)]
  /\ UNCHANGED drainer /\ DrainFrame

HandlerRaises(t) ==
  /\ drainer[t] = "draining" /\ queue[t].at = "yield"
  /\ drainer' = [drainer EXCEPT ![t] = "raised"]
  /\ UNCHANGED <<handled, queue>> /\ DrainFrame

\* The conversation of the task Refiner; its prompts show in the summary.
Converse(step) ==
  /\ pc[Refiner] = "body" /\ step
  /\ IF conv'.at = "prompt" /\ conv.at # "prompt" THEN Show(Refiner, "waiting_hitl")
     ELSE IF conv.at = "prompt" /\ conv'.at # "prompt" THEN Show(Refiner, "running")
     ELSE UNCHANGED status
  /\ UNCHANGED <<pc, section, sem, body, graph, queue, drainer, pushed, handled, due, phases>>

-----------------------------------------------------------------------------

TaskStep(t) ==
  \/ MakeHandler(t) \/ SectionMounted(t) \/ RowMounted(t) \/ StartTask(t)
  \/ EndBody(t) \/ LeaveScope(t)
  \/ \E g \in Graphs : EndGraph(t, g)

Machine(t) == TaskStep(t) \/ Drain(t) \/ Handle(t)

\* human_turn waits for a Checkpoint that no reader will reach.
ReaderStuck == pc[Refiner] = "body" /\ conv.at = "draining" /\ conv.reader = "raised"

Next ==
  \/ \E t \in Tasks :
       \/ Machine(t) \/ HandlerRaises(t)
       \/ \E g \in Graphs :
            \/ StartGraph(t, g) \/ Interrupt(t, g) \/ Answered(t, g)
            \/ StreamItem(t, g)
  \/ Converse(ConvNext)

Spec == Init /\ [][Next]_vars
FairSpec == Spec /\ (\A t \in Tasks : WF_vars(Machine(t))) /\ WF_vars(Converse(ConvProgress))

-----------------------------------------------------------------------------
(* Properties *)

\* A handler is given the events of its scope in the order of their emission,
\* none twice, and before its drainer returns at least all that were emitted when
\* the body ended; in the conversation, all of them before the human is asked.
EventsDelivered ==
  /\ \A t \in Tasks :
       /\ IsPrefix(handled[t], pushed[t])
       /\ queue[t].at = "returned" => due[t] <= Len(handled[t])
  /\ PromptBelowOutput

\* The events of a graph lie between its Start and its End, one of each, and
\* between those of the graphs around it; only below a graph that raised, or was
\* interrupted, may they go on behind the End of that one and of those above it.
\* A body that is over has left open no other graphs.
PathsNest ==
  \A t \in Tasks :
     LET p == pushed[t]
         Of(i, kinds) == {p[j].path : j \in {j \in 1..i : p[j].kind \in kinds}}
         Open(i) == Of(i, {"start"}) \ Of(i, {"end", "left"})
         Abandoned(path, k, i) == \E j \in k..(Len(path) - 1) : SubSeq(path, 1, j) \in Of(i, {"left"})
     IN  /\ \A i \in 1..Len(p) :
              /\ IF p[i].kind = "start" THEN p[i].path \notin Of(i - 1, {"start"})
                 ELSE p[i].path \in Open(i - 1)
              /\ \A k \in 1..(Len(p[i].path) - 1) :
                    \/ SubSeq(p[i].path, 1, k) \in Open(i)
                    \/ SubSeq(p[i].path, 1, k) \in Of(i, {"start"}) /\ Abandoned(p[i].path, k, i)
         /\ pc[t] = "closing" => \A path \in Open(Len(p)) : Abandoned(path, 1, Len(p))

\* The summary is truthful: a task shown as active has a permit, one shown as
\* done returned with its drainer undisturbed, and the timing record agrees.
SummaryTruthful ==
  /\ Cardinality({t \in Tasks : status[t] \in {"running", "waiting_hitl"}}) <= MaxRunning
  /\ \A t \in Tasks :
       /\ status[t] \in {"running", "waiting_hitl"} => t \in Holders
       /\ status[t] = "done" => body[t] = "returned" /\ drainer[t] # "raised"
       /\ Terminal(status[t]) <=> [task |-> t, error |-> status[t] = "error"] \in phases

\* A task that waits for a permit ends, unless a human or a conversation whose
\* reader died keeps a permit.
TasksEnd ==
  \A t \in Tasks :
     pc[t] = "queued" ~> (pc[t] = "over" \/ ReaderStuck \/ \E u \in Tasks : status[u] = "waiting_hitl")

\* graph_runner.py:51-53: "calls human_handler with the interrupt value and
\* current state, then resumes with the returned string".
AnswerResumes ==
  \A t \in Tasks : \A g \in Graphs :
     graph[t][g].st = "over" => ~graph[t][g].unused
=============================================================================
