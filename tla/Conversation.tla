---------------------------- MODULE Conversation ----------------------------
(***************************************************************************)
(* One refinement conversation: the graph chat_node -> llm_echo -> tools   *)
(* of spec/refinement.py, the session of ui/multi_job_app.py that renders  *)
(* its progress through a queue of its own, and the human who answers.     *)
(* conv.at is the step of refinement_loop, conv.data the extra_data of the *)
(* last checkpoint, conv.curr the copy the loop shows on "/list".          *)
(***************************************************************************)
EXTENDS AsyncDataQueue, FiniteSets

CONSTANTS
  Formulations,   \* the property lists the conversation can settle on
  MaxSteps,       \* the recursion limit of the graph, in calls of the model
  MaxAnswers      \* bound: answers of the human in one conversation

ASSUME ConversationAssumption == Formulations # {} /\ MaxSteps \in Nat /\ MaxAnswers \in Nat

VARIABLE conv

\* The tool calls of one message: SetRequirements with a list, Exit, others.
Calls == {c \in SUBSET ([tool : {"set"}, new : Formulations] \cup [tool : {"exit", "explore"}]) :
            Cardinality(c) <= 2}
Sets(calls) == {c.new : c \in {d \in calls : d.tool = "set"}}
Exits(calls) == [tool |-> "exit"] \in calls

\* The list of the extraction rounds is opened with.
Opening ==
  LET d == CHOOSE d \in Formulations : TRUE
  IN  [at |-> "opening", data |-> d, curr |-> d, calls |-> {}, asked |-> d, lost |-> FALSE,
       queue |-> EmptyQueue, spinner |-> FALSE, reader |-> "reading", answers |-> 0, steps |-> 0]

ConvInit == conv = Opening

\* progress_update: synchronous, from the loop.
Progress(c, events) == [c EXCEPT !.queue = PushAll(c.queue, events)]

\* __aenter__ mounts the banner and starts the reader; the first node of the
\* graph is chat_node, whose interrupt has no message to show.
OpenConversation ==
  /\ conv.at = "opening"
  /\ conv' = [conv EXCEPT !.at = "turn"]

\* human_turn begins with _drain: a Checkpoint is queued behind the progress.
HumanTurn ==
  /\ conv.at = "turn"
  /\ conv' = [Progress(conv, <<"checkpoint">>) EXCEPT !.at = "draining"]

\* The Checkpoint was reached: the spinner goes, the Input is mounted.
OpenPrompt ==
  /\ conv.at = "drained"
  /\ conv' = [conv EXCEPT !.at = "prompt", !.spinner = FALSE]

\* "/list" shows the current list and asks again, any other text resumes.
HumanAnswers(list) ==
  /\ conv.at = "prompt"
  /\ conv.answers < MaxAnswers
  /\ conv' = [(IF list THEN Progress(conv, <<"update">>) ELSE conv)
              EXCEPT !.at = IF list THEN "turn" ELSE "llm_echo", !.answers = @ + 1, !.steps = 0]

\* llm_echo, before and after the model's answer.  The graph raises when it
\* reaches its recursion limit without an interrupt.
AskModel ==
  /\ conv.at = "llm_echo"
  /\ conv' = IF conv.steps = MaxSteps THEN [conv EXCEPT !.at = "failing"]
             ELSE [Progress(conv, <<"thinking">>) EXCEPT !.at = "model", !.steps = @ + 1]

ModelAnswers(calls) ==
  /\ conv.at = "model"
  /\ conv' = [Progress(conv, IF calls = {} THEN <<>> ELSE <<"batch">>) EXCEPT
                !.calls = calls,
                !.asked = IF Sets(calls) = {} THEN @ ELSE CHOOSE n \in Sets(calls) : TRUE,
                !.at = IF calls = {} THEN "turn" ELSE "tools"]

\* Mutant: the loop shows the new list, the graph's state keeps the old one.
RunToolsStale ==
  /\ conv.at = "tools"
  /\ conv' = IF Exits(conv.calls) THEN [conv EXCEPT !.at = "leaving", !.calls = {}]
             ELSE [Progress(conv, <<"complete">>) EXCEPT
                     !.at = "llm_echo", !.calls = {}, !.curr = conv.asked]

\* The tools node.  Exit interrupts it: nothing it did is committed, the loop
\* sees EndConversation and leaves.  Two lists in one step clash.
RunTools ==
  /\ conv.at = "tools"
  /\ LET new == Sets(conv.calls)
     IN  conv' =
           IF Exits(conv.calls) THEN [conv EXCEPT !.at = "leaving", !.calls = {}, !.lost = new # {}]
           ELSE IF Cardinality(new) > 1 THEN [conv EXCEPT !.at = "failing"]
           ELSE IF new = {} THEN [Progress(conv, <<"complete">>) EXCEPT !.calls = {}, !.at = "llm_echo"]
           ELSE LET n == CHOOSE x \in new : TRUE
                IN  [Progress(conv, <<"update", "complete">>) EXCEPT
                       !.data = n, !.curr = n, !.calls = {}, !.at = "llm_echo"]

ModelRaises == conv.at = "model" /\ conv' = [conv EXCEPT !.at = "failing"]

\* The reader task: managed_streamer over _handle_event.
ReaderWakes ==
  /\ conv.reader = "reading" /\ CanWake(conv.queue)
  /\ conv' = [conv EXCEPT !.queue = Wake(@)]

ReaderHandles ==
  /\ conv.reader = "reading" /\ conv.queue.at = "yield"
  /\ LET e == Current(conv.queue)
     IN  IF e = "end" THEN conv' = [conv EXCEPT !.reader = "done"]
         ELSE conv' = [conv EXCEPT
                !.queue = Advance(@),
                !.spinner = CASE e = "thinking" -> TRUE
                              [] e \in {"batch", "update"} -> FALSE
                              [] OTHER -> @,
                !.at = IF e = "checkpoint" /\ @ = "draining" THEN "drained" ELSE @]

\* A mount that raises ends the reader; nobody looks at its task until the end.
ReaderRaises ==
  /\ conv.reader = "reading" /\ conv.queue.at = "yield"
  /\ Current(conv.queue) \in {"thinking", "batch", "update"}
  /\ conv' = [conv EXCEPT !.reader = "raised"]

\* __aexit__: the sentinel and the wait for the reader, or its cancellation.
LeaveConversation ==
  \/ /\ conv.at = "leaving"
     /\ conv' = [conv EXCEPT !.queue = Push(@, "end"), !.at = "left"]
  \/ /\ conv.at = "failing"
     /\ conv' = [conv EXCEPT !.reader = "cancelled", !.at = "raised", !.spinner = FALSE, !.queue = EmptyQueue]

CloseConversation ==
  /\ conv.at = "left" /\ conv.reader \in {"done", "raised"}
  /\ conv' = [conv EXCEPT !.at = IF conv.reader = "done" THEN "closed" ELSE "raised",
                           !.spinner = FALSE, !.queue = EmptyQueue]

ConvProgress ==
  \/ OpenConversation \/ HumanTurn \/ OpenPrompt \/ AskModel \/ RunTools
  \/ \E calls \in Calls : ModelAnswers(calls)
  \/ ReaderWakes \/ ReaderHandles \/ LeaveConversation \/ CloseConversation

ConvNext ==
  \/ ConvProgress
  \/ \E list \in BOOLEAN : HumanAnswers(list)
  \/ ModelRaises \/ ReaderRaises

ConvOver == conv.at \in {"closed", "raised"}

-----------------------------------------------------------------------------
(* Properties *)

\* When the human is asked, everything the agent did before is on the screen
\* above the prompt, no spinner is left, and "/list" would show the list that
\* the graph has (human_turn, multi_job_app.py).
PromptBelowOutput ==
  conv.at = "prompt" => Pending(conv.queue) = <<>> /\ ~conv.spinner /\ conv.curr = conv.data

\* A conversation that ends well returns the last list the agent set, unless
\* it set that list in the very message that ended the conversation.
RefinedIsLastSet ==
  conv.at = "closed" => conv.data = conv.asked \/ conv.lost
=============================================================================
