---------------------------- MODULE NatspecStubs ----------------------------
(***************************************************************************)
(* The stubs the natspec pipeline's authors share (composer/spec/natspec/   *)
(* registry.py, author.py, typecheck.py, pipeline.py). An author asks the   *)
(* StubRegistry for a storage field of a contract's stub; the registry      *)
(* serves one request of a stub at a time, under an asyncio.Lock, and lets  *)
(* an agent name a field or return a new stub. Stubs live in memory, where  *)
(* the typechecker reads them, and in the store, from which a later process *)
(* resumes them. A spec is published when it typechecks against the stubs,  *)
(* its author's result is cached, and in the end every stub and every spec  *)
(* is delivered.                                                            *)
(*                                                                          *)
(* A stub is the set of its storage fields, each set compiles, and a spec   *)
(* is the set of fields it uses. The agent's answer is not looked at: it    *)
(* may name a field that the stub has not, and return any stub.             *)
(*                                                                          *)
(* Authors work in super-steps, as in CVLAuthor: the calls of a message     *)
(* read the checkpoint `st', their updates are merged into `next'. Requests *)
(* and publications are several steps and interleave; when a message        *)
(* raises, those beside it go on. Skips are left to CVLAuthor.              *)
(***************************************************************************)
EXTENDS Naturals, Sequences, FiniteSets

CONSTANTS
  Author,           \* one author per component of a contract
  Contract,         \* new contracts, each with a stub
  Field,            \* storage fields of stubs, and the names agents give out
  Spec,             \* specs the authors may put
  UnknownContract,  \* an identifier without a stub
  NoSpec,           \* curr_spec = None
  NoRecord,         \* the store has no entry
  NoResult,         \* nothing cached
  NoDelivery,       \* the pipeline has not returned
  GaveUp,           \* GaveUp(reason)
  MaxCalls,         \* tool calls of each author in one message
  MaxTurns,         \* messages of each author before the recursion limit
  MaxFields,        \* metadata entries of a stub
  MaxCrashes,       \* deaths of the process
  StoreFails        \* whether writes to the store may raise

\* The calls in progress: an author, and the place of the call in its message.
Call == UNION {{a} \X (1..MaxCalls[a]) : a \in Author}
By(k) == k[1]

ASSUME NatspecAssumption ==
  /\ Spec \subseteq SUBSET (Contract \X Field)
  /\ {NoSpec, NoResult, GaveUp} \cap Spec = {}
  /\ NoResult # GaveUp
  /\ UnknownContract \notin Contract
  /\ NoRecord \notin [fields : Seq(Field), content : SUBSET Field]
  /\ MaxCalls \in [Author -> Nat] /\ MaxTurns \in [Author -> Nat]
  /\ MaxFields \in Nat /\ MaxCrashes \in Nat
  /\ StoreFails \in BOOLEAN

\* The channels without a reducer: one super-step may write each of them once.
LastValue == {"curr_spec", "result"}

VARIABLES
  process,   \* "down" | "up" | "done"
  crashes,   \* deaths so far
  content,   \* _state_by_id[c]._content, what request_field reads
  mirror,    \* _mirror_by_path, what the typechecker and the tools read
  durable,   \* the store's record of each stub
  lock,      \* each stub's lock: its holder, then who waits for it
  call,      \* the requests and publications in progress
  st,        \* per author, the checkpoint its tools read
  next,      \* per author, st with the updates of this super-step merged so far
  wrote,     \* per author, LastValue channels written in this super-step
  clash,     \* per author, one of them was written twice
  made,      \* per author, calls made in this super-step
  turns,     \* per author, super-steps taken
  task,      \* per author, its task: "running" | "returned" | "cached"
  cache,     \* the store's AuthorResult of each author
  delivered, \* PipelineResult
  granted,   \* fields an author was told to use and the stub had
  dropped    \* fields an agent was given in a stub and has left out of its own

stubs    == <<content, mirror, durable, lock>>
records  == <<granted, dropped>>   \* for the properties only
step     == <<next, wrote, clash>>
author   == <<st, step, made, turns>>
pipeline == <<process, crashes, task, cache, delivered>>
vars     == <<stubs, records, call, author, pipeline>>

InitialStub == {}
Stub   == SUBSET Field
Record == [fields : Seq(Field), content : Stub]

Idle == [step |-> "idle", contract |-> UnknownContract, field |-> NoRecord,
         record |-> NoRecord, view |-> NoRecord]
Step == {"idle", "waiting", "asking", "writing", "publishing", "checking"}

\* vetted: the spec the publish tool accepted. A record for the properties.
FreshState == [spec |-> NoSpec, accepted |-> NoSpec, result |-> "open", vetted |-> NoSpec]
CachedState(r) ==
  IF r = GaveUp THEN [FreshState EXCEPT !.result = "gave_up"]
                ELSE [FreshState EXCEPT !.result = "published", !.spec = r]

Init ==
  /\ process = "down" /\ crashes = 0
  /\ content = [c \in Contract |-> InitialStub]
  /\ mirror = [c \in Contract |-> InitialStub]
  /\ durable = [c \in Contract |-> NoRecord]
  /\ lock = [c \in Contract |-> << >>]
  /\ call = [k \in Call |-> Idle]
  /\ st = [a \in Author |-> FreshState] /\ next = st
  /\ wrote = [a \in Author |-> {}] /\ clash = [a \in Author |-> FALSE]
  /\ made = [a \in Author |-> 0] /\ turns = [a \in Author |-> 0]
  /\ task = [a \in Author |-> "running"]
  /\ cache = [a \in Author |-> NoResult]
  /\ delivered = NoDelivery
  /\ granted = {} /\ dropped = {}

-----------------------------------------------------------------------------
(* The start of a process: StubRegistry.acreate, then a task per author.    *)

ResumedEmpty(record) == InitialStub  \* mutant: the store's record is not preserved
Resumed(record) == record.content

Existing(c) == IF durable[c] = NoRecord THEN InitialStub ELSE Resumed(durable[c])

\* Every author starts from state s[a], with nothing called.
StartAll(s) ==
  /\ st' = s /\ next' = s
  /\ wrote' = [a \in Author |-> {}] /\ clash' = [a \in Author |-> FALSE]
  /\ made' = [a \in Author |-> 0] /\ turns' = [a \in Author |-> 0]

Start ==
  /\ process = "down"
  /\ process' = "up"
  /\ content' = [c \in Contract |-> Existing(c)]
  /\ mirror' = content'
  /\ durable' = [c \in Contract |-> IF durable[c] = NoRecord
                                    THEN [fields |-> << >>, content |-> InitialStub]
                                    ELSE durable[c]]
  /\ StartAll([a \in Author |-> IF cache[a] = NoResult THEN FreshState
                                                       ELSE CachedState(cache[a])])
  /\ task' = [a \in Author |-> IF cache[a] = NoResult THEN "running" ELSE "cached"]
  /\ UNCHANGED <<crashes, lock, call, cache, delivered, records>>

-----------------------------------------------------------------------------
(* An author's tools. Each is one call of the current message.              *)

\* The graph of the author goes on, below the recursion limit.
InStep(a) == process = "up" /\ st[a].result = "open" /\ turns[a] < MaxTurns[a]

Message(a) ==
  /\ InStep(a)
  /\ made[a] < MaxCalls[a]
  /\ made' = [made EXCEPT ![a] = @ + 1]
  /\ UNCHANGED <<st, turns, pipeline, content, mirror, durable, records>>

\* The updates of a call join those of its super-step; `channels' are the
\* LastValue channels among them.
Merge(a, s, channels) ==
  /\ next' = [next EXCEPT ![a] = s]
  /\ wrote' = [wrote EXCEPT ![a] = @ \cup channels]
  /\ clash' = [clash EXCEPT ![a] = @ \/ wrote[a] \cap channels # {}]

Update(a, s, channels) ==
  /\ Message(a)
  /\ Merge(a, s, channels)
  /\ UNCHANGED <<call, lock>>

\* A tool that answers with a message only, as AdvisoryTypecheck always does.
Reply(a) == Update(a, next[a], {})

\* A call that goes on as k.
Begin(a, k) ==
  /\ Message(a)
  /\ call' = [call EXCEPT ![<<a, made[a] + 1>>] = k]
  /\ UNCHANGED step

PutCVL(a) ==
  \E spec \in Spec : Update(a, [next[a] EXCEPT !.spec = spec], {"curr_spec"})

\* A good judgment of the checkpoint's draft; any other changes nothing here.
FeedbackTool(a) ==
  \/ Reply(a)
  \/ /\ st[a].spec # NoSpec
     /\ Update(a, [next[a] EXCEPT !.accepted = st[a].spec], {})

GiveUp(a) == Update(a, [next[a] EXCEPT !.result = "gave_up"], {"result"})

\* The request queues for the stub's lock, if there is such a stub.
RequestStubField(a) ==
  \/ Reply(a)
  \/ \E c \in Contract :
       /\ Begin(a, [Idle EXCEPT !.step = "waiting", !.contract = c])
       /\ lock' = [lock EXCEPT ![c] = Append(@, <<a, made[a] + 1>>)]

Accepts(s) == s.spec # NoSpec /\ s.accepted = s.spec

PublishTool(a) ==
  IF Accepts(st[a]) THEN Begin(a, [Idle EXCEPT !.step = "publishing"]) /\ UNCHANGED lock
                    ELSE Reply(a)

-----------------------------------------------------------------------------
(* StubRegistry.request_field, from the lock to the answer.                 *)

HasLock(k, c) == lock[c] # << >> /\ Head(lock[c]) = k

\* The holder leaves, the next waiter holds the lock.
Release(k) == [lock EXCEPT ![call[k].contract] = Tail(@)]

\* What the registry agent is given: the stub and its metadata.
OriginalStub(c) == [durable[c] EXCEPT !.content = InitialStub]  \* mutant: acreate's initial_stubs
CurrentStub(c) == durable[c]

\* The record is there and agrees with the memory.
RecordFound(c) == durable[c] # NoRecord  \* mutant: the assertion of the contents is left out
RecordAgrees(c) == durable[c] # NoRecord /\ durable[c].content = content[c]

\* The lock is granted and the record read.
ReadMetadata(k) ==
  LET c == call[k].contract IN
  /\ call[k].step = "waiting" /\ HasLock(k, c)
  /\ RecordAgrees(c)
  /\ call' = [call EXCEPT ![k].step = "asking", ![k].record = CurrentStub(c)]
  /\ UNCHANGED <<stubs, records, author, pipeline>>

\* The request ends: with an answer, or with an exception that leaves the lock
\* and of which the model is told, if it does not Raise the author's run.
EndRequest(k) ==
  /\ lock' = Release(k)
  /\ call' = [call EXCEPT ![k] = Idle]
  /\ UNCHANGED <<content, mirror, dropped, author, pipeline>>

AssertionFails(k) ==
  LET c == call[k].contract IN
  /\ call[k].step = "waiting" /\ HasLock(k, c)
  /\ ~RecordAgrees(c)
  /\ EndRequest(k)
  /\ UNCHANGED <<durable, granted>>

RetryRequest(k) ==  \* mutant: a request whose agent raised is made again
  /\ call[k].step = "asking"
  /\ call' = [call EXCEPT ![k].step = "waiting"]
  /\ lock' = [lock EXCEPT ![call[k].contract] = Append(Tail(@), k)]
  /\ UNCHANGED <<content, mirror, durable, records, author, pipeline>>
AgentRaises(k) ==
  /\ call[k].step = "asking"
  /\ EndRequest(k)
  /\ UNCHANGED <<durable, granted>>

Reject(k) ==
  /\ call[k].step = "asking"
  /\ EndRequest(k)
  /\ UNCHANGED <<durable, granted>>

\* "Use field f": a name the stub may have or not.
Grant(c, f, stub) == granted' = granted \cup {<<c, g>> : g \in {f} \cap stub}

ReuseField(k) ==
  /\ call[k].step = "asking"
  /\ \E f \in Field : Grant(call[k].contract, f, call[k].record.content)
  /\ EndRequest(k)
  /\ UNCHANGED durable

WithoutField(record, f, stub) == [record EXCEPT !.content = stub]  \* mutant: no fields.append
WithField(record, f, stub) == [fields |-> Append(record.fields, f), content |-> stub]

\* A stub came back that compiled, and the name of a field that is said to be
\* new. Memory and mirror take it now, the store with the write that follows.
UpdateStub(k) ==
  LET c == call[k].contract IN
  /\ call[k].step = "asking" /\ Len(call[k].record.fields) < MaxFields
  /\ \E f \in Field, stub \in Stub :
       /\ content' = [content EXCEPT ![c] = stub]
       /\ mirror' = [mirror EXCEPT ![c] = stub]
       /\ dropped' = dropped \cup {<<c, g>> : g \in call[k].record.content \ stub}
       /\ call' = [call EXCEPT ![k].step = "writing", ![k].field = f,
                               ![k].record = WithField(call[k].record, f, stub)]
  /\ UNCHANGED <<durable, lock, granted, author, pipeline>>

WriteMetadata(k) ==
  LET c == call[k].contract IN
  /\ call[k].step = "writing"
  /\ durable' = [durable EXCEPT ![c] = call[k].record]
  /\ Grant(c, call[k].field, call[k].record.content)
  /\ EndRequest(k)

WriteRaises(k) ==
  /\ StoreFails
  /\ call[k].step = "writing"
  /\ EndRequest(k)
  /\ UNCHANGED <<durable, granted>>

Registry(k) ==
  \/ ReadMetadata(k) \/ AssertionFails(k) \/ AgentRaises(k) \/ Reject(k)
  \/ ReuseField(k) \/ UpdateStub(k) \/ WriteMetadata(k) \/ WriteRaises(k)

-----------------------------------------------------------------------------
(* The publish tool's typecheck, and the end of a super-step.               *)

Uses(c, spec) == {use[2] : use \in {u \in spec : u[1] = c}}
Typechecks(spec, view) == \A c \in Contract : Uses(c, spec) \subseteq view[c]

\* The project directory gets the stubs as they are now.
Assemble(k) ==
  /\ call[k].step = "publishing"
  /\ call' = [call EXCEPT ![k].step = "checking", ![k].view = mirror]
  /\ UNCHANGED <<stubs, records, author, pipeline>>

\* The answer joins the super-step of its message, unless that was abandoned.
TypecheckReturns(k) ==
  LET a == By(k) IN
  /\ call[k].step = "checking"
  /\ call' = [call EXCEPT ![k] = Idle]
  /\ IF st[a].result = "open" /\ Typechecks(st[a].spec, call[k].view)
     THEN Merge(a, [next[a] EXCEPT !.result = "published", !.vetted = st[a].spec], {"result"})
     ELSE UNCHANGED step
  /\ UNCHANGED <<stubs, records, st, made, turns, pipeline>>

AllReturned(a) == \A k \in Call : By(k) = a => call[k] = Idle

\* A super-step starts from checkpoint s with nothing merged.
StartStep(a, s) ==
  /\ st' = [st EXCEPT ![a] = s]
  /\ next' = [next EXCEPT ![a] = s]
  /\ wrote' = [wrote EXCEPT ![a] = {}]
  /\ clash' = [clash EXCEPT ![a] = FALSE]
  /\ made' = [made EXCEPT ![a] = 0]
  /\ UNCHANGED <<stubs, records, call, pipeline>>

\* Every call has returned: the merged updates become the checkpoint.
EndStep(a) ==
  /\ InStep(a)
  /\ made[a] > 0 /\ AllReturned(a) /\ ~clash[a]
  /\ turns' = [turns EXCEPT ![a] = @ + 1]
  /\ StartStep(a, next[a])

\* The run of the author raises: at the recursion limit, by two updates of a
\* channel without a reducer, by a tool, by the model. Calls beside go on.
Raise(a) ==
  /\ process = "up" /\ st[a].result = "open"
  /\ StartStep(a, [st[a] EXCEPT !.result = "failed"])
  /\ UNCHANGED turns

-----------------------------------------------------------------------------
(* What generate_cvl_batch and the pipeline do with the result.             *)

\* cache_put, then the return; nothing of a task that raised is cached.
CachePut(a) ==
  /\ process = "up" /\ task[a] = "running" /\ st[a].result \in {"published", "gave_up"}
  /\ cache' = [cache EXCEPT ![a] = IF st[a].result = "gave_up" THEN GaveUp ELSE st[a].spec]
  /\ task' = [task EXCEPT ![a] = "returned"]
  /\ UNCHANGED <<process, crashes, stubs, records, call, author, delivered>>

\* gather(return_exceptions=True) takes the exception for the result.
TaskRaises(a) ==
  /\ process = "up" /\ task[a] = "running"
  /\ st[a].result = "failed" \/ (StoreFails /\ st[a].result # "open")
  /\ st' = [st EXCEPT ![a].result = "failed"]
  /\ task' = [task EXCEPT ![a] = "returned"]
  /\ UNCHANGED <<process, crashes, stubs, records, call, step, made, turns, cache, delivered>>

\* The specs of the authors that succeeded, beside the stubs that were
\* generated before the authors started.
DeliveredStub(c) == InitialStub

Deliver ==
  /\ process = "up" /\ \A a \in Author : task[a] # "running"
  /\ process' = "done"
  /\ delivered' = [stubs |-> [c \in Contract |-> DeliveredStub(c)],
                   specs |-> {st[a].spec : a \in {b \in Author : st[b].result = "published"}}]
  /\ UNCHANGED <<crashes, stubs, records, call, author, task, cache>>

\* What is only in memory is lost.
Crash ==
  /\ process = "up" /\ crashes < MaxCrashes
  /\ process' = "down" /\ crashes' = crashes + 1
  /\ content' = [c \in Contract |-> InitialStub]
  /\ mirror' = content'
  /\ lock' = [c \in Contract |-> << >>]
  /\ call' = [k \in Call |-> Idle]
  /\ StartAll([a \in Author |-> FreshState])
  /\ task' = [a \in Author |-> "running"]
  /\ UNCHANGED <<durable, cache, delivered, records>>

Finished == process = "done" /\ UNCHANGED vars

Tool(a) ==
  PutCVL(a) \/ FeedbackTool(a) \/ GiveUp(a) \/ RequestStubField(a) \/ PublishTool(a)
Serve(k) == Registry(k) \/ Assemble(k) \/ TypecheckReturns(k)
Task(a) == EndStep(a) \/ Raise(a) \/ CachePut(a) \/ TaskRaises(a)

Next ==
  \/ Start \/ Deliver \/ Crash \/ Finished
  \/ \E a \in Author : Tool(a) \/ Task(a)
  \/ \E k \in Call : Serve(k)

NatspecSpec == Init /\ [][Next]_vars

\* Every registry agent, typechecker and write comes back, by the recursion
\* limit or by itself, and the loop goes on with whoever waited for it.
FairNatspecSpec == NatspecSpec /\ \A k \in Call : WF_vars(Serve(k))

-----------------------------------------------------------------------------
(* Properties.                                                              *)

TypeOK ==
  /\ process \in {"down", "up", "done"} /\ crashes \in 0..MaxCrashes
  /\ content \in [Contract -> Stub]
  /\ mirror \in [Contract -> Stub]
  /\ durable \in [Contract -> Record \cup {NoRecord}]
  /\ lock \in [Contract -> Seq(Call)]
  /\ call \in [Call -> [step : Step, contract : Contract \cup {UnknownContract},
                        field : Field \cup {NoRecord}, record : Record \cup {NoRecord},
                        view : [Contract -> Stub] \cup {NoRecord}]]
  /\ LET State == [spec : Spec \cup {NoSpec}, accepted : Spec \cup {NoSpec},
                   result : {"open", "published", "gave_up", "failed"},
                   vetted : Spec \cup {NoSpec}]
     IN st \in [Author -> State] /\ next \in [Author -> State]
  /\ wrote \in [Author -> SUBSET LastValue] /\ clash \in [Author -> BOOLEAN]
  /\ made \in [Author -> Nat] /\ turns \in [Author -> Nat]
  /\ \A a \in Author : made[a] <= MaxCalls[a] /\ turns[a] <= MaxTurns[a]
  /\ task \in [Author -> {"running", "returned", "cached"}]
  /\ cache \in [Author -> Spec \cup {GaveUp, NoResult}]
  /\ delivered \in [stubs : [Contract -> Stub], specs : SUBSET Spec] \cup {NoDelivery}
  /\ granted \subseteq Contract \X Field /\ dropped \subseteq Contract \X Field

\* A field that the stub had when an author was told to use it stays in the
\* store's record, and in the memory and the mirror of this and of every later
\* process, whatever requests, failed writes and crashes come in between,
\* unless an agent that was given it returns a stub without it (registry.py
\* request_field, acreate).
GrantedKept ==
  \A c \in Contract, f \in Field : <<c, f>> \in granted \ dropped =>
    /\ durable[c] # NoRecord /\ f \in durable[c].content
    /\ process # "down" => f \in content[c] /\ f \in mirror[c]

\* A write of a stub's record keeps the metadata that are there and adds one
\* entry: no request writes from a record that another one has replaced
\* (registry.py 398-428).
MetadataGrows ==
  [][\A c \in Contract : durable[c] # NoRecord /\ durable'[c] # durable[c] =>
       \E f \in Field : durable'[c].fields = Append(durable[c].fields, f)]_vars

\* An author is told a field only of a stub on which memory, mirror and store
\* agree, also after a write that raised (the assertion of request_field).
AnswersAgree ==
  [][\A k \in Call : ReuseField(k) \/ WriteMetadata(k) =>
       LET c == call[k].contract IN
       mirror'[c] = content'[c] /\ durable'[c].content = content'[c]]_vars

\* The fields a stub has, or had until an agent left them out.
Ever(c) == mirror[c] \cup {f \in Field : <<c, f>> \in dropped}

\* A spec this process published, and that no other call of its message
\* replaced, was accepted by the judge and uses fields of the stubs as they are
\* now, but for those an agent has left out: although the typecheck read the
\* stubs earlier and requests have changed them since (author.py PublishTool,
\* typecheck.py).
Holds(a) == st[a].result = "published" /\ task[a] # "cached"
PublishedTypechecks ==
  process # "down" => \A a \in Author : Holds(a) /\ st[a].spec = st[a].vetted =>
    /\ st[a].accepted = st[a].spec
    /\ \A c \in Contract : Uses(c, st[a].spec) \subseteq Ever(c)

\* A request is answered, also behind a request whose agent or whose write
\* raised (the lock of request_field is left by every path).
RequestsReturn == \A k \in Call : call[k].step = "waiting" ~> call[k].step = "idle"

\* "Returns the field name to use in your CVL specification": a field an author
\* was told is in the stub for good. Not so when a later agent's stub lacks it.
GrantsKept == \A use \in granted : durable[use[1]] # NoRecord /\ use[2] \in durable[use[1]].content

\* "The currently registered fields are": the metadata given to the agent name
\* each field of the stub once. Nothing compares a name with the stub.
MetadataExact ==
  \A c \in Contract : durable[c] # NoRecord =>
    LET fields == durable[c].fields IN
    /\ {fields[i] : i \in DOMAIN fields} = durable[c].content \ InitialStub
    /\ \A i, j \in DOMAIN fields : fields[i] = fields[j] => i = j

\* "This update will be rejected if the spec is *not* type correct": what is
\* published was accepted. Not so when put_cvl is in the message of `publish'.
PublishedVetted == \A a \in Author : Holds(a) => st[a].spec = st[a].vetted

\* A spec taken from the cache typechecks against the stubs this process
\* resumed (acreate: "they are preserved (resume after crash/restart)").
CachedTypechecks ==
  process = "up" => \A a \in Author :
    task[a] = "cached" /\ st[a].result = "published" => Typechecks(st[a].spec, mirror)

\* The delivered specs typecheck against the delivered stubs.
DeliveredTypechecks ==
  delivered # NoDelivery => \A spec \in delivered.specs : Typechecks(spec, delivered.stubs)
=============================================================================
