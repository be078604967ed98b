------------------------- MODULE NatspecStubsProofs -------------------------
(***************************************************************************)
(* Theorems about NatspecStubs, for any number of authors, contracts and    *)
(* fields, of calls in a message and of crashes, whatever the registry      *)
(* agents answer, and for a store whose writes may raise.                   *)
(***************************************************************************)
EXTENDS NatspecStubs, TLAPS

CallType == [step : Step, contract : Contract \cup {UnknownContract},
             field : Field \cup {NoRecord}, record : Record \cup {NoRecord},
             view : [Contract -> Stub] \cup {NoRecord}]
Drafts == Spec \cup {NoSpec}
StateType == [spec : Drafts, accepted : Drafts,
              result : {"open", "published", "gave_up", "failed"}, vetted : Drafts]

AuthorType ==
  /\ st \in [Author -> StateType] /\ next \in [Author -> StateType]
  /\ wrote \in [Author -> SUBSET LastValue] /\ clash \in [Author -> BOOLEAN]
  /\ made \in [Author -> Nat] /\ turns \in [Author -> Nat]
  /\ \A a \in Author : made[a] <= MaxCalls[a] /\ turns[a] <= MaxTurns[a]
StubType ==
  /\ content \in [Contract -> Stub] /\ mirror \in [Contract -> Stub]
  /\ durable \in [Contract -> Record \cup {NoRecord}]
  /\ lock \in [Contract -> Seq(Call)]
  /\ call \in [Call -> CallType]
  /\ granted \subseteq Contract \X Field /\ dropped \subseteq Contract \X Field
PipelineType ==
  /\ process \in {"down", "up", "done"} /\ crashes \in 0..MaxCrashes
  /\ task \in [Author -> {"running", "returned", "cached"}]
  /\ cache \in [Author -> Spec \cup {GaveUp, NoResult}]
  /\ delivered \in [stubs : [Contract -> Stub], specs : SUBSET Spec] \cup {NoDelivery}
TypeInv == AuthorType /\ StubType /\ PipelineType

-----------------------------------------------------------------------------
(* The inductive invariant *)

\* What a request knows: while it holds the lock, the record it was given is
\* that of the store, and then what it will write grows out of it.
RequestOK(k) ==
  LET c == call[k].contract
      record == call[k].record
  IN
  /\ call[k].step # "idle" => process # "down"
  /\ call[k].step \in {"waiting", "asking", "writing"} => c \in Contract
  /\ call[k].step \in {"asking", "writing"} =>
       /\ HasLock(k, c) /\ record \in Record /\ durable[c] \in Record
       /\ content[c] = record.content
  /\ call[k].step = "asking" => durable[c] = record
  /\ call[k].step = "writing" =>
       /\ call[k].field \in Field
       /\ record.fields = Append(durable[c].fields, call[k].field)

StubsOK ==
  /\ process # "down" => mirror = content /\ \A c \in Contract : durable[c] # NoRecord
  /\ \A c \in Contract, f \in Field : <<c, f>> \in granted \ dropped =>
       /\ durable[c] # NoRecord /\ f \in durable[c].content
       /\ process # "down" => f \in content[c]

RequestInv == StubsOK /\ \A k \in Call : RequestOK(k)

\* The stubs have, or had until an agent left them out, what the spec uses.
Backed(spec) == \A c \in Contract : Uses(c, spec) \subseteq Ever(c)

\* A publication is of the checkpoint its call was made on.
PublishOK(k) ==
  /\ call[k].step \in {"publishing", "checking"} /\ st[By(k)].result = "open" =>
       Accepts(st[By(k)])
  /\ call[k].step = "checking" =>
       /\ call[k].view \in [Contract -> Stub]
       /\ \A c \in Contract : call[k].view[c] \subseteq Ever(c)

\* What the merge n of a super-step has to do with its checkpoint s.
FromCheckpoint(s, n) ==
  /\ n.accepted \in {s.accepted, s.spec}
  /\ s.spec # NoSpec => n.spec # NoSpec
  /\ n.result = "published" => n.spec # NoSpec
  /\ n.result = "published" /\ s.result = "open" =>
       n.vetted = s.spec /\ s.accepted = s.spec /\ Backed(s.spec)

AuthorOK(a) ==
  /\ FromCheckpoint(st[a], next[a])
  /\ st[a].result = "published" => st[a].spec # NoSpec
  /\ Holds(a) /\ st[a].spec = st[a].vetted =>
       st[a].accepted = st[a].spec /\ Backed(st[a].spec)

PublishInv == /\ \A k \in Call : PublishOK(k)
              /\ \A a \in Author : AuthorOK(a)

Inv == TypeInv /\ RequestInv /\ PublishInv

-----------------------------------------------------------------------------
(* Facts about the parts of the state *)

Waiting(c) == [Idle EXCEPT !.step = "waiting", !.contract = c]
Publishing == [Idle EXCEPT !.step = "publishing"]

LEMMA IdleFacts ==
  /\ Idle \in CallType /\ Idle.step = "idle"
  /\ Publishing \in CallType /\ Publishing.step = "publishing"
  /\ \A c \in Contract : /\ Waiting(c) \in CallType
                        /\ Waiting(c).step = "waiting" /\ Waiting(c).contract = c
  BY DEF Idle, CallType, Step, Waiting, Publishing

LEMMA CallFacts ==
  /\ \A k \in Call : By(k) \in Author
  /\ \A a \in Author : \A i \in 1..MaxCalls[a] : <<a, i>> \in Call /\ By(<<a, i>>) = a
  BY DEF Call, By

LEMMA FreshFacts ==
  /\ FreshState \in StateType /\ FreshState.result = "open"
  /\ \A r \in Spec \cup {GaveUp} :
       /\ CachedState(r) \in StateType
       /\ CachedState(r).result = "published" => CachedState(r).spec \in Spec
  <1>1. FreshState \in StateType /\ FreshState.result = "open"
    BY DEF FreshState, StateType, Drafts
  <1>2. QED BY <1>1 DEF CachedState, StateType, Drafts

LEMMA Types ==
  ASSUME TypeInv, NEW a \in Author
  PROVE  /\ st[a] \in StateType /\ next[a] \in StateType
         /\ st[a].spec \in Drafts /\ next[a].spec \in Drafts
         /\ st[a].accepted \in Drafts
         /\ wrote[a] \in SUBSET LastValue /\ clash[a] \in BOOLEAN
         /\ made[a] \in Nat /\ turns[a] \in Nat
         /\ MaxCalls[a] \in Nat /\ MaxTurns[a] \in Nat
  BY NatspecAssumption DEF TypeInv, AuthorType, StateType

LEMMA InitInv == Init => Inv
  <1> SUFFICES ASSUME Init PROVE Inv
    OBVIOUS
  <1>1. AuthorType
    BY FreshFacts, NatspecAssumption DEF Init, AuthorType
  <1>2. StubType
    BY IdleFacts DEF Init, StubType, InitialStub, Stub
  <1>3. PipelineType
    BY NatspecAssumption DEF Init, PipelineType
  <1>4. ASSUME NEW k \in Call PROVE RequestOK(k) /\ PublishOK(k)
    <2>1. call[k] = Idle
      BY <1>4 DEF Init
    <2>2. QED BY <2>1, IdleFacts DEF RequestOK, PublishOK
  <1>5. StubsOK
    BY DEF Init, StubsOK
  <1>6. ASSUME NEW a \in Author PROVE AuthorOK(a)
    BY FreshFacts DEF Init, AuthorOK, FromCheckpoint, Holds
  <1>7. QED BY <1>1, <1>2, <1>3, <1>4, <1>5, <1>6 DEF Inv, TypeInv, RequestInv, PublishInv

-----------------------------------------------------------------------------
(* The tools of the authors *)

LEMMA MergeType ==
  ASSUME TypeInv, NEW a \in Author, NEW n \in StateType, NEW channels \in SUBSET LastValue,
         Merge(a, n, channels)
  PROVE  /\ next' \in [Author -> StateType]
         /\ wrote' \in [Author -> SUBSET LastValue] /\ clash' \in [Author -> BOOLEAN]
         /\ next'[a] = n
         /\ \A b \in Author : b # a => next'[b] = next[b]
  BY DEF Merge, TypeInv, AuthorType

LEMMA MessageType ==
  ASSUME TypeInv, NEW a \in Author, Message(a)
  PROVE  /\ UNCHANGED <<st, turns, pipeline, content, mirror, durable, records>>
         /\ process = "up" /\ st[a].result = "open"
         /\ made' \in [Author -> Nat] /\ \A b \in Author : made'[b] <= MaxCalls[b]
         /\ made[a] + 1 \in 1..MaxCalls[a]
  <1>1. made[a] \in Nat /\ made[a] < MaxCalls[a] /\ MaxCalls[a] \in Nat
        /\ made' = [made EXCEPT ![a] = made[a] + 1]
    BY Types DEF Message
  <1>2. made[a] + 1 \in 1..MaxCalls[a]
    BY <1>1
  <1>3. made' \in [Author -> Nat] /\ \A b \in Author : made'[b] <= MaxCalls[b]
    BY <1>1, <1>2 DEF TypeInv, AuthorType
  <1>4. QED BY <1>2, <1>3 DEF Message, InStep

\* What a step that leaves the stubs and the requests alone keeps.
LEMMA RequestFrame ==
  ASSUME RequestInv, process' = process, UNCHANGED <<stubs, records, call>>
  PROVE  RequestInv'
  BY DEF RequestInv, StubsOK, RequestOK, HasLock, stubs, records

LEMMA UpdateKeeps ==
  ASSUME Inv, NEW a \in Author, NEW n \in StateType, NEW channels \in SUBSET LastValue,
         Update(a, n, channels), FromCheckpoint(st[a], n)
  PROVE  Inv'
  <1>1. TypeInv /\ Message(a) /\ Merge(a, n, channels) /\ UNCHANGED <<call, lock>>
    BY DEF Inv, Update
  <1>2. UNCHANGED <<st, turns, pipeline, content, mirror, durable, records>>
    BY <1>1, MessageType
  <1>3. TypeInv'
    BY <1>1, <1>2, MergeType, MessageType
    DEF TypeInv, AuthorType, StubType, PipelineType, pipeline, records
  <1>4. RequestInv'
    BY <1>1, <1>2, RequestFrame DEF Inv, stubs, pipeline
  <1>5. \A k \in Call : PublishOK(k)'
    BY <1>1, <1>2 DEF Inv, PublishInv, PublishOK, Ever, records
  <1>6. ASSUME NEW b \in Author PROVE AuthorOK(b)'
    <2>1. AuthorOK(b) /\ FromCheckpoint(st[b], next'[b])
      BY <1>1, MergeType DEF Inv, PublishInv, AuthorOK
    <2>2. \A spec : Backed(spec)' <=> Backed(spec)
      BY <1>2 DEF Backed, Ever, records
    <2>3. QED BY <1>2, <2>1, <2>2 DEF AuthorOK, FromCheckpoint, Holds, pipeline
  <1>7. QED BY <1>3, <1>4, <1>5, <1>6 DEF Inv, PublishInv

LEMMA ReplyKeeps == ASSUME Inv, NEW a \in Author, Reply(a) PROVE Inv'
  <1>1. next[a] \in StateType /\ {} \in SUBSET LastValue /\ FromCheckpoint(st[a], next[a])
    BY Types DEF Inv, PublishInv, AuthorOK
  <1>2. Update(a, next[a], {})
    BY DEF Reply
  <1>3. PICK n \in StateType : n = next[a]
    BY <1>1
  <1>4. QED BY <1>1, <1>2, <1>3, UpdateKeeps

LEMMA PutCVLKeeps == ASSUME Inv, NEW a \in Author, PutCVL(a) PROVE Inv'
  <1>1. next[a] \in StateType /\ FromCheckpoint(st[a], next[a])
    BY Types DEF Inv, PublishInv, AuthorOK
  <1>2. PICK spec \in Spec : Update(a, [next[a] EXCEPT !.spec = spec], {"curr_spec"})
    BY DEF PutCVL
  <1>3. PICK n \in StateType : n = [next[a] EXCEPT !.spec = spec]
    BY <1>1 DEF StateType, Drafts
  <1>4. FromCheckpoint(st[a], n)
    <2>1. /\ n.accepted = next[a].accepted /\ n.result = next[a].result
          /\ n.vetted = next[a].vetted /\ n.spec = spec
      BY <1>1, <1>3 DEF StateType
    <2>2. spec # NoSpec
      BY NatspecAssumption
    <2>3. QED BY <1>1, <2>1, <2>2 DEF FromCheckpoint
  <1>5. Update(a, n, {"curr_spec"}) /\ {"curr_spec"} \in SUBSET LastValue
    BY <1>2, <1>3 DEF LastValue
  <1>6. QED BY <1>4, <1>5, UpdateKeeps

LEMMA FeedbackKeeps == ASSUME Inv, NEW a \in Author, FeedbackTool(a) PROVE Inv'
  <1>1. /\ next[a] \in StateType /\ FromCheckpoint(st[a], next[a])
        /\ st[a].spec \in Drafts
    BY Types DEF Inv, PublishInv, AuthorOK
  <1>2. CASE Update(a, [next[a] EXCEPT !.accepted = st[a].spec], {})
    <2>1. PICK n \in StateType : n = [next[a] EXCEPT !.accepted = st[a].spec]
      BY <1>1 DEF StateType, Drafts
    <2>2. FromCheckpoint(st[a], n)
      BY <1>1, <2>1 DEF StateType, FromCheckpoint
    <2>3. {} \in SUBSET LastValue
      OBVIOUS
    <2>4. QED BY <1>2, <2>1, <2>2, <2>3, UpdateKeeps
  <1>3. QED BY <1>2, ReplyKeeps DEF FeedbackTool

LEMMA GiveUpKeeps == ASSUME Inv, NEW a \in Author, GiveUp(a) PROVE Inv'
  <1>1. next[a] \in StateType /\ FromCheckpoint(st[a], next[a])
    BY Types DEF Inv, PublishInv, AuthorOK
  <1>2. PICK n \in StateType : n = [next[a] EXCEPT !.result = "gave_up"]
    BY <1>1 DEF StateType
  <1>3. FromCheckpoint(st[a], n)
    BY <1>1, <1>2 DEF StateType, FromCheckpoint
  <1>4. Update(a, n, {"result"}) /\ {"result"} \in SUBSET LastValue
    BY <1>2 DEF GiveUp, LastValue
  <1>5. QED BY <1>3, <1>4, UpdateKeeps

-----------------------------------------------------------------------------
(* A step of one call *)

\* The step leaves the locks that others hold.
KeepsLocks(k) ==
  \A j \in Call \ {k} : call[j].step \in {"asking", "writing"} =>
    lock'[call[j].contract] # << >> /\ Head(lock'[call[j].contract]) = j

\* The stub of one contract changes, if at all, under its lock.
OnlyUnderLock(k) ==
  \A c \in Contract : HasLock(k, c) \/ (content'[c] = content[c] /\ durable'[c] = durable[c])

LEMMA OthersKept ==
  ASSUME TypeInv, RequestInv, NEW k \in Call, process' = process,
         NEW r, call' = [call EXCEPT ![k] = r], KeepsLocks(k), OnlyUnderLock(k)
  PROVE  \A j \in Call \ {k} : RequestOK(j)'
  <1> SUFFICES ASSUME NEW j \in Call \ {k} PROVE RequestOK(j)'
    OBVIOUS
  <1>1. call'[j] = call[j] /\ RequestOK(j)
    BY DEF TypeInv, StubType, RequestInv
  <1>2. CASE call[j].step \in {"asking", "writing"}
    <2>1. PICK c \in Contract : c = call[j].contract
      BY <1>1, <1>2 DEF RequestOK
    <2>2. HasLock(j, c) /\ ~HasLock(k, c)
      BY <1>1, <1>2, <2>1 DEF RequestOK, HasLock
    <2>3. content'[c] = content[c] /\ durable'[c] = durable[c]
      BY <2>2 DEF OnlyUnderLock
    <2>4. HasLock(j, c)'
      BY <1>2, <2>1 DEF KeepsLocks, HasLock
    <2>5. QED BY <1>1, <1>2, <2>1, <2>3, <2>4 DEF RequestOK
  <1>3. CASE call[j].step \notin {"asking", "writing"}
    BY <1>1, <1>3 DEF RequestOK
  <1>4. QED BY <1>2, <1>3

LEMMA SameLocks ==
  ASSUME TypeInv, RequestInv, NEW k \in Call, lock' = lock PROVE KeepsLocks(k)
  BY DEF KeepsLocks, RequestInv, RequestOK, HasLock

LEMMA ReleaseKeeps ==
  ASSUME TypeInv, RequestInv, NEW k \in Call,
         call[k].step \in {"waiting", "asking", "writing"},
         HasLock(k, call[k].contract), lock' = Release(k)
  PROVE  lock' \in [Contract -> Seq(Call)] /\ KeepsLocks(k)
  <1>1. PICK c \in Contract : c = call[k].contract
    BY DEF RequestInv, RequestOK
  <1>2. lock \in [Contract -> Seq(Call)] /\ lock[c] \in Seq(Call) /\ lock[c] # << >>
    BY <1>1 DEF TypeInv, StubType, HasLock
  <1>3. Tail(lock[c]) \in Seq(Call) /\ lock' = [lock EXCEPT ![c] = Tail(lock[c])]
    BY <1>1, <1>2 DEF Release
  <1>4. ASSUME NEW j \in Call \ {k}, call[j].step \in {"asking", "writing"}
        PROVE  lock'[call[j].contract] # << >> /\ Head(lock'[call[j].contract]) = j
    <2>1. call[j].contract \in Contract /\ HasLock(j, call[j].contract)
      BY <1>4 DEF RequestInv, RequestOK
    <2>2. call[j].contract # c
      BY <1>1, <2>1 DEF HasLock
    <2>3. lock'[call[j].contract] = lock[call[j].contract]
      BY <1>2, <1>3, <2>1, <2>2
    <2>4. QED BY <2>1, <2>3 DEF HasLock
  <1>5. QED BY <1>2, <1>3, <1>4 DEF KeepsLocks

LEMMA AppendKeeps ==
  ASSUME TypeInv, RequestInv, NEW k \in Call, NEW c \in Contract,
         lock' = [lock EXCEPT ![c] = Append(@, k)]
  PROVE  lock' \in [Contract -> Seq(Call)] /\ KeepsLocks(k)
  <1>1. lock \in [Contract -> Seq(Call)] /\ lock' = [lock EXCEPT ![c] = Append(lock[c], k)]
    BY DEF TypeInv, StubType
  <1>2. ASSUME NEW j \in Call \ {k}, call[j].step \in {"asking", "writing"}
        PROVE  lock'[call[j].contract] # << >> /\ Head(lock'[call[j].contract]) = j
    <2>1. /\ call[j].contract \in Contract /\ lock[call[j].contract] \in Seq(Call)
          /\ lock[call[j].contract] # << >> /\ Head(lock[call[j].contract]) = j
      BY <1>1, <1>2 DEF RequestInv, RequestOK, HasLock
    <2>2. CASE call[j].contract = c
      <3>1. lock'[c] = Append(lock[c], k) /\ lock[c] \in Seq(Call) /\ lock[c] # << >>
        BY <1>1, <2>1, <2>2
      <3>2. Head(Append(lock[c], k)) = Head(lock[c]) /\ Append(lock[c], k) # << >>
        BY <3>1
      <3>3. QED BY <2>1, <2>2, <3>1, <3>2
    <2>3. CASE call[j].contract # c
      BY <1>1, <2>1, <2>3
    <2>4. QED BY <2>2, <2>3
  <1>3. Append(lock[c], k) \in Seq(Call)
    BY <1>1
  <1>4. QED BY <1>1, <1>2, <1>3 DEF KeepsLocks

\* A step that only moves one call: the stubs stay, no publication is lost.
LEMMA CallStepKeeps ==
  ASSUME Inv, NEW k \in Call, NEW r \in CallType, call' = [call EXCEPT ![k] = r],
         UNCHANGED <<process, content, mirror, durable, dropped, granted>>,
         lock' \in [Contract -> Seq(Call)], KeepsLocks(k), RequestOK(k)'
  PROVE  StubType' /\ RequestInv'
  <1>1. StubType'
    BY DEF Inv, TypeInv, StubType
  <1>2. \A j \in Call : RequestOK(j)'
    BY OthersKept DEF Inv, OnlyUnderLock
  <1>3. StubsOK'
    BY DEF Inv, RequestInv, StubsOK
  <1>4. QED BY <1>1, <1>2, <1>3 DEF RequestInv

\* The fields a spec may use do not get fewer while the process runs.
EverGrows == \A c \in Contract : Ever(c) \subseteq Ever(c)'

LEMMA PublishFrame ==
  ASSUME Inv, NEW k \in Call, NEW r, call' = [call EXCEPT ![k] = r],
         EverGrows, UNCHANGED <<st, next, task>>, PublishOK(k)'
  PROVE  PublishInv'
  <1>1. \A spec : Backed(spec) => Backed(spec)'
    BY DEF Backed, EverGrows
  <1>2. ASSUME NEW a \in Author PROVE AuthorOK(a)'
    BY <1>1 DEF Inv, PublishInv, AuthorOK, FromCheckpoint, Holds
  <1>3. ASSUME NEW j \in Call \ {k} PROVE PublishOK(j)'
    <2>1. call'[j] = call[j] /\ PublishOK(j)
      BY DEF Inv, TypeInv, StubType, PublishInv
    <2>2. QED BY <2>1 DEF PublishOK, EverGrows
  <1>4. QED BY <1>2, <1>3 DEF PublishInv

LEMMA BeginKeeps ==
  ASSUME Inv, NEW a \in Author, NEW r \in CallType, Begin(a, r),
         NEW k \in Call, k = <<a, made[a] + 1>>,
         lock' \in [Contract -> Seq(Call)], KeepsLocks(k),
         \/ r.step = "waiting" /\ r.contract \in Contract
         \/ r.step = "publishing" /\ Accepts(st[a])
  PROVE  Inv'
  <1>1. Message(a) /\ call' = [call EXCEPT ![k] = r] /\ UNCHANGED step
    BY DEF Begin
  <1>2. /\ UNCHANGED <<st, turns, pipeline, content, mirror, durable, records>>
        /\ process = "up" /\ made' \in [Author -> Nat]
        /\ \A b \in Author : made'[b] <= MaxCalls[b]
    BY <1>1, MessageType DEF Inv
  <1>3. call'[k] = r /\ By(k) = a
    BY <1>1 DEF Inv, TypeInv, StubType, By
  <1>4. RequestOK(k)' /\ PublishOK(k)'
    BY <1>2, <1>3 DEF RequestOK, PublishOK, pipeline
  <1>5. StubType' /\ RequestInv'
    BY <1>1, <1>2, <1>4, CallStepKeeps DEF pipeline, records
  <1>6. PublishInv'
    <2>1. EverGrows
      BY <1>2 DEF EverGrows, Ever, records
    <2>2. QED BY <1>1, <1>2, <1>4, <2>1, PublishFrame DEF step, pipeline
  <1>7. AuthorType' /\ PipelineType'
    BY <1>1, <1>2 DEF Inv, TypeInv, AuthorType, PipelineType, pipeline, step
  <1>8. QED BY <1>5, <1>6, <1>7 DEF Inv, TypeInv

LEMMA RequestKeeps == ASSUME Inv, NEW a \in Author, RequestStubField(a) PROVE Inv'
  <1>1. CASE Reply(a)
    BY <1>1, ReplyKeeps
  <1>2. CASE ~Reply(a)
    <2>1. PICK c \in Contract : /\ Begin(a, Waiting(c))
                                /\ lock' = [lock EXCEPT ![c] = Append(@, <<a, made[a] + 1>>)]
      BY <1>2 DEF RequestStubField, Waiting
    <2>2. made[a] + 1 \in 1..MaxCalls[a]
      BY <2>1, MessageType DEF Begin, Inv
    <2>3. PICK k \in Call : k = <<a, made[a] + 1>>
      BY <2>2, CallFacts
    <2>4. lock' \in [Contract -> Seq(Call)] /\ KeepsLocks(k)
      BY <2>1, <2>3, AppendKeeps DEF Inv
    <2>5. QED BY <2>1, <2>3, <2>4, IdleFacts, BeginKeeps
  <1>3. QED BY <1>1, <1>2

LEMMA PublishToolKeeps == ASSUME Inv, NEW a \in Author, PublishTool(a) PROVE Inv'
  <1>1. CASE Accepts(st[a])
    <2>1. Begin(a, Publishing) /\ lock' = lock
      BY <1>1 DEF PublishTool, Publishing
    <2>2. made[a] + 1 \in 1..MaxCalls[a]
      BY <2>1, MessageType DEF Begin, Inv
    <2>3. PICK k \in Call : k = <<a, made[a] + 1>>
      BY <2>2, CallFacts
    <2>4. lock' \in [Contract -> Seq(Call)] /\ KeepsLocks(k)
      BY <2>1, SameLocks DEF Inv, TypeInv, StubType
    <2>5. QED BY <1>1, <2>1, <2>3, <2>4, IdleFacts, BeginKeeps
  <1>2. QED BY <1>1, ReplyKeeps DEF PublishTool

-----------------------------------------------------------------------------
(* The registry *)

LEMMA RequestFacts ==
  ASSUME Inv, NEW k \in Call, call[k].step \in {"waiting", "asking", "writing"},
         NEW c, c = call[k].contract
  PROVE  /\ c \in Contract /\ RequestOK(k) /\ process # "down"
         /\ call \in [Call -> CallType] /\ call[k] \in CallType
         /\ content \in [Contract -> Stub] /\ mirror = content
         /\ durable \in [Contract -> Record \cup {NoRecord}]
         /\ durable[c] \in Record /\ durable[c].content \in Stub
         /\ durable[c].fields \in Seq(Field)
         /\ content[c] \in Stub
         /\ dropped \subseteq Contract \X Field /\ granted \subseteq Contract \X Field
  <1>1. c \in Contract /\ RequestOK(k) /\ process # "down"
    BY DEF Inv, RequestInv, RequestOK
  <1>2. mirror = content /\ durable[c] # NoRecord
    BY <1>1 DEF Inv, RequestInv, StubsOK
  <1>3. durable[c] \in Record
    BY <1>1, <1>2 DEF Inv, TypeInv, StubType
  <1>4. durable[c].content \in Stub /\ durable[c].fields \in Seq(Field)
    BY <1>3 DEF Record
  <1>5. QED BY <1>1, <1>2, <1>3, <1>4 DEF Inv, TypeInv, StubType

\* A request that ends leaves the others and the publications as they are.
LEMMA EndKeeps ==
  ASSUME Inv, NEW k \in Call, call[k].step \in {"waiting", "asking", "writing"},
         HasLock(k, call[k].contract), EndRequest(k)
  PROVE  /\ lock' \in [Contract -> Seq(Call)] /\ KeepsLocks(k)
         /\ call' = [call EXCEPT ![k] = Idle]
         /\ RequestOK(k)' /\ PublishInv'
         /\ AuthorType' /\ PipelineType'
  <1>1. call' = [call EXCEPT ![k] = Idle] /\ lock' = Release(k)
        /\ UNCHANGED <<content, mirror, dropped, author, pipeline>>
    BY DEF EndRequest
  <1>2. lock' \in [Contract -> Seq(Call)] /\ KeepsLocks(k)
    BY <1>1, ReleaseKeeps DEF Inv
  <1>3. call'[k].step = "idle"
    BY <1>1, IdleFacts DEF Inv, TypeInv, StubType
  <1>4. RequestOK(k)' /\ PublishOK(k)'
    BY <1>3 DEF RequestOK, PublishOK
  <1>5. EverGrows
    BY <1>1 DEF EverGrows, Ever
  <1>6. PublishInv'
    BY <1>1, <1>4, <1>5, PublishFrame DEF author, step, pipeline
  <1>7. AuthorType' /\ PipelineType'
    BY <1>1 DEF Inv, TypeInv, AuthorType, PipelineType, author, step, pipeline
  <1>8. QED BY <1>1, <1>2, <1>4, <1>6, <1>7

\* A request that ends without a write.
LEMMA EndWithoutWriteKeeps ==
  ASSUME Inv, NEW k \in Call, call[k].step \in {"waiting", "asking", "writing"},
         HasLock(k, call[k].contract), EndRequest(k), UNCHANGED <<durable, granted>>
  PROVE  Inv'
  <1>1. StubType' /\ RequestInv'
    BY EndKeeps, IdleFacts, CallStepKeeps DEF EndRequest, pipeline
  <1>2. QED BY <1>1, EndKeeps DEF Inv, TypeInv

LEMMA ReadMetadataKeeps == ASSUME Inv, NEW k \in Call, ReadMetadata(k) PROVE Inv'
  <1>1. PICK c \in Contract : c = call[k].contract
    BY RequestFacts DEF ReadMetadata
  <1>2. /\ call[k].step = "waiting" /\ HasLock(k, c)
        /\ durable[c].content = content[c]
        /\ call' = [call EXCEPT ![k].step = "asking", ![k].record = durable[c]]
        /\ UNCHANGED <<stubs, records, author, pipeline>>
    BY <1>1 DEF ReadMetadata, CurrentStub, RecordAgrees
  <1>3. durable[c] \in Record /\ call[k] \in CallType /\ process # "down"
        /\ call \in [Call -> CallType]
    BY <1>1, <1>2, RequestFacts
  <1>4. PICK r \in CallType : r = [call[k] EXCEPT !.step = "asking", !.record = durable[c]]
    BY <1>3 DEF CallType, Step
  <1>5. /\ r.step = "asking" /\ r.record = durable[c] /\ r.contract = c
        /\ call' = [call EXCEPT ![k] = r] /\ call'[k] = r
    BY <1>1, <1>2, <1>3, <1>4 DEF CallType
  <1>6. RequestOK(k)' /\ PublishOK(k)'
    BY <1>2, <1>3, <1>5 DEF RequestOK, PublishOK, HasLock, stubs, pipeline
  <1>7. lock' = lock /\ lock \in [Contract -> Seq(Call)]
    BY <1>2 DEF stubs, Inv, TypeInv, StubType
  <1>8. StubType' /\ RequestInv'
    BY <1>2, <1>5, <1>6, <1>7, SameLocks, CallStepKeeps DEF Inv, stubs, records, pipeline
  <1>9. PublishInv'
    <2>1. EverGrows
      BY <1>2 DEF EverGrows, Ever, stubs, records
    <2>2. QED BY <1>2, <1>5, <1>6, <2>1, PublishFrame DEF author, step, pipeline
  <1>10. AuthorType' /\ PipelineType'
    BY <1>2 DEF Inv, TypeInv, AuthorType, PipelineType, author, step, pipeline
  <1>11. QED BY <1>8, <1>9, <1>10 DEF Inv, TypeInv

\* A field that is granted is one of the store's record, and of the memory.
LEMMA ReuseFieldKeeps == ASSUME Inv, NEW k \in Call, ReuseField(k) PROVE Inv'
  <1>1. PICK c \in Contract : c = call[k].contract
    BY RequestFacts DEF ReuseField
  <1>2. /\ call[k].step = "asking" /\ HasLock(k, c)
        /\ durable[c] = call[k].record /\ content[c] = call[k].record.content
        /\ durable[c] \in Record
    BY <1>1 DEF ReuseField, Inv, RequestInv, RequestOK
  <1>3. PICK f \in Field : granted' = granted \cup {<<c, g>> : g \in {f} \cap durable[c].content}
    BY <1>1, <1>2 DEF ReuseField, Grant
  <1>4. EndRequest(k) /\ durable' = durable
    BY DEF ReuseField
  <1>5. /\ lock' \in [Contract -> Seq(Call)] /\ KeepsLocks(k)
        /\ call' = [call EXCEPT ![k] = Idle]
        /\ RequestOK(k)' /\ PublishInv' /\ AuthorType' /\ PipelineType'
    BY <1>1, <1>2, <1>4, EndKeeps
  <1>6. UNCHANGED <<content, mirror, dropped, process>>
    BY <1>4 DEF EndRequest, pipeline
  <1>7. durable[c] # NoRecord /\ durable[c].content \in Stub
    BY <1>1, <1>2, RequestFacts, NatspecAssumption DEF Record, Stub
  <1>8. StubsOK'
    BY <1>1, <1>2, <1>3, <1>4, <1>6, <1>7 DEF Inv, RequestInv, StubsOK
  <1>9. \A j \in Call : RequestOK(j)'
    BY <1>4, <1>5, <1>6, OthersKept DEF Inv, OnlyUnderLock
  <1>10. StubType'
    <2>1. granted' \subseteq Contract \X Field
      BY <1>1, <1>3 DEF Inv, TypeInv, StubType
    <2>2. QED BY <1>4, <1>5, <1>6, <2>1, IdleFacts DEF Inv, TypeInv, StubType
  <1>11. QED BY <1>5, <1>8, <1>9, <1>10 DEF Inv, TypeInv, RequestInv

\* The agent's stub is the memory's now; what it leaves out is noted.
LEMMA UpdateStubKeeps == ASSUME Inv, NEW k \in Call, UpdateStub(k) PROVE Inv'
  <1>1. PICK c \in Contract : c = call[k].contract
    BY RequestFacts DEF UpdateStub
  <1> DEFINE old == call[k].record
             here == call[k].contract
             Took(f, stub) ==
               /\ content' = [content EXCEPT ![here] = stub]
               /\ mirror' = [mirror EXCEPT ![here] = stub]
               /\ dropped' = dropped \cup {<<here, g>> : g \in old.content \ stub}
               /\ call' = [call EXCEPT ![k].step = "writing", ![k].field = f,
                                       ![k].record = WithField(old, f, stub)]
  <1>0. PICK f \in Field, stub \in Stub : Took(f, stub)
    BY DEF UpdateStub
  <1>2. /\ content' = [content EXCEPT ![c] = stub] /\ mirror' = [mirror EXCEPT ![c] = stub]
        /\ dropped' = dropped \cup {<<c, g>> : g \in old.content \ stub}
        /\ call' = [call EXCEPT ![k].step = "writing", ![k].field = f,
                                ![k].record = WithField(old, f, stub)]
    BY <1>0, <1>1
  <1> HIDE DEF here, Took
  <1>3. /\ call[k].step = "asking" /\ HasLock(k, c) /\ call[k].record = durable[c]
        /\ content[c] = durable[c].content
        /\ UNCHANGED <<durable, lock, granted, author, pipeline>>
    <2>1. call[k].step = "asking" /\ UNCHANGED <<durable, lock, granted, author, pipeline>>
      BY DEF UpdateStub
    <2>2. RequestOK(k)
      BY DEF Inv, RequestInv
    <2>3. QED BY <1>1, <2>1, <2>2 DEF RequestOK
  <1>4. /\ durable[c] \in Record /\ durable[c].content \in Stub
        /\ durable[c].fields \in Seq(Field) /\ mirror = content
        /\ call[k] \in CallType /\ call \in [Call -> CallType]
        /\ content \in [Contract -> Stub] /\ process # "down"
        /\ dropped \subseteq Contract \X Field
    BY <1>1, <1>3, RequestFacts
  <1>5. PICK record \in Record : record = WithField(durable[c], f, stub)
    <2>1. Append(durable[c].fields, f) \in Seq(Field)
      BY <1>4
    <2>2. QED BY <2>1 DEF WithField, Record
  <1>6. record.content = stub /\ record.fields = Append(durable[c].fields, f)
    BY <1>5 DEF WithField
  <1>7. PICK r \in CallType :
          r = [call[k] EXCEPT !.step = "writing", !.field = f, !.record = record]
    BY <1>4 DEF CallType, Step
  <1>8. /\ r.step = "writing" /\ r.field = f /\ r.record = record /\ r.contract = c
        /\ call' = [call EXCEPT ![k] = r] /\ call'[k] = r
    BY <1>1, <1>2, <1>3, <1>4, <1>5, <1>7 DEF CallType
  <1>9. content'[c] = stub /\ \A d \in Contract \ {c} : content'[d] = content[d]
    BY <1>2, <1>4
  <1>10. RequestOK(k)' /\ PublishOK(k)'
    BY <1>3, <1>4, <1>6, <1>8, <1>9 DEF RequestOK, PublishOK, HasLock, pipeline
  <1>11. \A j \in Call : RequestOK(j)'
    <2>1. OnlyUnderLock(k)
      BY <1>3, <1>9 DEF OnlyUnderLock
    <2>2. KeepsLocks(k)
      BY <1>3, SameLocks DEF Inv
    <2>3. QED BY <1>3, <1>8, <1>10, <2>1, <2>2, OthersKept DEF Inv, pipeline
  <1>12. StubsOK'
    <2>1. mirror' = content'
      BY <1>2, <1>4
    <2>2. ASSUME NEW d \in Contract, NEW g \in Field, <<d, g>> \in granted' \ dropped'
          PROVE  durable[d] # NoRecord /\ g \in durable[d].content /\ g \in content'[d]
      <3>1. durable[d] # NoRecord /\ g \in durable[d].content /\ g \in content[d]
        BY <1>2, <1>3, <1>4, <2>2 DEF Inv, RequestInv, StubsOK
      <3>2. d = c => g \in stub
        BY <1>2, <1>3, <2>2, <3>1
      <3>3. QED BY <1>9, <3>1, <3>2
    <2>3. QED BY <1>3, <1>4, <2>1, <2>2 DEF Inv, RequestInv, StubsOK, pipeline
  <1>13. PublishInv'
    <2>1. EverGrows
      <3>1. SUFFICES ASSUME NEW d \in Contract, NEW g \in Ever(d) PROVE g \in Ever(d)'
        BY DEF EverGrows
      <3>2. CASE <<d, g>> \in dropped /\ g \in Field
        BY <1>2, <3>2 DEF Ever
      <3>3. CASE g \in mirror[d]
        <4>1. g \in content[d] /\ g \in Field
          BY <1>4, <3>3 DEF Stub
        <4>2. d = c /\ g \notin stub => <<d, g>> \in dropped'
          BY <1>2, <1>3, <4>1
        <4>3. mirror' = content'
          BY <1>2, <1>4
        <4>4. QED BY <1>9, <4>1, <4>2, <4>3 DEF Ever
      <3>4. QED BY <3>1, <3>2, <3>3 DEF Ever
    <2>2. QED BY <1>3, <1>8, <1>10, <2>1, PublishFrame DEF author, step, pipeline
  <1>14. StubType'
    <2>1. content' \in [Contract -> Stub] /\ mirror' \in [Contract -> Stub]
      BY <1>2, <1>4
    <2>2. dropped' \subseteq Contract \X Field
      BY <1>2, <1>3, <1>4 DEF Stub
    <2>3. QED BY <1>3, <1>4, <1>8, <2>1, <2>2 DEF Inv, TypeInv, StubType
  <1>15. AuthorType' /\ PipelineType'
    BY <1>3 DEF Inv, TypeInv, AuthorType, PipelineType, author, step, pipeline
  <1>16. QED BY <1>11, <1>12, <1>13, <1>14, <1>15 DEF Inv, TypeInv, RequestInv

\* The record that is written has all that was granted and not left out.
LEMMA WriteMetadataKeeps == ASSUME Inv, NEW k \in Call, WriteMetadata(k) PROVE Inv'
  <1>1. PICK c \in Contract : c = call[k].contract
    BY RequestFacts DEF WriteMetadata
  <1>2. PICK record \in Record : record = call[k].record
    BY DEF WriteMetadata, Inv, RequestInv, RequestOK
  <1>3. /\ call[k].step = "writing" /\ HasLock(k, c) /\ call[k].field \in Field
        /\ content[c] = record.content
    BY <1>1, <1>2 DEF WriteMetadata, Inv, RequestInv, RequestOK
  <1>4. /\ durable' = [durable EXCEPT ![c] = record]
        /\ granted' = granted \cup {<<c, g>> : g \in {call[k].field} \cap record.content}
        /\ EndRequest(k)
    BY <1>1, <1>2 DEF WriteMetadata, Grant
  <1>5. /\ lock' \in [Contract -> Seq(Call)] /\ KeepsLocks(k)
        /\ call' = [call EXCEPT ![k] = Idle]
        /\ RequestOK(k)' /\ PublishInv' /\ AuthorType' /\ PipelineType'
    BY <1>1, <1>3, <1>4, EndKeeps
  <1>6. UNCHANGED <<content, mirror, dropped, process>>
    BY <1>4 DEF EndRequest, pipeline
  <1>7. durable \in [Contract -> Record \cup {NoRecord}] /\ record # NoRecord /\ c \in Contract
    <2>1. NoRecord \notin Record
      BY NatspecAssumption DEF Record, Stub
    <2>2. QED BY <1>1, <1>3, <2>1, RequestFacts
  <1>8. durable'[c] = record /\ \A d \in Contract \ {c} : durable'[d] = durable[d]
    BY <1>4, <1>7
  <1>9. StubsOK'
    <2>1. ASSUME NEW d \in Contract, NEW g \in Field, <<d, g>> \in granted' \ dropped
          PROVE  /\ durable'[d] # NoRecord /\ g \in durable'[d].content
                 /\ process # "down" => g \in content[d]
      <3>1. CASE <<d, g>> \in granted
        BY <1>3, <1>7, <1>8, <2>1, <3>1, RequestFacts DEF Inv, RequestInv, StubsOK
      <3>2. CASE <<d, g>> \notin granted
        BY <1>3, <1>4, <1>7, <1>8, <2>1, <3>2
      <3>3. QED BY <3>1, <3>2
    <2>2. QED BY <1>6, <1>7, <1>8, <2>1 DEF Inv, RequestInv, StubsOK
  <1>10. \A j \in Call : RequestOK(j)'
    <2>1. OnlyUnderLock(k)
      BY <1>3, <1>6, <1>8 DEF OnlyUnderLock
    <2>2. QED BY <1>5, <1>6, <2>1, OthersKept DEF Inv
  <1>11. StubType'
    <2>1. granted' \subseteq Contract \X Field
      BY <1>3, <1>4 DEF Inv, TypeInv, StubType
    <2>2. durable' \in [Contract -> Record \cup {NoRecord}]
      BY <1>4, <1>7
    <2>3. QED BY <1>5, <1>6, <2>1, <2>2, IdleFacts DEF Inv, TypeInv, StubType
  <1>12. QED BY <1>5, <1>9, <1>10, <1>11 DEF Inv, TypeInv, RequestInv

LEMMA RegistryKeeps == ASSUME Inv, NEW k \in Call, Registry(k) PROVE Inv'
  <1>1. CASE AssertionFails(k) \/ AgentRaises(k) \/ Reject(k) \/ WriteRaises(k)
    <2>1. /\ call[k].step \in {"waiting", "asking", "writing"} /\ HasLock(k, call[k].contract)
          /\ EndRequest(k) /\ UNCHANGED <<durable, granted>>
      BY <1>1 DEF AssertionFails, AgentRaises, Reject, WriteRaises, Inv, RequestInv, RequestOK
    <2>2. QED BY <2>1, EndWithoutWriteKeeps
  <1>2. QED BY <1>1, ReadMetadataKeeps, ReuseFieldKeeps, UpdateStubKeeps, WriteMetadataKeeps
        DEF Registry

-----------------------------------------------------------------------------
(* The typecheck of a publication *)

\* A step of a publication, to r, that may merge.
LEMMA PublishStepKeeps ==
  ASSUME Inv, NEW k \in Call, NEW r \in CallType, call' = [call EXCEPT ![k] = r],
         r.step \in {"idle", "checking"}, process # "down",
         UNCHANGED <<stubs, records, st, made, turns, pipeline>>
  PROVE  StubType' /\ RequestInv' /\ PipelineType'
  <1>1. call'[k] = r
    BY DEF Inv, TypeInv, StubType
  <1>2. RequestOK(k)'
    BY <1>1 DEF RequestOK, pipeline
  <1>3. lock' \in [Contract -> Seq(Call)] /\ KeepsLocks(k)
    BY SameLocks DEF Inv, TypeInv, StubType, stubs
  <1>4. StubType' /\ RequestInv'
    BY <1>2, <1>3, CallStepKeeps DEF stubs, records, pipeline
  <1>5. PipelineType'
    BY DEF Inv, TypeInv, PipelineType, pipeline
  <1>6. QED BY <1>4, <1>5

LEMMA AssembleKeeps == ASSUME Inv, NEW k \in Call, Assemble(k) PROVE Inv'
  <1>1. /\ call[k].step = "publishing" /\ UNCHANGED <<stubs, records, author, pipeline>>
        /\ call' = [call EXCEPT ![k].step = "checking", ![k].view = mirror]
    BY DEF Assemble
  <1>2. /\ call[k] \in CallType /\ call \in [Call -> CallType] /\ mirror \in [Contract -> Stub]
        /\ PublishOK(k) /\ process # "down"
    BY <1>1 DEF Inv, TypeInv, StubType, PublishInv, RequestInv, RequestOK
  <1>3. PICK r \in CallType : r = [call[k] EXCEPT !.step = "checking", !.view = mirror]
    BY <1>2 DEF CallType, Step
  <1>4. r.step = "checking" /\ r.view = mirror /\ call' = [call EXCEPT ![k] = r] /\ call'[k] = r
    BY <1>1, <1>2, <1>3 DEF CallType
  <1>5. StubType' /\ RequestInv' /\ PipelineType'
    BY <1>1, <1>2, <1>4, PublishStepKeeps DEF author
  <1>6. PublishInv'
    <2>1. EverGrows
      BY <1>1 DEF EverGrows, Ever, stubs, records
    <2>2. PublishOK(k)'
      BY <1>1, <1>2, <1>4 DEF PublishOK, author, Ever, stubs, records
    <2>3. QED BY <1>1, <1>4, <2>1, <2>2, PublishFrame DEF author, step, pipeline
  <1>7. AuthorType'
    BY <1>1 DEF Inv, TypeInv, AuthorType, author, step
  <1>8. QED BY <1>5, <1>6, <1>7 DEF Inv, TypeInv

\* The draft that was typechecked is the checkpoint's, and it was accepted.
LEMMA TypecheckReturnsKeeps == ASSUME Inv, NEW k \in Call, TypecheckReturns(k) PROVE Inv'
  <1>1. PICK a \in Author : a = By(k)
    BY CallFacts
  <1>2. /\ call[k].step = "checking" /\ call' = [call EXCEPT ![k] = Idle]
        /\ UNCHANGED <<stubs, records, st, made, turns, pipeline>>
    BY DEF TypecheckReturns
  <1>3. PublishOK(k) /\ process # "down" /\ AuthorOK(a)
    BY <1>2 DEF Inv, PublishInv, RequestInv, RequestOK
  <1>4. StubType' /\ RequestInv' /\ PipelineType'
    BY <1>2, <1>3, IdleFacts, PublishStepKeeps
  <1>5. call'[k].step = "idle"
    BY <1>2, IdleFacts DEF Inv, TypeInv, StubType
  <1>6. EverGrows /\ \A spec : Backed(spec)' <=> Backed(spec)
    BY <1>2 DEF EverGrows, Backed, Ever, stubs, records
  <1>7. \A j \in Call : PublishOK(j)'
    <2>1. ASSUME NEW j \in Call \ {k} PROVE PublishOK(j)'
      <3>1. call'[j] = call[j] /\ PublishOK(j)
        BY <1>2 DEF Inv, TypeInv, StubType, PublishInv
      <3>2. QED BY <1>2, <1>6, <3>1 DEF PublishOK, EverGrows
    <2>2. QED BY <1>5, <2>1 DEF PublishOK
  <1>8. CASE st[a].result = "open" /\ Typechecks(st[a].spec, call[k].view)
    <2>1. next[a] \in StateType /\ st[a].spec \in Drafts /\ FromCheckpoint(st[a], next[a])
      BY <1>3, Types DEF Inv, AuthorOK
    <2>2. PICK n \in StateType :
            n = [next[a] EXCEPT !.result = "published", !.vetted = st[a].spec]
      BY <2>1 DEF StateType
    <2>3. Merge(a, n, {"result"}) /\ {"result"} \in SUBSET LastValue
      BY <1>1, <1>8, <2>2 DEF TypecheckReturns, LastValue
    <2>4. /\ next' \in [Author -> StateType] /\ next'[a] = n
          /\ wrote' \in [Author -> SUBSET LastValue] /\ clash' \in [Author -> BOOLEAN]
          /\ \A b \in Author : b # a => next'[b] = next[b]
      BY <2>3, MergeType DEF Inv
    <2>5. FromCheckpoint(st[a], n)
      <3>1. st[a].spec # NoSpec /\ st[a].accepted = st[a].spec
        BY <1>1, <1>2, <1>3, <1>8 DEF PublishOK, Accepts
      <3>2. Backed(st[a].spec)
        BY <1>2, <1>3, <1>8 DEF PublishOK, Typechecks, Backed
      <3>3. /\ n.vetted = st[a].spec /\ n.accepted = next[a].accepted
            /\ n.spec = next[a].spec
        BY <2>1, <2>2 DEF StateType
      <3>4. QED BY <2>1, <3>1, <3>2, <3>3 DEF FromCheckpoint
    <2>6. ASSUME NEW b \in Author PROVE AuthorOK(b)'
      <3>1. AuthorOK(b) /\ FromCheckpoint(st[b], next'[b])
        BY <2>4, <2>5 DEF Inv, PublishInv, AuthorOK
      <3>2. QED BY <1>2, <1>6, <3>1 DEF AuthorOK, FromCheckpoint, Holds, pipeline
    <2>7. AuthorType'
      BY <1>2, <2>4 DEF Inv, TypeInv, AuthorType
    <2>8. QED BY <1>4, <1>7, <2>6, <2>7 DEF Inv, TypeInv, PublishInv
  <1>9. CASE ~(st[a].result = "open" /\ Typechecks(st[a].spec, call[k].view))
    <2>1. UNCHANGED step
      BY <1>1, <1>9 DEF TypecheckReturns
    <2>2. \A b \in Author : AuthorOK(b)'
      BY <1>2, <1>6, <2>1 DEF Inv, PublishInv, AuthorOK, FromCheckpoint, Holds, step, pipeline
    <2>3. AuthorType'
      BY <1>2, <2>1 DEF Inv, TypeInv, AuthorType, step
    <2>4. QED BY <1>4, <1>7, <2>2, <2>3 DEF Inv, TypeInv, PublishInv
  <1>10. QED BY <1>8, <1>9

-----------------------------------------------------------------------------
(* The end of a super-step and of a task *)

\* A step that starts a super-step of an author from s.
LEMMA StartStepKeeps ==
  ASSUME Inv, NEW a \in Author, NEW s \in StateType, StartStep(a, s),
         turns' \in [Author -> Nat], \A b \in Author : turns'[b] <= MaxTurns[b],
         s.result = "published" => s.spec # NoSpec,
         s.result = "published" /\ task[a] # "cached" /\ s.spec = s.vetted =>
           s.accepted = s.spec /\ Backed(s.spec),
         \A k \in Call : By(k) = a => call[k] = Idle \/ s.result # "open"
  PROVE  Inv'
  <1>1. UNCHANGED <<stubs, records, call, pipeline>>
    BY DEF StartStep
  <1>2. /\ st' = [st EXCEPT ![a] = s] /\ next' = [next EXCEPT ![a] = s]
        /\ st'[a] = s /\ next'[a] = s
        /\ \A b \in Author \ {a} : st'[b] = st[b] /\ next'[b] = next[b]
    BY DEF StartStep, Inv, TypeInv, AuthorType
  <1>3. AuthorType'
    <2>1. /\ wrote' = [wrote EXCEPT ![a] = {}] /\ clash' = [clash EXCEPT ![a] = FALSE]
          /\ made' = [made EXCEPT ![a] = 0]
      BY DEF StartStep
    <2>2. made' \in [Author -> Nat] /\ \A b \in Author : made'[b] <= MaxCalls[b]
      <3>1. \A b \in Author : MaxCalls[b] \in Nat /\ made'[b] \in {0, made[b]}
        BY <2>1, NatspecAssumption DEF Inv, TypeInv, AuthorType
      <3>2. QED BY <2>1, <3>1 DEF Inv, TypeInv, AuthorType
    <2>3. st' \in [Author -> StateType] /\ next' \in [Author -> StateType]
      BY <1>2 DEF Inv, TypeInv, AuthorType
    <2>4. wrote' \in [Author -> SUBSET LastValue] /\ clash' \in [Author -> BOOLEAN]
      BY <2>1 DEF Inv, TypeInv, AuthorType
    <2>5. QED BY <2>2, <2>3, <2>4 DEF AuthorType
  <1>4. StubType' /\ PipelineType'
    BY <1>1 DEF Inv, TypeInv, StubType, PipelineType, stubs, records, pipeline
  <1>5. RequestInv'
    BY <1>1, RequestFrame DEF Inv, pipeline
  <1>6. \A spec : Backed(spec)' <=> Backed(spec)
    BY <1>1 DEF Backed, Ever, stubs, records
  <1>7. ASSUME NEW b \in Author PROVE AuthorOK(b)'
    <2>1. CASE b = a
      BY <1>1, <1>2, <1>6, <2>1 DEF AuthorOK, FromCheckpoint, Holds, pipeline
    <2>2. CASE b # a
      <3>1. AuthorOK(b) /\ st'[b] = st[b] /\ next'[b] = next[b] /\ task' = task
        BY <1>1, <1>2, <2>2 DEF Inv, PublishInv, pipeline
      <3>2. QED BY <1>6, <3>1 DEF AuthorOK, FromCheckpoint, Holds
    <2>3. QED BY <2>1, <2>2
  <1>8. ASSUME NEW k \in Call PROVE PublishOK(k)'
    <2>1. PublishOK(k) /\ call' = call /\ By(k) \in Author
      BY <1>1, CallFacts DEF Inv, PublishInv
    <2>2. \A c \in Contract : Ever(c)' = Ever(c)
      BY <1>1 DEF Ever, stubs, records
    <2>3. CASE By(k) = a
      BY <1>2, <2>1, <2>2, <2>3, IdleFacts DEF PublishOK
    <2>4. CASE By(k) # a
      BY <1>2, <2>1, <2>2, <2>4 DEF PublishOK
    <2>5. QED BY <2>3, <2>4
  <1>9. QED BY <1>3, <1>4, <1>5, <1>7, <1>8 DEF Inv, TypeInv, PublishInv

\* What a new publication rests on is the checkpoint's, and no call merged
\* after it undoes it but a new draft.
LEMMA EndStepKeeps == ASSUME Inv, NEW a \in Author, EndStep(a) PROVE Inv'
  <1>1. /\ st[a].result = "open" /\ turns[a] < MaxTurns[a] /\ AllReturned(a)
        /\ turns' = [turns EXCEPT ![a] = @ + 1] /\ StartStep(a, next[a])
    BY DEF EndStep, InStep
  <1>2. PICK n \in StateType : n = next[a]
    BY Types DEF Inv
  <1>3. turns' \in [Author -> Nat] /\ \A b \in Author : turns'[b] <= MaxTurns[b]
    <2>1. turns[a] \in Nat /\ MaxTurns[a] \in Nat
      BY Types DEF Inv
    <2>2. turns[a] + 1 \in Nat /\ turns[a] + 1 <= MaxTurns[a]
      BY <1>1, <2>1
    <2>3. QED BY <1>1, <2>2 DEF Inv, TypeInv, AuthorType
  <1>4. FromCheckpoint(st[a], n)
    BY <1>2 DEF Inv, PublishInv, AuthorOK
  <1>5. n.result = "published" => n.spec # NoSpec
    BY <1>4 DEF FromCheckpoint
  <1>6. n.result = "published" /\ n.spec = n.vetted => n.accepted = n.spec /\ Backed(n.spec)
    BY <1>1, <1>4 DEF FromCheckpoint
  <1>7. \A k \in Call : By(k) = a => call[k] = Idle
    BY <1>1 DEF AllReturned
  <1>8. QED BY <1>1, <1>2, <1>3, <1>5, <1>6, <1>7, StartStepKeeps

LEMMA RaiseKeeps == ASSUME Inv, NEW a \in Author, Raise(a) PROVE Inv'
  <1>1. st[a] \in StateType
    BY Types DEF Inv
  <1>2. PICK s \in StateType : s = [st[a] EXCEPT !.result = "failed"]
    BY <1>1 DEF StateType
  <1>3. s.result = "failed" /\ StartStep(a, s) /\ turns' = turns
    BY <1>1, <1>2 DEF StateType, Raise
  <1>4. turns' \in [Author -> Nat] /\ \A b \in Author : turns'[b] <= MaxTurns[b]
    BY <1>3 DEF Inv, TypeInv, AuthorType
  <1>5. QED BY <1>3, <1>4, StartStepKeeps

LEMMA CachePutKeeps == ASSUME Inv, NEW a \in Author, CachePut(a) PROVE Inv'
  <1>1. /\ st[a].result \in {"published", "gave_up"} /\ task[a] = "running"
        /\ cache' = [cache EXCEPT ![a] = IF st[a].result = "gave_up" THEN GaveUp ELSE st[a].spec]
        /\ task' = [task EXCEPT ![a] = "returned"]
        /\ UNCHANGED <<process, crashes, stubs, records, call, author, delivered>>
    BY DEF CachePut
  <1>2. AuthorOK(a) /\ st[a].spec \in Drafts
    BY Types DEF Inv, PublishInv
  <1>3. PipelineType'
    <2>1. (IF st[a].result = "gave_up" THEN GaveUp ELSE st[a].spec) \in Spec \cup {GaveUp, NoResult}
      BY <1>1, <1>2 DEF AuthorOK, Drafts
    <2>2. QED BY <1>1, <2>1 DEF Inv, TypeInv, PipelineType
  <1>4. AuthorType' /\ StubType'
    BY <1>1 DEF Inv, TypeInv, AuthorType, StubType, stubs, records, author, step
  <1>5. RequestInv'
    BY <1>1, RequestFrame DEF Inv
  <1>6. \A c \in Contract : Ever(c)' = Ever(c)
    BY <1>1 DEF Ever, stubs, records
  <1>7. \A k \in Call : PublishOK(k)'
    BY <1>1, <1>6 DEF Inv, PublishInv, PublishOK, author
  <1>8. ASSUME NEW b \in Author PROVE AuthorOK(b)'
    <2>1. AuthorOK(b) /\ (Holds(b)' => Holds(b)) /\ UNCHANGED <<st, next>>
      BY <1>1 DEF Inv, TypeInv, PipelineType, PublishInv, Holds, author, step
    <2>2. \A spec : Backed(spec)' <=> Backed(spec)
      BY <1>6 DEF Backed
    <2>3. QED BY <2>1, <2>2 DEF AuthorOK, FromCheckpoint
  <1>9. QED BY <1>3, <1>4, <1>5, <1>7, <1>8 DEF Inv, TypeInv, PublishInv

LEMMA TaskRaisesKeeps == ASSUME Inv, NEW a \in Author, TaskRaises(a) PROVE Inv'
  <1>1. /\ st[a].result # "open"
        /\ st' = [st EXCEPT ![a].result = "failed"] /\ task' = [task EXCEPT ![a] = "returned"]
        /\ UNCHANGED <<process, crashes, stubs, records, call, step, made, turns, cache, delivered>>
    BY DEF TaskRaises
  <1>2. PICK s \in StateType : s = [st[a] EXCEPT !.result = "failed"]
    BY Types DEF Inv, StateType
  <1>3. /\ s.result = "failed" /\ s.spec = st[a].spec /\ s.accepted = st[a].accepted
        /\ st' = [st EXCEPT ![a] = s] /\ st'[a] = s
        /\ \A b \in Author \ {a} : st'[b] = st[b]
    <2>1. st[a] \in StateType /\ st \in [Author -> StateType]
      BY DEF Inv, TypeInv, AuthorType
    <2>2. s.result = "failed" /\ s.spec = st[a].spec /\ s.accepted = st[a].accepted
      BY <1>2, <2>1 DEF StateType
    <2>3. st' = [st EXCEPT ![a] = s]
      BY <1>1, <1>2, <2>1
    <2>4. QED BY <2>1, <2>2, <2>3
  <1>4. AuthorType' /\ StubType' /\ PipelineType'
    BY <1>1, <1>3
    DEF Inv, TypeInv, AuthorType, StubType, PipelineType, stubs, records, step
  <1>5. RequestInv'
    BY <1>1, RequestFrame DEF Inv
  <1>6. \A c \in Contract : Ever(c)' = Ever(c)
    BY <1>1 DEF Ever, stubs, records
  <1>7. ASSUME NEW k \in Call PROVE PublishOK(k)'
    <2>1. PublishOK(k) /\ call' = call /\ By(k) \in Author
      BY <1>1, CallFacts DEF Inv, PublishInv
    <2>2. CASE By(k) = a
      BY <1>3, <1>6, <2>1, <2>2 DEF PublishOK
    <2>3. CASE By(k) # a
      BY <1>3, <1>6, <2>1, <2>3 DEF PublishOK
    <2>4. QED BY <2>2, <2>3
  <1>8. ASSUME NEW b \in Author PROVE AuthorOK(b)'
    <2>1. AuthorOK(b) /\ next' = next
      BY <1>1 DEF Inv, PublishInv, step
    <2>2. \A spec : Backed(spec)' <=> Backed(spec)
      BY <1>6 DEF Backed
    <2>3. CASE b = a
      BY <1>3, <2>1, <2>2, <2>3 DEF AuthorOK, FromCheckpoint, Holds
    <2>4. CASE b # a
      <3>1. st'[b] = st[b] /\ task'[b] = task[b]
        BY <1>1, <1>3, <2>4 DEF Inv, TypeInv, PipelineType
      <3>2. QED BY <2>1, <2>2, <3>1 DEF AuthorOK, FromCheckpoint, Holds
    <2>5. QED BY <2>3, <2>4
  <1>9. QED BY <1>4, <1>5, <1>7, <1>8 DEF Inv, TypeInv, PublishInv

-----------------------------------------------------------------------------
(* The process *)

\* Every author starts from an open state or from the cached result.
LEMMA StartAllKeeps ==
  ASSUME Inv, NEW s \in [Author -> StateType], StartAll(s),
         \A a \in Author : s[a].result = "published" => s[a].spec # NoSpec /\ task'[a] = "cached",
         \A k \in Call : call'[k] = Idle
  PROVE  AuthorType' /\ PublishInv'
  <1>1. AuthorType'
    BY NatspecAssumption DEF StartAll, AuthorType
  <1>2. \A k \in Call : PublishOK(k)'
    BY IdleFacts DEF PublishOK
  <1>3. ASSUME NEW a \in Author PROVE AuthorOK(a)'
    BY DEF StartAll, AuthorOK, FromCheckpoint, Holds
  <1>4. QED BY <1>1, <1>2, <1>3 DEF PublishInv

LEMMA StartKeeps == ASSUME Inv, Start PROVE Inv'
  <1> DEFINE S == [a \in Author |-> IF cache[a] = NoResult THEN FreshState
                                                           ELSE CachedState(cache[a])]
  <1>1. /\ process = "down" /\ process' = "up" /\ StartAll(S)
        /\ content' = [c \in Contract |-> Existing(c)] /\ mirror' = content'
        /\ durable' = [c \in Contract |-> IF durable[c] = NoRecord
                                          THEN [fields |-> << >>, content |-> InitialStub]
                                          ELSE durable[c]]
        /\ task' = [a \in Author |-> IF cache[a] = NoResult THEN "running" ELSE "cached"]
        /\ UNCHANGED <<crashes, lock, call, cache, delivered, records>>
    BY DEF Start
  <1>2. /\ durable \in [Contract -> Record \cup {NoRecord}]
        /\ cache \in [Author -> Spec \cup {GaveUp, NoResult}]
        /\ call \in [Call -> CallType]
    BY DEF Inv, TypeInv, StubType, PipelineType
  <1>3. \A k \in Call : call[k].step = "idle"
    BY <1>1 DEF Inv, RequestInv, RequestOK
  <1>4. ASSUME NEW a \in Author
        PROVE  /\ S[a] \in StateType
               /\ S[a].result = "published" => S[a].spec # NoSpec /\ task'[a] = "cached"
    <2>1. CASE cache[a] = NoResult
      BY <1>1, <2>1, FreshFacts
    <2>2. CASE cache[a] # NoResult
      <3>1. cache[a] \in Spec \cup {GaveUp}
        BY <1>2, <2>2
      <3>2. S[a] = CachedState(cache[a]) /\ task'[a] = "cached"
        BY <1>1, <2>2
      <3>3. QED BY <3>1, <3>2, FreshFacts, NatspecAssumption
    <2>3. QED BY <2>1, <2>2
  <1>5. S \in [Author -> StateType]
    BY <1>4
  <1>6. AuthorType'
    <2> HIDE DEF S
    <2>1. QED BY <1>1, <1>5, NatspecAssumption DEF StartAll, AuthorType
  <1>7. PublishInv'
    <2>1. st' = S /\ next' = S
      BY <1>1 DEF StartAll
    <2> HIDE DEF S
    <2>2. ASSUME NEW a \in Author PROVE AuthorOK(a)'
      <3>1. st'[a] = S[a] /\ next'[a] = S[a]
        BY <2>1
      <3>2. QED BY <1>4, <3>1 DEF AuthorOK, FromCheckpoint, Holds
    <2>3. \A k \in Call : PublishOK(k)'
      BY <1>1, <1>3 DEF PublishOK
    <2>4. QED BY <2>2, <2>3 DEF PublishInv
  <1>8. [fields |-> << >>, content |-> InitialStub] \in Record /\ NoRecord \notin Record
    BY NatspecAssumption DEF Record, Stub, InitialStub
  <1>9. ASSUME NEW c \in Contract
        PROVE  /\ durable'[c] \in Record /\ durable'[c].content = Existing(c)
               /\ Existing(c) \in Stub
               /\ durable[c] # NoRecord => durable'[c] = durable[c]
    <2>1. durable'[c] = IF durable[c] = NoRecord THEN [fields |-> << >>, content |-> InitialStub]
                                                 ELSE durable[c]
      BY <1>1
    <2>2. QED BY <1>2, <1>8, <2>1 DEF Existing, Resumed, Record
  <1>10. StubType'
    <2>1. content' \in [Contract -> Stub] /\ durable' \in [Contract -> Record \cup {NoRecord}]
      BY <1>1, <1>9
    <2>2. QED BY <1>1, <2>1 DEF Inv, TypeInv, StubType, records
  <1>11. PipelineType'
    BY <1>1 DEF Inv, TypeInv, PipelineType
  <1>12. StubsOK'
    BY <1>1, <1>8, <1>9 DEF Inv, RequestInv, StubsOK, records
  <1>13. \A k \in Call : RequestOK(k)'
    BY <1>1, <1>3 DEF RequestOK
  <1>14. QED BY <1>6, <1>7, <1>10, <1>11, <1>12, <1>13 DEF Inv, TypeInv, RequestInv

LEMMA CrashKeeps == ASSUME Inv, Crash PROVE Inv'
  <1> DEFINE S == [a \in Author |-> FreshState]
  <1>1. /\ crashes < MaxCrashes /\ process' = "down" /\ crashes' = crashes + 1
        /\ content' = [c \in Contract |-> InitialStub] /\ mirror' = content'
        /\ lock' = [c \in Contract |-> << >>] /\ call' = [k \in Call |-> Idle]
        /\ StartAll(S) /\ task' = [a \in Author |-> "running"]
        /\ UNCHANGED <<durable, cache, delivered, records>>
    BY DEF Crash
  <1>2. AuthorType' /\ PublishInv'
    <2>1. S \in [Author -> StateType] /\ \A a \in Author : S[a].result # "published"
      BY FreshFacts
    <2>2. \A k \in Call : call'[k] = Idle
      BY <1>1
    <2> HIDE DEF S
    <2>3. QED BY <1>1, <2>1, <2>2, StartAllKeeps
  <1>3. StubType'
    BY <1>1, IdleFacts DEF Inv, TypeInv, StubType, InitialStub, Stub, records
  <1>4. PipelineType'
    <2>1. crashes \in 0..MaxCrashes /\ MaxCrashes \in Nat
      BY NatspecAssumption DEF Inv, TypeInv, PipelineType
    <2>2. crashes + 1 \in 0..MaxCrashes
      BY <1>1, <2>1
    <2>3. QED BY <1>1, <2>2 DEF Inv, TypeInv, PipelineType
  <1>5. StubsOK' /\ \A k \in Call : RequestOK(k)'
    BY <1>1, IdleFacts DEF Inv, RequestInv, StubsOK, RequestOK, records
  <1>6. QED BY <1>2, <1>3, <1>4, <1>5 DEF Inv, TypeInv, RequestInv

LEMMA DeliverKeeps == ASSUME Inv, Deliver PROVE Inv'
  <1>1. /\ process = "up" /\ process' = "done"
        /\ UNCHANGED <<crashes, stubs, records, call, author, task, cache>>
    BY DEF Deliver
  <1>2. delivered' \in [stubs : [Contract -> Stub], specs : SUBSET Spec]
    <2>1. \A a \in Author : st[a].result = "published" => st[a].spec \in Spec
      BY Types DEF Inv, PublishInv, AuthorOK, Drafts
    <2>2. {st[a].spec : a \in {b \in Author : st[b].result = "published"}} \in SUBSET Spec
      BY <2>1
    <2>3. [c \in Contract |-> DeliveredStub(c)] \in [Contract -> Stub]
      BY DEF DeliveredStub, InitialStub, Stub
    <2>4. QED BY <2>2, <2>3 DEF Deliver
  <1>3. AuthorType' /\ StubType' /\ PipelineType'
    BY <1>1, <1>2
    DEF Inv, TypeInv, AuthorType, StubType, PipelineType, stubs, records, author, step
  <1>4. RequestInv'
    BY <1>1 DEF Inv, RequestInv, StubsOK, RequestOK, HasLock, stubs, records
  <1>5. PublishInv'
    BY <1>1 DEF Inv, PublishInv, PublishOK, AuthorOK, FromCheckpoint, Backed, Holds, Ever,
                stubs, records, author, step
  <1>6. QED BY <1>3, <1>4, <1>5 DEF Inv, TypeInv

LEMMA StutterKeeps == ASSUME Inv, UNCHANGED vars PROVE Inv'
  <1>1. UNCHANGED <<stubs, records, call, author, pipeline>>
    BY DEF vars
  <1>2. AuthorType' /\ StubType' /\ PipelineType'
    BY <1>1 DEF Inv, TypeInv, AuthorType, StubType, PipelineType, stubs, records, author, step,
                pipeline
  <1>3. RequestInv'
    BY <1>1, RequestFrame DEF Inv, pipeline
  <1>4. PublishInv'
    BY <1>1 DEF Inv, PublishInv, PublishOK, AuthorOK, FromCheckpoint, Backed, Holds, Ever,
                stubs, records, author, step, pipeline
  <1>5. QED BY <1>2, <1>3, <1>4 DEF Inv, TypeInv

LEMMA NextKeeps == ASSUME Inv, [Next]_vars PROVE Inv'
  <1>1. ASSUME NEW a \in Author, Tool(a) \/ Task(a) PROVE Inv'
    BY <1>1, PutCVLKeeps, FeedbackKeeps, GiveUpKeeps, RequestKeeps, PublishToolKeeps,
       EndStepKeeps, RaiseKeeps, CachePutKeeps, TaskRaisesKeeps
    DEF Tool, Task
  <1>2. ASSUME NEW k \in Call, Serve(k) PROVE Inv'
    BY <1>2, RegistryKeeps, AssembleKeeps, TypecheckReturnsKeeps DEF Serve
  <1>3. QED BY <1>1, <1>2, StartKeeps, DeliverKeeps, CrashKeeps, StutterKeeps DEF Next, Finished

\* The invariant holds whatever the agents answer and the models call.
THEOREM Invariant == NatspecSpec => []Inv
  BY InitInv, NextKeeps, PTL DEF NatspecSpec

-----------------------------------------------------------------------------
(* Theorems *)

\* Every variable keeps its type: no author counts past its recursion limit, no
\* request goes on without the contract and the record its step uses, and the
\* lock is a queue of calls (all of NatspecStubs).
THEOREM NatspecTypeCorrect == NatspecSpec => []TypeOK
  <1>1. TypeInv => TypeOK
    BY DEF TypeInv, TypeOK, AuthorType, StubType, PipelineType, CallType, StateType, Drafts
  <1>2. QED BY <1>1, Invariant, PTL DEF Inv

\* A granted field is in the store, the memory and the mirror until an agent
\* leaves it out of its stub, for any number of concurrent requests, failed
\* writes and crashes (registry.py request_field, acreate).
THEOREM GrantsAreKept == NatspecSpec => []GrantedKept
  <1>1. Inv => GrantedKept
    BY DEF Inv, RequestInv, StubsOK, GrantedKept
  <1>2. QED BY <1>1, Invariant, PTL

\* A stub's metadata only grow, by one entry for each write, whatever the
\* agents answer and however the requests interleave (registry.py 398-428).
THEOREM MetadataGrowsAlways == NatspecSpec => MetadataGrows
  <1> DEFINE Grows == \A c \in Contract : durable[c] # NoRecord /\ durable'[c] # durable[c] =>
                        \E f \in Field : durable'[c].fields = Append(durable[c].fields, f)
  <1>1. ASSUME Inv, [Next]_vars PROVE Grows
    <2>1. CASE durable' = durable
      BY <2>1
    <2>2. CASE Start
      BY <2>2 DEF Start
    <2>3. ASSUME NEW k \in Call, WriteMetadata(k) PROVE Grows
      <3>1. PICK c \in Contract : c = call[k].contract
        BY <1>1, <2>3, RequestFacts DEF WriteMetadata
      <3>2. durable' = [durable EXCEPT ![c] = call[k].record] /\ call[k].step = "writing"
        BY <2>3, <3>1 DEF WriteMetadata
      <3>3. /\ call[k].field \in Field
            /\ call[k].record.fields = Append(durable[c].fields, call[k].field)
        BY <1>1, <3>1, <3>2 DEF Inv, RequestInv, RequestOK
      <3>4. durable \in [Contract -> Record \cup {NoRecord}]
        BY <1>1 DEF Inv, TypeInv, StubType
      <3>5. QED BY <3>1, <3>2, <3>3, <3>4
    <2>4. ASSUME NEW k \in Call, Serve(k), ~WriteMetadata(k) PROVE durable' = durable
      BY <2>4 DEF Serve, Registry, ReadMetadata, AssertionFails, AgentRaises, Reject, ReuseField,
                  UpdateStub, WriteRaises, Assemble, TypecheckReturns, stubs
    <2>5. ASSUME NEW a \in Author, Tool(a) \/ Task(a) PROVE durable' = durable
      BY <2>5 DEF Tool, Task, PutCVL, FeedbackTool, GiveUp, RequestStubField, PublishTool, Reply,
                  Update, Begin, Message, EndStep, Raise, StartStep, CachePut, TaskRaises, stubs
    <2>6. CASE UNCHANGED vars
      BY <2>6 DEF vars, stubs
    <2>7. QED BY <1>1, <2>1, <2>2, <2>3, <2>4, <2>5, <2>6
          DEF Next, Deliver, Crash, Finished, stubs
  <1>2. Inv /\ [Next]_vars => [Grows]_vars
    BY <1>1
  <1>3. QED BY <1>2, Invariant, PTL DEF NatspecSpec, MetadataGrows

\* An author is told a field only of a stub on which memory, mirror and store
\* agree (the assertion of request_field, under the stub's lock).
THEOREM AnswersAlwaysAgree == NatspecSpec => AnswersAgree
  <1> DEFINE Agree == \A k \in Call : ReuseField(k) \/ WriteMetadata(k) =>
                        LET c == call[k].contract IN
                        mirror'[c] = content'[c] /\ durable'[c].content = content'[c]
  <1>1. ASSUME Inv PROVE Agree
    <2>1. SUFFICES ASSUME NEW k \in Call, ReuseField(k) \/ WriteMetadata(k),
                          NEW c, c = call[k].contract
                   PROVE  mirror'[c] = content'[c] /\ durable'[c].content = content'[c]
      OBVIOUS
    <2>2. call[k].step \in {"asking", "writing"} /\ EndRequest(k)
      BY <2>1 DEF ReuseField, WriteMetadata
    <2>3. /\ c \in Contract /\ mirror = content /\ RequestOK(k)
          /\ durable \in [Contract -> Record \cup {NoRecord}]
      BY <1>1, <2>1, <2>2, RequestFacts
    <2>4. mirror' = mirror /\ content' = content
      BY <2>2 DEF EndRequest
    <2>5. CASE ReuseField(k)
      BY <2>1, <2>3, <2>4, <2>5 DEF ReuseField, RequestOK
    <2>6. CASE WriteMetadata(k)
      <3>1. durable'[c] = call[k].record
        BY <2>1, <2>3, <2>6 DEF WriteMetadata
      <3>2. content[c] = call[k].record.content
        BY <2>1, <2>2, <2>3 DEF RequestOK
      <3>3. QED BY <2>3, <2>4, <3>1, <3>2
    <2>7. QED BY <2>1, <2>5, <2>6
  <1>2. Inv /\ [Next]_vars => [Agree]_vars
    BY <1>1
  <1>3. QED BY <1>2, Invariant, PTL DEF NatspecSpec, AnswersAgree

\* What a process published, and no call of the same message replaced, was
\* accepted and uses fields of the present stubs, or such as an agent has left
\* out since (author.py PublishTool, typecheck.py).
THEOREM PublishedSpecsTypecheck == NatspecSpec => []PublishedTypechecks
  <1>1. Inv => PublishedTypechecks
    BY DEF Inv, PublishInv, AuthorOK, Backed, PublishedTypechecks
  <1>2. QED BY <1>1, Invariant, PTL
=============================================================================
