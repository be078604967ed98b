---------------------------- MODULE JobRunProofs ----------------------------
(***************************************************************************)
(* Theorems about JobRun: what the event queues of its scopes and of its   *)
(* conversation deliver, what the summary shows, how the paths of events   *)
(* nest and which list a refinement returns, for any number of tasks,      *)
(* graphs and permits and any bounds of the conversation.                  *)
(***************************************************************************)
EXTENDS JobRun, SequenceTheorems, FiniteSetTheorems, TLAPS

-----------------------------------------------------------------------------
(* The queue *)

QueueOf(E) ==
  [stream : Seq(E), cursor : Nat, ready : BOOLEAN, closed : BOOLEAN, at : {"wait", "yield", "returned"}]

\* The cursor is inside the buffer; only a closed queue lets its consumer return.
QueueOK(q) ==
  /\ q.cursor <= Len(q.stream)
  /\ q.at = "yield" => q.cursor < Len(q.stream)
  /\ q.at = "returned" => q.closed

LEMMA EmptyFacts ==
  ASSUME NEW E
  PROVE  EmptyQueue \in QueueOf(E) /\ QueueOK(EmptyQueue) /\ EmptyQueue.stream = <<>>
         /\ EmptyQueue.cursor = 0 /\ ~EmptyQueue.closed /\ EmptyQueue.at = "wait"
  BY DEF EmptyQueue, QueueOf, QueueOK

LEMMA PushFacts ==
  ASSUME NEW E, NEW q \in QueueOf(E), QueueOK(q), NEW e \in E
  PROVE  /\ Push(q, e) \in QueueOf(E) /\ QueueOK(Push(q, e)) /\ Push(q, e).closed = q.closed
         /\ Push(q, e).stream = Append(q.stream, e) /\ Push(q, e).cursor = q.cursor
         /\ Push(q, e).at = q.at
  <1>1. /\ q.stream \in Seq(E) /\ q.cursor \in Nat /\ DOMAIN q = {"stream", "cursor", "ready", "closed", "at"}
    BY DEF QueueOf
  <1>2. /\ Append(q.stream, e) \in Seq(E) /\ Len(Append(q.stream, e)) = Len(q.stream) + 1
        /\ Len(q.stream) \in Nat
    BY <1>1
  <1>3. /\ Push(q, e).stream = Append(q.stream, e) /\ Push(q, e).cursor = q.cursor
        /\ Push(q, e).closed = q.closed /\ Push(q, e).at = q.at
    BY <1>1 DEF Push
  <1>4. Push(q, e) \in QueueOf(E)
    BY <1>2 DEF QueueOf, Push
  <1>5. QueueOK(Push(q, e))
    BY <1>1, <1>2, <1>3 DEF QueueOK
  <1>6. QED BY <1>3, <1>4, <1>5

LEMMA CloseFacts ==
  ASSUME NEW E, NEW q \in QueueOf(E), QueueOK(q)
  PROVE  /\ Close(q) \in QueueOf(E) /\ QueueOK(Close(q))
         /\ Close(q).stream = q.stream /\ Close(q).cursor = q.cursor
  BY DEF QueueOf, QueueOK, Close

LEMMA ResetType ==
  ASSUME NEW E, NEW q \in QueueOf(E), NEW s \in Seq(E), NEW n \in Nat,
         NEW at \in {"wait", "yield", "returned"}
  PROVE  [q EXCEPT !.stream = s, !.cursor = n, !.at = at] \in QueueOf(E)
  BY DEF QueueOf

\* The loop suspends where it is, or with an empty buffer.
LEMMA LoopFacts ==
  ASSUME NEW E, NEW q \in QueueOf(E), q.cursor <= Len(q.stream)
  PROVE  /\ Loop(q) \in QueueOf(E) /\ QueueOK(Loop(q)) /\ Loop(q).closed = q.closed
         /\ \/ /\ q.cursor < Len(q.stream)
               /\ Loop(q).stream = q.stream /\ Loop(q).cursor = q.cursor
            \/ /\ q.cursor = Len(q.stream)
               /\ Loop(q).stream = <<>> /\ Loop(q).cursor = 0
         /\ Loop(q).at = "returned" => Loop(q).stream = <<>> /\ Loop(q).cursor = 0
  <1>1. CASE q.cursor < Len(q.stream)
    BY <1>1 DEF QueueOf, QueueOK, Loop
  <1>2. CASE q.cursor = Len(q.stream)
    <2>1. Loop(q) = [q EXCEPT !.stream = <<>>, !.cursor = 0, !.at = IF q.closed THEN "returned" ELSE "wait"]
      BY <1>2 DEF Loop, QueueOf
    <2>2. /\ Loop(q).stream = <<>> /\ Loop(q).cursor = 0 /\ Loop(q).closed = q.closed
          /\ Loop(q).at = IF q.closed THEN "returned" ELSE "wait"
      BY <2>1 DEF QueueOf
    <2>3. Loop(q) \in QueueOf(E)
      <3>1. CASE q.closed
        <4>1. Loop(q) = [q EXCEPT !.stream = <<>>, !.cursor = 0, !.at = "returned"]
          BY <2>1, <3>1
        <4>2. <<>> \in Seq(E) /\ 0 \in Nat /\ "returned" \in {"wait", "yield", "returned"}
          BY EmptySeq
        <4>3. [q EXCEPT !.stream = <<>>, !.cursor = 0, !.at = "returned"] \in QueueOf(E)
          BY <4>2, ResetType
        <4>4. QED BY <4>1, <4>3
      <3>2. CASE ~q.closed
        <4>1. Loop(q) = [q EXCEPT !.stream = <<>>, !.cursor = 0, !.at = "wait"]
          BY <2>1, <3>2
        <4>2. <<>> \in Seq(E) /\ 0 \in Nat /\ "wait" \in {"wait", "yield", "returned"}
          BY EmptySeq
        <4>3. [q EXCEPT !.stream = <<>>, !.cursor = 0, !.at = "wait"] \in QueueOf(E)
          BY <4>2, ResetType
        <4>4. QED BY <4>1, <4>3
      <3>3. QED BY <3>1, <3>2
    <2>4. QueueOK(Loop(q))
      BY <2>2 DEF QueueOK
    <2>5. QED BY <1>2, <2>2, <2>3, <2>4
  <1>3. q.cursor \in Nat /\ Len(q.stream) \in Nat
    BY DEF QueueOf
  <1>4. QED BY <1>1, <1>2, <1>3

LEMMA WakeFacts ==
  ASSUME NEW E, NEW q \in QueueOf(E), QueueOK(q)
  PROVE  /\ Wake(q) \in QueueOf(E) /\ QueueOK(Wake(q)) /\ Wake(q).closed = q.closed
         /\ \/ Wake(q).stream = q.stream /\ Wake(q).cursor = q.cursor
            \/ q.cursor = Len(q.stream) /\ Wake(q).stream = <<>> /\ Wake(q).cursor = 0
         /\ Wake(q).at = "returned" => Wake(q).stream = <<>> /\ Wake(q).cursor = 0
  <1> DEFINE r == [q EXCEPT !.ready = FALSE]
  <1>1. /\ r \in QueueOf(E) /\ r.cursor <= Len(r.stream) /\ r.stream = q.stream
        /\ r.cursor = q.cursor /\ r.closed = q.closed
    BY DEF QueueOf, QueueOK
  <1>2. QED BY <1>1, LoopFacts DEF Wake

LEMMA AdvanceFacts ==
  ASSUME NEW E, NEW q \in QueueOf(E), QueueOK(q), q.at = "yield"
  PROVE  /\ Advance(q) \in QueueOf(E) /\ QueueOK(Advance(q)) /\ Advance(q).closed = q.closed
         /\ Current(q) \in E
         /\ \/ /\ q.cursor + 1 < Len(q.stream)
               /\ Advance(q).stream = q.stream /\ Advance(q).cursor = q.cursor + 1
            \/ q.cursor + 1 = Len(q.stream) /\ Advance(q).stream = <<>> /\ Advance(q).cursor = 0
         /\ Advance(q).at = "returned" => Advance(q).stream = <<>> /\ Advance(q).cursor = 0
  <1> DEFINE r == [q EXCEPT !.cursor = q.cursor + 1]
  <1>1. /\ r \in QueueOf(E) /\ r.cursor <= Len(r.stream) /\ r.stream = q.stream
        /\ r.cursor = q.cursor + 1 /\ r.closed = q.closed
    BY DEF QueueOf, QueueOK
  <1>2. Current(q) \in E
    BY DEF QueueOf, QueueOK, Current
  <1>3. Advance(q) = Loop(r)
    BY DEF Advance
  <1> HIDE DEF r
  <1>4. /\ Loop(r) \in QueueOf(E) /\ QueueOK(Loop(r)) /\ Loop(r).closed = r.closed
        /\ \/ r.cursor < Len(r.stream) /\ Loop(r).stream = r.stream /\ Loop(r).cursor = r.cursor
           \/ r.cursor = Len(r.stream) /\ Loop(r).stream = <<>> /\ Loop(r).cursor = 0
        /\ Loop(r).at = "returned" => Loop(r).stream = <<>> /\ Loop(r).cursor = 0
    BY <1>1, LoopFacts
  <1>5. QED BY <1>1, <1>2, <1>3, <1>4

\* What was handled and what the queue still has are what was pushed.
Accounts(h, p, q) ==
  /\ Len(p) = Len(h) + Len(q.stream) - q.cursor
  /\ \A i \in 1..Len(h) : p[i] = h[i]
  /\ \A i \in 1..(Len(q.stream) - q.cursor) : p[Len(h) + i] = q.stream[q.cursor + i]

LEMMA AccountsEmpty == Accounts(<<>>, <<>>, EmptyQueue)
  BY DEF Accounts, EmptyQueue

LEMMA AccountsPush ==
  ASSUME NEW E, NEW q \in QueueOf(E), QueueOK(q), NEW e \in E,
         NEW h \in Seq(E), NEW p \in Seq(E), Accounts(h, p, q)
  PROVE  Accounts(h, Append(p, e), Push(q, e))
  <1> DEFINE r == Push(q, e)
             o == Append(p, e)
  <1>1. /\ q.cursor \in Nat /\ Len(q.stream) \in Nat /\ q.cursor <= Len(q.stream)
        /\ Len(h) \in Nat /\ Len(p) \in Nat /\ q.stream \in Seq(E)
    BY DEF QueueOf, QueueOK
  <1>2. /\ r.cursor = q.cursor /\ Len(r.stream) = Len(q.stream) + 1
        /\ (\A i \in 1..Len(q.stream) : r.stream[i] = q.stream[i]) /\ r.stream[Len(q.stream) + 1] = e
    <2>1. r.cursor = q.cursor /\ r.stream = Append(q.stream, e)
      BY PushFacts
    <2>2. /\ Len(Append(q.stream, e)) = Len(q.stream) + 1
          /\ \A i \in 1..Len(q.stream) : Append(q.stream, e)[i] = q.stream[i]
          /\ Append(q.stream, e)[Len(q.stream) + 1] = e
      BY <1>1
    <2>3. QED BY <2>1, <2>2
  <1>3. Len(o) = Len(p) + 1 /\ (\A i \in 1..Len(p) : o[i] = p[i]) /\ o[Len(p) + 1] = e
    OBVIOUS
  <1>4. Len(p) = Len(h) + (Len(q.stream) - q.cursor)
    BY <1>1 DEF Accounts
  <1>5. \A i \in 1..Len(h) : o[i] = h[i]
    BY <1>1, <1>3, <1>4 DEF Accounts
  <1>6. ASSUME NEW i \in 1..(Len(q.stream) - q.cursor + 1) PROVE o[Len(h) + i] = r.stream[q.cursor + i]
    <2>1. CASE i <= Len(q.stream) - q.cursor
      <3>1. p[Len(h) + i] = q.stream[q.cursor + i]
        BY <1>1, <2>1 DEF Accounts
      <3>2. Len(h) + i \in 1..Len(p) /\ q.cursor + i \in 1..Len(q.stream)
        BY <1>1, <1>4, <2>1
      <3>3. QED BY <1>2, <1>3, <3>1, <3>2
    <2>2. CASE i = Len(q.stream) - q.cursor + 1
      <3>1. Len(h) + i = Len(p) + 1 /\ q.cursor + i = Len(q.stream) + 1
        BY <1>1, <1>4, <2>2
      <3>2. QED BY <1>2, <1>3, <3>1
    <2>3. \A m, n \in Nat : \A j \in 1..(m - n + 1) : j <= m - n \/ j = m - n + 1
      OBVIOUS
    <2>4. QED BY <1>1, <2>1, <2>2, <2>3
  <1>7. Len(r.stream) - r.cursor = Len(q.stream) - q.cursor + 1 /\ Len(o) = Len(h) + Len(r.stream) - r.cursor
    BY <1>1, <1>2, <1>3, <1>4
  <1>8. QED BY <1>2, <1>5, <1>6, <1>7 DEF Accounts

LEMMA AccountsSame ==
  ASSUME NEW h, NEW p, NEW q, NEW r, r.stream = q.stream, r.cursor = q.cursor, Accounts(h, p, q)
  PROVE  Accounts(h, p, r)
  BY DEF Accounts

LEMMA AccountsWake ==
  ASSUME NEW E, NEW q \in QueueOf(E), QueueOK(q), NEW h \in Seq(E), NEW p \in Seq(E), Accounts(h, p, q)
  PROVE  Accounts(h, p, Wake(q))
  <1>1. CASE Wake(q).stream = q.stream /\ Wake(q).cursor = q.cursor
    BY <1>1, AccountsSame
  <1>2. CASE q.cursor = Len(q.stream) /\ Wake(q).stream = <<>> /\ Wake(q).cursor = 0
    <2>1. Len(p) = Len(h) /\ Len(h) \in Nat
      BY <1>2 DEF Accounts, QueueOf
    <2>2. QED BY <1>2, <2>1 DEF Accounts
  <1>3. QED BY <1>1, <1>2, WakeFacts

LEMMA AccountsAdvance ==
  ASSUME NEW E, NEW q \in QueueOf(E), QueueOK(q), q.at = "yield",
         NEW h \in Seq(E), NEW p \in Seq(E), Accounts(h, p, q)
  PROVE  Accounts(Append(h, Current(q)), p, Advance(q))
  <1> DEFINE n == Len(h)
             g == Append(h, Current(q))
  <1>1. /\ n \in Nat /\ q.cursor \in Nat /\ Len(q.stream) \in Nat /\ q.cursor < Len(q.stream)
        /\ Current(q) \in E /\ Current(q) = q.stream[q.cursor + 1]
    BY AdvanceFacts DEF QueueOf, QueueOK, Current
  <1>2. Len(g) = n + 1 /\ (\A i \in 1..n : g[i] = h[i]) /\ g[n + 1] = Current(q)
    BY <1>1
  <1>3. p[n + 1] = Current(q)
    BY <1>1 DEF Accounts
  <1>4. \A i \in 1..(n + 1) : p[i] = g[i]
    BY <1>1, <1>2, <1>3 DEF Accounts
  <1>5. CASE Advance(q).stream = q.stream /\ Advance(q).cursor = q.cursor + 1
    <2>1. ASSUME NEW i \in 1..(Len(q.stream) - (q.cursor + 1))
          PROVE  p[n + 1 + i] = q.stream[q.cursor + 1 + i]
      <3>1. 1 + i \in 1..(Len(q.stream) - q.cursor) /\ i \in Int
        BY <1>1
      <3>2. p[n + (1 + i)] = q.stream[q.cursor + (1 + i)]
        BY <3>1 DEF Accounts
      <3>3. n + (1 + i) = n + 1 + i /\ q.cursor + (1 + i) = q.cursor + 1 + i
        <4>1. \A x, y \in Nat, z \in Int : x + (1 + z) = x + 1 + z /\ y + (1 + z) = y + 1 + z
          OBVIOUS
        <4>2. QED BY <1>1, <3>1, <4>1
      <3>4. QED BY <3>2, <3>3
    <2>2. Len(p) = Len(g) + Len(q.stream) - (q.cursor + 1)
      <3>1. Len(p) = n + Len(q.stream) - q.cursor
        BY DEF Accounts
      <3>2. \A x, y, z \in Nat : x + y - z = x + 1 + y - (z + 1)
        OBVIOUS
      <3>3. QED BY <1>1, <1>2, <3>1, <3>2
    <2>3. QED BY <1>2, <1>4, <1>5, <2>1, <2>2 DEF Accounts
  <1>6. CASE q.cursor + 1 = Len(q.stream) /\ Advance(q).stream = <<>> /\ Advance(q).cursor = 0
    <2>1. Len(p) = Len(g)
      BY <1>1, <1>2, <1>6 DEF Accounts
    <2>2. QED BY <1>1, <1>2, <1>4, <1>6, <2>1 DEF Accounts
  <1>7. QED BY <1>5, <1>6, AdvanceFacts

\* In particular, a prefix, and all of it when nothing is left in the queue.
LEMMA AccountsDeliver ==
  ASSUME NEW E, NEW q \in QueueOf(E), QueueOK(q), NEW h \in Seq(E), NEW p \in Seq(E), Accounts(h, p, q)
  PROVE  IsPrefix(h, p)
  <1>1. Len(h) \in Nat /\ Len(p) \in Nat /\ Len(h) <= Len(p)
    BY DEF Accounts, QueueOf, QueueOK
  <1>2. /\ SubSeq(h, 1, Len(h)) \in Seq(E) /\ SubSeq(p, 1, Len(h)) \in Seq(E)
        /\ Len(SubSeq(h, 1, Len(h))) = Len(h) /\ Len(SubSeq(p, 1, Len(h))) = Len(h)
        /\ \A i \in 1..Len(h) : SubSeq(h, 1, Len(h))[i] = h[i] /\ SubSeq(p, 1, Len(h))[i] = p[i]
    BY <1>1
  <1>3. SubSeq(h, 1, Len(h)) = SubSeq(p, 1, Len(h))
    BY <1>2, SeqEqual DEF Accounts
  <1>4. QED BY <1>1, <1>3 DEF IsPrefix

LEMMA AccountsAll ==
  ASSUME NEW E, NEW h \in Seq(E), NEW p \in Seq(E), NEW q, q.stream = <<>>, q.cursor = 0, Accounts(h, p, q)
  PROVE  Len(h) = Len(p)
  BY DEF Accounts

-----------------------------------------------------------------------------
(* The scopes of the tasks *)

Kinds == {"start", "item", "end", "left"}
Events == [kind : Kinds, path : Seq(Graphs)]
Points == {"new", "section", "unhandled", "row", "queued", "body", "closing", "over"}
GraphType ==
  [st : {"new", "streaming", "interrupted", "answered", "over", "raised"}, path : Seq(Graphs),
   items : Nat, unused : BOOLEAN]

JobType ==
  /\ pc \in [Tasks -> Points]
  /\ graph \in [Tasks -> [Graphs -> GraphType]]
  /\ queue \in [Tasks -> QueueOf(Events)]
  /\ pushed \in [Tasks -> Seq(Events)]
  /\ handled \in [Tasks -> Seq(Events)]
  /\ due \in [Tasks -> Nat]

\* A queue is closed only while the scope waits for its drainer, and the drainer
\* returns at a moment when it has handled all there is.
ScopeOK(t) ==
  /\ QueueOK(queue[t])
  /\ Accounts(handled[t], pushed[t], queue[t])
  /\ queue[t].closed => pc[t] = "closing"
  /\ due[t] <= Len(pushed[t])
  /\ queue[t].at = "returned" => due[t] <= Len(handled[t])
JobInv == JobType /\ \A t \in Tasks : ScopeOK(t)

LEMMA JobInit == Init => JobInv
  <1> SUFFICES ASSUME Init PROVE JobInv
    OBVIOUS
  <1>1. Idle \in GraphType
    BY EmptySeq DEF Idle, GraphType
  <1>2. JobType
    BY <1>1, EmptyFacts, EmptySeq DEF Init, JobType, Points
  <1>3. ASSUME NEW t \in Tasks PROVE ScopeOK(t)
    <2>1. queue[t] = EmptyQueue /\ handled[t] = <<>> /\ pushed[t] = <<>> /\ due[t] = 0
      BY DEF Init
    <2>2. QED BY <2>1, EmptyFacts, EmptySeq, AccountsEmpty DEF ScopeOK
  <1>4. QED BY <1>2, <1>3 DEF JobInv

LEMMA ScopeFacts ==
  ASSUME JobInv, NEW t \in Tasks
  PROVE  /\ queue[t] \in QueueOf(Events) /\ pushed[t] \in Seq(Events) /\ handled[t] \in Seq(Events)
         /\ QueueOK(queue[t]) /\ Accounts(handled[t], pushed[t], queue[t])
         /\ queue[t].closed => pc[t] = "closing"
         /\ due[t] \in Nat /\ due[t] <= Len(pushed[t])
         /\ queue[t].at = "returned" => due[t] <= Len(handled[t])
  BY DEF JobInv, JobType, ScopeOK

\* One scope goes on, with its queue in order.
LEMMA ScopeStep ==
  ASSUME JobInv, NEW t \in Tasks, NEW q \in QueueOf(Events), NEW h \in Seq(Events), NEW p \in Seq(Events),
         NEW d \in Nat, due' = [due EXCEPT ![t] = d], d <= Len(p), q.at = "returned" => d <= Len(h),
         queue' = [queue EXCEPT ![t] = q], handled' = [handled EXCEPT ![t] = h],
         pushed' = [pushed EXCEPT ![t] = p], pc' \in [Tasks -> Points],
         graph' \in [Tasks -> [Graphs -> GraphType]], \A u \in Tasks : u # t => pc'[u] = pc[u],
         QueueOK(q), Accounts(h, p, q), q.closed => pc'[t] = "closing"
  PROVE  JobInv'
  <1>1. JobType'
    BY DEF JobInv, JobType
  <1>2. ASSUME NEW u \in Tasks PROVE ScopeOK(u)'
    <2>1. CASE u = t
      <3>1. queue'[u] = q /\ handled'[u] = h /\ pushed'[u] = p /\ due'[u] = d
        BY <2>1 DEF JobInv, JobType
      <3>2. QED BY <2>1, <3>1 DEF ScopeOK
    <2>2. CASE u # t
      <3>1. /\ queue'[u] = queue[u] /\ handled'[u] = handled[u] /\ pushed'[u] = pushed[u]
            /\ pc'[u] = pc[u] /\ due'[u] = due[u]
        BY <2>2 DEF JobInv, JobType
      <3>2. ScopeOK(u)
        BY DEF JobInv
      <3>3. QED BY <3>1, <3>2 DEF ScopeOK
    <2>3. QED BY <2>1, <2>2
  <1>3. QED BY <1>1, <1>2 DEF JobInv

\* A step that leaves all scopes as they are.
LEMMA QuietStep ==
  ASSUME JobInv, NEW t \in Tasks, pc' \in [Tasks -> Points], pc[t] # "closing" \/ pc' = pc,
         \A u \in Tasks : u # t => pc'[u] = pc[u],
         graph' \in [Tasks -> [Graphs -> GraphType]], UNCHANGED <<queue, pushed, handled, due>>
  PROVE  JobInv'
  <1>1. /\ queue' = [queue EXCEPT ![t] = queue[t]] /\ handled' = [handled EXCEPT ![t] = handled[t]]
        /\ pushed' = [pushed EXCEPT ![t] = pushed[t]] /\ due' = [due EXCEPT ![t] = due[t]]
    BY DEF JobInv, JobType
  <1>2. queue[t].closed => pc'[t] = "closing"
    BY ScopeFacts
  <1>3. QED BY <1>1, <1>2, ScopeFacts, ScopeStep

LEMMA SameStep ==
  ASSUME JobInv, UNCHANGED <<pc, graph, queue, pushed, handled, due>> PROVE JobInv'
  BY DEF JobInv, JobType, ScopeOK

LEMMA EntryKeeps ==
  ASSUME JobInv, NEW t \in Tasks, MakeHandler(t) \/ SectionMounted(t) \/ RowMounted(t) \/ StartTask(t)
  PROVE  JobInv'
  <1>1. \E x \in Points : pc' = [pc EXCEPT ![t] = x]
    BY DEF MakeHandler, SectionMounted, RowMounted, StartTask, Points
  <1>2. pc[t] # "closing" /\ UNCHANGED <<graph, queue, pushed, handled, due>>
    BY DEF MakeHandler, SectionMounted, RowMounted, StartTask
  <1>3. pc' \in [Tasks -> Points] /\ \A u \in Tasks : u # t => pc'[u] = pc[u]
    BY <1>1 DEF JobInv, JobType
  <1>4. graph' \in [Tasks -> [Graphs -> GraphType]]
    BY <1>2 DEF JobInv, JobType
  <1>5. QED BY <1>2, <1>3, <1>4, QuietStep

LEMMA EndBodyKeeps == ASSUME JobInv, NEW t \in Tasks, EndBody(t) PROVE JobInv'
  <1>1. /\ queue' = [queue EXCEPT ![t] = Close(queue[t])] /\ pc' = [pc EXCEPT ![t] = "closing"]
        /\ pc[t] = "body" /\ due' = [due EXCEPT ![t] = Len(pushed[t])]
        /\ UNCHANGED <<graph, pushed, handled>>
    BY DEF EndBody, LeaveBody
  <1>2. /\ pc' \in [Tasks -> Points] /\ pc'[t] = "closing"
        /\ \A u \in Tasks : u # t => pc'[u] = pc[u]
    BY <1>1 DEF JobInv, JobType, Points
  <1>3. /\ graph' \in [Tasks -> [Graphs -> GraphType]]
        /\ handled' = [handled EXCEPT ![t] = handled[t]] /\ pushed' = [pushed EXCEPT ![t] = pushed[t]]
    BY <1>1 DEF JobInv, JobType
  <1>4. /\ Close(queue[t]) \in QueueOf(Events) /\ QueueOK(Close(queue[t]))
        /\ Accounts(handled[t], pushed[t], Close(queue[t]))
    BY ScopeFacts, CloseFacts, AccountsSame
  <1>5. queue[t].at # "returned" /\ Close(queue[t]).at = queue[t].at /\ Len(pushed[t]) \in Nat
    BY <1>1, ScopeFacts DEF Close, QueueOf, QueueOK
  <1> DEFINE q == Close(queue[t])
             d == Len(pushed[t])
  <1>6. /\ q \in QueueOf(Events) /\ QueueOK(q) /\ Accounts(handled[t], pushed[t], q)
        /\ d \in Nat /\ d <= Len(pushed[t]) /\ q.at # "returned"
        /\ queue' = [queue EXCEPT ![t] = q] /\ due' = [due EXCEPT ![t] = d]
    BY <1>1, <1>4, <1>5
  <1>7. pushed[t] \in Seq(Events) /\ handled[t] \in Seq(Events)
    BY ScopeFacts
  <1> HIDE DEF q, d
  <1>8. QED BY <1>2, <1>3, <1>6, <1>7, ScopeStep

LEMMA LeaveScopeKeeps == ASSUME JobInv, NEW t \in Tasks, LeaveScope(t) PROVE JobInv'
  <1>1. /\ queue' = [queue EXCEPT ![t] = EmptyQueue] /\ pc' = [pc EXCEPT ![t] = "over"]
        /\ pushed' = [pushed EXCEPT ![t] = <<>>] /\ handled' = [handled EXCEPT ![t] = <<>>]
        /\ due' = [due EXCEPT ![t] = 0]
        /\ graph' = [graph EXCEPT ![t] = [g \in Graphs |-> Idle]]
    BY DEF LeaveScope
  <1>2. Idle \in GraphType
    BY EmptySeq DEF Idle, GraphType
  <1>3. /\ pc' \in [Tasks -> Points] /\ graph' \in [Tasks -> [Graphs -> GraphType]]
        /\ \A u \in Tasks : u # t => pc'[u] = pc[u]
    BY <1>1, <1>2 DEF JobInv, JobType, Points
  <1>4. <<>> \in Seq(Events) /\ Len(<<>>) = 0 /\ 0 \in Nat /\ 0 <= 0
    BY EmptySeq
  <1>5. QED BY <1>1, <1>3, <1>4, EmptyFacts, AccountsEmpty, ScopeStep

\* The event of a graph.
LEMMA EmitKeeps ==
  ASSUME JobInv, NEW t \in Tasks, NEW g \in Graphs, NEW kind \in Kinds,
         GraphStep(t), Emit(t, g, kind), graph' \in [Tasks -> [Graphs -> GraphType]],
         UNCHANGED <<pc, handled, due>>
  PROVE  JobInv'
  <1> DEFINE e == [kind |-> kind, path |-> graph'[t][g].path]
  <1>1. e \in Events
    BY DEF Events, GraphType
  <1>2. /\ queue' = [queue EXCEPT ![t] = Push(queue[t], e)]
        /\ pushed' = [pushed EXCEPT ![t] = Append(pushed[t], e)]
    BY DEF Emit
  <1>4. /\ Push(queue[t], e) \in QueueOf(Events) /\ QueueOK(Push(queue[t], e))
        /\ Push(queue[t], e).closed = queue[t].closed /\ Push(queue[t], e).at = queue[t].at
    BY <1>1, ScopeFacts, PushFacts
  <1>5. Accounts(handled[t], Append(pushed[t], e), Push(queue[t], e))
    BY <1>1, ScopeFacts, AccountsPush
  <1>6. Append(pushed[t], e) \in Seq(Events) /\ due[t] <= Len(Append(pushed[t], e))
    BY <1>1, ScopeFacts
  <1>7. /\ pc' \in [Tasks -> Points] /\ handled' = [handled EXCEPT ![t] = handled[t]]
        /\ due' = [due EXCEPT ![t] = due[t]] /\ pc'[t] = pc[t]
        /\ \A u \in Tasks : u # t => pc'[u] = pc[u]
    BY DEF JobInv, JobType
  <1> DEFINE q == Push(queue[t], e)
             p == Append(pushed[t], e)
  <1>8. /\ q \in QueueOf(Events) /\ QueueOK(q) /\ Accounts(handled[t], p, q) /\ p \in Seq(Events)
        /\ queue' = [queue EXCEPT ![t] = q] /\ pushed' = [pushed EXCEPT ![t] = p]
        /\ due[t] \in Nat /\ due[t] <= Len(p) /\ handled[t] \in Seq(Events)
        /\ q.at = "returned" => due[t] <= Len(handled[t])
        /\ q.closed => pc'[t] = "closing"
    BY <1>2, <1>4, <1>5, <1>6, <1>7, ScopeFacts
  <1> HIDE DEF e, p, q
  <1>9. QED BY <1>7, <1>8, ScopeStep

LEMMA GraphsKeep ==
  ASSUME JobInv, NEW t \in Tasks, NEW g \in Graphs,
         \/ StartGraph(t, g) \/ Interrupt(t, g) \/ Answered(t, g) \/ StreamItem(t, g) \/ EndGraph(t, g)
  PROVE  JobInv'
  <1>1. /\ graph \in [Tasks -> [Graphs -> GraphType]] /\ graph[t][g] \in GraphType
        /\ GraphStep(t) /\ UNCHANGED <<pc, handled, due>>
    BY DEF JobInv, JobType, StartGraph, Interrupt, Answered, StreamItem, EndGraph, GraphFrame
  <1>2. ASSUME NEW r \in GraphType, graph' = [graph EXCEPT ![t][g] = r]
        PROVE  graph' \in [Tasks -> [Graphs -> GraphType]]
    BY <1>1, <1>2
  <1>3. CASE StartGraph(t, g)
    <2>1. PICK path \in Seq(Graphs) :
            graph' = [graph EXCEPT ![t][g] = [graph[t][g] EXCEPT !.st = "streaming", !.path = path]]
      <3>1. CASE graph' = [graph EXCEPT ![t][g] = [@ EXCEPT !.st = "streaming", !.path = <<g>>]]
        <4>1. <<g>> \in Seq(Graphs)
          OBVIOUS
        <4>2. QED BY <3>1, <4>1
      <3>2. ASSUME NEW h \in Graphs,
                   graph' = [graph EXCEPT ![t][g] = [@ EXCEPT !.st = "streaming",
                                                             !.path = graph[t][h].path \o <<g>>]]
            PROVE  \E path \in Seq(Graphs) :
                     graph' = [graph EXCEPT ![t][g] = [graph[t][g] EXCEPT !.st = "streaming", !.path = path]]
        <4>1. graph[t][h].path \in Seq(Graphs) /\ <<g>> \in Seq(Graphs)
          BY <1>1 DEF GraphType
        <4>2. graph[t][h].path \o <<g>> \in Seq(Graphs)
          BY <4>1, ConcatProperties
        <4>3. QED BY <3>2, <4>2
      <3>3. QED BY <1>3, <3>1, <3>2 DEF StartGraph
    <2>2. [graph[t][g] EXCEPT !.st = "streaming", !.path = path] \in GraphType
      BY <1>1 DEF GraphType
    <2>3. Emit(t, g, "start") /\ "start" \in Kinds
      BY <1>3 DEF StartGraph, Kinds
    <2>4. QED BY <1>1, <1>2, <2>1, <2>2, <2>3, EmitKeeps
  <1>4. CASE StreamItem(t, g)
    <2>1. [graph[t][g] EXCEPT !.items = graph[t][g].items + 1] \in GraphType
      <3>1. ASSUME NEW n \in Nat PROVE [graph[t][g] EXCEPT !.items = n] \in GraphType
        BY <1>1 DEF GraphType
      <3>2. graph[t][g].items + 1 \in Nat
        BY <1>1 DEF GraphType
      <3>3. QED BY <3>1, <3>2
    <2>2. graph' = [graph EXCEPT ![t][g] = [graph[t][g] EXCEPT !.items = graph[t][g].items + 1]]
      BY <1>1, <1>4 DEF StreamItem, GraphType
    <2>3. Emit(t, g, "item") /\ "item" \in Kinds
      BY <1>4 DEF StreamItem, Kinds
    <2>4. QED BY <1>1, <1>2, <2>1, <2>2, <2>3, EmitKeeps
  <1>5. CASE EndGraph(t, g)
    <2>1. PICK how \in {"over", "raised"} : graph' = [graph EXCEPT ![t][g].st = how]
      BY <1>5 DEF EndGraph
    <2>2. [graph[t][g] EXCEPT !.st = how] \in GraphType
      BY <1>1 DEF GraphType
    <2>3. graph' = [graph EXCEPT ![t][g] = [graph[t][g] EXCEPT !.st = how]]
      BY <1>1, <2>1
    <2>4. \E kind \in {"left", "end"} : Emit(t, g, kind)
      BY <1>5 DEF EndGraph
    <2>5. QED BY <1>1, <1>2, <2>2, <2>3, <2>4, EmitKeeps DEF Kinds
  <1>6. CASE Interrupt(t, g) \/ Answered(t, g)
    <2>1. graph' \in [Tasks -> [Graphs -> GraphType]]
      <3>1. CASE Interrupt(t, g)
        <4>1. [graph[t][g] EXCEPT !.st = "interrupted"] \in GraphType
          BY <1>1 DEF GraphType
        <4>2. graph' = [graph EXCEPT ![t][g] = [graph[t][g] EXCEPT !.st = "interrupted"]]
          BY <1>1, <3>1 DEF Interrupt
        <4>3. QED BY <1>2, <4>1, <4>2
      <3>2. CASE Answered(t, g)
        <4>1. [graph[t][g] EXCEPT !.st = "answered", !.unused = TRUE] \in GraphType
          BY <1>1 DEF GraphType
        <4>2. QED BY <1>2, <3>2, <4>1 DEF Answered
      <3>3. QED BY <1>6, <3>1, <3>2
    <2>2. pc' \in [Tasks -> Points] /\ UNCHANGED <<queue, pushed, handled, due>>
      BY <1>1, <1>6 DEF Interrupt, Answered, JobInv, JobType
    <2>3. QED BY <1>1, <2>1, <2>2, QuietStep
  <1>7. QED BY <1>3, <1>4, <1>5, <1>6

LEMMA DrainerKeeps ==
  ASSUME JobInv, NEW t \in Tasks, Drain(t) \/ Handle(t) \/ HandlerRaises(t)
  PROVE  JobInv'
  <1>1. /\ UNCHANGED <<pc, graph, pushed, due>> /\ pushed' = [pushed EXCEPT ![t] = pushed[t]]
        /\ due' = [due EXCEPT ![t] = due[t]]
        /\ pc' \in [Tasks -> Points] /\ graph' \in [Tasks -> [Graphs -> GraphType]]
        /\ \A u \in Tasks : u # t => pc'[u] = pc[u]
    BY DEF Drain, Handle, HandlerRaises, DrainFrame, JobInv, JobType
  <1>2. CASE Drain(t)
    <2>1. queue' = [queue EXCEPT ![t] = Wake(queue[t])] /\ handled' = [handled EXCEPT ![t] = handled[t]]
      BY <1>2 DEF Drain, JobInv, JobType
    <2>2. /\ Wake(queue[t]) \in QueueOf(Events) /\ QueueOK(Wake(queue[t]))
          /\ Wake(queue[t]).closed = queue[t].closed
      BY ScopeFacts, WakeFacts
    <2>3. Accounts(handled[t], pushed[t], Wake(queue[t]))
      BY ScopeFacts, AccountsWake
    <2>4. Wake(queue[t]).closed => pc'[t] = "closing"
      BY <1>1, <2>2, ScopeFacts
    <2>5. Wake(queue[t]).at = "returned" => due[t] <= Len(handled[t])
      <3>1. SUFFICES ASSUME Wake(queue[t]).at = "returned" PROVE Len(handled[t]) = Len(pushed[t])
        BY ScopeFacts
      <3>2. QED BY <2>3, <3>1, ScopeFacts, WakeFacts, AccountsAll
    <2>6. QED BY <1>1, <2>1, <2>2, <2>3, <2>4, <2>5, ScopeFacts, ScopeStep
  <1>3. CASE Handle(t)
    <2>1. /\ queue' = [queue EXCEPT ![t] = Advance(queue[t])] /\ queue[t].at = "yield"
          /\ handled' = [handled EXCEPT ![t] = Append(handled[t], Current(queue[t]))]
      BY <1>3 DEF Handle
    <2>2. /\ Advance(queue[t]) \in QueueOf(Events) /\ QueueOK(Advance(queue[t]))
          /\ Advance(queue[t]).closed = queue[t].closed /\ Current(queue[t]) \in Events
      BY <2>1, ScopeFacts, AdvanceFacts
    <2>3. Accounts(Append(handled[t], Current(queue[t])), pushed[t], Advance(queue[t]))
      BY <2>1, ScopeFacts, AccountsAdvance
    <2>4. Advance(queue[t]).closed => pc'[t] = "closing"
      BY <1>1, <2>2, ScopeFacts
    <2>5. Append(handled[t], Current(queue[t])) \in Seq(Events)
      BY <2>2, ScopeFacts
    <2>6. Advance(queue[t]).at = "returned" => due[t] <= Len(Append(handled[t], Current(queue[t])))
      <3>1. SUFFICES ASSUME Advance(queue[t]).at = "returned"
                     PROVE  Len(Append(handled[t], Current(queue[t]))) = Len(pushed[t])
        BY ScopeFacts
      <3>2. Advance(queue[t]).stream = <<>> /\ Advance(queue[t]).cursor = 0
        BY <2>1, <3>1, ScopeFacts, AdvanceFacts
      <3>3. pushed[t] \in Seq(Events)
        BY ScopeFacts
      <3>4. QED BY <2>3, <2>5, <3>2, <3>3, AccountsAll
    <2>7. QED BY <1>1, <2>1, <2>2, <2>3, <2>4, <2>5, <2>6, ScopeFacts, ScopeStep
  <1>4. CASE HandlerRaises(t)
    <2>1. UNCHANGED <<queue, handled, due>>
      BY <1>4 DEF HandlerRaises, DrainFrame
    <2>2. QED BY <1>1, <2>1, SameStep
  <1>5. QED BY <1>2, <1>3, <1>4

LEMMA JobNext == JobInv /\ [Next]_vars => JobInv'
  <1> SUFFICES ASSUME JobInv, [Next]_vars PROVE JobInv'
    OBVIOUS
  <1>1. ASSUME NEW t \in Tasks, Machine(t) \/ HandlerRaises(t) PROVE JobInv'
    <2>1. ASSUME NEW g \in Graphs, EndGraph(t, g) PROVE JobInv'
      BY <2>1, GraphsKeep
    <2>2. CASE Drain(t) \/ Handle(t) \/ HandlerRaises(t)
      BY <2>2, DrainerKeeps
    <2>3. CASE MakeHandler(t) \/ SectionMounted(t) \/ RowMounted(t) \/ StartTask(t)
      BY <2>3, EntryKeeps
    <2>4. CASE EndBody(t)
      BY <2>4, EndBodyKeeps
    <2>5. CASE LeaveScope(t)
      BY <2>5, LeaveScopeKeeps
    <2>6. QED BY <1>1, <2>1, <2>2, <2>3, <2>4, <2>5 DEF Machine, TaskStep
  <1>2. ASSUME NEW t \in Tasks, NEW g \in Graphs,
               StartGraph(t, g) \/ Interrupt(t, g) \/ Answered(t, g) \/ StreamItem(t, g)
        PROVE  JobInv'
    BY <1>2, GraphsKeep
  <1>3. CASE Converse(ConvNext)
    BY <1>3, SameStep DEF Converse
  <1>4. CASE UNCHANGED vars
    BY <1>4, SameStep DEF vars, jobVars
  <1>5. QED BY <1>1, <1>2, <1>3, <1>4 DEF Next

-----------------------------------------------------------------------------
(* The summary *)

In(t) == \E i \in 1..Len(sem) : sem[i] = t
Holds(t) == \E i \in 1..Len(sem) : i <= MaxRunning /\ sem[i] = t
Active == {"running", "waiting_hitl"}

SumType ==
  /\ sem \in Seq(Tasks)
  /\ status \in [Tasks -> {"none", "pending", "done", "error"} \cup Active]
  /\ body \in [Tasks -> {"none", "returned", "raised"}]
  /\ drainer \in [Tasks -> {"none", "draining", "raised", "cancelled"}]
  /\ phases \subseteq [task : Tasks, error : BOOLEAN]

Distinct == \A i, j \in 1..Len(sem) : sem[i] = sem[j] => i = j

\* What the summary shows of a task is where the task is.
SumOK(t) ==
  /\ In(t) <=> pc[t] \in {"queued", "body", "closing"}
  /\ pc[t] \in {"body", "closing"} => Holds(t)
  /\ status[t] \in Active <=> pc[t] \in {"body", "closing"}
  /\ Terminal(status[t]) <=> pc[t] = "over"
  /\ pc[t] = "over" => queue[t] = EmptyQueue
  /\ \A e \in BOOLEAN : [task |-> t, error |-> e] \in phases <=> pc[t] = "over" /\ e = (status[t] = "error")
  /\ status[t] = "done" => body[t] = "returned" /\ drainer[t] # "raised"
SumInv == SumType /\ Distinct /\ \A t \in Tasks : SumOK(t)

LEMMA HoldersHold == ASSUME SumType, NEW t \in Tasks PROVE t \in Holders <=> Holds(t)
  <1>1. Len(sem) \in Nat /\ MaxRunning \in Nat
    BY JobAssumption DEF SumType
  <1>2. QED BY <1>1 DEF Holders, Holds

\* One task goes on; the others keep their place, or one that is as good.
LEMMA SumStep ==
  ASSUME SumInv, SumType', Distinct', NEW t \in Tasks, SumOK(t)',
         \A u \in Tasks : u # t =>
           /\ pc'[u] = pc[u] /\ status'[u] = status[u] /\ body'[u] = body[u] /\ drainer'[u] = drainer[u]
           /\ pc[u] = "over" => queue'[u] = queue[u]
           /\ In(u)' <=> In(u)
           /\ Holds(u) => Holds(u)'
           /\ \A e \in BOOLEAN : [task |-> u, error |-> e] \in phases' <=> [task |-> u, error |-> e] \in phases
  PROVE  SumInv'
  <1>1. ASSUME NEW u \in Tasks, u # t PROVE SumOK(u)'
    <2>1. SumOK(u)
      BY DEF SumInv
    <2>2. QED BY <1>1, <2>1 DEF SumOK
  <1>2. QED BY <1>1 DEF SumInv

\* A step that leaves the semaphore and the record alone.
LEMMA SumLocal ==
  ASSUME SumInv, JobInv, NEW t \in Tasks, UNCHANGED <<sem, phases>>,
         \E x : pc' = [pc EXCEPT ![t] = x],
         \E x \in {"none", "pending", "done", "error"} \cup Active : status' = [status EXCEPT ![t] = x],
         \E x \in {"none", "returned", "raised"} : body' = [body EXCEPT ![t] = x],
         \E x \in {"none", "draining", "raised", "cancelled"} : drainer' = [drainer EXCEPT ![t] = x],
         \E x : queue' = [queue EXCEPT ![t] = x],
         SumOK(t)'
  PROVE  SumInv'
  <1>1. SumType'
    BY DEF SumInv, SumType
  <1>2. Distinct'
    BY DEF SumInv, Distinct
  <1>3. ASSUME NEW u \in Tasks, u # t
        PROVE  /\ pc'[u] = pc[u] /\ status'[u] = status[u] /\ body'[u] = body[u] /\ drainer'[u] = drainer[u]
               /\ queue'[u] = queue[u]
    BY <1>3 DEF SumInv, SumType, JobInv, JobType
  <1>4. ASSUME NEW u PROVE (In(u)' <=> In(u)) /\ (Holds(u) <=> Holds(u)')
    BY DEF In, Holds
  <1>5. QED BY <1>1, <1>2, <1>3, <1>4, SumStep

LEMMA SumInit == Init => SumInv
  <1> SUFFICES ASSUME Init PROVE SumInv
    OBVIOUS
  <1>1. SumType
    BY EmptySeq DEF Init, SumType
  <1>2. Len(sem) = 0
    BY EmptySeq DEF Init
  <1>3. ASSUME NEW t \in Tasks PROVE SumOK(t)
    BY <1>2 DEF Init, SumOK, In, Holds, Terminal, Active
  <1>4. QED BY <1>1, <1>2, <1>3 DEF SumInv, Distinct

LEMMA SameExcept ==
  ASSUME SumInv, JobInv, NEW t \in Tasks
  PROVE  /\ pc = [pc EXCEPT ![t] = pc[t]] /\ queue = [queue EXCEPT ![t] = queue[t]]
         /\ status = [status EXCEPT ![t] = status[t]] /\ body = [body EXCEPT ![t] = body[t]]
         /\ drainer = [drainer EXCEPT ![t] = drainer[t]]
         /\ status[t] \in {"none", "pending", "done", "error"} \cup Active
         /\ body[t] \in {"none", "returned", "raised"}
         /\ drainer[t] \in {"none", "draining", "raised", "cancelled"}
  BY DEF SumInv, SumType, JobInv, JobType

\* The task has one of the early points and stays out of the semaphore.
LEMMA SumEntry ==
  ASSUME SumInv, JobInv, NEW t \in Tasks, MakeHandler(t) \/ SectionMounted(t) PROVE SumInv'
  <1>1. PICK x \in {"section", "unhandled", "row"} : pc' = [pc EXCEPT ![t] = x]
    BY DEF MakeHandler, SectionMounted
  <1>2. /\ UNCHANGED <<status, sem, body, queue, drainer, phases>>
        /\ pc[t] \in {"new", "section"}
    BY DEF MakeHandler, SectionMounted
  <1>3. pc'[t] = x
    BY <1>1 DEF JobInv, JobType
  <1>4. SumOK(t)
    BY DEF SumInv
  <1>5. SumOK(t)'
    BY <1>2, <1>3, <1>4 DEF SumOK, In, Holds
  <1>6. QED BY <1>1, <1>2, <1>5, SameExcept, SumLocal

LEMMA SumStart == ASSUME SumInv, JobInv, NEW t \in Tasks, StartTask(t) PROVE SumInv'
  <1>1. /\ pc[t] = "queued" /\ t \in Holders /\ status' = [status EXCEPT ![t] = "running"]
        /\ pc' = [pc EXCEPT ![t] = "body"] /\ drainer' = [drainer EXCEPT ![t] = "draining"]
        /\ UNCHANGED <<sem, body, queue, phases>>
    BY DEF StartTask, Show
  <1>2. Holds(t)
    BY <1>1, HoldersHold DEF SumInv
  <1>3. pc'[t] = "body" /\ status'[t] = "running"
    BY <1>1 DEF JobInv, JobType, SumInv, SumType
  <1>4. SumOK(t)
    BY DEF SumInv
  <1>5. SumOK(t)'
    BY <1>1, <1>2, <1>3, <1>4 DEF SumOK, In, Holds, Active, Terminal
  <1>6. QED BY <1>1, <1>5, SameExcept, SumLocal DEF Active

LEMMA SumRow == ASSUME SumInv, JobInv, NEW t \in Tasks, RowMounted(t) PROVE SumInv'
  <1>1. /\ pc[t] = "row" /\ status' = [status EXCEPT ![t] = "pending"]
        /\ pc' = [pc EXCEPT ![t] = "queued"] /\ sem' = Append(sem, t)
        /\ UNCHANGED <<body, queue, drainer, phases>>
    BY DEF RowMounted
  <1>2. pc'[t] = "queued" /\ status'[t] = "pending"
    BY <1>1 DEF JobInv, JobType, SumInv, SumType
  <1>3. SumOK(t) /\ sem \in Seq(Tasks) /\ Distinct
    BY DEF SumInv, SumType
  <1>4. /\ Len(sem) \in Nat /\ Len(sem') = Len(sem) + 1 /\ sem' \in Seq(Tasks)
        /\ (\A i \in 1..Len(sem) : sem'[i] = sem[i]) /\ sem'[Len(sem) + 1] = t
    BY <1>1, <1>3
  <1>5. ~In(t)
    BY <1>1, <1>3 DEF SumOK
  <1>6. Distinct'
    <2> SUFFICES ASSUME NEW i \in 1..Len(sem'), NEW j \in 1..Len(sem'), sem'[i] = sem'[j] PROVE i = j
      BY DEF Distinct
    <2>1. (i \in 1..Len(sem) \/ i = Len(sem) + 1) /\ (j \in 1..Len(sem) \/ j = Len(sem) + 1)
      BY <1>4
    <2>2. QED BY <2>1, <1>3, <1>4, <1>5 DEF In, Distinct
  <1>7. In(t)'
    BY <1>4 DEF In
  <1>8. ASSUME NEW u \in Tasks, u # t PROVE (In(u)' <=> In(u)) /\ (Holds(u) => Holds(u)')
    <2>1. \A i \in 1..Len(sem') : i \in 1..Len(sem) \/ i = Len(sem) + 1
      BY <1>4
    <2>2. \A i \in 1..Len(sem) : i \in 1..Len(sem')
      BY <1>4
    <2>3. QED BY <1>4, <1>8, <2>1, <2>2 DEF In, Holds
  <1>9. SumType'
    BY <1>1, <1>4 DEF SumInv, SumType
  <1>10. SumOK(t)'
    BY <1>1, <1>2, <1>3, <1>7 DEF SumOK, Active, Terminal
  <1>11. ASSUME NEW u \in Tasks, u # t
         PROVE  /\ pc'[u] = pc[u] /\ status'[u] = status[u] /\ body'[u] = body[u] /\ drainer'[u] = drainer[u]
                /\ queue'[u] = queue[u]
    BY <1>1, <1>11 DEF SumInv, SumType, JobInv, JobType
  <1>12. QED BY <1>1, <1>6, <1>8, <1>9, <1>10, <1>11, SumStep

LEMMA SumEndBody == ASSUME SumInv, JobInv, NEW t \in Tasks, EndBody(t) PROVE SumInv'
  <1>1. PICK how \in {"returned", "raised"} : LeaveBody(t, how)
    BY DEF EndBody
  <1>2. /\ pc[t] = "body" /\ body' = [body EXCEPT ![t] = how] /\ pc' = [pc EXCEPT ![t] = "closing"]
        /\ queue' = [queue EXCEPT ![t] = Close(queue[t])] /\ UNCHANGED <<status, sem, drainer, phases>>
    BY <1>1 DEF EndBody, LeaveBody
  <1>3. pc'[t] = "closing" /\ SumOK(t)
    BY <1>2 DEF JobInv, JobType, SumInv
  <1>4. SumOK(t)'
    BY <1>2, <1>3 DEF SumOK, In, Holds, Active, Terminal
  <1>5. QED BY <1>2, <1>4, SameExcept, SumLocal

\* One element leaves a sequence.
LEMMA RemoveAtFacts ==
  ASSUME NEW S, NEW s \in Seq(S), NEW i \in 1..Len(s)
  PROVE  /\ RemoveAt(s, i) \in Seq(S) /\ Len(RemoveAt(s, i)) = Len(s) - 1
         /\ \A j \in 1..(Len(s) - 1) : RemoveAt(s, i)[j] = IF j < i THEN s[j] ELSE s[j + 1]
  <1> DEFINE a == SubSeq(s, 1, i - 1)
             b == SubSeq(s, i + 1, Len(s))
  <1>1. Len(s) \in Nat /\ i \in Nat /\ 1 <= i /\ i <= Len(s) /\ i - 1 \in Nat
    OBVIOUS
  <1>2. a \in Seq(S) /\ Len(a) = i - 1 /\ \A j \in 1..(i - 1) : a[j] = s[j]
    BY <1>1
  <1>3. b \in Seq(S) /\ Len(b) = Len(s) - i /\ \A j \in 1..(Len(s) - i) : b[j] = s[i + j]
    BY <1>1
  <1>4. RemoveAt(s, i) = a \o b
    BY DEF RemoveAt
  <1> HIDE DEF a, b
  <1>5. /\ a \o b \in Seq(S) /\ Len(a \o b) = Len(a) + Len(b)
        /\ \A j \in 1..(Len(a) + Len(b)) : (a \o b)[j] = IF j <= Len(a) THEN a[j] ELSE b[j - Len(a)]
    BY <1>2, <1>3, ConcatProperties
  <1>6. Len(a) + Len(b) = Len(s) - 1
    BY <1>1, <1>2, <1>3
  <1>7. ASSUME NEW j \in 1..(Len(s) - 1) PROVE (a \o b)[j] = IF j < i THEN s[j] ELSE s[j + 1]
    <2>1. (a \o b)[j] = IF j <= Len(a) THEN a[j] ELSE b[j - Len(a)]
      BY <1>5, <1>6
    <2>2. CASE j < i
      <3>1. j <= Len(a) /\ j \in 1..(i - 1)
        BY <1>1, <1>2, <2>2
      <3>2. QED BY <1>2, <2>1, <2>2, <3>1
    <2>3. CASE ~(j < i)
      <3>1. ~(j <= Len(a)) /\ j - Len(a) \in 1..(Len(s) - i) /\ i + (j - Len(a)) = j + 1
        BY <1>1, <1>2, <2>3
      <3>2. b[j - Len(a)] = s[i + (j - Len(a))]
        BY <1>3, <3>1
      <3>3. QED BY <2>1, <2>3, <3>1, <3>2
    <2>4. QED BY <2>2, <2>3
  <1>8. QED BY <1>4, <1>5, <1>6, <1>7

\* Who was behind the task that leaves moves up by one place.
LEMMA ReleaseFacts ==
  ASSUME SumInv, NEW t \in Tasks, Release(t)
  PROVE  /\ sem' \in Seq(Tasks) /\ Distinct' /\ ~In(t)'
         /\ \A u \in Tasks : u # t => (In(u)' <=> In(u)) /\ (Holds(u) => Holds(u)')
  <1>1. PICK i \in DOMAIN sem : sem[i] = t /\ sem' = RemoveAt(sem, i)
    BY DEF Release
  <1>2. sem \in Seq(Tasks) /\ Len(sem) \in Nat /\ i \in 1..Len(sem) /\ MaxRunning \in Nat
        /\ \A j, k \in 1..Len(sem) : sem[j] = sem[k] => j = k
    BY JobAssumption DEF SumInv, SumType, Distinct
  <1>3. /\ sem' \in Seq(Tasks) /\ Len(sem') = Len(sem) - 1
        /\ \A j \in 1..(Len(sem) - 1) : sem'[j] = IF j < i THEN sem[j] ELSE sem[j + 1]
    BY <1>1, <1>2, RemoveAtFacts
  <1> DEFINE at(j) == IF j < i THEN j ELSE j + 1
  <1>4. ASSUME NEW j \in 1..Len(sem') PROVE at(j) \in 1..Len(sem) /\ at(j) # i /\ sem'[j] = sem[at(j)]
    BY <1>2, <1>3
  <1>5. \A j, k \in 1..Len(sem') : at(j) = at(k) => j = k
    BY <1>2, <1>3
  <1>6. ASSUME NEW j \in 1..Len(sem), j # i
        PROVE  \E k \in 1..Len(sem') : k <= j /\ sem'[k] = sem[j]
    <2>1. CASE j < i
      <3>1. j \in 1..Len(sem') /\ at(j) = j
        BY <1>2, <1>3, <2>1
      <3>2. j <= j
        BY <1>2
      <3>3. sem'[j] = sem[at(j)]
        BY <1>4, <3>1
      <3>4. QED BY <3>1, <3>2, <3>3
    <2>2. CASE j > i
      <3>1. j - 1 \in 1..Len(sem') /\ at(j - 1) = j /\ j - 1 <= j
        BY <1>2, <1>3, <2>2
      <3>2. QED BY <1>4, <3>1
    <2>3. QED BY <1>2, <1>6, <2>1, <2>2
  <1> HIDE DEF at
  <1>7. Distinct'
    <2> SUFFICES ASSUME NEW j \in 1..Len(sem'), NEW k \in 1..Len(sem'), sem'[j] = sem'[k] PROVE j = k
      BY DEF Distinct
    <2>1. at(j) = at(k)
      BY <1>2, <1>4
    <2>2. QED BY <1>5, <2>1
  <1>8. ~In(t)'
    <2> SUFFICES ASSUME NEW j \in 1..Len(sem'), sem'[j] = t PROVE FALSE
      BY DEF In
    <2>1. QED BY <1>1, <1>2, <1>4
  <1>9. ASSUME NEW u \in Tasks, u # t PROVE (In(u)' <=> In(u)) /\ (Holds(u) => Holds(u)')
    <2>1. ASSUME In(u) PROVE In(u)'
      <3>1. PICK j \in 1..Len(sem) : sem[j] = u
        BY <2>1 DEF In
      <3>2. QED BY <1>1, <1>6, <1>9, <3>1 DEF In
    <2>2. ASSUME In(u)' PROVE In(u)
      BY <1>4, <2>2 DEF In
    <2>3. ASSUME Holds(u) PROVE Holds(u)'
      <3>1. PICK j \in 1..Len(sem) : j <= MaxRunning /\ sem[j] = u
        BY <2>3 DEF Holds
      <3>2. PICK k \in 1..Len(sem') : k <= j /\ sem'[k] = sem[j]
        BY <1>1, <1>6, <1>9, <3>1
      <3>3. k <= MaxRunning
        <4>1. Len(sem') \in Nat
          BY <1>3
        <4>2. QED BY <1>2, <3>1, <3>2, <4>1
      <3>4. QED BY <3>1, <3>2, <3>3 DEF Holds
    <2>4. QED BY <2>1, <2>2, <2>3
  <1>10. QED BY <1>3, <1>7, <1>8, <1>9

LEMMA SumLeave == ASSUME SumInv, JobInv, NEW t \in Tasks, LeaveScope(t) PROVE SumInv'
  <1> DEFINE ok == body[t] = "returned" /\ drainer[t] # "raised"
             s == IF ok THEN "done" ELSE "error"
  <1>1. /\ pc[t] = "closing" /\ status' = [status EXCEPT ![t] = s]
        /\ phases' = phases \cup {[task |-> t, error |-> ~ok]} /\ Release(t)
        /\ pc' = [pc EXCEPT ![t] = "over"] /\ queue' = [queue EXCEPT ![t] = EmptyQueue] /\ UNCHANGED body
    BY DEF LeaveScope, Show, RecordPhase
  <1>2. PICK d \in {"none", "draining", "raised", "cancelled"} :
          drainer' = [drainer EXCEPT ![t] = d] /\ (d = "raised" => drainer[t] = "raised")
    BY SameExcept DEF LeaveScope
  <1>3. ok \in BOOLEAN /\ s \in {"done", "error"} /\ (s = "error" <=> ~ok)
    OBVIOUS
  <1>4. SumOK(t)
    BY DEF SumInv
  <1>5. pc'[t] = "over" /\ status'[t] = s /\ queue'[t] = EmptyQueue /\ body'[t] = body[t] /\ drainer'[t] = d
    BY <1>1, <1>2 DEF JobInv, JobType, SumInv, SumType
  <1>6. SumType'
    <2>1. phases' \subseteq [task : Tasks, error : BOOLEAN]
      <3>1. \A b \in BOOLEAN : [task |-> t, error |-> b] \in [task : Tasks, error : BOOLEAN]
        OBVIOUS
      <3>2. [task |-> t, error |-> ~ok] \in [task : Tasks, error : BOOLEAN]
        BY <3>1
      <3> HIDE DEF ok
      <3>3. QED BY <1>1, <3>2 DEF SumInv, SumType
    <2>2. /\ sem' \in Seq(Tasks) /\ body' \in [Tasks -> {"none", "returned", "raised"}]
          /\ drainer' \in [Tasks -> {"none", "draining", "raised", "cancelled"}]
      BY <1>1, <1>2, ReleaseFacts DEF SumInv, SumType
    <2>3. status' \in [Tasks -> {"none", "pending", "done", "error"} \cup Active]
      <3> HIDE DEF s, ok
      <3>1. QED BY <1>1, <1>3 DEF SumInv, SumType
    <2>4. QED BY <2>1, <2>2, <2>3 DEF SumType
  <1>7. ASSUME NEW u \in Tasks, NEW e \in BOOLEAN
        PROVE  [task |-> u, error |-> e] \in phases' <=>
                 [task |-> u, error |-> e] \in phases \/ (u = t /\ e = ~ok)
    BY <1>1
  <1>8. \A e \in BOOLEAN : [task |-> t, error |-> e] \notin phases
    BY <1>1, <1>4 DEF SumOK
  <1>9. ASSUME NEW u \in Tasks, u # t
        PROVE  /\ pc'[u] = pc[u] /\ status'[u] = status[u] /\ body'[u] = body[u] /\ drainer'[u] = drainer[u]
               /\ queue'[u] = queue[u]
    BY <1>1, <1>2, <1>9 DEF SumInv, SumType, JobInv, JobType
  <1>10. s = "done" => body[t] = "returned" /\ drainer[t] # "raised"
    OBVIOUS
  <1> HIDE DEF ok, s
  <1>11. \A e \in BOOLEAN : [task |-> t, error |-> e] \in phases' <=> pc'[t] = "over" /\ e = (status'[t] = "error")
    BY <1>3, <1>5, <1>7, <1>8
  <1>12. SumOK(t)'
    <2>1. ~In(t)' /\ pc'[t] \notin {"queued", "body", "closing"}
      BY <1>1, <1>5, ReleaseFacts
    <2>2. status'[t] \notin Active /\ Terminal(status'[t])
      BY <1>3, <1>5 DEF Active, Terminal
    <2>3. status'[t] = "done" => body'[t] = "returned" /\ drainer'[t] # "raised"
      BY <1>2, <1>5, <1>10
    <2>4. QED BY <1>5, <1>11, <2>1, <2>2, <2>3 DEF SumOK
  <1>13. QED BY <1>1, <1>6, <1>7, <1>9, <1>12, ReleaseFacts, SumStep

\* What happens inside the body: the row stays active.
LEMMA SumBody ==
  ASSUME SumInv, JobInv, NEW t \in Tasks, pc[t] \in {"body", "closing"},
         UNCHANGED <<pc, sem, body, drainer, phases>>,
         \E x \in Active : status' = [status EXCEPT ![t] = x],
         \E x : queue' = [queue EXCEPT ![t] = x]
  PROVE  SumInv'
  <1>1. PICK x \in Active : status' = [status EXCEPT ![t] = x]
    OBVIOUS
  <1>2. status'[t] = x /\ SumOK(t)
    BY <1>1 DEF SumInv, SumType
  <1>3. SumOK(t)'
    BY <1>2 DEF SumOK, In, Holds, Active, Terminal
  <1>4. QED BY <1>1, <1>3, SameExcept, SumLocal

LEMMA SumGraphs ==
  ASSUME SumInv, JobInv, NEW t \in Tasks, NEW g \in Graphs,
         \/ StartGraph(t, g) \/ Interrupt(t, g) \/ Answered(t, g) \/ StreamItem(t, g) \/ EndGraph(t, g)
  PROVE  SumInv'
  <1>1. pc[t] \in {"body", "closing"} /\ UNCHANGED <<pc, sem, body, drainer, phases>>
    BY DEF StartGraph, Interrupt, Answered, StreamItem, EndGraph, GraphStep, GraphFrame
  <1>2. \E x : queue' = [queue EXCEPT ![t] = x]
    <2>1. CASE Interrupt(t, g) \/ Answered(t, g)
      BY <2>1, SameExcept DEF Interrupt, Answered
    <2>2. CASE StartGraph(t, g) \/ StreamItem(t, g) \/ EndGraph(t, g)
      <3>1. \E kind : Emit(t, g, kind)
        BY <2>2 DEF StartGraph, StreamItem, EndGraph
      <3>2. QED BY <3>1 DEF Emit
    <2>3. QED BY <2>1, <2>2
  <1>3. status[t] \in Active
    BY <1>1 DEF SumInv, SumOK
  <1>4. \E x \in Active : status' = [status EXCEPT ![t] = x]
    <2>1. CASE Interrupt(t, g) \/ Answered(t, g)
      BY <2>1 DEF Interrupt, Answered, Show, Active
    <2>2. CASE StartGraph(t, g) \/ StreamItem(t, g) \/ EndGraph(t, g)
      <3>1. UNCHANGED status
        BY <2>2 DEF StartGraph, StreamItem, EndGraph
      <3>2. QED BY <1>3, <3>1, SameExcept
    <2>3. QED BY <2>1, <2>2
  <1>5. QED BY <1>1, <1>2, <1>4, SumBody

\* A drainer that still wakes belongs to a task that is not over.
LEMMA SumDrainer ==
  ASSUME SumInv, JobInv, NEW t \in Tasks, Drain(t) \/ Handle(t) \/ HandlerRaises(t) PROVE SumInv'
  <1>1. UNCHANGED <<pc, sem, status, body, phases>> /\ drainer[t] = "draining"
    BY DEF Drain, Handle, HandlerRaises, DrainFrame
  <1>2. \E x : queue' = [queue EXCEPT ![t] = x]
    BY SameExcept DEF Drain, Handle, HandlerRaises
  <1>3. \E x \in {"none", "draining", "raised", "cancelled"} : drainer' = [drainer EXCEPT ![t] = x]
    BY SameExcept DEF Drain, Handle, HandlerRaises
  <1>4. queue[t] # EmptyQueue
    BY DEF Drain, Handle, HandlerRaises, CanWake, EmptyQueue
  <1>5. SumOK(t)
    BY DEF SumInv
  <1>6. pc[t] # "over" /\ status[t] # "done"
    BY <1>4, <1>5 DEF SumOK, Terminal
  <1>7. SumOK(t)'
    BY <1>1, <1>5, <1>6 DEF SumOK, In, Holds, Terminal
  <1>8. QED BY <1>1, <1>2, <1>3, <1>7, SameExcept, SumLocal

LEMMA SumConverse == ASSUME SumInv, JobInv, Converse(ConvNext) PROVE SumInv'
  <1>1. pc[Refiner] = "body" /\ UNCHANGED <<pc, sem, body, drainer, phases, queue>> /\ Refiner \in Tasks
    BY JobAssumption DEF Converse
  <1>2. status[Refiner] \in Active
    BY <1>1 DEF SumInv, SumOK
  <1>3. \E x \in Active : status' = [status EXCEPT ![Refiner] = x]
    BY <1>1, <1>2, SameExcept DEF Converse, Show, Active
  <1>4. QED BY <1>1, <1>3, SameExcept, SumBody

LEMMA SumNext == JobInv /\ SumInv /\ [Next]_vars => SumInv'
  <1> SUFFICES ASSUME JobInv, SumInv, [Next]_vars PROVE SumInv'
    OBVIOUS
  <1>1. ASSUME NEW t \in Tasks, Machine(t) \/ HandlerRaises(t) PROVE SumInv'
    <2>1. ASSUME NEW g \in Graphs, EndGraph(t, g) PROVE SumInv'
      BY <2>1, SumGraphs
    <2>2. QED BY <1>1, <2>1, SumDrainer, SumEntry, SumRow, SumStart, SumEndBody, SumLeave DEF Machine, TaskStep
  <1>2. ASSUME NEW t \in Tasks, NEW g \in Graphs,
               StartGraph(t, g) \/ Interrupt(t, g) \/ Answered(t, g) \/ StreamItem(t, g)
        PROVE  SumInv'
    BY <1>2, SumGraphs
  <1>3. CASE Converse(ConvNext)
    BY <1>3, SumConverse
  <1>4. CASE UNCHANGED vars
    BY <1>4 DEF vars, jobVars, SumInv, SumType, SumOK, Distinct, In, Holds
  <1>5. QED BY <1>1, <1>2, <1>3, <1>4 DEF Next

\* There are no more holders than permits.
LEMMA FewHolders ==
  ASSUME SumType, NEW A \in SUBSET Tasks, \A t \in A : t \in Holders PROVE Cardinality(A) <= MaxRunning
  <1> DEFINE n == IF Len(sem) < MaxRunning THEN Len(sem) ELSE MaxRunning
             f == [i \in 1..n |-> sem[i]]
  <1>1. n \in Nat /\ n <= MaxRunning /\ MaxRunning \in Nat
    BY JobAssumption DEF SumType
  <1>2. Holders = {sem[i] : i \in 1..n}
    BY DEF Holders
  <1> HIDE DEF n
  <1>3. f \in Surjection(1..n, Holders)
    BY <1>2 DEF Surjection
  <1>4. ExistsSurjection(1..n, Holders)
    BY <1>3 DEF ExistsSurjection
  <1>5. IsFiniteSet(1..n) /\ IsFiniteSet(Holders)
    <2>1. 1 \in Int /\ n \in Int
      BY <1>1
    <2>2. IsFiniteSet(1..n)
      BY <2>1, FS_Interval
    <2>3. QED BY <1>3, <2>2, FS_Surjection
  <1>6. Cardinality(Holders) <= n
    BY <1>1, <1>4, FS_SurjCardinalityBound
  <1>7. IsFiniteSet(A) /\ Cardinality(A) <= Cardinality(Holders)
    <2>1. A \in SUBSET Holders
      OBVIOUS
    <2>2. QED BY <1>5, <2>1, FS_Subset
  <1>8. Cardinality(A) \in Nat /\ Cardinality(Holders) \in Nat
    BY <1>5, <1>7, FS_CardinalityType
  <1>9. QED BY <1>1, <1>6, <1>7, <1>8

-----------------------------------------------------------------------------
(* The paths of the events *)

Rows == [Graphs -> GraphType]
RunsIn(G) == {g \in Graphs : G[g].st \in {"streaming", "interrupted", "answered"}}
Begun(G) == {g \in Graphs : G[g].st # "new"}
LeftIn(G) == {g \in Graphs : G[g].st \in {"over", "raised"} /\ LeavesCalls(G[g])}
PathsOf(G, A) == {G[g].path : g \in A}
EndsWith(path, g) == Len(path) > 0 /\ path[Len(path)] = g

Of(p, n, kinds) == {p[j].path : j \in {j \in 1..n : p[j].kind \in kinds}}
Started(p, n) == Of(p, n, {"start"})
OpenAt(p, n) == Of(p, n, {"start"}) \ Of(p, n, {"end", "left"})
Lost(p, n) == Of(p, n, {"left"})

\* A graph around a path is open, or it began and one from it on was left.
Covered(O, S, L, path, k) ==
  \/ SubSeq(path, 1, k) \in O
  \/ SubSeq(path, 1, k) \in S /\ \E j \in k..(Len(path) - 1) : SubSeq(path, 1, j) \in L

EventOK(p, i) ==
  /\ IF p[i].kind = "start" THEN p[i].path \notin Started(p, i - 1) ELSE p[i].path \in OpenAt(p, i - 1)
  /\ \A k \in 1..(Len(p[i].path) - 1) : Covered(OpenAt(p, i), Started(p, i), Lost(p, i), p[i].path, k)

\* The path of a graph ends in it, so that no two graphs have the same; the events
\* tell which graphs began, run and were left; every graph around one that runs
\* runs too, but for those that were left and what is above them.
RowOK(G, p) ==
  /\ \A g \in Begun(G) : EndsWith(G[g].path, g)
  /\ \A g \in Graphs : /\ G[g].st = "answered" => G[g].unused
                       /\ G[g].unused => G[g].st \in {"answered", "over"}
  /\ Started(p, Len(p)) = PathsOf(G, Begun(G))
  /\ OpenAt(p, Len(p)) = PathsOf(G, RunsIn(G))
  /\ Lost(p, Len(p)) = PathsOf(G, LeftIn(G))
  /\ \A i \in 1..Len(p) : p[i].path \in PathsOf(G, Begun(G))
  /\ \A g \in Begun(G) : \A k \in 1..(Len(G[g].path) - 1) : SubSeq(G[g].path, 1, k) \in Started(p, Len(p))
  /\ \A g \in RunsIn(G) : \A k \in 1..(Len(G[g].path) - 1) :
        Covered(OpenAt(p, Len(p)), Started(p, Len(p)), Lost(p, Len(p)), G[g].path, k)
  /\ \A i \in 1..Len(p) : EventOK(p, i)
PathOK(t) == RowOK(graph[t], pushed[t]) /\ (pc[t] = "closing" => ~Busy(t))

\* What an event adds to the sets the events tell.
LEMMA AppendSets ==
  ASSUME NEW p \in Seq(Events), NEW e \in Events
  PROVE  /\ \A i \in 0..Len(p) : /\ Started(Append(p, e), i) = Started(p, i)
                                 /\ OpenAt(Append(p, e), i) = OpenAt(p, i)
                                 /\ Lost(Append(p, e), i) = Lost(p, i)
         /\ Started(Append(p, e), Len(p) + 1) = Started(p, Len(p)) \cup (IF e.kind = "start" THEN {e.path} ELSE {})
         /\ Lost(Append(p, e), Len(p) + 1) = Lost(p, Len(p)) \cup (IF e.kind = "left" THEN {e.path} ELSE {})
         /\ e.kind = "item" => OpenAt(Append(p, e), Len(p) + 1) = OpenAt(p, Len(p))
         /\ e.kind \in {"end", "left"} => OpenAt(Append(p, e), Len(p) + 1) = OpenAt(p, Len(p)) \ {e.path}
         /\ e.kind = "start" /\ e.path \notin Of(p, Len(p), {"end", "left"}) =>
              OpenAt(Append(p, e), Len(p) + 1) = OpenAt(p, Len(p)) \cup {e.path}
  <1> DEFINE q == Append(p, e)
             n == Len(p)
             ends == {"end", "left"}
  <1>0. n \in Nat /\ q[n + 1] = e /\ \A i \in 1..n : q[i] = p[i]
    OBVIOUS
  <1> HIDE DEF q, n
  <1>1. ASSUME NEW kinds
        PROVE  /\ \A i \in 0..n : Of(q, i, kinds) = Of(p, i, kinds)
               /\ Of(q, n + 1, kinds) = Of(p, n, kinds) \cup (IF e.kind \in kinds THEN {e.path} ELSE {})
    <2>1. \A i \in 1..n : q[i] = p[i]
      BY <1>0
    <2>2. ASSUME NEW i \in 0..n PROVE Of(q, i, kinds) = Of(p, i, kinds)
      BY <1>0, <2>1 DEF Of
    <2>3. Of(q, n + 1, kinds) = Of(q, n, kinds) \cup (IF e.kind \in kinds THEN {e.path} ELSE {})
      <3>1. \A i : i \in 1..(n + 1) <=> i \in 1..n \/ i = n + 1
        BY <1>0
      <3>2. QED BY <1>0, <3>1 DEF Of
    <2>4. n \in 0..n
      BY <1>0
    <2>5. QED BY <2>2, <2>3, <2>4
  <1>2. \A i \in 0..n : /\ Of(q, i, {"start"}) = Of(p, i, {"start"}) /\ Of(q, i, ends) = Of(p, i, ends)
                        /\ Of(q, i, {"left"}) = Of(p, i, {"left"})
    BY <1>1
  <1>3. /\ Of(q, n + 1, {"start"}) = Of(p, n, {"start"}) \cup (IF e.kind \in {"start"} THEN {e.path} ELSE {})
        /\ Of(q, n + 1, {"left"}) = Of(p, n, {"left"}) \cup (IF e.kind \in {"left"} THEN {e.path} ELSE {})
        /\ Of(q, n + 1, ends) = Of(p, n, ends) \cup (IF e.kind \in ends THEN {e.path} ELSE {})
    BY <1>1
  <1>4. /\ \A i \in 0..n : Started(q, i) = Started(p, i) /\ OpenAt(q, i) = OpenAt(p, i) /\ Lost(q, i) = Lost(p, i)
        /\ Started(q, n + 1) = Started(p, n) \cup (IF e.kind = "start" THEN {e.path} ELSE {})
        /\ Lost(q, n + 1) = Lost(p, n) \cup (IF e.kind = "left" THEN {e.path} ELSE {})
        /\ e.kind = "item" => OpenAt(q, n + 1) = OpenAt(p, n)
        /\ e.kind \in {"end", "left"} => OpenAt(q, n + 1) = OpenAt(p, n) \ {e.path}
        /\ e.kind = "start" /\ e.path \notin Of(p, n, {"end", "left"}) => OpenAt(q, n + 1) = OpenAt(p, n) \cup {e.path}
    BY <1>2, <1>3 DEF Started, OpenAt, Lost
  <1>5. QED BY <1>4 DEF q, n

\* The last event is in order when it stands where it may and is covered.
LEMMA EventAppended ==
  ASSUME NEW p \in Seq(Events), NEW e \in Events, \A i \in 1..Len(p) : EventOK(p, i),
         IF e.kind = "start" THEN e.path \notin Started(p, Len(p)) ELSE e.path \in OpenAt(p, Len(p)),
         NEW O, NEW S, NEW L, O = OpenAt(Append(p, e), Len(p) + 1), S = Started(Append(p, e), Len(p) + 1),
         L = Lost(Append(p, e), Len(p) + 1),
         \A k \in 1..(Len(e.path) - 1) : Covered(O, S, L, e.path, k)
  PROVE  \A i \in 1..Len(Append(p, e)) : EventOK(Append(p, e), i)
  <1> DEFINE q == Append(p, e)
  <1>1. /\ Len(p) \in Nat /\ Len(q) = Len(p) + 1 /\ q[Len(p) + 1] = e
        /\ \A i \in 1..Len(p) : q[i] = p[i]
    OBVIOUS
  <1>2. \A i \in 0..Len(p) : /\ Started(q, i) = Started(p, i) /\ OpenAt(q, i) = OpenAt(p, i)
                             /\ Lost(q, i) = Lost(p, i)
    BY AppendSets
  <1> SUFFICES ASSUME NEW i \in 1..Len(q) PROVE EventOK(q, i)
    OBVIOUS
  <1> HIDE DEF q
  <1>3. CASE i \in 1..Len(p)
    <2>1. i \in 0..Len(p) /\ i - 1 \in 0..Len(p) /\ q[i] = p[i] /\ EventOK(p, i)
      BY <1>1, <1>3
    <2>2. QED BY <1>2, <2>1 DEF EventOK
  <1>4. CASE i = Len(p) + 1
    <2>1. i - 1 = Len(p) /\ Len(p) \in 0..Len(p) /\ q[i] = e
      BY <1>1, <1>4
    <2>2. Started(q, i - 1) = Started(p, Len(p)) /\ OpenAt(q, i - 1) = OpenAt(p, Len(p))
      BY <1>2, <2>1
    <2>3. \A k \in 1..(Len(e.path) - 1) : Covered(OpenAt(q, i), Started(q, i), Lost(q, i), e.path, k)
      BY <1>4 DEF q
    <2>4. QED BY <2>1, <2>2, <2>3 DEF EventOK
  <1>5. QED BY <1>1, <1>3, <1>4

LEMMA CoveredGrows ==
  ASSUME NEW O, NEW S, NEW L, NEW P, NEW T, NEW M, NEW path, NEW k, Covered(O, S, L, path, k),
         O \subseteq P, S \subseteq T, L \subseteq M
  PROVE  Covered(P, T, M, path, k)
  BY DEF Covered

LEMMA RowPaths ==
  ASSUME NEW G \in Rows, NEW p, RowOK(G, p), NEW g \in Begun(G), NEW h \in Begun(G), G[g].path = G[h].path
  PROVE  g = h
  BY DEF RowOK, EndsWith

LEMMA RowSets ==
  ASSUME NEW G \in Rows
  PROVE  /\ RunsIn(G) \subseteq Begun(G) /\ LeftIn(G) \subseteq Begun(G) /\ Begun(G) \subseteq Graphs
         /\ RunsIn(G) \cap LeftIn(G) = {}
         /\ \A g \in Graphs : G[g].path \in Seq(Graphs)
  BY DEF RunsIn, LeftIn, Begun, Rows, GraphType

\* A graph starts, alone or below another.
LEMMA RowStart ==
  ASSUME NEW G \in Rows, NEW p \in Seq(Events), RowOK(G, p), NEW g \in Graphs, G[g].st = "new",
         NEW path \in Seq(Graphs), EndsWith(path, g),
         \A k \in 1..(Len(path) - 1) :
            /\ SubSeq(path, 1, k) \in Started(p, Len(p))
            /\ Covered(OpenAt(p, Len(p)), Started(p, Len(p)), Lost(p, Len(p)), path, k),
         NEW H \in Rows, H[g].st = "streaming", H[g].path = path, ~H[g].unused,
         \A h \in Graphs : h # g => H[h] = G[h]
  PROVE  RowOK(H, Append(p, [kind |-> "start", path |-> path]))
  <1> DEFINE e == [kind |-> "start", path |-> path]
             q == Append(p, e)
             O == OpenAt(p, Len(p))
             S == Started(p, Len(p))
             L == Lost(p, Len(p))
  <1>1. /\ H[g].st = "streaming" /\ H[g].path = path /\ ~H[g].unused
        /\ \A h \in Graphs : h # g => H[h] = G[h]
    OBVIOUS
  <1>2. e \in Events /\ e.kind = "start" /\ e.path = path
    BY DEF Events, Kinds
  <1>3. /\ g \notin Begun(G) /\ Begun(H) = Begun(G) \cup {g} /\ RunsIn(H) = RunsIn(G) \cup {g}
        /\ LeftIn(H) = LeftIn(G) /\ g \notin LeftIn(G)
        /\ RunsIn(G) \subseteq Begun(G) /\ LeftIn(G) \subseteq Begun(G)
        /\ \A h \in Begun(G) : H[h] = G[h]
    BY <1>1 DEF RunsIn, Begun, LeftIn
  <1>4. /\ Len(p) \in Nat /\ Len(q) = Len(p) + 1 /\ q[Len(p) + 1] = e
        /\ \A i \in 1..Len(p) : q[i] = p[i]
    BY <1>2
  <1>5. path \notin PathsOf(G, Begun(G))
    <2> SUFFICES ASSUME NEW h \in Begun(G), G[h].path = path PROVE FALSE
      BY DEF PathsOf
    <2>1. EndsWith(path, h) /\ h # g
      BY <1>3 DEF RowOK
    <2>2. QED BY <2>1 DEF EndsWith
  <1>6. path \notin Of(p, Len(p), {"end", "left"}) /\ path \notin S
    <2>1. \A i \in 1..Len(p) : p[i].path # path
      BY <1>5 DEF RowOK
    <2>2. QED BY <2>1 DEF Of, Started
  <1>7. /\ Started(q, Len(q)) = S \cup {path} /\ OpenAt(q, Len(q)) = O \cup {path} /\ Lost(q, Len(q)) = L
    <2>1. /\ Started(q, Len(p) + 1) = Started(p, Len(p)) \cup {e.path} /\ Lost(q, Len(p) + 1) = Lost(p, Len(p))
          /\ OpenAt(q, Len(p) + 1) = OpenAt(p, Len(p)) \cup {e.path}
      BY <1>2, <1>6, AppendSets
    <2>2. QED BY <1>2, <1>4, <2>1
  <1> HIDE DEF e, q, O, S, L
  <1>8. /\ PathsOf(H, Begun(H)) = PathsOf(G, Begun(G)) \cup {path}
        /\ PathsOf(H, RunsIn(H)) = PathsOf(G, RunsIn(G)) \cup {path}
        /\ PathsOf(H, LeftIn(H)) = PathsOf(G, LeftIn(G))
    <2>1. ASSUME NEW A, A \subseteq Begun(G)
          PROVE  PathsOf(H, A) = PathsOf(G, A) /\ PathsOf(H, A \cup {g}) = PathsOf(G, A) \cup {path}
      <3>1. \A h \in A : H[h].path = G[h].path
        BY <1>3, <2>1
      <3>2. QED BY <1>1, <3>1 DEF PathsOf
    <2>2. QED BY <1>3, <2>1
  <1>9. S = PathsOf(G, Begun(G)) /\ O = PathsOf(G, RunsIn(G)) /\ L = PathsOf(G, LeftIn(G))
    BY DEF RowOK, O, S, L
  <1>10. \A i \in 1..Len(q) : q[i].path \in PathsOf(H, Begun(H))
    <2>1. \A i \in 1..Len(p) : p[i].path \in PathsOf(G, Begun(G))
      BY DEF RowOK
    <2>2. \A i \in 1..Len(q) : i \in 1..Len(p) \/ i = Len(p) + 1
      BY <1>4
    <2>3. QED BY <1>2, <1>4, <1>8, <2>1, <2>2
  <1>11. ASSUME NEW h \in Begun(H), NEW k \in 1..(Len(H[h].path) - 1)
         PROVE  SubSeq(H[h].path, 1, k) \in S
    <2>1. CASE h = g
      BY <1>1, <2>1 DEF S
    <2>2. CASE h # g
      <3>1. h \in Begun(G) /\ H[h].path = G[h].path
        BY <1>3, <2>2
      <3>2. QED BY <3>1 DEF RowOK, S
    <2>3. QED BY <2>1, <2>2
  <1>12. ASSUME NEW h \in RunsIn(H), NEW k \in 1..(Len(H[h].path) - 1)
         PROVE  Covered(O \cup {path}, S \cup {path}, L, H[h].path, k)
    <2>1. Covered(O, S, L, H[h].path, k)
      <3>1. CASE h = g
        BY <1>1, <3>1 DEF O, S, L
      <3>2. CASE h # g
        <4>1. h \in RunsIn(G) /\ H[h].path = G[h].path
          BY <1>3, <3>2
        <4>2. QED BY <4>1 DEF RowOK, O, S, L
      <3>3. QED BY <3>1, <3>2
    <2>2. O \subseteq O \cup {path} /\ S \subseteq S \cup {path} /\ L \subseteq L
      OBVIOUS
    <2>3. QED BY <2>1, <2>2, CoveredGrows
  <1>13. \A i \in 1..Len(q) : EventOK(q, i)
    <2>1. \A k \in 1..(Len(e.path) - 1) : Covered(O \cup {path}, S \cup {path}, L, e.path, k)
      <3>1. g \in RunsIn(H)
        BY <1>3
      <3>2. QED BY <1>1, <1>2, <1>12, <3>1
    <2>2. e.path \notin Started(p, Len(p)) /\ \A i \in 1..Len(p) : EventOK(p, i)
      BY <1>2, <1>6 DEF RowOK, S
    <2>3. /\ O \cup {path} = OpenAt(Append(p, e), Len(p) + 1)
          /\ S \cup {path} = Started(Append(p, e), Len(p) + 1) /\ L = Lost(Append(p, e), Len(p) + 1)
      BY <1>4, <1>7 DEF q
    <2>4. QED BY <1>2, <2>1, <2>2, <2>3, EventAppended DEF q
  <1>14. /\ \A h \in Begun(H) : EndsWith(H[h].path, h)
         /\ \A h \in Graphs : /\ H[h].st = "answered" => H[h].unused
                              /\ H[h].unused => H[h].st \in {"answered", "over"}
    BY <1>1, <1>3 DEF RowOK
  <1>15. /\ Started(q, Len(q)) = PathsOf(H, Begun(H)) /\ OpenAt(q, Len(q)) = PathsOf(H, RunsIn(H))
         /\ Lost(q, Len(q)) = PathsOf(H, LeftIn(H))
    BY <1>7, <1>8, <1>9
  <1>16. /\ \A h \in Begun(H) : \A k \in 1..(Len(H[h].path) - 1) : SubSeq(H[h].path, 1, k) \in Started(q, Len(q))
         /\ \A h \in RunsIn(H) : \A k \in 1..(Len(H[h].path) - 1) :
               Covered(OpenAt(q, Len(q)), Started(q, Len(q)), Lost(q, Len(q)), H[h].path, k)
    BY <1>7, <1>11, <1>12
  <1>17. QED BY <1>10, <1>13, <1>14, <1>15, <1>16 DEF RowOK, e, q

\* A graph whose path and whose running do not change emits an item or nothing.
LEMMA RowSame ==
  ASSUME NEW G \in Rows, NEW p \in Seq(Events), RowOK(G, p), NEW H \in Rows,
         \A h \in Graphs : /\ H[h].path = G[h].path
                           /\ H[h].st = "answered" => H[h].unused
                           /\ H[h].unused => H[h].st \in {"answered", "over"},
         RunsIn(H) = RunsIn(G), Begun(H) = Begun(G), LeftIn(H) = LeftIn(G)
  PROVE  RowOK(H, p)
  <1>1. RunsIn(G) \subseteq Graphs /\ Begun(G) \subseteq Graphs /\ LeftIn(G) \subseteq Graphs
    BY DEF RunsIn, Begun, LeftIn
  <1>2. /\ PathsOf(H, RunsIn(G)) = PathsOf(G, RunsIn(G)) /\ PathsOf(H, Begun(G)) = PathsOf(G, Begun(G))
        /\ PathsOf(H, LeftIn(G)) = PathsOf(G, LeftIn(G))
    BY <1>1 DEF PathsOf
  <1>3. \A h \in Begun(G) : H[h].path = G[h].path
    BY <1>1
  <1>4. \A h \in RunsIn(G) : H[h].path = G[h].path
    BY <1>1
  <1>5. /\ \A h \in Begun(H) : EndsWith(H[h].path, h)
        /\ \A h \in Begun(H) : \A k \in 1..(Len(H[h].path) - 1) : SubSeq(H[h].path, 1, k) \in Started(p, Len(p))
    BY <1>3 DEF RowOK
  <1>6. \A h \in RunsIn(H) : \A k \in 1..(Len(H[h].path) - 1) :
           Covered(OpenAt(p, Len(p)), Started(p, Len(p)), Lost(p, Len(p)), H[h].path, k)
    BY <1>4 DEF RowOK
  <1>7. QED BY <1>2, <1>5, <1>6 DEF RowOK

LEMMA RowItem ==
  ASSUME NEW G \in Rows, NEW p \in Seq(Events), RowOK(G, p), NEW g \in RunsIn(G)
  PROVE  RowOK(G, Append(p, [kind |-> "item", path |-> G[g].path]))
  <1> DEFINE e == [kind |-> "item", path |-> G[g].path]
             q == Append(p, e)
             O == OpenAt(p, Len(p))
             S == Started(p, Len(p))
             L == Lost(p, Len(p))
  <1>1. e \in Events /\ e.kind = "item" /\ e.path = G[g].path /\ g \in Begun(G) /\ g \in Graphs
    BY DEF Events, Kinds, RunsIn, Begun, Rows, GraphType
  <1>2. /\ Len(p) \in Nat /\ Len(q) = Len(p) + 1 /\ q[Len(p) + 1] = e
        /\ \A i \in 1..Len(p) : q[i] = p[i]
    BY <1>1
  <1>3. Started(q, Len(q)) = S /\ OpenAt(q, Len(q)) = O /\ Lost(q, Len(q)) = L
    <2>1. /\ Started(q, Len(p) + 1) = Started(p, Len(p)) /\ Lost(q, Len(p) + 1) = Lost(p, Len(p))
          /\ OpenAt(q, Len(p) + 1) = OpenAt(p, Len(p))
      BY <1>1, AppendSets
    <2>2. QED BY <1>2, <2>1
  <1> HIDE DEF e, q, O, S, L
  <1>4. S = PathsOf(G, Begun(G)) /\ O = PathsOf(G, RunsIn(G)) /\ L = PathsOf(G, LeftIn(G))
    BY DEF RowOK, O, S, L
  <1>5. \A i \in 1..Len(q) : q[i].path \in PathsOf(G, Begun(G))
    <2>1. \A i \in 1..Len(q) : i \in 1..Len(p) \/ i = Len(p) + 1
      BY <1>2
    <2>2. e.path \in PathsOf(G, Begun(G))
      BY <1>1 DEF PathsOf
    <2>3. QED BY <1>2, <2>1, <2>2 DEF RowOK
  <1>6. /\ \A h \in Begun(G) : \A k \in 1..(Len(G[h].path) - 1) : SubSeq(G[h].path, 1, k) \in S
        /\ \A h \in RunsIn(G) : \A k \in 1..(Len(G[h].path) - 1) : Covered(O, S, L, G[h].path, k)
    BY DEF RowOK, O, S, L
  <1>7. \A i \in 1..Len(q) : EventOK(q, i)
    <2>1. e.path \in OpenAt(p, Len(p)) /\ e.kind # "start"
      BY <1>1, <1>4 DEF PathsOf, O
    <2>2. O = OpenAt(Append(p, e), Len(p) + 1) /\ S = Started(Append(p, e), Len(p) + 1)
          /\ L = Lost(Append(p, e), Len(p) + 1)
      BY <1>2, <1>3 DEF q
    <2>3. \A i \in 1..Len(p) : EventOK(p, i)
      BY DEF RowOK
    <2>4. \A k \in 1..(Len(e.path) - 1) : Covered(O, S, L, e.path, k)
      BY <1>1, <1>6
    <2>5. QED BY <1>1, <2>1, <2>2, <2>3, <2>4, EventAppended DEF q
  <1>8. /\ \A h \in Begun(G) : EndsWith(G[h].path, h)
        /\ \A h \in Graphs : /\ G[h].st = "answered" => G[h].unused
                             /\ G[h].unused => G[h].st \in {"answered", "over"}
    BY DEF RowOK
  <1>9. QED BY <1>3, <1>4, <1>5, <1>6, <1>7, <1>8 DEF RowOK, e, q

\* A graph ends: as one that leaves its tool calls, or when none of them runs.
LEMMA RowEnd ==
  ASSUME NEW G \in Rows, NEW p \in Seq(Events), RowOK(G, p), NEW g \in RunsIn(G), NEW kind \in {"end", "left"},
         kind = "end" => \A h \in RunsIn(G) : Front(G[h].path) # G[g].path,
         NEW H \in Rows, H[g].st \in {"over", "raised"}, H[g].path = G[g].path,
         H[g].unused => H[g].st = "over", LeavesCalls(H[g]) <=> kind = "left",
         \A h \in Graphs : h # g => H[h] = G[h]
  PROVE  RowOK(H, Append(p, [kind |-> kind, path |-> G[g].path]))
  <1> DEFINE path == G[g].path
             e == [kind |-> kind, path |-> path]
             q == Append(p, e)
             O == OpenAt(p, Len(p))
             S == Started(p, Len(p))
             L == Lost(p, Len(p))
             M == IF kind = "left" THEN L \cup {path} ELSE L
  <1>1. /\ H[g].st \in {"over", "raised"} /\ g \in Graphs /\ \A h \in Graphs : H[h].path = G[h].path
        /\ \A h \in Graphs : h # g => H[h] = G[h]
    BY DEF RunsIn
  <1>2. /\ e \in Events /\ e.kind = kind /\ e.path = path /\ path \in Seq(Graphs) /\ g \in Begun(G)
        /\ \A h \in Graphs : G[h].path \in Seq(Graphs)
    BY DEF Events, Kinds, RunsIn, Begun, Rows, GraphType
  <1>3. /\ Begun(H) = Begun(G) /\ RunsIn(H) = RunsIn(G) \ {g} /\ g \notin LeftIn(G)
        /\ LeftIn(H) = IF kind = "left" THEN LeftIn(G) \cup {g} ELSE LeftIn(G)
        /\ RunsIn(G) \subseteq Begun(G) /\ LeftIn(G) \subseteq Begun(G) /\ Begun(G) \subseteq Graphs
    BY <1>1 DEF RunsIn, Begun, LeftIn
  <1>4. /\ Len(p) \in Nat /\ Len(q) = Len(p) + 1 /\ q[Len(p) + 1] = e
        /\ \A i \in 1..Len(p) : q[i] = p[i]
    BY <1>2
  <1>5. /\ Started(q, Len(q)) = S /\ OpenAt(q, Len(q)) = O \ {path} /\ Lost(q, Len(q)) = M
    <2>1. /\ Started(q, Len(p) + 1) = S \cup (IF e.kind = "start" THEN {e.path} ELSE {})
          /\ Lost(q, Len(p) + 1) = L \cup (IF e.kind = "left" THEN {e.path} ELSE {})
          /\ e.kind \in {"end", "left"} => OpenAt(q, Len(p) + 1) = O \ {e.path}
      BY <1>2, AppendSets
    <2> HIDE DEF q, S, L, O, path, e
    <2>2. QED BY <1>2, <1>4, <2>1
  <1>6. S = PathsOf(G, Begun(G)) /\ O = PathsOf(G, RunsIn(G)) /\ L = PathsOf(G, LeftIn(G))
    BY DEF RowOK
  <1>7. \A h \in Begun(G) : G[h].path = path => h = g
    BY <1>2, RowPaths
  <1>8. kind = "end" => \A h \in RunsIn(G) : Front(G[h].path) # path
    OBVIOUS
  <1>9. \A h \in RunsIn(G) : \A k \in 1..(Len(G[h].path) - 1) : Covered(O, S, L, G[h].path, k)
    BY DEF RowOK
  <1>10. \A h \in Begun(G) : \A k \in 1..(Len(G[h].path) - 1) : SubSeq(G[h].path, 1, k) \in S
    BY DEF RowOK
  <1> HIDE DEF e, q, O, S, L, path
  <1>11. /\ PathsOf(H, Begun(H)) = S /\ PathsOf(H, RunsIn(H)) = O \ {path} /\ PathsOf(H, LeftIn(H)) = M
    <2>1. ASSUME NEW A, A \subseteq Begun(G) PROVE PathsOf(H, A) = PathsOf(G, A)
      BY <1>1, <1>3, <2>1 DEF PathsOf
    <2>2. RunsIn(H) \subseteq Begun(G) /\ LeftIn(H) \subseteq Begun(G)
      BY <1>2, <1>3
    <2>3. PathsOf(G, RunsIn(G) \ {g}) = PathsOf(G, RunsIn(G)) \ {path}
      BY <1>3, <1>7 DEF PathsOf, path
    <2>4. PathsOf(G, LeftIn(G) \cup {g}) = PathsOf(G, LeftIn(G)) \cup {path}
      BY DEF PathsOf, path
    <2>5. PathsOf(H, LeftIn(H)) = M
      BY <1>3, <1>6, <2>1, <2>2, <2>4
    <2>6. PathsOf(H, RunsIn(H)) = O \ {path}
      BY <1>3, <1>6, <2>1, <2>2, <2>3
    <2>7. QED BY <1>3, <1>6, <2>1, <2>5, <2>6
  <1>12. ASSUME NEW h \in RunsIn(H), NEW k \in 1..(Len(G[h].path) - 1)
         PROVE  Covered(O \ {path}, S, M, G[h].path, k)
    <2> DEFINE above == G[h].path
    <2>1. h \in RunsIn(G) /\ h \in Begun(G) /\ Covered(O, S, L, above, k) /\ SubSeq(above, 1, k) \in S
          /\ L \subseteq M /\ above \in Seq(Graphs)
      BY <1>2, <1>3, <1>9, <1>10
    <2>2. Len(above) \in Nat /\ k \in Nat /\ k <= Len(above) - 1
      BY <2>1
    <2> HIDE DEF M
    <2>3. CASE SubSeq(above, 1, k) # path \/ \E j \in k..(Len(above) - 1) : SubSeq(above, 1, j) \in M
      <3>1. CASE SubSeq(above, 1, k) \in O /\ SubSeq(above, 1, k) # path
        BY <3>1 DEF Covered
      <3>2. CASE \E j \in k..(Len(above) - 1) : SubSeq(above, 1, j) \in M
        BY <2>1, <3>2 DEF Covered
      <3>3. SubSeq(above, 1, k) \in O \/ \E j \in k..(Len(above) - 1) : SubSeq(above, 1, j) \in L
        BY <2>1 DEF Covered
      <3>4. QED BY <2>1, <2>3, <3>1, <3>2, <3>3
    <2>4. CASE SubSeq(above, 1, k) = path /\ kind = "left"
      <3>1. k \in k..(Len(above) - 1) /\ SubSeq(above, 1, k) \in M
        BY <2>2, <2>4 DEF M
      <3>2. QED BY <2>1, <3>1 DEF Covered
    <2>5. CASE SubSeq(above, 1, k) = path /\ kind = "end"
      <3>1. k # Len(above) - 1
        BY <1>8, <2>1, <2>5 DEF Front
      <3>2. k + 1 \in 1..(Len(above) - 1)
        BY <2>2, <3>1
      <3>3. Covered(O, S, L, above, k + 1)
        BY <1>9, <2>1, <3>2
      <3>4. SubSeq(above, 1, k + 1) \notin O
        <4> SUFFICES ASSUME NEW x \in RunsIn(G), G[x].path = SubSeq(above, 1, k + 1) PROVE FALSE
          BY <1>6 DEF PathsOf
        <4> DEFINE r == SubSeq(above, 1, k + 1)
        <4>1. /\ r \in Seq(Graphs) /\ Len(r) = k + 1 /\ \A i \in 1..(k + 1) : r[i] = above[i]
          BY <2>1, <2>2, <3>2
        <4>2. r = G[x].path
          OBVIOUS
        <4> HIDE DEF above, r
        <4>3. /\ SubSeq(r, 1, k) \in Seq(Graphs) /\ SubSeq(above, 1, k) \in Seq(Graphs)
              /\ Len(SubSeq(r, 1, k)) = k /\ Len(SubSeq(above, 1, k)) = k
              /\ \A i \in 1..k : SubSeq(r, 1, k)[i] = r[i] /\ SubSeq(above, 1, k)[i] = above[i]
          BY <2>1, <2>2, <4>1
        <4>4. \A i \in 1..k : i \in 1..(k + 1)
          BY <2>2
        <4>5. SubSeq(r, 1, k) = SubSeq(above, 1, k)
          BY <4>1, <4>3, <4>4, SeqEqual
        <4>6. Front(G[x].path) = SubSeq(r, 1, k)
          BY <2>2, <4>1, <4>2 DEF Front
        <4>7. QED BY <1>8, <2>5, <4>5, <4>6
      <3>5. PICK j \in (k + 1)..(Len(above) - 1) : SubSeq(above, 1, j) \in L
        BY <3>3, <3>4 DEF Covered
      <3>6. j \in k..(Len(above) - 1) /\ SubSeq(above, 1, j) \in M
        BY <2>1, <2>2, <3>5
      <3>7. QED BY <2>3, <3>6
    <2>6. QED BY <2>3, <2>4, <2>5
  <1> HIDE DEF M
  <1>13. \A i \in 1..Len(q) : EventOK(q, i)
    <2>1. e.path \in OpenAt(p, Len(p)) /\ e.kind # "start"
      BY <1>2, <1>6 DEF PathsOf, O, path
    <2>2. \A i \in 1..Len(p) : EventOK(p, i)
      BY DEF RowOK
    <2>3. /\ O \ {path} = OpenAt(Append(p, e), Len(p) + 1) /\ S = Started(Append(p, e), Len(p) + 1)
          /\ M = Lost(Append(p, e), Len(p) + 1)
      BY <1>4, <1>5 DEF q
    <2>4. ASSUME NEW k \in 1..(Len(path) - 1) PROVE Covered(O \ {path}, S, M, path, k)
      <3>1. Covered(O, S, L, path, k) /\ L \subseteq M
        BY <1>9 DEF path, M
      <3>2. SubSeq(path, 1, k) # path
        <4>1. Len(SubSeq(path, 1, k)) = k /\ k < Len(path)
          BY <1>2
        <4>2. QED BY <4>1
      <3>3. QED BY <3>1, <3>2 DEF Covered
    <2>5. \A k \in 1..(Len(e.path) - 1) : Covered(O \ {path}, S, M, e.path, k)
      BY <1>2, <2>4
    <2>6. QED BY <1>2, <2>1, <2>2, <2>3, <2>5, EventAppended DEF q
  <1>14. \A i \in 1..Len(q) : q[i].path \in PathsOf(H, Begun(H))
    <2>1. \A i \in 1..Len(p) : p[i].path \in S
      BY <1>6 DEF RowOK
    <2>2. path \in S
      BY <1>2, <1>6 DEF PathsOf, path
    <2>3. \A i \in 1..Len(q) : i \in 1..Len(p) \/ i = Len(p) + 1
      BY <1>4
    <2>4. QED BY <1>2, <1>4, <1>11, <2>1, <2>2, <2>3
  <1>15. /\ \A h \in Begun(H) : EndsWith(H[h].path, h)
         /\ \A h \in Graphs : /\ H[h].st = "answered" => H[h].unused
                              /\ H[h].unused => H[h].st \in {"answered", "over"}
    BY <1>1, <1>3 DEF RowOK
  <1>16. /\ \A h \in Begun(H) : \A k \in 1..(Len(H[h].path) - 1) : SubSeq(H[h].path, 1, k) \in Started(q, Len(q))
         /\ \A h \in RunsIn(H) : \A k \in 1..(Len(H[h].path) - 1) :
               Covered(OpenAt(q, Len(q)), Started(q, Len(q)), Lost(q, Len(q)), H[h].path, k)
    <2>1. \A h \in Begun(H) : h \in Begun(G) /\ H[h].path = G[h].path
      BY <1>1, <1>3
    <2>2. \A h \in RunsIn(H) : H[h].path = G[h].path
      BY <1>3, <2>1
    <2>3. QED BY <1>5, <1>10, <1>12, <2>1, <2>2
  <1>17. QED BY <1>5, <1>11, <1>13, <1>14, <1>15, <1>16 DEF RowOK, e, q, path

LEMMA IdleRow ==
  RowOK([g \in Graphs |-> Idle], <<>>) /\ \A g \in Graphs : [x \in Graphs |-> Idle][g].st = "new"
  <1> DEFINE G == [g \in Graphs |-> Idle]
  <1>1. Idle.st = "new" /\ ~Idle.unused /\ Len(<<>>) = 0
    BY EmptySeq DEF Idle
  <1>2. Begun(G) = {} /\ RunsIn(G) = {} /\ LeftIn(G) = {}
    BY <1>1 DEF Begun, RunsIn, LeftIn
  <1>3. PathsOf(G, {}) = {}
    BY DEF PathsOf
  <1>4. /\ Started(<<>>, Len(<<>>)) = {} /\ OpenAt(<<>>, Len(<<>>)) = {} /\ Lost(<<>>, Len(<<>>)) = {}
        /\ \A i \in 1..Len(<<>>) : FALSE
    BY <1>1 DEF Started, OpenAt, Lost, Of
  <1>5. \A g \in Graphs : G[g].st = "new" /\ ~G[g].unused
    BY <1>1
  <1> HIDE DEF G
  <1>6. RowOK(G, <<>>)
    <2>1. \A g \in Graphs : /\ G[g].st = "answered" => G[g].unused
                            /\ G[g].unused => G[g].st \in {"answered", "over"}
      BY <1>5
    <2>2. QED BY <1>2, <1>3, <1>4, <2>1 DEF RowOK
  <1>7. QED BY <1>5, <1>6 DEF G

LEMMA SamePaths ==
  ASSUME NEW t \in Tasks, PathOK(t), graph'[t] = graph[t], pushed'[t] = pushed[t],
         pc'[t] = pc[t] \/ pc'[t] # "closing"
  PROVE  PathOK(t)'
  BY DEF PathOK, Busy, Running

LEMMA EndBodyPaths == ASSUME JobInv, NEW t \in Tasks, PathOK(t), EndBody(t) PROVE PathOK(t)'
  <1>1. graph' = graph /\ pushed' = pushed /\ ~Busy(t)
    BY DEF EndBody, LeaveBody
  <1>2. QED BY <1>1 DEF PathOK, Busy, Running

\* The first graph of a task has nothing above it, a nested one has its parent
\* and what is above that.
LEMMA StartPaths ==
  ASSUME JobInv, JobType', NEW t \in Tasks, NEW g \in Graphs, PathOK(t), StartGraph(t, g) PROVE PathOK(t)'
  <1> DEFINE G == graph[t]
             H == graph'[t]
             p == pushed[t]
             O == OpenAt(p, Len(p))
             S == Started(p, Len(p))
             L == Lost(p, Len(p))
             Fits(path) == /\ EndsWith(path, g)
                           /\ \A k \in 1..(Len(path) - 1) : SubSeq(path, 1, k) \in S /\ Covered(O, S, L, path, k)
  <1>1. /\ G \in Rows /\ p \in Seq(Events) /\ H \in Rows /\ RowOK(G, p) /\ graph \in [Tasks -> Rows]
        /\ G[g].st = "new" /\ pc' = pc /\ \A h \in Graphs : G[h].path \in Seq(Graphs)
        /\ pushed \in [Tasks -> Seq(Events)]
    <2>1. graph \in [Tasks -> Rows] /\ graph' \in [Tasks -> Rows] /\ pushed \in [Tasks -> Seq(Events)]
      BY DEF JobInv, JobType, Rows
    <2>2. \A h \in Graphs : G[h].path \in Seq(Graphs)
      BY <2>1 DEF Rows, GraphType
    <2>3. RowOK(G, p) /\ G[g].st = "new" /\ pc' = pc
      BY DEF PathOK, StartGraph, GraphFrame
    <2>4. QED BY <2>1, <2>2, <2>3
  <1>2. S = PathsOf(G, Begun(G)) /\ O = PathsOf(G, RunsIn(G)) /\ L = PathsOf(G, LeftIn(G))
    BY <1>1 DEF RowOK
  <1>3. ~G[g].unused
    BY <1>1 DEF RowOK
  <1> HIDE DEF G, p, O, S, L
  <1>4. /\ Fits(<<g>>) /\ <<g>> \in Seq(Graphs) /\ Len(<<g>>) = 1
    BY DEF EndsWith
  <1>5. ASSUME NEW h \in Graphs, G[h].st = "streaming" \/ LeavesCalls(G[h])
        PROVE  /\ Fits(G[h].path \o <<g>>) /\ G[h].path \o <<g>> \in Seq(Graphs)
               /\ Len(G[h].path \o <<g>>) # 1
    <2> DEFINE above == G[h].path
               path == above \o <<g>>
    <2>1. h \in RunsIn(G) \/ h \in LeftIn(G)
      BY <1>1, <1>5 DEF RowOK, RunsIn, LeftIn, LeavesCalls
    <2>2. h \in Begun(G) /\ EndsWith(above, h)
      BY <1>1, <2>1 DEF RunsIn, LeftIn, Begun, RowOK
    <2>3. above \in Seq(Graphs) /\ <<g>> \in Seq(Graphs) /\ Len(above) \in Nat /\ Len(<<g>>) = 1 /\ <<g>>[1] = g
          /\ Len(above) > 0
      BY <1>1, <2>2 DEF EndsWith
    <2>4. \A k \in 1..(Len(above) - 1) :
             SubSeq(above, 1, k) \in S /\ (h \in RunsIn(G) => Covered(O, S, L, above, k))
      BY <1>1, <2>2 DEF RowOK, O, S, L
    <2>5. above \in S /\ (h \in RunsIn(G) => above \in O) /\ (h \in LeftIn(G) => above \in L)
      BY <1>2, <2>2 DEF PathsOf
    <2> HIDE DEF above
    <2>6. /\ path \in Seq(Graphs) /\ Len(path) = Len(above) + 1 /\ path[Len(above) + 1] = g
          /\ \A i \in 1..Len(above) : path[i] = above[i]
      <3>1. path = Append(above, g)
        BY <2>3
      <3> HIDE DEF path
      <3>2. QED BY <2>3, <3>1
    <2> HIDE DEF path
    <2>7. ASSUME NEW k \in 1..Len(above) PROVE SubSeq(path, 1, k) = SubSeq(above, 1, k)
      <3>1. /\ SubSeq(path, 1, k) \in Seq(Graphs) /\ SubSeq(above, 1, k) \in Seq(Graphs)
            /\ Len(SubSeq(path, 1, k)) = k /\ Len(SubSeq(above, 1, k)) = k
            /\ \A i \in 1..k : SubSeq(path, 1, k)[i] = path[i] /\ SubSeq(above, 1, k)[i] = above[i]
        BY <2>3, <2>6
      <3>2. \A i \in 1..k : i \in 1..Len(above)
        BY <2>3
      <3>3. QED BY <2>6, <3>1, <3>2, SeqEqual
    <2>8. SubSeq(above, 1, Len(above)) = above
      BY <2>3, SubSeqFull
    <2>9. ASSUME NEW k \in 1..(Len(path) - 1) PROVE SubSeq(path, 1, k) \in S /\ Covered(O, S, L, path, k)
      <3>1. k \in 1..Len(above) /\ Len(above) \in k..(Len(path) - 1)
        BY <2>3, <2>6
      <3>0. Len(above) \in 1..Len(above) /\ SubSeq(path, 1, k) = SubSeq(above, 1, k)
            /\ SubSeq(path, 1, Len(above)) = above
        BY <2>3, <2>7, <2>8, <3>1
      <3>2. SubSeq(path, 1, k) \in S
        <4>1. CASE k = Len(above)
          BY <2>5, <3>0, <4>1
        <4>2. CASE k # Len(above)
          <5>1. k \in 1..(Len(above) - 1)
            BY <2>3, <3>1, <4>2
          <5>2. QED BY <2>4, <3>0, <5>1
        <4>3. QED BY <4>1, <4>2
      <3>3. CASE h \in LeftIn(G)
        <4>1. SubSeq(path, 1, Len(above)) \in L
          BY <2>5, <3>0, <3>3
        <4>2. QED BY <3>1, <3>2, <4>1 DEF Covered
      <3>4. CASE h \in RunsIn(G)
        <4>1. CASE k = Len(above)
          BY <2>5, <2>7, <2>8, <3>1, <3>4, <4>1 DEF Covered
        <4>2. CASE k # Len(above)
          <5>1. k \in 1..(Len(above) - 1)
            BY <2>3, <3>1, <4>2
          <5>2. Covered(O, S, L, above, k)
            BY <2>4, <3>4, <5>1
          <5>3. \A j \in k..(Len(above) - 1) : j \in 1..Len(above) /\ j \in k..(Len(path) - 1)
            BY <2>3, <2>6, <3>1
          <5>4. QED BY <2>7, <3>1, <3>2, <5>2, <5>3 DEF Covered
        <4>3. QED BY <4>1, <4>2
      <3>5. QED BY <2>1, <3>2, <3>3, <3>4
    <2>10. EndsWith(path, g) /\ Len(path) # 1
      BY <2>3, <2>6 DEF EndsWith
    <2>11. QED BY <2>6, <2>9, <2>10 DEF path, above
  <1>6. \E path \in Seq(Graphs) :
          /\ Fits(path) /\ (Len(path) = 1 => pc[t] = "body")
          /\ graph' = [graph EXCEPT ![t][g] = [graph[t][g] EXCEPT !.st = "streaming", !.path = path]]
    <2>1. CASE /\ pc[t] = "body"
               /\ graph' = [graph EXCEPT ![t][g] = [@ EXCEPT !.st = "streaming", !.path = <<g>>]]
      BY <1>4, <2>1
    <2>2. ASSUME NEW h \in Graphs, G[h].st = "streaming" \/ LeavesCalls(G[h]),
                 graph' = [graph EXCEPT ![t][g] = [@ EXCEPT !.st = "streaming", !.path = G[h].path \o <<g>>]]
          PROVE  \E path \in Seq(Graphs) :
                   /\ Fits(path) /\ (Len(path) = 1 => pc[t] = "body")
                   /\ graph' = [graph EXCEPT ![t][g] = [graph[t][g] EXCEPT !.st = "streaming", !.path = path]]
      BY <1>5, <2>2
    <2>3. QED BY <2>1, <2>2 DEF StartGraph, G
  <1>7. PICK path \in Seq(Graphs) :
          /\ Fits(path) /\ (Len(path) = 1 => pc[t] = "body")
          /\ graph' = [graph EXCEPT ![t][g] = [graph[t][g] EXCEPT !.st = "streaming", !.path = path]]
    BY <1>6
  <1>8. /\ H[g].st = "streaming" /\ H[g].path = path /\ ~H[g].unused
        /\ \A h \in Graphs : h # g => H[h] = G[h]
    BY <1>1, <1>3, <1>7 DEF Rows, GraphType, G
  <1>9. pushed'[t] = Append(p, [kind |-> "start", path |-> path])
    <2>1. Emit(t, g, "start") /\ graph'[t][g].path = path
      BY <1>8 DEF StartGraph
    <2>2. QED BY <1>1, <2>1 DEF Emit, p
  <1> HIDE DEF H
  <1>10. RowOK(H, Append(p, [kind |-> "start", path |-> path]))
    BY <1>1, <1>7, <1>8, RowStart DEF O, S, L
  <1>11. pc'[t] = "closing" => ~Busy(t)'
    <2>1. SUFFICES ASSUME pc[t] = "closing", NEW h \in Graphs, Running(t, h)', Len(graph'[t][h].path) = 1 PROVE FALSE
      BY <1>1 DEF Busy
    <2>2. h # g
      BY <1>7, <1>8, <2>1 DEF H
    <2>3. Running(t, h) /\ Len(graph[t][h].path) = 1
      BY <1>8, <2>1, <2>2 DEF Running, H, G
    <2>4. QED BY <2>1, <2>3 DEF PathOK, Busy
  <1>12. QED BY <1>9, <1>10, <1>11 DEF PathOK, H

LEMMA GraphPaths ==
  ASSUME JobInv, JobType', NEW t \in Tasks, NEW g \in Graphs, PathOK(t),
         StreamItem(t, g) \/ Interrupt(t, g) \/ Answered(t, g) \/ EndGraph(t, g)
  PROVE  PathOK(t)'
  <1> DEFINE G == graph[t]
             H == graph'[t]
             p == pushed[t]
  <1>1. /\ G \in Rows /\ p \in Seq(Events) /\ H \in Rows /\ RowOK(G, p) /\ G[g] \in GraphType
        /\ graph \in [Tasks -> Rows] /\ pushed \in [Tasks -> Seq(Events)] /\ pc' = pc
    BY DEF JobInv, JobType, Rows, PathOK, StreamItem, Interrupt, Answered, EndGraph, GraphFrame
  <1>2. \A h \in Graphs : /\ G[h].st = "answered" => G[h].unused
                          /\ G[h].unused => G[h].st \in {"answered", "over"}
    BY <1>1 DEF RowOK
  <1>3. ASSUME \A h \in Graphs : H[h].path = G[h].path, RunsIn(H) \subseteq RunsIn(G), RowOK(H, pushed'[t])
        PROVE  PathOK(t)'
    <2>1. ASSUME pc[t] = "closing", NEW h \in Graphs, Running(t, h)', Len(graph'[t][h].path) = 1 PROVE FALSE
      <3>1. h \in RunsIn(H)
        BY <2>1 DEF Running, RunsIn
      <3>2. Running(t, h) /\ Len(graph[t][h].path) = 1
        BY <1>3, <2>1, <3>1 DEF Running, RunsIn
      <3>3. QED BY <2>1, <3>2 DEF PathOK, Busy
    <2>2. QED BY <1>1, <1>3, <2>1 DEF PathOK, Busy
  <1>4. CASE StreamItem(t, g)
    <2>1. /\ graph' = [graph EXCEPT ![t][g].items = graph[t][g].items + 1] /\ G[g].st = "streaming"
          /\ pushed' = [pushed EXCEPT ![t] = Append(pushed[t], [kind |-> "item", path |-> graph'[t][g].path])]
      BY <1>4 DEF StreamItem, Emit
    <2>2. \A h \in Graphs : H[h].path = G[h].path /\ H[h].st = G[h].st /\ H[h].unused = G[h].unused
      BY <1>1, <2>1 DEF Rows, GraphType
    <2>3. pushed'[t] = Append(p, [kind |-> "item", path |-> H[g].path])
      BY <1>1, <2>1
    <2> HIDE DEF G, H, p
    <2>4. RunsIn(H) = RunsIn(G) /\ Begun(H) = Begun(G) /\ LeftIn(H) = LeftIn(G) /\ g \in RunsIn(G)
      BY <2>1, <2>2 DEF RunsIn, Begun, LeftIn, LeavesCalls
    <2>5. RowOK(H, p)
      BY <1>1, <1>2, <2>2, <2>4, RowSame
    <2>6. RowOK(H, pushed'[t])
      BY <1>1, <2>3, <2>4, <2>5, RowItem
    <2>7. QED BY <1>3, <2>2, <2>4, <2>6
  <1>5. CASE Interrupt(t, g) \/ Answered(t, g)
    <2>1. /\ G[g].st \in {"streaming", "interrupted"} /\ pushed' = pushed
          /\ \A h \in Graphs : h # g => H[h] = G[h]
          /\ H[g].path = G[g].path
          /\ \/ H[g].st = "interrupted" /\ G[g].st = "streaming" /\ H[g].unused = G[g].unused
             \/ H[g].st = "answered" /\ H[g].unused
      <3>1. CASE Interrupt(t, g)
        BY <1>1, <3>1 DEF Interrupt, Rows, GraphType
      <3>2. CASE Answered(t, g)
        BY <1>1, <3>2 DEF Answered, Rows, GraphType
      <3>3. QED BY <1>5, <3>1, <3>2
    <2> HIDE DEF G, H
    <2>2. \A h \in Graphs : /\ H[h].path = G[h].path
                            /\ H[h].st = "answered" => H[h].unused
                            /\ H[h].unused => H[h].st \in {"answered", "over"}
      BY <1>2, <2>1
    <2>3. RunsIn(H) = RunsIn(G) /\ Begun(H) = Begun(G) /\ LeftIn(H) = LeftIn(G)
      BY <2>1 DEF RunsIn, Begun, LeftIn
    <2>4. RowOK(H, p)
      BY <1>1, <2>2, <2>3, RowSame
    <2>5. QED BY <1>3, <2>1, <2>2, <2>3, <2>4
  <1>6. CASE EndGraph(t, g)
    <2> DEFINE kind == IF LeavesCalls(H[g]) THEN "left" ELSE "end"
    <2>1. PICK how \in {"over", "raised"} : graph' = [graph EXCEPT ![t][g].st = how]
      BY <1>6 DEF EndGraph
    <2>2. /\ H[g].st = how /\ H[g].path = G[g].path /\ H[g].unused = G[g].unused
          /\ \A h \in Graphs : h # g => H[h] = G[h]
      BY <1>1, <2>1 DEF Rows, GraphType
    <2>3. /\ G[g].st \in {"streaming", "answered"}
          /\ how = "raised" \/ G[g].st = "answered" \/ ~Awaits(t, g)
          /\ G[g].st = "answered" => how = "over"
      BY <1>1, <1>6, <2>2 DEF EndGraph, Rows, GraphType
    <2>4. g \in RunsIn(G)
      BY <2>3 DEF RunsIn
    <2>5. kind = "end" => \A h \in RunsIn(G) : Front(G[h].path) # G[g].path
      <3>1. how = "raised" \/ G[g].st = "answered" => LeavesCalls(H[g])
        BY <1>2, <2>2 DEF LeavesCalls
      <3>2. ~Awaits(t, g) => \A h \in RunsIn(G) : Front(G[h].path) # G[g].path
        BY DEF Awaits, Running, RunsIn
      <3>3. QED BY <2>3, <3>1, <3>2
    <2>6. H[g].unused => H[g].st = "over"
      BY <1>2, <2>2, <2>3
    <2>7. pushed'[t] = Append(p, [kind |-> kind, path |-> G[g].path])
      <3>1. Emit(t, g, kind)
        BY <1>6 DEF EndGraph
      <3>2. QED BY <1>1, <2>2, <3>1 DEF Emit
    <2>8. LeavesCalls(H[g]) <=> kind = "left"
      OBVIOUS
    <2>9. kind \in {"end", "left"}
      OBVIOUS
    <2> HIDE DEF G, H, p, kind
    <2>10. RowOK(H, Append(p, [kind |-> kind, path |-> G[g].path]))
      BY <1>1, <2>2, <2>4, <2>5, <2>6, <2>8, <2>9, RowEnd
    <2>11. RunsIn(H) \subseteq RunsIn(G) /\ \A h \in Graphs : H[h].path = G[h].path
      BY <2>2 DEF RunsIn
    <2>12. QED BY <1>3, <2>7, <2>10, <2>11
  <1>7. QED BY <1>4, <1>5, <1>6

\* A task changes its own graphs and events only.
LEMMA PathNext == JobInv /\ (\A t \in Tasks : PathOK(t)) /\ [Next]_vars => \A t \in Tasks : PathOK(t)'
  <1> SUFFICES ASSUME JobInv, \A t \in Tasks : PathOK(t), [Next]_vars, NEW u \in Tasks PROVE PathOK(u)'
    OBVIOUS
  <1>1. JobType'
    BY JobNext DEF JobInv
  <1>2. JobType
    BY DEF JobInv
  <1>3. ASSUME NEW t \in Tasks, NEW g \in Graphs,
               StartGraph(t, g) \/ Interrupt(t, g) \/ Answered(t, g) \/ StreamItem(t, g) \/ EndGraph(t, g)
        PROVE  PathOK(u)'
    <2>1. CASE u = t
      BY <1>1, <1>3, <2>1, StartPaths, GraphPaths
    <2>2. CASE u # t
      <3>1. pc' = pc
        BY <1>3 DEF StartGraph, Interrupt, Answered, StreamItem, EndGraph, GraphFrame
      <3>2. graph'[u] = graph[u]
        <4>1. PICK r : graph' = [graph EXCEPT ![t] = r]
          BY <1>2, <1>3 DEF StartGraph, Interrupt, Answered, StreamItem, EndGraph, JobType
        <4>2. QED BY <1>2, <2>2, <4>1 DEF JobType
      <3>3. pushed'[u] = pushed[u]
        <4>1. CASE Interrupt(t, g) \/ Answered(t, g)
          BY <4>1 DEF Interrupt, Answered
        <4>2. CASE StartGraph(t, g) \/ StreamItem(t, g) \/ EndGraph(t, g)
          <5>1. \E kind : Emit(t, g, kind)
            BY <4>2 DEF StartGraph, StreamItem, EndGraph
          <5>2. QED BY <1>2, <2>2, <5>1 DEF Emit, JobType
        <4>3. QED BY <1>3, <4>1, <4>2
      <3>4. QED BY <3>1, <3>2, <3>3, SamePaths
    <2>3. QED BY <2>1, <2>2
  <1>4. ASSUME NEW t \in Tasks,
               \/ MakeHandler(t) \/ SectionMounted(t) \/ RowMounted(t) \/ StartTask(t)
               \/ Drain(t) \/ Handle(t) \/ HandlerRaises(t)
        PROVE  PathOK(u)'
    <2>1. graph' = graph /\ pushed' = pushed
      BY <1>4 DEF MakeHandler, SectionMounted, RowMounted, StartTask, Drain, Handle, HandlerRaises, DrainFrame
    <2>2. pc'[u] = pc[u] \/ pc'[u] # "closing"
      <3>1. CASE MakeHandler(t) \/ SectionMounted(t) \/ RowMounted(t) \/ StartTask(t)
        <4>1. \E x \in Points \ {"closing"} : pc' = [pc EXCEPT ![t] = x]
          BY <3>1 DEF MakeHandler, SectionMounted, RowMounted, StartTask, Points
        <4>2. QED BY <1>2, <4>1 DEF JobType
      <3>2. CASE Drain(t) \/ Handle(t) \/ HandlerRaises(t)
        BY <3>2 DEF Drain, Handle, HandlerRaises, DrainFrame
      <3>3. QED BY <1>4, <3>1, <3>2
    <2>3. QED BY <2>1, <2>2, SamePaths
  <1>5. ASSUME NEW t \in Tasks, EndBody(t) PROVE PathOK(u)'
    <2>1. CASE u = t
      BY <1>5, <2>1, EndBodyPaths
    <2>2. CASE u # t
      <3>1. graph' = graph /\ pushed' = pushed /\ pc'[u] = pc[u]
        BY <1>2, <1>5, <2>2 DEF EndBody, LeaveBody, JobType
      <3>2. QED BY <3>1, SamePaths
    <2>3. QED BY <2>1, <2>2
  <1>6. ASSUME NEW t \in Tasks, LeaveScope(t) PROVE PathOK(u)'
    <2>1. /\ graph' = [graph EXCEPT ![t] = [g \in Graphs |-> Idle]] /\ pushed' = [pushed EXCEPT ![t] = <<>>]
          /\ pc' = [pc EXCEPT ![t] = "over"]
      BY <1>6 DEF LeaveScope
    <2>2. CASE u = t
      <3>1. /\ graph'[u] = [g \in Graphs |-> Idle] /\ pushed'[u] = <<>>
        BY <1>2, <2>1, <2>2 DEF JobType
      <3>2. pc'[u] = "over"
        BY <1>2, <2>1, <2>2 DEF JobType
      <3>3. QED BY <3>1, <3>2, IdleRow DEF PathOK
    <2>3. CASE u # t
      <3>1. graph'[u] = graph[u] /\ pushed'[u] = pushed[u] /\ pc'[u] = pc[u]
        BY <1>2, <2>1, <2>3 DEF JobType
      <3>2. QED BY <3>1, SamePaths
    <2>4. QED BY <2>2, <2>3
  <1>7. CASE Converse(ConvNext) \/ UNCHANGED vars
    <2>1. UNCHANGED <<graph, pushed, pc>>
      BY <1>7 DEF Converse, vars, jobVars
    <2>2. QED BY <2>1, SamePaths
  <1>8. QED BY <1>3, <1>4, <1>5, <1>6, <1>7 DEF Next, Machine, TaskStep

-----------------------------------------------------------------------------
(* The conversation *)

ConvEvents == {"checkpoint", "thinking", "batch", "update", "complete", "end"}
Other == ConvEvents \ {"checkpoint"}
ConvFields == {"at", "data", "curr", "calls", "asked", "lost", "queue", "spinner", "reader", "answers", "steps"}

\* No checkpoint is on its way to the reader.
Clear(q) == \A i \in (q.cursor + 1)..Len(q.stream) : q.stream[i] # "checkpoint"
\* One is, and it is the last thing the reader will get.
Marked(q) ==
  /\ q.cursor < Len(q.stream) /\ q.stream[Len(q.stream)] = "checkpoint"
  /\ \A i \in (q.cursor + 1)..(Len(q.stream) - 1) : q.stream[i] # "checkpoint"
Empty(q) == q.stream = <<>> /\ q.cursor = 0

QueueInv(q) == q \in QueueOf(ConvEvents) /\ QueueOK(q) /\ ~q.closed

\* Between its drain and the answer, a turn has an empty queue; and the copy the
\* loop shows is the list of the graph.
ConvOK(c) ==
  /\ DOMAIN c = ConvFields
  /\ QueueInv(c.queue)
  /\ IF c.at = "draining" THEN Marked(c.queue) ELSE Clear(c.queue)
  /\ c.at \in {"drained", "prompt"} => Empty(c.queue)
  /\ c.at = "prompt" => ~c.spinner
  /\ c.curr = c.data

LEMMA OpeningOK == ConvOK(Opening)
  <1>1. /\ DOMAIN Opening = ConvFields /\ Opening.queue = EmptyQueue /\ Opening.at = "opening"
        /\ Opening.curr = Opening.data
    BY DEF Opening, ConvFields
  <1>2. QueueInv(EmptyQueue) /\ Clear(EmptyQueue)
    BY EmptyFacts DEF QueueInv, Clear, EmptyQueue
  <1>3. QED BY <1>1, <1>2 DEF ConvOK

\* What progress_update does to a queue.
LEMMA PushAllFacts ==
  ASSUME NEW q, QueueInv(q), NEW events \in Seq(ConvEvents)
  PROVE  /\ QueueInv(PushAll(q, events))
         /\ PushAll(q, events).stream = q.stream \o events /\ PushAll(q, events).cursor = q.cursor
         /\ q.stream \o events \in Seq(ConvEvents)
         /\ Len(q.stream \o events) = Len(q.stream) + Len(events)
         /\ \A i \in 1..(Len(q.stream) + Len(events)) :
               (q.stream \o events)[i] = IF i <= Len(q.stream) THEN q.stream[i] ELSE events[i - Len(q.stream)]
         /\ q.cursor \in Nat /\ Len(q.stream) \in Nat /\ q.cursor <= Len(q.stream)
  <1>1. /\ q.stream \in Seq(ConvEvents) /\ q.cursor \in Nat /\ Len(q.stream) \in Nat
        /\ q.cursor <= Len(q.stream) /\ q \in QueueOf(ConvEvents) /\ q.at # "returned"
    BY DEF QueueInv, QueueOf, QueueOK
  <1>2. /\ q.stream \o events \in Seq(ConvEvents)
        /\ Len(q.stream \o events) = Len(q.stream) + Len(events)
        /\ \A i \in 1..(Len(q.stream) + Len(events)) :
              (q.stream \o events)[i] = IF i <= Len(q.stream) THEN q.stream[i] ELSE events[i - Len(q.stream)]
    BY <1>1, ConcatProperties
  <1>3. ASSUME NEW s \in Seq(ConvEvents), NEW b \in BOOLEAN, Len(s) >= Len(q.stream)
        PROVE  /\ QueueInv([q EXCEPT !.stream = s, !.ready = b])
               /\ [q EXCEPT !.stream = s, !.ready = b].stream = s
               /\ [q EXCEPT !.stream = s, !.ready = b].cursor = q.cursor
    <2> DEFINE r == [q EXCEPT !.stream = s, !.ready = b]
    <2>1. r \in QueueOf(ConvEvents)
      BY <1>1 DEF QueueOf
    <2>2. r.stream = s /\ r.cursor = q.cursor /\ r.closed = q.closed /\ r.at = q.at
      BY <1>1 DEF QueueOf
    <2>3. Len(s) \in Nat
      OBVIOUS
    <2>4. QueueOK(r)
      BY <1>1, <1>3, <2>2, <2>3 DEF QueueOK, QueueInv
    <2>5. QED BY <2>1, <2>2, <2>4 DEF QueueInv
  <1>4. Len(q.stream \o events) >= Len(q.stream)
    BY <1>1, <1>2
  <1> DEFINE b == q.ready \/ events # <<>>
             s == q.stream \o events
  <1>5. PushAll(q, events) = [q EXCEPT !.stream = s, !.ready = b] /\ b \in BOOLEAN
    BY DEF PushAll
  <1>6. s \in Seq(ConvEvents) /\ Len(s) >= Len(q.stream)
    BY <1>2, <1>4
  <1> HIDE DEF s, b
  <1>7. QueueInv(PushAll(q, events)) /\ PushAll(q, events).stream = s /\ PushAll(q, events).cursor = q.cursor
    <2>1. b \in BOOLEAN /\ s \in Seq(ConvEvents) /\ Len(s) >= Len(q.stream)
      BY <1>5, <1>6
    <2>2. /\ QueueInv([q EXCEPT !.stream = s, !.ready = b])
          /\ [q EXCEPT !.stream = s, !.ready = b].stream = s
          /\ [q EXCEPT !.stream = s, !.ready = b].cursor = q.cursor
      BY <1>3, <2>1, Zenon
    <2>3. QED BY <1>5, <2>2
  <1>8. QED BY <1>1, <1>2, <1>7 DEF s

LEMMA PushAllClear ==
  ASSUME NEW q, QueueInv(q), Clear(q), NEW events \in Seq(Other)
  PROVE  QueueInv(PushAll(q, events)) /\ Clear(PushAll(q, events))
  <1>1. events \in Seq(ConvEvents) /\ Len(events) \in Nat /\ \A i \in 1..Len(events) : events[i] # "checkpoint"
    BY SeqMonotonic, ElementOfSeq DEF Other
  <1>2. ASSUME NEW i \in (q.cursor + 1)..(Len(q.stream) + Len(events))
        PROVE  (q.stream \o events)[i] # "checkpoint"
    <2>1. i \in 1..(Len(q.stream) + Len(events))
      BY <1>1, PushAllFacts
    <2>2. CASE i <= Len(q.stream)
      BY <1>1, <2>1, <2>2, PushAllFacts DEF Clear
    <2>3. CASE i > Len(q.stream)
      <3>1. i - Len(q.stream) \in 1..Len(events)
        BY <1>1, <2>1, <2>3, PushAllFacts
      <3>2. QED BY <1>1, <2>1, <2>3, <3>1, PushAllFacts
    <2>4. QED BY <1>1, <2>1, <2>2, <2>3, PushAllFacts
  <1>3. /\ QueueInv(PushAll(q, events)) /\ PushAll(q, events).stream = q.stream \o events
        /\ PushAll(q, events).cursor = q.cursor /\ Len(q.stream \o events) = Len(q.stream) + Len(events)
    BY <1>1, PushAllFacts
  <1>4. QED BY <1>2, <1>3 DEF Clear

LEMMA PushAllMarked ==
  ASSUME NEW q, QueueInv(q), Clear(q), NEW ev \in Seq(ConvEvents), Len(ev) = 1, ev[1] = "checkpoint"
  PROVE  QueueInv(PushAll(q, ev)) /\ Marked(PushAll(q, ev))
  <1> DEFINE Joined(m) == \A i \in 1..m :
                (q.stream \o ev)[i] = IF i <= Len(q.stream) THEN q.stream[i] ELSE ev[i - Len(q.stream)]
  <1>1. /\ QueueInv(PushAll(q, ev)) /\ PushAll(q, ev).cursor = q.cursor
        /\ PushAll(q, ev).stream = q.stream \o ev
        /\ Len(q.stream \o ev) = Len(q.stream) + Len(ev)
        /\ Len(q.stream) \in Nat /\ q.cursor \in Nat /\ q.cursor <= Len(q.stream)
        /\ Joined(Len(q.stream) + Len(ev))
    BY PushAllFacts
  <1>2. Len(q.stream) + Len(ev) = Len(q.stream) + 1 /\ Joined(Len(q.stream) + 1)
    BY <1>1
  <1>3. (q.stream \o ev)[Len(q.stream) + 1] = "checkpoint"
    <2>1. /\ Len(q.stream) + 1 \in 1..(Len(q.stream) + 1) /\ ~(Len(q.stream) + 1 <= Len(q.stream))
          /\ Len(q.stream) + 1 - Len(q.stream) = 1
      BY <1>1
    <2>2. QED BY <1>2, <2>1
  <1>4. \A i \in (q.cursor + 1)..Len(q.stream) : (q.stream \o ev)[i] # "checkpoint"
    BY <1>1, <1>2 DEF Clear
  <1>5. q.cursor < Len(q.stream) + 1 /\ Len(q.stream) + 1 - 1 = Len(q.stream)
    BY <1>1
  <1>6. Marked(PushAll(q, ev))
    BY <1>1, <1>2, <1>3, <1>4, <1>5 DEF Marked
  <1>7. QED BY <1>1, <1>6

\* What the reader does to it: an empty queue is clear, a step takes one event.
LEMMA WakeReads ==
  ASSUME NEW q, QueueInv(q)
  PROVE  /\ QueueInv(Wake(q))
         /\ Clear(q) => Clear(Wake(q))
         /\ Marked(q) => Marked(Wake(q))
         /\ Empty(q) => Empty(Wake(q))
  <1>1. /\ Wake(q) \in QueueOf(ConvEvents) /\ QueueOK(Wake(q)) /\ Wake(q).closed = q.closed
        /\ \/ Wake(q).stream = q.stream /\ Wake(q).cursor = q.cursor
           \/ q.cursor = Len(q.stream) /\ Wake(q).stream = <<>> /\ Wake(q).cursor = 0
    BY WakeFacts DEF QueueInv
  <1>2. q.cursor \in Nat
    BY DEF QueueInv, QueueOf
  <1>3. QED BY <1>1, <1>2 DEF QueueInv, Clear, Marked, Empty

LEMMA AdvanceReads ==
  ASSUME NEW q, QueueInv(q), q.at = "yield"
  PROVE  /\ QueueInv(Advance(q)) /\ ~Empty(q)
         /\ Clear(q) => Current(q) # "checkpoint" /\ Clear(Advance(q))
         /\ Marked(q) => IF Current(q) = "checkpoint" THEN Empty(Advance(q)) ELSE Marked(Advance(q))
  <1>1. /\ Advance(q) \in QueueOf(ConvEvents) /\ QueueOK(Advance(q)) /\ Advance(q).closed = q.closed
        /\ \/ /\ q.cursor + 1 < Len(q.stream)
              /\ Advance(q).stream = q.stream /\ Advance(q).cursor = q.cursor + 1
           \/ q.cursor + 1 = Len(q.stream) /\ Advance(q).stream = <<>> /\ Advance(q).cursor = 0
    BY AdvanceFacts DEF QueueInv
  <1>2. /\ q.cursor \in Nat /\ Len(q.stream) \in Nat /\ q.cursor < Len(q.stream)
        /\ Current(q) = q.stream[q.cursor + 1]
    BY DEF QueueInv, QueueOf, QueueOK, Current
  <1>3. QueueInv(Advance(q)) /\ ~Empty(q)
    BY <1>1, <1>2 DEF QueueInv, Empty
  <1>4. ASSUME Clear(q) PROVE Current(q) # "checkpoint" /\ Clear(Advance(q))
    BY <1>1, <1>2, <1>4 DEF Clear
  <1>5. ASSUME Marked(q), Current(q) = "checkpoint" PROVE Empty(Advance(q))
    <2>1. q.cursor + 1 = Len(q.stream)
      <3>1. ~(q.cursor + 1 \in (q.cursor + 1)..(Len(q.stream) - 1))
        BY <1>2, <1>5 DEF Marked
      <3>2. QED BY <1>2, <3>1
    <2>2. QED BY <1>1, <1>2, <2>1 DEF Empty
  <1>6. ASSUME Marked(q), Current(q) # "checkpoint" PROVE Marked(Advance(q))
    BY <1>1, <1>2, <1>6 DEF Marked
  <1>7. QED BY <1>3, <1>4, <1>5, <1>6

LEMMA PlainlyOK ==
  ASSUME NEW c, DOMAIN c = ConvFields, QueueInv(c.queue), Clear(c.queue), c.curr = c.data,
         c.at \notin {"draining", "drained", "prompt"}
  PROVE  ConvOK(c)
  BY DEF ConvOK

LEMMA ProgressFacts ==
  ASSUME NEW c, DOMAIN c = ConvFields, NEW events
  PROVE  LET d == Progress(c, events) IN
         /\ DOMAIN d = ConvFields /\ d.queue = PushAll(c.queue, events)
         /\ d.at = c.at /\ d.data = c.data /\ d.curr = c.curr /\ d.spinner = c.spinner
  BY DEF Progress, PushAll, ConvFields

\* Progress that is shown leaves no checkpoint behind it.
LEMMA ProgressOK ==
  ASSUME ConvOK(conv), conv.at # "draining", NEW events \in Seq(Other)
  PROVE  LET d == Progress(conv, events) IN
         /\ DOMAIN d = ConvFields /\ QueueInv(d.queue) /\ Clear(d.queue)
         /\ d.curr = d.data
  <1>1. DOMAIN conv = ConvFields /\ QueueInv(conv.queue) /\ Clear(conv.queue) /\ conv.curr = conv.data
    BY DEF ConvOK
  <1>2. QED BY <1>1, ProgressFacts, PushAllClear

LEMMA HumanTurnOK == ASSUME ConvOK(conv), HumanTurn PROVE ConvOK(conv')
  <1> DEFINE ev == <<"checkpoint">>
             d == Progress(conv, ev)
  <1>1. conv.at = "turn" /\ conv' = [d EXCEPT !.at = "draining"]
    BY DEF HumanTurn
  <1>2. DOMAIN conv = ConvFields /\ QueueInv(conv.queue) /\ Clear(conv.queue) /\ conv.curr = conv.data
    BY <1>1 DEF ConvOK
  <1>3. ev \in Seq(ConvEvents) /\ Len(ev) = 1 /\ ev[1] = "checkpoint"
    BY DEF ConvEvents
  <1> HIDE DEF ev
  <1>4. QueueInv(d.queue) /\ Marked(d.queue) /\ DOMAIN d = ConvFields /\ d.curr = d.data
    BY <1>2, <1>3, ProgressFacts, PushAllMarked
  <1> HIDE DEF d
  <1>5. /\ DOMAIN conv' = ConvFields /\ conv'.at = "draining" /\ conv'.queue = d.queue
        /\ conv'.curr = conv'.data
    BY <1>1, <1>4 DEF ConvFields
  <1>6. QED BY <1>4, <1>5 DEF ConvOK

LEMMA OpenPromptOK == ASSUME ConvOK(conv), OpenPrompt PROVE ConvOK(conv')
  <1>1. /\ conv.at = "drained" /\ DOMAIN conv = ConvFields
        /\ conv' = [conv EXCEPT !.at = "prompt", !.spinner = FALSE]
    BY DEF OpenPrompt, ConvOK
  <1>2. /\ DOMAIN conv' = ConvFields /\ conv'.at = "prompt" /\ ~conv'.spinner
        /\ conv'.queue = conv.queue /\ conv'.curr = conv.curr /\ conv'.data = conv.data
    BY <1>1 DEF ConvFields
  <1>3. QED BY <1>1, <1>2 DEF ConvOK

LEMMA HumanAnswersOK == ASSUME ConvOK(conv), NEW list \in BOOLEAN, HumanAnswers(list) PROVE ConvOK(conv')
  <1>1. conv.at = "prompt" /\ DOMAIN conv = ConvFields
    BY DEF HumanAnswers, ConvOK
  <1>2. CASE list
    <2> DEFINE ev == <<"update">>
               d == Progress(conv, ev)
    <2>1. conv' = [d EXCEPT !.at = "turn", !.answers = d.answers + 1, !.steps = 0]
      BY <1>2 DEF HumanAnswers
    <2>2. ev \in Seq(Other)
      BY DEF Other, ConvEvents
    <2> HIDE DEF ev
    <2>3. DOMAIN d = ConvFields /\ QueueInv(d.queue) /\ Clear(d.queue) /\ d.curr = d.data
      BY <1>1, <2>2, ProgressOK
    <2> HIDE DEF d
    <2>4. /\ DOMAIN conv' = ConvFields /\ conv'.at = "turn" /\ conv'.queue = d.queue
          /\ conv'.curr = conv'.data
      BY <2>1, <2>3 DEF ConvFields
    <2>5. QED BY <2>3, <2>4, PlainlyOK
  <1>3. CASE ~list
    <2>1. conv' = [conv EXCEPT !.at = "llm_echo", !.answers = conv.answers + 1, !.steps = 0]
      BY <1>3 DEF HumanAnswers
    <2>2. /\ DOMAIN conv' = ConvFields /\ conv'.at = "llm_echo" /\ conv'.queue = conv.queue
          /\ conv'.curr = conv.curr /\ conv'.data = conv.data
      BY <1>1, <2>1 DEF ConvFields
    <2>3. QED BY <1>1, <2>2, PlainlyOK DEF ConvOK
  <1>4. QED BY <1>2, <1>3

\* Steps that leave queue and lists alone.
LEMMA AtOK ==
  ASSUME ConvOK(conv), NEW at, at \notin {"draining", "drained", "prompt"}, conv.at # "draining",
         DOMAIN conv' = ConvFields, conv'.at = at, conv'.queue = conv.queue,
         conv'.curr = conv.curr, conv'.data = conv.data
  PROVE  ConvOK(conv')
  BY PlainlyOK DEF ConvOK

LEMMA ModelOK ==
  ASSUME ConvOK(conv), AskModel \/ (\E calls \in Calls : ModelAnswers(calls)) \/ ModelRaises
  PROVE  ConvOK(conv')
  <1>1. conv.at # "draining" /\ DOMAIN conv = ConvFields
    BY DEF AskModel, ModelAnswers, ModelRaises, ConvOK
  <1>2. ASSUME conv' = [conv EXCEPT !.at = "failing"] PROVE ConvOK(conv')
    <2>1. /\ DOMAIN conv' = ConvFields /\ conv'.at = "failing" /\ conv'.queue = conv.queue
          /\ conv'.curr = conv.curr /\ conv'.data = conv.data
      BY <1>1, <1>2 DEF ConvFields
    <2>2. QED BY <1>1, <2>1, AtOK
  <1>3. CASE AskModel /\ conv.steps # MaxSteps
    <2> DEFINE ev == <<"thinking">>
               d == Progress(conv, ev)
    <2>1. conv' = [d EXCEPT !.at = "model", !.steps = d.steps + 1]
      BY <1>3 DEF AskModel
    <2>2. ev \in Seq(Other)
      BY DEF Other, ConvEvents
    <2> HIDE DEF ev
    <2>3. DOMAIN d = ConvFields /\ QueueInv(d.queue) /\ Clear(d.queue) /\ d.curr = d.data
      BY <1>1, <2>2, ProgressOK
    <2> HIDE DEF d
    <2>4. /\ DOMAIN conv' = ConvFields /\ conv'.at = "model" /\ conv'.queue = d.queue
          /\ conv'.curr = conv'.data
      BY <2>1, <2>3 DEF ConvFields
    <2>5. QED BY <2>3, <2>4, PlainlyOK
  <1>4. ASSUME NEW calls \in Calls, ModelAnswers(calls) PROVE ConvOK(conv')
    <2> DEFINE ev == IF calls = {} THEN <<>> ELSE <<"batch">>
               d == Progress(conv, ev)
               n == IF Sets(calls) = {} THEN d.asked ELSE CHOOSE n \in Sets(calls) : TRUE
               at == IF calls = {} THEN "turn" ELSE "tools"
    <2>1. conv' = [d EXCEPT !.calls = calls, !.asked = n, !.at = at]
      BY <1>4 DEF ModelAnswers
    <2>2. ev \in Seq(Other)
      <3>1. <<>> \in Seq(Other) /\ <<"batch">> \in Seq(Other)
        BY DEF Other, ConvEvents
      <3>2. CASE calls = {}
        BY <3>1, <3>2
      <3>3. CASE calls # {}
        BY <3>1, <3>3
      <3>4. QED BY <3>2, <3>3
    <2>3. at \notin {"draining", "drained", "prompt"}
      OBVIOUS
    <2> HIDE DEF ev, n, at
    <2>4. DOMAIN d = ConvFields /\ QueueInv(d.queue) /\ Clear(d.queue) /\ d.curr = d.data
      BY <1>1, <2>2, ProgressOK
    <2> HIDE DEF d
    <2>5. /\ DOMAIN conv' = ConvFields /\ conv'.at = at /\ conv'.queue = d.queue
          /\ conv'.curr = conv'.data
      BY <2>1, <2>4 DEF ConvFields
    <2>6. QED BY <2>3, <2>4, <2>5, PlainlyOK
  <1>5. CASE ModelRaises \/ (AskModel /\ conv.steps = MaxSteps)
    BY <1>2, <1>5 DEF ModelRaises, AskModel
  <1>6. QED BY <1>3, <1>4, <1>5

LEMMA ToolsOK == ASSUME ConvOK(conv), RunTools PROVE ConvOK(conv')
  <1> DEFINE new == Sets(conv.calls)
             n == CHOOSE x \in new : TRUE
  <1>1. conv.at # "draining" /\ DOMAIN conv = ConvFields
    BY DEF RunTools, ConvOK
  <1>2. \/ conv' = [conv EXCEPT !.at = "leaving", !.calls = {}, !.lost = new # {}]
        \/ conv' = [conv EXCEPT !.at = "failing"]
        \/ conv' = [Progress(conv, <<"complete">>) EXCEPT !.calls = {}, !.at = "llm_echo"]
        \/ conv' = [Progress(conv, <<"update", "complete">>) EXCEPT
                      !.data = n, !.curr = n, !.calls = {}, !.at = "llm_echo"]
    BY DEF RunTools
  <1> HIDE DEF n, new
  <1>3. CASE \/ conv' = [conv EXCEPT !.at = "leaving", !.calls = {}, !.lost = new # {}]
             \/ conv' = [conv EXCEPT !.at = "failing"]
    <2>1. /\ DOMAIN conv' = ConvFields /\ conv'.at \in {"leaving", "failing"} /\ conv'.queue = conv.queue
          /\ conv'.curr = conv.curr /\ conv'.data = conv.data
      <3>1. CASE conv' = [conv EXCEPT !.at = "leaving", !.calls = {}, !.lost = new # {}]
        BY <1>1, <3>1 DEF ConvFields
      <3>2. CASE conv' = [conv EXCEPT !.at = "failing"]
        BY <1>1, <3>2 DEF ConvFields
      <3>3. QED BY <1>3, <3>1, <3>2
    <2>2. QED BY <1>1, <2>1, AtOK
  <1>4. CASE conv' = [Progress(conv, <<"complete">>) EXCEPT !.calls = {}, !.at = "llm_echo"]
    <2> DEFINE ev == <<"complete">>
               d == Progress(conv, ev)
    <2>1. conv' = [d EXCEPT !.calls = {}, !.at = "llm_echo"]
      BY <1>4
    <2>2. ev \in Seq(Other)
      BY DEF Other, ConvEvents
    <2> HIDE DEF ev
    <2>3. DOMAIN d = ConvFields /\ QueueInv(d.queue) /\ Clear(d.queue) /\ d.curr = d.data
      BY <1>1, <2>2, ProgressOK
    <2> HIDE DEF d
    <2>4. /\ DOMAIN conv' = ConvFields /\ conv'.at = "llm_echo" /\ conv'.queue = d.queue
          /\ conv'.curr = conv'.data
      BY <2>1, <2>3 DEF ConvFields
    <2>5. QED BY <2>3, <2>4, PlainlyOK
  <1>5. CASE conv' = [Progress(conv, <<"update", "complete">>) EXCEPT
                        !.data = n, !.curr = n, !.calls = {}, !.at = "llm_echo"]
    <2> DEFINE ev == <<"update", "complete">>
               d == Progress(conv, ev)
    <2>1. conv' = [d EXCEPT !.data = n, !.curr = n, !.calls = {}, !.at = "llm_echo"]
      BY <1>5
    <2>2. ev \in Seq(Other)
      BY DEF Other, ConvEvents
    <2> HIDE DEF ev
    <2>3. DOMAIN d = ConvFields /\ QueueInv(d.queue) /\ Clear(d.queue) /\ d.curr = d.data
      BY <1>1, <2>2, ProgressOK
    <2> HIDE DEF d
    <2>4. /\ DOMAIN conv' = ConvFields /\ conv'.at = "llm_echo" /\ conv'.queue = d.queue
          /\ conv'.curr = conv'.data
      BY <2>1, <2>3 DEF ConvFields
    <2>5. QED BY <2>3, <2>4, PlainlyOK
  <1>6. QED BY <1>2, <1>3, <1>4, <1>5

LEMMA ReaderOK == ASSUME ConvOK(conv), ReaderWakes \/ ReaderHandles \/ ReaderRaises PROVE ConvOK(conv')
  <1>1. DOMAIN conv = ConvFields /\ QueueInv(conv.queue)
    BY DEF ConvOK
  <1>2. CASE ReaderWakes
    <2>1. conv' = [conv EXCEPT !.queue = Wake(conv.queue)]
      BY <1>2 DEF ReaderWakes
    <2>2. /\ DOMAIN conv' = ConvFields /\ conv'.queue = Wake(conv.queue) /\ conv'.at = conv.at
          /\ conv'.spinner = conv.spinner /\ conv'.curr = conv.curr /\ conv'.data = conv.data
      BY <1>1, <2>1 DEF ConvFields
    <2>3. QED BY <1>1, <2>2, WakeReads DEF ConvOK
  <1>3. CASE ReaderHandles /\ Current(conv.queue) # "end"
    <2> DEFINE e == Current(conv.queue)
               spinner == CASE e = "thinking" -> TRUE [] e \in {"batch", "update"} -> FALSE [] OTHER -> conv.spinner
               at == IF e = "checkpoint" /\ conv.at = "draining" THEN "drained" ELSE conv.at
    <2>1. conv' = [conv EXCEPT !.queue = Advance(conv.queue), !.spinner = spinner, !.at = at]
      BY <1>3 DEF ReaderHandles
    <2>2. conv.queue.at = "yield"
      BY <1>3 DEF ReaderHandles
    <2> HIDE DEF spinner, at
    <2>3. /\ DOMAIN conv' = ConvFields /\ conv'.queue = Advance(conv.queue) /\ conv'.at = at
          /\ conv'.curr = conv.curr /\ conv'.data = conv.data
      BY <1>1, <2>1 DEF ConvFields
    <2>4. conv.at \notin {"drained", "prompt"} /\ conv.curr = conv.data
      BY <1>1, <2>2, AdvanceReads DEF ConvOK
    <2>5. CASE conv.at = "draining"
      <3>1. Marked(conv.queue)
        BY <2>5 DEF ConvOK
      <3>2. CASE e = "checkpoint"
        <4>1. Empty(Advance(conv.queue)) /\ QueueInv(Advance(conv.queue))
          BY <1>1, <2>2, <3>1, <3>2, AdvanceReads
        <4>2. conv'.at = "drained" /\ Clear(Advance(conv.queue))
          BY <2>3, <2>5, <3>2, <4>1 DEF at, Empty, Clear
        <4>3. QED BY <2>3, <2>4, <4>1, <4>2 DEF ConvOK
      <3>3. CASE e # "checkpoint"
        <4>1. Marked(Advance(conv.queue)) /\ QueueInv(Advance(conv.queue))
          BY <1>1, <2>2, <3>1, <3>3, AdvanceReads
        <4>2. conv'.at = "draining"
          BY <2>3, <2>5, <3>3 DEF at
        <4>3. QED BY <2>3, <2>4, <4>1, <4>2 DEF ConvOK
      <3>4. QED BY <3>2, <3>3
    <2>6. CASE conv.at # "draining"
      <3>1. Clear(Advance(conv.queue)) /\ QueueInv(Advance(conv.queue))
        BY <1>1, <2>2, <2>6, AdvanceReads DEF ConvOK
      <3>2. conv'.at = conv.at
        BY <2>3, <2>6 DEF at
      <3>3. QED BY <2>3, <2>4, <2>6, <3>1, <3>2, PlainlyOK
    <2>7. QED BY <2>5, <2>6
  <1>4. CASE ReaderRaises \/ (ReaderHandles /\ Current(conv.queue) = "end")
    <2>1. PICK reader \in {"raised", "done"} : conv' = [conv EXCEPT !.reader = reader]
      BY <1>4 DEF ReaderRaises, ReaderHandles
    <2>2. /\ DOMAIN conv' = ConvFields /\ conv'.queue = conv.queue /\ conv'.at = conv.at
          /\ conv'.spinner = conv.spinner /\ conv'.curr = conv.curr /\ conv'.data = conv.data
      BY <1>1, <2>1 DEF ConvFields
    <2>3. QED BY <2>2 DEF ConvOK
  <1>5. QED BY <1>2, <1>3, <1>4

LEMMA EndsOK ==
  ASSUME ConvOK(conv), OpenConversation \/ LeaveConversation \/ CloseConversation PROVE ConvOK(conv')
  <1>1. DOMAIN conv = ConvFields /\ QueueInv(conv.queue) /\ conv.curr = conv.data /\ conv.at # "draining"
    BY DEF ConvOK, OpenConversation, LeaveConversation, CloseConversation
  <1>2. QueueInv(EmptyQueue) /\ Clear(EmptyQueue)
    BY EmptyFacts DEF QueueInv, Clear, EmptyQueue
  <1>3. CASE OpenConversation
    <2>1. /\ DOMAIN conv' = ConvFields /\ conv'.at = "turn" /\ conv'.queue = conv.queue
          /\ conv'.curr = conv.curr /\ conv'.data = conv.data
      BY <1>1, <1>3 DEF OpenConversation, ConvFields
    <2>2. QED BY <1>1, <2>1, AtOK
  <1>4. ASSUME conv' = [conv EXCEPT !.queue = Push(conv.queue, "end"), !.at = "left"]
        PROVE  ConvOK(conv')
    <2>1. /\ DOMAIN conv' = ConvFields /\ conv'.at = "left" /\ conv'.queue = Push(conv.queue, "end")
          /\ conv'.curr = conv.curr /\ conv'.data = conv.data
      BY <1>1, <1>4 DEF ConvFields
    <2>2. /\ QueueInv(Push(conv.queue, "end"))
          /\ Push(conv.queue, "end").stream = Append(conv.queue.stream, "end")
          /\ Push(conv.queue, "end").cursor = conv.queue.cursor
      BY <1>1, PushFacts DEF QueueInv, ConvEvents
    <2>3. Clear(conv.queue) /\ conv.queue.stream \in Seq(ConvEvents) /\ conv.queue.cursor \in Nat
      BY <1>1 DEF ConvOK, QueueInv, QueueOf
    <2> DEFINE q == Push(conv.queue, "end")
    <2>4. Clear(q)
      <3> HIDE DEF q
      <3>1. q.stream = Append(conv.queue.stream, "end") /\ q.cursor = conv.queue.cursor
        BY <2>2 DEF q
      <3>2. Len(conv.queue.stream) \in Nat /\ Len(q.stream) = Len(conv.queue.stream) + 1
        BY <2>3, <3>1
      <3>3. ASSUME NEW i \in (q.cursor + 1)..Len(q.stream) PROVE q.stream[i] # "checkpoint"
        <4>1. CASE i = Len(conv.queue.stream) + 1
          BY <2>3, <3>1, <4>1
        <4>2. CASE i # Len(conv.queue.stream) + 1
          <5>1. i \in (conv.queue.cursor + 1)..Len(conv.queue.stream)
            BY <2>3, <3>1, <3>2, <4>2
          <5>2. i \in 1..Len(conv.queue.stream)
            BY <2>3, <3>2, <5>1
          <5>3. q.stream[i] = conv.queue.stream[i]
            BY <2>3, <3>1, <5>2
          <5>4. QED BY <2>3, <5>1, <5>3 DEF Clear
        <4>3. QED BY <4>1, <4>2
      <3>4. QED BY <3>3 DEF Clear
    <2>5. QED BY <1>1, <2>1, <2>2, <2>4, PlainlyOK
  <1>5. ASSUME conv' = [conv EXCEPT !.reader = "cancelled", !.at = "raised", !.spinner = FALSE, !.queue = EmptyQueue]
        PROVE  ConvOK(conv')
    <2>1. /\ DOMAIN conv' = ConvFields /\ conv'.at = "raised" /\ conv'.queue = EmptyQueue
          /\ conv'.curr = conv.curr /\ conv'.data = conv.data
      BY <1>1, <1>5 DEF ConvFields
    <2>2. QED BY <1>1, <1>2, <2>1, PlainlyOK
  <1>6. CASE LeaveConversation
    BY <1>4, <1>5, <1>6 DEF LeaveConversation
  <1>7. CASE CloseConversation
    <2> DEFINE at == IF conv.reader = "done" THEN "closed" ELSE "raised"
    <2>1. conv' = [conv EXCEPT !.at = at, !.spinner = FALSE, !.queue = EmptyQueue]
      BY <1>7 DEF CloseConversation
    <2>2. at \notin {"draining", "drained", "prompt"}
      OBVIOUS
    <2> HIDE DEF at
    <2>3. /\ DOMAIN conv' = ConvFields /\ conv'.at = at /\ conv'.queue = EmptyQueue
          /\ conv'.curr = conv.curr /\ conv'.data = conv.data
      BY <1>1, <2>1 DEF ConvFields
    <2>4. QED BY <1>1, <1>2, <2>2, <2>3, PlainlyOK
  <1>8. QED BY <1>3, <1>6, <1>7

\* The conversation only takes steps of its own, or is opened again.
LEMMA ConvSteps == [Next]_vars => conv' = conv \/ conv' = Opening \/ ConvNext
  <1> SUFFICES ASSUME [Next]_vars PROVE conv' = conv \/ conv' = Opening \/ ConvNext
    OBVIOUS
  <1>1. ASSUME NEW t \in Tasks, Machine(t) \/ HandlerRaises(t) PROVE conv' = conv \/ conv' = Opening
    BY <1>1 DEF Machine, TaskStep, HandlerRaises, MakeHandler, SectionMounted, RowMounted, StartTask,
                EndBody, LeaveScope, EndGraph, Drain, Handle, GraphFrame, DrainFrame
  <1>2. ASSUME NEW t \in Tasks, NEW g \in Graphs,
               StartGraph(t, g) \/ Interrupt(t, g) \/ Answered(t, g) \/ StreamItem(t, g)
        PROVE  conv' = conv
    BY <1>2 DEF StartGraph, Interrupt, Answered, StreamItem, GraphFrame
  <1>3. CASE UNCHANGED vars
    BY <1>3 DEF vars
  <1>4. QED BY <1>1, <1>2, <1>3 DEF Next, Converse

LEMMA ConvNextOK == ConvOK(conv) /\ [Next]_vars => ConvOK(conv')
  <1> SUFFICES ASSUME ConvOK(conv), [Next]_vars PROVE ConvOK(conv')
    OBVIOUS
  <1>1. CASE conv' = conv
    BY <1>1
  <1>2. CASE conv' = Opening
    BY <1>2, OpeningOK
  <1>3. CASE ConvNext
    BY <1>3, HumanTurnOK, OpenPromptOK, HumanAnswersOK, ModelOK, ToolsOK, ReaderOK, EndsOK
       DEF ConvNext, ConvProgress
  <1>4. QED BY <1>1, <1>2, <1>3, ConvSteps

\* What the agent asked for is in the graph's state, is about to be, or was lost
\* with the message that ended the conversation.
RefinedOK(c) ==
  /\ DOMAIN c = ConvFields
  /\ c.at = "tools" =>
       IF Sets(c.calls) = {} THEN c.data = c.asked ELSE c.asked = CHOOSE n \in Sets(c.calls) : TRUE
  /\ c.at \in {"leaving", "left", "closed"} => c.data = c.asked \/ c.lost
  /\ c.at \notin {"tools", "leaving", "left", "closed", "failing", "raised"} => c.data = c.asked

Settled == {"tools", "leaving", "left", "closed", "failing", "raised"}

LEMMA ProgressRefines ==
  ASSUME NEW c, DOMAIN c = ConvFields, NEW events
  PROVE  LET d == Progress(c, events) IN
         /\ DOMAIN d = ConvFields /\ d.at = c.at /\ d.data = c.data /\ d.asked = c.asked
         /\ d.calls = c.calls /\ d.lost = c.lost
  BY DEF Progress, PushAll, ConvFields

\* Steps that change neither list.
LEMMA StillRefined ==
  ASSUME RefinedOK(conv), conv.at \notin Settled, DOMAIN conv' = ConvFields,
         conv'.data = conv.data, conv'.asked = conv.asked,
         conv'.at \in {"turn", "draining", "drained", "prompt", "llm_echo", "model", "failing", "raised"}
  PROVE  RefinedOK(conv')
  BY DEF RefinedOK, Settled

LEMMA TurnsRefine ==
  ASSUME RefinedOK(conv),
         \/ OpenConversation \/ HumanTurn \/ OpenPrompt \/ AskModel \/ ModelRaises
         \/ \E list \in BOOLEAN : HumanAnswers(list)
  PROVE  RefinedOK(conv')
  <1>1. DOMAIN conv = ConvFields
    BY DEF RefinedOK
  <1>2. conv.at \notin Settled
    BY DEF Settled, OpenConversation, HumanTurn, OpenPrompt, AskModel, ModelRaises, HumanAnswers
  <1>3. CASE OpenConversation \/ OpenPrompt \/ ModelRaises \/ (AskModel /\ conv.steps = MaxSteps)
    <2>1. /\ DOMAIN conv' = ConvFields /\ conv'.data = conv.data /\ conv'.asked = conv.asked
          /\ conv'.at \in {"turn", "prompt", "failing"}
      BY <1>1, <1>3 DEF OpenConversation, OpenPrompt, ModelRaises, AskModel, ConvFields
    <2>2. QED BY <1>2, <2>1, StillRefined
  <1>4. CASE HumanTurn
    <2> DEFINE d == Progress(conv, <<"checkpoint">>)
    <2>1. conv' = [d EXCEPT !.at = "draining"]
      BY <1>4 DEF HumanTurn
    <2>2. DOMAIN d = ConvFields /\ d.data = conv.data /\ d.asked = conv.asked
      BY <1>1, ProgressRefines
    <2> HIDE DEF d
    <2>3. /\ DOMAIN conv' = ConvFields /\ conv'.data = conv.data /\ conv'.asked = conv.asked
          /\ conv'.at = "draining"
      BY <2>1, <2>2 DEF ConvFields
    <2>4. QED BY <1>2, <2>3, StillRefined
  <1>5. CASE AskModel /\ conv.steps # MaxSteps
    <2> DEFINE d == Progress(conv, <<"thinking">>)
    <2>1. conv' = [d EXCEPT !.at = "model", !.steps = d.steps + 1]
      BY <1>5 DEF AskModel
    <2>2. DOMAIN d = ConvFields /\ d.data = conv.data /\ d.asked = conv.asked
      BY <1>1, ProgressRefines
    <2> HIDE DEF d
    <2>3. /\ DOMAIN conv' = ConvFields /\ conv'.data = conv.data /\ conv'.asked = conv.asked
          /\ conv'.at = "model"
      BY <2>1, <2>2 DEF ConvFields
    <2>4. QED BY <1>2, <2>3, StillRefined
  <1>6. ASSUME NEW list \in BOOLEAN, HumanAnswers(list) PROVE RefinedOK(conv')
    <2>1. CASE list
      <3> DEFINE d == Progress(conv, <<"update">>)
      <3>1. conv' = [d EXCEPT !.at = "turn", !.answers = d.answers + 1, !.steps = 0]
        BY <1>6, <2>1 DEF HumanAnswers
      <3>2. DOMAIN d = ConvFields /\ d.data = conv.data /\ d.asked = conv.asked
        BY <1>1, ProgressRefines
      <3> HIDE DEF d
      <3>3. /\ DOMAIN conv' = ConvFields /\ conv'.data = conv.data /\ conv'.asked = conv.asked
            /\ conv'.at = "turn"
        BY <3>1, <3>2 DEF ConvFields
      <3>4. QED BY <1>2, <3>3, StillRefined
    <2>2. CASE ~list
      <3>1. conv' = [conv EXCEPT !.at = "llm_echo", !.answers = conv.answers + 1, !.steps = 0]
        BY <1>6, <2>2 DEF HumanAnswers
      <3>2. /\ DOMAIN conv' = ConvFields /\ conv'.data = conv.data /\ conv'.asked = conv.asked
            /\ conv'.at = "llm_echo"
        BY <1>1, <3>1 DEF ConvFields
      <3>3. QED BY <1>2, <3>2, StillRefined
    <2>3. QED BY <2>1, <2>2
  <1>7. QED BY <1>3, <1>4, <1>5, <1>6

LEMMA AnswersRefine ==
  ASSUME RefinedOK(conv), NEW calls \in Calls, ModelAnswers(calls) PROVE RefinedOK(conv')
  <1> DEFINE d == Progress(conv, IF calls = {} THEN <<>> ELSE <<"batch">>)
             n == IF Sets(calls) = {} THEN d.asked ELSE CHOOSE n \in Sets(calls) : TRUE
             at == IF calls = {} THEN "turn" ELSE "tools"
  <1>1. conv.at = "model" /\ DOMAIN conv = ConvFields /\ conv.data = conv.asked
    BY DEF RefinedOK, ModelAnswers
  <1>2. conv' = [d EXCEPT !.calls = calls, !.asked = n, !.at = at]
    BY DEF ModelAnswers
  <1>3. DOMAIN d = ConvFields /\ d.data = conv.data /\ d.asked = conv.asked
    BY <1>1, ProgressRefines
  <1> HIDE DEF d, n, at
  <1>4. /\ DOMAIN conv' = ConvFields /\ conv'.data = conv.data /\ conv'.asked = n
        /\ conv'.at = at /\ conv'.calls = calls
    BY <1>2, <1>3 DEF ConvFields
  <1>5. Sets({}) = {}
    BY DEF Sets
  <1>6. CASE calls = {}
    BY <1>1, <1>3, <1>4, <1>5, <1>6 DEF RefinedOK, n, at
  <1>7. CASE calls # {}
    <2>1. conv'.at = "tools"
      BY <1>4, <1>7 DEF at
    <2>2. IF Sets(calls) = {} THEN conv'.data = conv'.asked
          ELSE conv'.asked = CHOOSE x \in Sets(calls) : TRUE
      BY <1>1, <1>3, <1>4 DEF n
    <2>3. QED BY <1>4, <2>1, <2>2 DEF RefinedOK
  <1>8. QED BY <1>6, <1>7

LEMMA ToolsRefine == ASSUME RefinedOK(conv), RunTools PROVE RefinedOK(conv')
  <1> DEFINE new == Sets(conv.calls)
             n == CHOOSE x \in new : TRUE
  <1>1. /\ conv.at = "tools" /\ DOMAIN conv = ConvFields
        /\ IF new = {} THEN conv.data = conv.asked ELSE conv.asked = n
    BY DEF RefinedOK, RunTools
  <1>2. \/ conv' = [conv EXCEPT !.at = "leaving", !.calls = {}, !.lost = new # {}]
        \/ conv' = [conv EXCEPT !.at = "failing"]
        \/ new = {} /\ conv' = [Progress(conv, <<"complete">>) EXCEPT !.calls = {}, !.at = "llm_echo"]
        \/ new # {} /\ conv' = [Progress(conv, <<"update", "complete">>) EXCEPT
                      !.data = n, !.curr = n, !.calls = {}, !.at = "llm_echo"]
    BY DEF RunTools
  <1> HIDE DEF n, new
  <1>3. CASE conv' = [conv EXCEPT !.at = "leaving", !.calls = {}, !.lost = new # {}]
    <2>1. /\ DOMAIN conv' = ConvFields /\ conv'.data = conv.data /\ conv'.asked = conv.asked
          /\ conv'.at = "leaving" /\ conv'.lost = (new # {})
      BY <1>1, <1>3 DEF ConvFields
    <2>2. QED BY <1>1, <2>1 DEF RefinedOK
  <1>4. CASE conv' = [conv EXCEPT !.at = "failing"]
    BY <1>1, <1>4 DEF RefinedOK, ConvFields
  <1>5. CASE new = {} /\ conv' = [Progress(conv, <<"complete">>) EXCEPT !.calls = {}, !.at = "llm_echo"]
    <2> DEFINE d == Progress(conv, <<"complete">>)
    <2>1. DOMAIN d = ConvFields /\ d.data = conv.data /\ d.asked = conv.asked
      BY <1>1, ProgressRefines
    <2>2. conv' = [d EXCEPT !.calls = {}, !.at = "llm_echo"]
      BY <1>5
    <2> HIDE DEF d
    <2>3. /\ DOMAIN conv' = ConvFields /\ conv'.data = conv.data /\ conv'.asked = conv.asked
          /\ conv'.at = "llm_echo"
      BY <2>1, <2>2 DEF ConvFields
    <2>4. QED BY <1>1, <1>5, <2>3 DEF RefinedOK
  <1>6. CASE new # {} /\ conv' = [Progress(conv, <<"update", "complete">>) EXCEPT
                           !.data = n, !.curr = n, !.calls = {}, !.at = "llm_echo"]
    <2> DEFINE d == Progress(conv, <<"update", "complete">>)
    <2>1. DOMAIN d = ConvFields /\ d.asked = conv.asked
      BY <1>1, ProgressRefines
    <2>2. conv' = [d EXCEPT !.data = n, !.curr = n, !.calls = {}, !.at = "llm_echo"]
      BY <1>6
    <2> HIDE DEF d
    <2>3. /\ DOMAIN conv' = ConvFields /\ conv'.data = n /\ conv'.asked = conv.asked
          /\ conv'.at = "llm_echo"
      BY <2>1, <2>2 DEF ConvFields
    <2>4. QED BY <1>1, <1>6, <2>3 DEF RefinedOK
  <1>7. QED BY <1>2, <1>3, <1>4, <1>5, <1>6

LEMMA EndsRefine ==
  ASSUME RefinedOK(conv), ReaderWakes \/ ReaderHandles \/ ReaderRaises \/ LeaveConversation \/ CloseConversation
  PROVE  RefinedOK(conv')
  <1>1. DOMAIN conv = ConvFields
    BY DEF RefinedOK
  <1>2. CASE ReaderWakes \/ ReaderHandles \/ ReaderRaises
    <2>1. /\ DOMAIN conv' = ConvFields /\ conv'.data = conv.data /\ conv'.asked = conv.asked
          /\ conv'.calls = conv.calls /\ conv'.lost = conv.lost
          /\ conv'.at = conv.at \/ (conv.at = "draining" /\ conv'.at = "drained")
      <3>1. CASE ReaderWakes \/ ReaderRaises
        BY <1>1, <3>1 DEF ReaderWakes, ReaderRaises, ConvFields
      <3>2. CASE ReaderHandles /\ Current(conv.queue) = "end"
        BY <1>1, <3>2 DEF ReaderHandles, ConvFields
      <3>3. CASE ReaderHandles /\ Current(conv.queue) # "end"
        <4> DEFINE e == Current(conv.queue)
                   spinner == CASE e = "thinking" -> TRUE [] e \in {"batch", "update"} -> FALSE [] OTHER -> conv.spinner
                   at == IF e = "checkpoint" /\ conv.at = "draining" THEN "drained" ELSE conv.at
        <4>1. conv' = [conv EXCEPT !.queue = Advance(conv.queue), !.spinner = spinner, !.at = at]
          BY <3>3 DEF ReaderHandles
        <4>2. at = conv.at \/ (conv.at = "draining" /\ at = "drained")
          OBVIOUS
        <4> HIDE DEF spinner, at
        <4>3. QED BY <1>1, <4>1, <4>2 DEF ConvFields
      <3>4. QED BY <1>2, <3>1, <3>2, <3>3
    <2>2. QED BY <2>1 DEF RefinedOK
  <1>3. CASE LeaveConversation \/ CloseConversation
    <2>1. /\ DOMAIN conv' = ConvFields /\ conv'.data = conv.data /\ conv'.asked = conv.asked
          /\ conv'.lost = conv.lost
          /\ \/ conv.at \in {"leaving", "left"} /\ conv'.at \in {"left", "closed", "raised"}
             \/ conv'.at = "raised"
      <3>1. CASE LeaveConversation
        BY <1>1, <3>1 DEF LeaveConversation, ConvFields
      <3>2. CASE CloseConversation
        BY <1>1, <3>2 DEF CloseConversation, ConvFields
      <3>3. QED BY <1>3, <3>1, <3>2
    <2>2. QED BY <2>1 DEF RefinedOK
  <1>4. QED BY <1>2, <1>3

LEMMA OpeningRefined == RefinedOK(Opening)
  BY DEF Opening, RefinedOK, ConvFields

-----------------------------------------------------------------------------
(* Results *)

\* A handler is given the events of its scope in the order of their emission,
\* none twice, and all of them before its drainer returns (io/context.py,
\* io/stream.py); a human is asked below all the agent's output, with no spinner
\* left and the list of the graph (ui/multi_job_app.py, human_turn).
THEOREM EventsAreDelivered == Spec => []EventsDelivered
  <1> DEFINE Inv == JobInv /\ ConvOK(conv)
  <1>1. Init => Inv
    <2>1. Init => conv = Opening
      BY DEF Init, ConvInit
    <2>2. QED BY <2>1, JobInit, OpeningOK
  <1>2. Inv /\ [Next]_vars => Inv'
    <2>1. JobInv /\ [Next]_vars => JobInv'
      BY JobNext
    <2>2. ConvOK(conv) /\ [Next]_vars => ConvOK(conv)'
      BY ConvNextOK
    <2>3. QED BY <2>1, <2>2
  <1>3. Inv => EventsDelivered
    <2> SUFFICES ASSUME Inv PROVE EventsDelivered
      OBVIOUS
    <2>1. ASSUME NEW t \in Tasks
          PROVE  IsPrefix(handled[t], pushed[t]) /\ (queue[t].at = "returned" => due[t] <= Len(handled[t]))
      BY ScopeFacts, AccountsDeliver
    <2>2. PromptBelowOutput
      <3>1. SUFFICES ASSUME conv.at = "prompt"
                     PROVE  Pending(conv.queue) = <<>> /\ ~conv.spinner /\ conv.curr = conv.data
        BY DEF PromptBelowOutput
      <3>2. conv.queue.stream = <<>> /\ conv.queue.cursor = 0 /\ ~conv.spinner /\ conv.curr = conv.data
        BY <3>1 DEF ConvOK, Empty
      <3>3. Pending(conv.queue) = <<>>
        BY <3>2, SubSeqEmpty DEF Pending
      <3>4. QED BY <3>2, <3>3
    <2>3. QED BY <2>1, <2>2 DEF EventsDelivered
  <1>4. QED BY <1>1, <1>2, <1>3, PTL DEF Spec

\* A list the agent set is not lost between its message and the human's answer,
\* whatever the reader does meanwhile (spec/refinement.py, refinement_loop).
THEOREM RefinementReturnsLastSet == Spec => []RefinedIsLastSet
  <1>1. Init => RefinedOK(conv)
    BY OpeningRefined DEF Init, ConvInit
  <1>2. RefinedOK(conv) /\ [Next]_vars => RefinedOK(conv)'
    <2> SUFFICES ASSUME RefinedOK(conv), [Next]_vars PROVE RefinedOK(conv')
      OBVIOUS
    <2>1. CASE conv' = conv
      BY <2>1
    <2>2. CASE conv' = Opening
      BY <2>2, OpeningRefined
    <2>3. CASE ConvNext
      BY <2>3, TurnsRefine, AnswersRefine, ToolsRefine, EndsRefine DEF ConvNext, ConvProgress
    <2>4. QED BY <2>1, <2>2, <2>3, ConvSteps
  <1>3. RefinedOK(conv) => RefinedIsLastSet
    BY DEF RefinedOK, RefinedIsLastSet
  <1>4. QED BY <1>1, <1>2, <1>3, PTL DEF Spec

\* What the summary of a run shows is true of its tasks: who is shown as active
\* has a permit, who is shown as done returned undisturbed, and the timing record
\* says the same (io/multi_job.py: run_task; ui/multi_job_app.py).
THEOREM SummaryIsTruthful == Spec => []SummaryTruthful
  <1>1. Init => JobInv /\ SumInv
    BY JobInit, SumInit
  <1>2. (JobInv /\ SumInv) /\ [Next]_vars => (JobInv /\ SumInv)'
    BY JobNext, SumNext
  <1>3. SumInv => SummaryTruthful
    <2> SUFFICES ASSUME SumInv PROVE SummaryTruthful
      OBVIOUS
    <2>1. ASSUME NEW t \in Tasks
          PROVE  /\ status[t] \in Active => t \in Holders
                 /\ status[t] = "done" => body[t] = "returned" /\ drainer[t] # "raised"
                 /\ Terminal(status[t]) <=> [task |-> t, error |-> status[t] = "error"] \in phases
      <3>1. SumOK(t) /\ SumType
        BY DEF SumInv
      <3>2. (status[t] = "error") \in BOOLEAN
        OBVIOUS
      <3>3. QED BY <3>1, <3>2, HoldersHold DEF SumOK
    <2>2. Cardinality({t \in Tasks : status[t] \in Active}) <= MaxRunning
      BY <2>1, FewHolders DEF SumInv
    <2>3. QED BY <2>1, <2>2 DEF SummaryTruthful, Active
  <1>4. QED BY <1>1, <1>2, <1>3, PTL DEF Spec

\* The events of a graph lie between its Start and its End and, unless a graph
\* around it raised or was interrupted, between those of every graph around it;
\* a body that is over has left open no others (io/graph_runner.py, io/context.py).
THEOREM EventPathsNest == Spec => []PathsNest
  <1> DEFINE Inv == JobInv /\ \A t \in Tasks : PathOK(t)
  <1>1. Init => Inv
    BY JobInit, IdleRow DEF Init, PathOK
  <1>2. Inv /\ [Next]_vars => Inv'
    BY JobNext, PathNext
  <1>3. Inv => PathsNest
    <2> SUFFICES ASSUME Inv, NEW t \in Tasks
                 PROVE  /\ \A i \in 1..Len(pushed[t]) : EventOK(pushed[t], i)
                        /\ pc[t] = "closing" =>
                             \A path \in OpenAt(pushed[t], Len(pushed[t])) :
                               \E j \in 1..(Len(path) - 1) : SubSeq(path, 1, j) \in Lost(pushed[t], Len(pushed[t]))
      BY DEF PathsNest, EventOK, Covered, OpenAt, Started, Lost, Of
    <2> DEFINE p == pushed[t]
               G == graph[t]
    <2>1. RowOK(G, p) /\ (pc[t] = "closing" => ~Busy(t)) /\ \A g \in Graphs : G[g].path \in Seq(Graphs)
      BY DEF PathOK, JobInv, JobType, GraphType
    <2>2. ASSUME pc[t] = "closing", NEW g \in RunsIn(G)
          PROVE  \E j \in 1..(Len(G[g].path) - 1) : SubSeq(G[g].path, 1, j) \in Lost(p, Len(p))
      <3>1. g \in Begun(G) /\ g \in Graphs
        BY DEF RunsIn, Begun
      <3>2. Len(G[g].path) # 1 /\ Len(G[g].path) \in Nat /\ Len(G[g].path) > 0
        <4>1. Len(G[g].path) # 1
          BY <2>1, <2>2, <3>1 DEF Busy, Running, RunsIn
        <4>2. EndsWith(G[g].path, g) /\ G[g].path \in Seq(Graphs)
          BY <2>1, <3>1 DEF RowOK
        <4>3. QED BY <4>1, <4>2 DEF EndsWith
      <3>3. 1 \in 1..(Len(G[g].path) - 1)
        <4>1. \A n \in Nat : n > 0 /\ n # 1 => 1 \in 1..(n - 1)
          OBVIOUS
        <4>2. QED BY <3>2, <4>1
      <3>4. Covered(OpenAt(p, Len(p)), Started(p, Len(p)), Lost(p, Len(p)), G[g].path, 1)
        <4>1. \A h \in RunsIn(G) : \A k \in 1..(Len(G[h].path) - 1) :
                Covered(OpenAt(p, Len(p)), Started(p, Len(p)), Lost(p, Len(p)), G[h].path, k)
          BY <2>1 DEF RowOK
        <4>2. QED BY <3>3, <4>1
      <3>5. SubSeq(G[g].path, 1, 1) \notin OpenAt(p, Len(p))
        <4> SUFFICES ASSUME NEW h \in RunsIn(G), G[h].path = SubSeq(G[g].path, 1, 1) PROVE FALSE
          BY <2>1 DEF RowOK, PathsOf
        <4>1. Len(G[h].path) = 1 /\ h \in Graphs
          BY <2>1, <3>1, <3>2 DEF RunsIn
        <4>2. QED BY <2>1, <2>2, <4>1 DEF Busy, Running, RunsIn
      <3>6. QED BY <3>4, <3>5 DEF Covered
    <2>3. pc[t] = "closing" => \A path \in OpenAt(p, Len(p)) :
             \E j \in 1..(Len(path) - 1) : SubSeq(path, 1, j) \in Lost(p, Len(p))
      BY <2>1, <2>2 DEF RowOK, PathsOf
    <2>4. QED BY <2>1, <2>3 DEF RowOK
  <1>4. QED BY <1>1, <1>2, <1>3, PTL DEF Spec
=============================================================================
