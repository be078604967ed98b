------------------------------ MODULE ThreadLog ------------------------------
(***************************************************************************)
(* The log of the runs over the threads of the checkpointer and the        *)
(* timeline a reader gets of one segment (composer/io/thread_logging.py,   *)
(* composer/io/thread_timeline.py, composer/io/run_index.py).              *)
(*                                                                         *)
(* A checkpoint is known by its place in ckpts, which is also the order of *)
(* their ids; a message by the checkpoint that first held it.              *)
(***************************************************************************)
EXTENDS Naturals, Sequences, SequencesExt

VARIABLES
  ckpts,       \* each with its thread, its parent or 0, its messages, and items:
               \* what happened to the messages on its branch (only for properties)
  records      \* of each segment, by its number: thread, start and end, or Unlogged

NoCheckpoint == 0
Unlogged == [thread |-> "unlogged", start |-> NoCheckpoint, end |-> NoCheckpoint]
LogInit == ckpts = <<>> /\ records = <<>>

OfThread(t) == {c \in DOMAIN ckpts : ckpts[c].thread = t}
\* aget_tuple without a checkpoint id.
Latest(t) == IF OfThread(t) = {} THEN NoCheckpoint ELSE CHOOSE c \in OfThread(t) : \A d \in OfThread(t) : d <= c

Message(m, c) == [kind |-> "message", id |-> m, at |-> c]
Summary(c) == [kind |-> "summary", id |-> c, at |-> NoCheckpoint]

\* The checkpointer, on a super-step from checkpoint p of thread t: the input of a
\* new thread, an update without messages, a message, or a summary in their place.
New == Len(ckpts) + 1
Append1(t, p, msgs, items) == ckpts' = Append(ckpts, [thread |-> t, parent |-> p, msgs |-> msgs, items |-> items])
Checkpoint(t, p) ==
  IF p = NoCheckpoint THEN Append1(t, p, <<>>, <<>>)
  ELSE LET old == ckpts[p]
       IN  \/ Append1(t, p, old.msgs, old.items)
           \/ Append1(t, p, Append(old.msgs, New), Append(old.items, Message(New, New)))
           \/ /\ old.msgs # <<>>
              /\ Append1(t, p, <<New>>, old.items \o <<Summary(New), Message(New, New)>>)

\* ThreadLogger.start and complete; a put that fails is swallowed.
StartRecord(t, start) ==
  \E r \in {[thread |-> t, start |-> start, end |-> NoCheckpoint], Unlogged} : records' = Append(records, r)
CompleteRecord(n, t, start, last) ==
  \E r \in {[thread |-> t, start |-> start, end |-> last], records[n]} : records' = [records EXCEPT ![n] = r]

-----------------------------------------------------------------------------
(* load_timeline *)

\* Mutant: every checkpoint of the thread up to the anchor.
UnionOfBranches(t, anchor, stop) ==
  SelectSeq([i \in DOMAIN ckpts |-> i], LAMBDA c : ckpts[c].thread = t /\ stop <= c /\ c <= anchor)

\* The chain of parents of the anchor up to the stop, the oldest first.
History(t, anchor, stop) ==
  LET walk[c \in 0..Len(ckpts)] ==
        IF c = NoCheckpoint THEN <<>>
        ELSE IF c = stop THEN <<c>>
        ELSE Append(walk[ckpts[c].parent], c)
  IN  walk[IF anchor = NoCheckpoint THEN Latest(t) ELSE anchor]

\* One checkpoint: a marker when it has no message of the one before it, and its
\* messages that were not seen yet.
AddCheckpoint(acc, c) ==
  LET cur == ToSet(ckpts[c].msgs)
      marker == IF acc.prev # {} /\ cur # {} /\ acc.prev \cap cur = {} THEN <<Summary(c)>> ELSE <<>>
      fresh == FlattenSeq([i \in DOMAIN ckpts[c].msgs |->
                 IF ckpts[c].msgs[i] \in acc.seen THEN <<>> ELSE <<Message(ckpts[c].msgs[i], c)>>])
  IN  [prev |-> cur, seen |-> acc.seen \cup cur, items |-> acc.items \o marker \o fresh]

LoadTimeline(t, anchor, stop) ==
  FoldLeft(AddCheckpoint, [prev |-> {}, seen |-> {}, items |-> <<>>], History(t, anchor, stop)).items

\* What happened on the branch of checkpoint c: from the beginning of its thread,
\* or the messages a segment started with and all that came after.
Happened(c, start) ==
  IF start = NoCheckpoint THEN ckpts[c].items
  ELSE [i \in DOMAIN ckpts[start].msgs |-> Message(ckpts[start].msgs[i], start)]
         \o SubSeq(ckpts[c].items, Len(ckpts[start].items) + 1, Len(ckpts[c].items))
=============================================================================
