--------------------------- MODULE AsyncDataQueue ---------------------------
(***************************************************************************)
(* io/stream.py: an append-only buffer with synchronous producers and one  *)
(* consumer, as operators on the record of its fields.  "at" is the point  *)
(* of stream_events: before _ready.wait(), suspended in the yield of       *)
(* _event_stream[_cursor], or returned.                                    *)
(***************************************************************************)
EXTENDS Naturals, Sequences

EmptyQueue == [stream |-> <<>>, cursor |-> 0, ready |-> FALSE, closed |-> FALSE, at |-> "wait"]

Push(q, event) == [q EXCEPT !.stream = Append(@, event), !.ready = TRUE]

\* Several pushes in a row, with nothing in between.
PushAll(q, events) == [q EXCEPT !.stream = @ \o events, !.ready = @ \/ events # <<>>]

\* Mutant: the scope cancels its consumer where it should let it finish.
CancelNow(q) == [q EXCEPT !.closed = TRUE, !.at = "returned"]

Close(q) == [q EXCEPT !.closed = TRUE, !.ready = TRUE]

\* From the head of the inner loop to the next suspension: yield the item at
\* the cursor, or reset the buffer and wait again, or return when closed.
Loop(q) ==
  IF q.cursor < Len(q.stream) THEN [q EXCEPT !.at = "yield"]
  ELSE [q EXCEPT !.stream = <<>>, !.cursor = 0, !.at = IF q.closed THEN "returned" ELSE "wait"]

CanWake(q) == q.at = "wait" /\ q.ready
Wake(q) == Loop([q EXCEPT !.ready = FALSE])

Current(q) == q.stream[q.cursor + 1]

\* The consumer's body is done with the current item.
Advance(q) == Loop([q EXCEPT !.cursor = @ + 1])

\* What has been pushed and is not yet through the consumer.
Pending(q) == SubSeq(q.stream, q.cursor + 1, Len(q.stream))
=============================================================================
