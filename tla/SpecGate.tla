------------------------------ MODULE SpecGate ------------------------------
(***************************************************************************)
(* What a CVL author promises: a result is accepted only while the draft is *)
(* exactly what the judge and what the prover accepted, and is final. How   *)
(* either judgement is recorded (stamps, digests, reducers), and how the    *)
(* result gets to the store, is not said here.                              *)
(*                                                                          *)
(* The author works in messages. Everything a message does refers to the    *)
(* draft as it was before it, so that beside an acceptance the draft may    *)
(* still be revised; a message of one call does one thing only.             *)
(***************************************************************************)
CONSTANTS Spec, Skips, NoSpec, NoSubmission, NoSkips,
          OneCall  \* a message is one call

VARIABLES
  draft,   \* the spec and the skip declarations as they are now
  judged,  \* the last draft the judge accepted
  proved,  \* the last draft the prover accepted
  status   \* "open", then "accepted" and "published", or "gave_up"

gate == <<draft, judged, proved, status>>

Drafts == [spec : Spec \cup {NoSpec}, skipped : Skips]

GateInit ==
  /\ draft = [spec |-> NoSpec, skipped |-> NoSkips]
  /\ judged = NoSubmission
  /\ proved = NoSubmission
  /\ status = "open"

Revise == draft' \in Drafts

Judge  == judged' = judged \/ (draft.spec # NoSpec /\ judged' = draft)
Prove  == proved' = proved \/ (draft.spec # NoSpec /\ proved' = draft)

Decide ==
  \/ status' \in {"open", "gave_up"}
  \/ /\ draft.spec # NoSpec
     /\ judged = draft
     /\ proved = draft
     /\ status' = "accepted"

OneThing ==
  \/ UNCHANGED <<judged, proved, status>>
  \/ UNCHANGED <<draft, proved, status>>
  \/ UNCHANGED <<draft, judged, status>>
  \/ UNCHANGED <<draft, judged, proved>>

Message ==
  /\ status = "open"
  /\ Revise /\ Judge /\ Prove /\ Decide
  /\ OneCall => OneThing

Publish ==
  /\ status = "accepted"
  /\ status' = "published"
  /\ UNCHANGED <<draft, judged, proved>>

\* The batch is tried again from an empty draft, but never once published.
Restart == status # "published" /\ GateInit'

GateNext == Message \/ Publish \/ Restart

GateSpec == GateInit /\ [][GateNext]_gate
=============================================================================
