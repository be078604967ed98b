------------------------------ MODULE Mnemonics ------------------------------
(***************************************************************************)
(* Names for threads (composer/io/mnemonic_store.py): a row for each name  *)
(* and one for each thread, in two namespaces of the store.  A name is     *)
(* claimed by an insert that does nothing when the row is there.           *)
(***************************************************************************)
EXTENDS Naturals

CONSTANTS
  Threads,      \* thread ids
  Words,        \* the names mnemonic_id may draw
  Attempts,     \* draws, of which the last gets a suffix of its own
  MaxRuns       \* runs of the processes; the suffixes

VARIABLES ms, ts     \* name -> thread, thread -> name

NoOne == "no one"
\* A word and its suffix, 0 for none.
Names == Words \X (0..MaxRuns)
NoName == <<>>

ASSUME MnemonicAssumption ==
  NoOne \notin Threads /\ MaxRuns \in Nat /\ Attempts \in Nat \ {0}

MnemonicsInit ==
  /\ ms = [m \in Names |-> NoOne]
  /\ ts = [t \in Threads |-> NoName]

\* mnemonic_id, with twelve digits of a uuid at the last attempt.
Candidates(attempt, n) == Words \X {IF attempt < Attempts THEN 0 ELSE n}

\* Mutant: an upsert, as every other write to the store.
Upserted(cand) == TRUE
\* The row was not there: one row was inserted.
Claimed(cand) == ms[cand] = NoOne
Claim(cand, tid) == ms' = IF Claimed(cand) THEN [ms EXCEPT ![cand] = tid] ELSE ms
=============================================================================
