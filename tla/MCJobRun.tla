------------------------------ MODULE MCJobRun ------------------------------
(* Two tasks of one section; one of them refines its properties with a human. *)
EXTENDS JobRun

CONSTANTS t1, t2, g1, g2, a, b

MCPhaseOf == [t \in Tasks |-> "extraction"]
=============================================================================
