--------------------------- MODULE MCNatspecStubs ---------------------------
(***************************************************************************)
(* Constants of NatspecStubs for TLC.                                       *)
(***************************************************************************)
EXTENDS NatspecStubs, TLC

CONSTANTS a1, a2, c1, f1

\* A spec that uses no field of the stub and one that does.
MCSpecs == {{}, {<<c1, f1>>}}

\* One author has the turns to publish, beside the requests of the other.
MCTurns == a1 :> 3 @@ a2 :> 1

\* Its messages may hold two calls.
MCCalls == a1 :> 2 @@ a2 :> 1
=============================================================================
