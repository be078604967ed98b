----------------------------- MODULE AgentIndex -----------------------------
(***************************************************************************)
(* The semantic cache of the research agents (composer/spec/agent_index.py)*)
(* in the store: a shared base layer and, in the tiered mode, an overlay   *)
(* of the user's.  A document is abstracted to the question it answers.    *)
(***************************************************************************)
CONSTANTS
  Questions,    \* the wordings in which questions are asked
  Key,          \* of each wording the key of its normal form
  Users

VARIABLE layers      \* layer -> key -> the document

NoDocument == "no document"
ASSUME IndexAssumption == NoDocument \notin Questions
Keys == {Key[q] : q \in Questions}
Layers == {"base"} \cup Users

\* agent_index_config_from_env, and where such an index writes and reads.
Configs == {[mode |-> "tiered", user |-> u] : u \in Users}
             \cup {[mode |-> m, user |-> "base"] : m \in {"trusted", "readonly"}}
ReadOnly(c) == c.mode = "readonly"
WriteLayer(c) == IF c.mode = "tiered" THEN c.user ELSE "base"

IndexInit == layers = [l \in Layers |-> [k \in Keys |-> NoDocument]]

\* aget: the overlay shadows the base layer.
Get(c, k) ==
  IF c.mode = "tiered" /\ layers[c.user][k] # NoDocument THEN layers[c.user][k] ELSE layers["base"][k]

Put(c, q) == layers' = [layers EXCEPT ![WriteLayer(c)][Key[q]] = q]
=============================================================================
