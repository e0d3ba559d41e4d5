----------------------------- MODULE MCAgentTurn -----------------------------
(* One turn: the bounds of the loops are in the configurations. *)
EXTENDS AgentTurn
=============================================================================
