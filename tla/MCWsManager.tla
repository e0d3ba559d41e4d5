---------------------------- MODULE MCWsManager -----------------------------
(* One user whose connections replace one another. *)
EXTENDS WsManager
CONSTANTS u1, c1, c2, g1, g2
=============================================================================
