-------------------------- MODULE MCLlmMultiClient --------------------------
(* Two providers that list the same model: whichever is loaded last owns it. *)
EXTENDS LlmMultiClient, TLC
CONSTANTS p1, p2, m1, c1, c2

MCServes == (p1 :> {m1}) @@ (p2 :> {m1})
MCWeight == (p1 :> 10) @@ (p2 :> 5)
=============================================================================
