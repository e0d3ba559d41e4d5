----------------------------- MODULE MCBilling ------------------------------
(* Two users who check out, pay, leave and come back; one webhook at a time. *)
EXTENDS Billing
CONSTANTS u1, u2, premium, registered

MCMaxChanges == <<2, 1>>
=============================================================================
