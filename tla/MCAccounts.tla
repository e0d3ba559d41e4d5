----------------------------- MODULE MCAccounts -----------------------------
(* An administrator and another user, whom Google and GitHub know as well:
   two handlers at work at once. *)
EXTENDS Accounts, TLC
CONSTANTS a, b, p1, p2, google, github

Mail(u, primary, verified) ==
  [email |-> u, primary |-> primary, verified |-> verified]
MCEmails ==
  google :> <<Mail(b, TRUE, TRUE)>>
    @@ github :> <<Mail(a, FALSE, TRUE), Mail(b, TRUE, FALSE)>>

Symmetry == Permutations(Passwords)
=============================================================================
