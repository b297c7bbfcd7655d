----------------------------- MODULE MCAccounts -----------------------------
(* Accounts on a few devices, for TLC. *)
EXTENDS Accounts, TLC

\* Usernames for the members, each their own.
MCMemberName == CHOOSE f \in [Member -> Name] : \A m, n \in Member : f[m] = f[n] => m = n

\* Presses are interchangeable.
Symmetry == Permutations(Attempt)

=============================================================================
