-------------------------- MODULE AuthenticationMC --------------------------
(* Signing in and out, for TLC: two logins of one account, two tokens, two *)
(* requests.  Nothing tells one of them from the other.                    *)
EXTENDS Authentication, TLC

Symmetry ==
    Permutations(Logins) \cup Permutations(Jtis) \cup Permutations(Arrivals)

=============================================================================
