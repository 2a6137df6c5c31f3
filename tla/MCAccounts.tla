----------------------------- MODULE MCAccounts -----------------------------
(* Instances of Accounts for TLC. *)
EXTENDS Accounts, TLC

CONSTANTS t1, t2, u1, u2, u3

\* Two members of whom one or both are owners, and somebody outside.
Founded == {[u \in User |-> CASE u = u1 -> "owner" [] u = u2 -> r [] u = u3 -> Null] :
              r \in {"owner", "admin"}}
Symmetry == Permutations(Thread)
=============================================================================
