---------------------------- MODULE MCGovernance ----------------------------
(* Instances of Governance for TLC. *)
EXTENDS Governance, TLC

CONSTANTS t1, t2, d1, d2

\* A contract that the first audits satisfy, and one that no audit can at first.
Written2 == {[type |-> "text", rules |-> {}], [type |-> "numeric", rules |-> {1}]}
CleanedNames == d1 :> d2 @@ d2 :> Null
Symmetry == Permutations(Thread)
=============================================================================
