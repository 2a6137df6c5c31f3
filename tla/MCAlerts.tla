------------------------------ MODULE MCAlerts ------------------------------
(* Instances of Alerts for TLC. *)
EXTENDS Alerts, TLC

CONSTANTS t1, t2, d1, d2

OneOrTwo == [kind \in {"audit", "rule", "contract", "schedule"} |-> IF kind = "audit" THEN 2 ELSE 1]
Symmetry == Permutations(Thread) \union Permutations(Dataset)
=============================================================================
