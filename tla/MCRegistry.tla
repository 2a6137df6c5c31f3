----------------------------- MODULE MCRegistry -----------------------------
(* Instances of Registry for TLC. *)
EXTENDS Registry, TLC

CONSTANTS t1, t2, orders, cleanedOrders, patchFile

CleanedNames == orders :> cleanedOrders @@ cleanedOrders :> Null

Symmetry == Permutations(Thread)
=============================================================================
