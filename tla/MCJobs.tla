------------------------------- MODULE MCJobs -------------------------------
(* Instances of Jobs for TLC. *)
EXTENDS Jobs, TLC

CONSTANTS w1, w2, c1, c2, web, k1

\* One server process, as the deployment notes recommend.
OneProcess == [x \in Worker \union Client |-> web]
=============================================================================
