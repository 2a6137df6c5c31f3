---------------------------- MODULE MCAuditImport ----------------------------
(* Instances of AuditImport for TLC. *)
EXTENDS AuditImport, TLC

CONSTANTS w1, w2, c1, c2, web, next, k1, k2, n1, u1, u2

\* A rolling deployment: the old server and the new one run side by side.
TwoServers == w1 :> web @@ c1 :> web @@ w2 :> next @@ c2 :> next

\* Storage keys are drawn at random.
PathSymmetry == Permutations(Path)

-----------------------------------------------------------------------------
\* Bounds: three instances, which one behaviour stays in.
Instance == {"retry", "servers", "registry"}
VARIABLE instance

\* One content, uploaded twice to one server, a retry and a deletion; one content,
\* uploaded to both servers, and a crash; two contents of one name and a deletion.
Within ==
  /\ instance # "registry" => \A u \in Path : upload[u] # Null => upload[u].key = k1
  /\ instance # "servers" => holding[c2] = Null
  /\ instance = "registry" => client[c2].pc = "idle"
  /\ instance # "retry" => retries = 0
  /\ instance # "servers" => crashes = 0
  /\ instance = "servers" => deletes = 0

MCInit == ImportInit /\ instance \in Instance
MCNext == UNCHANGED instance /\ ImportNext /\ Within'
MCSpec == MCInit /\ [][MCNext]_<<vars, importVars, instance>>
=============================================================================
