------------------------------ MODULE MCAudits ------------------------------
(***************************************************************************)
(* Issues, Remediation, Scoring and Drift for TLC.  They share no state: a *)
(* behaviour is one of one of them while the others rest.                  *)
(***************************************************************************)
EXTENDS Issues, Remediation, Scoring, Drift, TLC

CONSTANTS t1, t2, i1, i2, medium, high

-----------------------------------------------------------------------------
\* Resolving with a note in the request or before, reopening, ignoring, and
\* texts alone, the empty one among them.
Body3(s, n, e) == [status |-> s, note |-> n, evidence |-> e]
Bodies == {Body3("resolved", "text", Null), Body3("resolved", Null, Null), Body3("reopened", Null, Null),
           Body3("ignored", "", Null), Body3(Null, "text", "text")}
Symmetry == Permutations(Thread)

-----------------------------------------------------------------------------
(* Texts: "none" is null, "blank" is space, "" what is left of it.         *)

MCMissing == {"none", "blank", ""}
Order == <<"none", "", "blank", " a", "#", "#A", "#B", "#a", "#b", "#t", "0", "A", "B", "C", "D", "Not Provided",
           "Not provided", "a", "b", "c", "d">>
MCValue == ToSet(Order)
Where(f) == [v \in MCValue |-> IF v \in DOMAIN f THEN f[v] ELSE v]
MCStrip == Where(("blank" :> "") @@ (" a" :> "a"))
MCLower == Where(("A" :> "a") @@ ("B" :> "b") @@ ("C" :> "c") @@ ("D" :> "d") @@ ("Not Provided" :> "Not provided"))
MCTitle == Where(("blank" :> "") @@ (" a" :> "A") @@ ("a" :> "A") @@ ("b" :> "B") @@ ("c" :> "C") @@ ("d" :> "D")
                 @@ ("Not provided" :> "Not Provided"))
MCToken == Where(("a" :> "#a") @@ (" a" :> "#a") @@ ("A" :> "#A") @@ ("b" :> "#b") @@ ("B" :> "#B") @@ ("Not provided" :> "#")
                 @@ ("Not Provided" :> "#t"))
MCRank == [v \in MCValue |-> CHOOSE k \in DOMAIN Order : Order[k] = v]

Row == {"none", "a", " a"} \X {"blank", "a", "A"}
\* Rows with keys of their own make rates low.
Others == <<<<"b", "a">>, <<"c", "a">>, <<"d", "a">>, <<"B", "a">>>>
MCTables == {<<f[1], g[1], g[2]>> : f \in [{1} -> {<<"a", "a">>, <<"none", "A">>}], g \in [1..2 -> Row]}
            \union {Others \o g : g \in [1..2 -> Row]}
MCChecks == <<[title |-> "contact columns disagree", category |-> "integrity", severity |-> "high", columns |-> {1, 2},
               bad |-> {r \in [1..2 -> MCValue] : r[1] \in MCMissing /\ r[2] = "A"}]>>

-----------------------------------------------------------------------------
MCAuditIssues ==
  (1 :> [severity |-> "high", bucket |-> "uniqueness", breadth |-> 590, confidence |-> 98, ruled |-> TRUE]) @@
  (2 :> [severity |-> "low", bucket |-> "uniqueness", breadth |-> 180, confidence |-> 75, ruled |-> FALSE]) @@
  (3 :> [severity |-> "critical", bucket |-> "validity", breadth |-> 1000, confidence |-> 100, ruled |-> FALSE])

MCProfiles == {[type |-> "text", missing |-> 0, unique |-> 10], [type |-> "numeric", missing |-> 10, unique |-> 13],
               [type |-> "empty", missing |-> 100, unique |-> 0]}
\* Columns x and y, and one whose name is theirs joined.
MCJoined == ({"x"} :> "x") @@ ({"y"} :> "y") @@ ({"x,y"} :> "x,y") @@ ({"x", "y"} :> "x,y") @@
            ({"x", "x,y"} :> "x,x,y") @@ ({"y", "x,y"} :> "x,y,y") @@ ({"x", "y", "x,y"} :> "x,x,y,y")
\* All profiles of x and y, and those with the third column where all are texts.
MCImported == UNION {[C -> MCProfiles] : C \in (SUBSET {"x", "y"}) \ {{}}}
              \union {[c \in C \union {"x,y"} |-> [type |-> "text", missing |-> 0, unique |-> 10]] : C \in SUBSET {"x", "y"}}

-----------------------------------------------------------------------------
VARIABLE part \* the one that moves

RemediationRests ==
  /\ source = <<<<"none", "a">>>> /\ table = source /\ origin = <<1>>
  /\ selected = <<CHOOSE issue \in Detected(source) : TRUE>> /\ todo = selected
  /\ options = [fill |-> "mode", mask |-> TRUE] /\ stats = [cells |-> 0, columns |-> {}, removed |-> 0]
DriftRests == versions = <<CHOOSE p \in Imported : TRUE>>

MCInit ==
  /\ Init
  /\ ScoringInit
  /\ \/ part = "issues" /\ RemediationRests /\ DriftRests
     \/ part = "remediation" /\ RemediationInit /\ DriftRests
     \/ part = "scoring" /\ RemediationRests /\ DriftRests
     \/ part = "drift" /\ DriftInit /\ RemediationRests
MCNext ==
  /\ UNCHANGED part
  /\ \/ part = "issues" /\ Next /\ UNCHANGED <<remediationVars, scoringVars, versions>>
     \/ part = "remediation" /\ Correct /\ UNCHANGED <<issueVars, scoringVars, versions>>
     \/ part = "scoring" /\ ScoringNext /\ UNCHANGED <<issueVars, remediationVars, versions>>
     \/ part = "drift" /\ DriftNext /\ UNCHANGED <<issueVars, remediationVars, scoringVars>>
MCSpec == MCInit /\ [][MCNext]_<<part, issueVars, remediationVars, scoringVars, versions>>
=============================================================================
