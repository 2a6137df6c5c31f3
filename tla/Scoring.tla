------------------------------- MODULE Scoring -------------------------------
(***************************************************************************)
(* The reliability score of an audit (src/app/scoring.py), as the lifecycle *)
(* of its issues changes it.  Penalties are in thousandths of a point, cut *)
(* off after each factor; the code computes with floating point.           *)
(***************************************************************************)
EXTENDS Integers, FiniteSets, FiniteSetsExt, Functions

CONSTANTS
  AuditIssues,    \* an audit's issues: id -> [severity, bucket, breadth, confidence, ruled],
             \*   breadth and confidence as factors in thousandths and hundredths
  DuplicatePenalty, \* what the rate of duplicate rows costs, 0 if there are none
  Discounts  \* bound: accepted_risk_discount, in hundredths

ScoringIssue == DOMAIN AuditIssues
ASSUME ScoringAssumption ==
  /\ AuditIssues \in [ScoringIssue -> [severity: {"critical", "high", "medium", "low"},
                                  bucket: {"completeness", "validity", "consistency", "uniqueness", "reliability"},
                                  breadth: 180..1000, confidence: 75..100, ruled: BOOLEAN]]
  /\ IsFiniteSet(ScoringIssue)
  /\ DuplicatePenalty \in 0..15000
  /\ Discounts \subseteq 0..100

InactiveStatuses == {"fixed", "resolved", "ignored"}
IssueStatus == InactiveStatuses \union {"open", "triaged", "in_progress", "blocked", "accepted_risk", "reopened"}

VARIABLES
  status,   \* status[i]: the status of issue i
  context   \* [criticality, discount], the scoring context

scoringVars == <<status, context>>

SeverityWeight == [critical |-> 24, high |-> 14, medium |-> 7, low |-> 3]
\* Of the dimensions, in hundredths.
DimensionWeight == [completeness |-> 24, validity |-> 22, consistency |-> 16, uniqueness |-> 16, reliability |-> 22]
Criticality == [low |-> 85, medium |-> 100, high |-> 115, mission_critical |-> 130]
RuleMultiplier == 110

\* Mutant: work in progress is counted twice.
BusyMultiplier(st, ctx) == IF st = "in_progress" THEN 190 ELSE IF st = "accepted_risk" THEN ctx.discount ELSE 100
StatusMultiplier(st, ctx) == IF st = "in_progress" THEN 90 ELSE IF st = "accepted_risk" THEN ctx.discount ELSE 100

ActiveIssues(st) == {i \in ScoringIssue : st[i] \notin InactiveStatuses}
Times(n, hundredths) == (n * hundredths) \div 100
Penalty(i, st, ctx) ==
  LET weighed   == Times(SeverityWeight[AuditIssues[i].severity] * AuditIssues[i].breadth, AuditIssues[i].confidence)
      confirmed == Times(weighed, IF AuditIssues[i].ruled THEN RuleMultiplier ELSE 100) IN
  Times(Times(confirmed, Criticality[ctx.criticality]), StatusMultiplier(st[i], ctx))
Deduction(bucket, st, ctx) ==
  SumFunction([i \in {j \in ActiveIssues(st) : AuditIssues[j].bucket = bucket} |-> Penalty(i, st, ctx)])
    + (IF bucket = "uniqueness" THEN Times(DuplicatePenalty, Criticality[ctx.criticality]) ELSE 0)

\* Python's round: to the even one of two that are as near.
Rounded(n, unit) == LET q == n \div unit  r == n % unit IN
  IF 2 * r > unit \/ (2 * r = unit /\ q % 2 = 1) THEN q + 1 ELSE q
DimensionScore(bucket, st, ctx) == Rounded(Max({0, 100000 - Deduction(bucket, st, ctx)}), 1000)
Overall(st, ctx) ==
  Rounded(SumFunction([b \in DOMAIN DimensionWeight |-> DimensionScore(b, st, ctx) * DimensionWeight[b]]), 100)

\* update_issue_status, where a reopened issue is open, and score/recalculate.
ChangeStatus(i, new) ==
  status' = [status EXCEPT ![i] = IF new = "reopened" THEN "open" ELSE new] /\ UNCHANGED context
Recalculate(criticality, discount) == context' = [criticality |-> criticality, discount |-> discount] /\ UNCHANGED status

ScoringInit ==
  /\ status = [i \in ScoringIssue |-> "open"]
  /\ context = [criticality |-> "medium", discount |-> 25]
ScoringNext ==
  \/ \E i \in ScoringIssue, new \in IssueStatus : ChangeStatus(i, new)
  \/ \E criticality \in DOMAIN Criticality, discount \in Discounts : Recalculate(criticality, discount)
ScoringSpec == ScoringInit /\ [][ScoringNext]_scoringVars

-----------------------------------------------------------------------------
(* Properties.                                                             *)

\* "Fixed and ignored issues no longer reduce the score", which is rounded per
\* dimension and again in all: an issue that is settled, or that was open and is
\* worked on, never lowers the score, and one that is opened never raises it; a
\* context that is stricter never raises it.
SettlingNeverLowers ==
  [][/\ status' # status /\ (\A i \in ScoringIssue : status[i] = "open" \/ status'[i] = status[i] \/ status'[i] \in InactiveStatuses)
          => Overall(status', context') >= Overall(status, context)
     /\ status' # status /\ (\A i \in ScoringIssue : status'[i] = "open" \/ status'[i] = status[i] \/ status[i] \in InactiveStatuses)
          => Overall(status', context') <= Overall(status, context)
     /\ context' # context /\ Criticality[context.criticality] <= Criticality[context'.criticality] /\ context.discount <= context'.discount
          => Overall(status', context') <= Overall(status, context)]_scoringVars
=============================================================================
