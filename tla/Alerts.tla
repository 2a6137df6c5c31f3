------------------------------- MODULE Alerts -------------------------------
(***************************************************************************)
(* Alerts of a workspace (src/app/api/routes/alerts.py) and operational    *)
(* alerts (src/app/services/operational_reliability.py).                   *)
(*                                                                         *)
(* Nothing is alerted when it happens: opening or exporting the alerts     *)
(* first reads what is wrong now, from tables of which only the newest     *)
(* rows are looked at, adds a row for every fingerprint that has none, and *)
(* commits all or nothing.  Alerts are then worked on by users.            *)
(*                                                                         *)
(* What happens is a history of audits, rule failures, contract            *)
(* validations, drift events and scheduled runs.                           *)
(***************************************************************************)
EXTENDS Integers, Sequences, FiniteSets, FiniteSetsExt

CONSTANTS
  Thread,       \* request threads
  Dataset,      \* datasets, which also name their contract
  Threshold,    \* score thresholds that users set
  Limit,        \* Limit[kind]: how many of the newest rows a sync looks at
  Kinds,        \* bound: the kinds of what happens
  MaxHappenings,\* bound: what happens
  MaxRequests,  \* bound: requests that begin
  Cooldown,     \* ops_alert_cooldown_minutes, in ticks
  MaxTicks      \* bound: ticks of the clock

ASSUME AlertsAssumption ==
  /\ Threshold \subseteq Nat
  /\ \E low, high \in Threshold : \A limit \in Threshold : low <= limit /\ limit <= high
  /\ Limit \in [{"audit", "rule", "contract", "schedule"} -> Nat]
  /\ Kinds \subseteq {"audit", "rule", "contract", "drift", "schedule"}
  /\ {MaxHappenings, MaxRequests, Cooldown, MaxTicks} \subseteq Nat

Scores == {Min(Threshold) - 1, Max(Threshold)}  \* below every threshold, below none

\* high is of audits: whether they have issues of high severity; over is whether
\* these are resolved, or a later validation or version settled contract or drift.
Happening == [kind: Kinds, of: Dataset, score: Scores, high: BOOLEAN, over: BOOLEAN]

Action == {"read", "unread", "acknowledge", "resolve", "dismiss", "reopen"}
Status == {"new", "read", "acknowledged", "resolved", "dismissed"}
\* The columns of an alert that its lifecycle writes; times are there or not.
Columns == [status: Status, read: BOOLEAN, acknowledged: BOOLEAN, resolved: BOOLEAN, dismissed: BOOLEAN]
\* An operational alert was made at a time, as the nth, by an evaluation that saw so many.
Opened == [at: Nat, nth: Nat, saw: Nat]

VARIABLES
  happened,    \* what happened, oldest first
  alerts,      \* the rows, by fingerprint
  threshold,   \* the preference of the user who syncs
  opened,      \* operational alerts, all of one type and "open"
  now,         \* the clock of the operational alerts
  req,         \* req[t]: the request that thread t is working on
  requests,    \* requests so far (for the bound)
  decided,     \* history: each alert as its actions, one after another, make it
  synced,      \* history: how much had happened when the newest committed sync read
  mingled      \* history: alerts that overlapping actions were on

rows == <<happened, alerts, threshold, opened>>
histories == <<decided, synced, mingled>>
alertVars == <<rows, now, req, requests, histories>>

Idle == [pc |-> "idle"]
Enter(t, r) == /\ req[t] = Idle /\ requests < MaxRequests
               /\ requests' = requests + 1 /\ req' = [req EXCEPT ![t] = r]
Done(t) == req' = [req EXCEPT ![t] = Idle] /\ UNCHANGED requests

-----------------------------------------------------------------------------
(* What is wrong.                                                          *)

Of(kind) == {i \in DOMAIN happened : happened[i].kind = kind}
\* order_by(... desc()).limit(n)
Recent(n, S) == {i \in S : Cardinality({j \in S : j > i}) < n}

\* The newest audit of each dataset, among the newest audits.
LatestAudits == LET recent == Recent(Limit["audit"], Of("audit")) IN
  {i \in recent : \A j \in recent : happened[j].of = happened[i].of => j <= i}

ScoreAlerts(limit) == {<<"score", i, limit>> : i \in {a \in LatestAudits : happened[a].score < limit}}
IssueAlerts == {<<"issues", i, 0>> : i \in {a \in LatestAudits : happened[a].high /\ ~happened[a].over}}
RuleAlerts == {<<"rule", i, 0>> : i \in Recent(Limit["rule"], Of("rule"))}
ContractAlerts == {<<"contract", i, 0>> : i \in Recent(Limit["contract"], {c \in Of("contract") : ~happened[c].over})}
DriftAlerts == {<<"drift", i, 0>> : i \in {d \in Of("drift") : ~happened[d].over}}
ScheduleAlerts == {<<"schedule", i, 0>> : i \in Recent(Limit["schedule"], Of("schedule"))}

\* All fingerprints that a sync comes to.
Wrong(limit) == UNION {ScoreAlerts(limit), IssueAlerts, RuleAlerts, ContractAlerts, DriftAlerts, ScheduleAlerts}

\* Only audits have a score, and issues.
Happen ==
  /\ Len(happened) < MaxHappenings
  /\ \E h \in Happening :
       /\ h.kind # "audit" => h.score = Max(Scores) /\ ~h.high
       /\ ~h.over
       /\ happened' = Append(happened, h)
  /\ UNCHANGED <<alerts, threshold, opened, now, req, requests, histories>>

\* An audit's issues are resolved or reopened, a contract passes when it is validated
\* again, and drift is resolved or comes back with a later version.  That the same
\* version of a contract fails again, then as the newest, is left out.
Settle(i) ==
  /\ \/ happened[i].kind = "audit" /\ happened[i].high
     \/ happened[i].kind = "contract" /\ ~happened[i].over
     \/ happened[i].kind = "drift"
  /\ happened' = [happened EXCEPT ![i].over = ~@]
  /\ UNCHANGED <<alerts, threshold, opened, now, req, requests, histories>>

-----------------------------------------------------------------------------
(* Syncs.                                                                  *)

Fingerprints == DOMAIN alerts
New == [status |-> "new", read |-> FALSE, acknowledged |-> FALSE, resolved |-> FALSE, dismissed |-> FALSE]

\* sync_alerts reads all it needs, the rows of the fingerprints too.
BeginSync(t) ==
  LET wrong == Wrong(threshold) IN
  /\ Enter(t, [pc |-> "sync", wrong |-> wrong, missing |-> wrong \ Fingerprints, upTo |-> Len(happened)])
  /\ UNCHANGED <<rows, now, histories>>

\* Mutant: an alert that is found again is new again.
Renewed(old, wrong) == [f \in DOMAIN old |-> IF f \in wrong THEN New ELSE old[f]]
\* _upsert writes the severity and the texts of a row there is, never its status.
Refreshed(old, wrong) == old

\* Mutant: only the first of the missing rows is inserted.
InsertedOne(q) == {CHOOSE f \in q.missing : TRUE}
Inserted(q) == q.missing

\* The commit: a fingerprint that another sync inserted meanwhile fails it all.
CommitSync(t) ==
  LET q == req[t] IN
  /\ q.pc = "sync"
  /\ \/ /\ q.missing \intersect Fingerprints = {}
        /\ LET old == Refreshed(alerts, q.wrong)
               new == IF q.missing = {} THEN {} ELSE Inserted(q) IN
           alerts' = [f \in Fingerprints \union new |-> IF f \in Fingerprints THEN old[f] ELSE New]
        /\ synced' = Max({synced, q.upTo})
        /\ decided' = [f \in Fingerprints \union q.missing |-> IF f \in Fingerprints THEN decided[f] ELSE New]
     \/ /\ q.missing \intersect Fingerprints # {}
        /\ UNCHANGED <<alerts, synced, decided>>
  /\ Done(t)
  /\ UNCHANGED <<happened, threshold, opened, now, mingled>>

SavePreferences(limit) ==
  /\ requests < MaxRequests /\ requests' = requests + 1
  /\ threshold' = limit
  /\ UNCHANGED <<happened, alerts, opened, now, req, histories>>

-----------------------------------------------------------------------------
(* Actions on an alert: the row is read, and the columns that differ written. *)

\* update_alert, on the row as it was read.
Acted(row, action) ==
  CASE action = "read" -> [row EXCEPT !.read = TRUE, !.status = IF @ = "new" THEN "read" ELSE @]
    [] action = "unread" -> [row EXCEPT !.read = FALSE, !.status = "new"]
    [] action = "acknowledge" -> [row EXCEPT !.status = "acknowledged", !.acknowledged = TRUE]
    [] action = "resolve" -> [row EXCEPT !.status = "resolved", !.resolved = TRUE]
    [] action = "dismiss" -> [row EXCEPT !.status = "dismissed", !.dismissed = TRUE]
    [] action = "reopen" -> [row EXCEPT !.status = "new", !.resolved = FALSE, !.dismissed = FALSE, !.acknowledged = FALSE]

BeginAction(t, f, action) ==
  /\ f \in Fingerprints
  /\ Enter(t, [pc |-> "act", on |-> f, action |-> action, row |-> alerts[f]])
  /\ UNCHANGED <<rows, now, histories>>

\* A time that is set to a later one is written too; it stays one that is set.
Sets(action, column) == \/ action = "read" /\ column = "read"
                        \/ action = "acknowledge" /\ column = "acknowledged"
                        \/ action = "resolve" /\ column = "resolved"
                        \/ action = "dismiss" /\ column = "dismissed"

Written(f, old, new, action) ==
  [c \in DOMAIN new |-> IF new[c] # old[c] \/ Sets(action, c) THEN new[c] ELSE alerts[f][c]]

CommitAction(t) ==
  LET q == req[t] IN
  /\ q.pc = "act"
  /\ alerts' = [alerts EXCEPT ![q.on] = Written(q.on, q.row, Acted(q.row, q.action), q.action)]
  /\ decided' = [decided EXCEPT ![q.on] = Acted(@, q.action)]
  /\ mingled' = IF \E u \in Thread \ {t} : req[u].pc = "act" /\ req[u].on = q.on
                  THEN mingled \union {q.on} ELSE mingled
  /\ Done(t)
  /\ UNCHANGED <<happened, threshold, opened, now, synced>>

-----------------------------------------------------------------------------
(* Operational alerts of one type, whose condition holds.                  *)

\* Mutant: no earlier alert is looked for.
RecentNone == {}
RecentOpen == {a \in opened : a.at >= now - Cooldown}

\* evaluate_operational_alerts: an open alert of the last minutes is looked for.
BeginEvaluation(t) ==
  /\ Enter(t, [pc |-> "evaluate", at |-> now, found |-> RecentOpen # {}, saw |-> Cardinality(opened)])
  /\ UNCHANGED <<rows, now, histories>>

CommitEvaluation(t) ==
  LET q == req[t] IN
  /\ q.pc = "evaluate"
  /\ opened' = IF q.found THEN opened ELSE opened \union {[at |-> q.at, nth |-> Cardinality(opened) + 1, saw |-> q.saw]}
  /\ Done(t)
  /\ UNCHANGED <<happened, alerts, threshold, now, decided, synced, mingled>>

Tick ==
  /\ now < MaxTicks /\ now' = now + 1
  /\ UNCHANGED <<rows, req, requests, histories>>

-----------------------------------------------------------------------------

Init ==
  /\ happened = <<>>
  /\ alerts = [f \in {} |-> New] /\ decided = [f \in {} |-> New]
  /\ threshold \in Threshold
  /\ opened = {} /\ now = 0
  /\ req = [t \in Thread |-> Idle] /\ requests = 0
  /\ synced = 0 /\ mingled = {}

Next ==
  \/ Happen \/ \E i \in DOMAIN happened : Settle(i)
  \/ \E limit \in Threshold : SavePreferences(limit)
  \/ Tick
  \/ \E t \in Thread :
       \/ BeginSync(t) \/ CommitSync(t)
       \/ \E f \in Fingerprints, action \in Action : BeginAction(t, f, action)
       \/ CommitAction(t)
       \/ BeginEvaluation(t) \/ CommitEvaluation(t)

Spec == Init /\ [][Next]_alertVars

-----------------------------------------------------------------------------
(* Properties                                                              *)

\* An alert is what the actions on it made it, one after another: a sync that finds
\* it again does not take a decision back, and its times agree with its status.
\* Actions that overlap on one alert write what each of them read.
ActionsKept == \A f \in Fingerprints \ mingled : alerts[f] = decided[f]

\* What was wrong when a sync read, and that sync or a later one was committed, has an
\* alert: a failed rule or run among the newest of its kind that a sync looks at,
\* and a dataset's newest audit that is below every threshold.
Superseded(i) == \E j \in Of("audit") : j > i /\ happened[j].of = happened[i].of
Alerted(i, found) == LET h == happened[i] IN
  /\ h.kind \in {"rule", "schedule"} /\ i \in Recent(Limit[h.kind], Of(h.kind)) => <<h.kind, i, 0>> \in found
  /\ h.kind = "audit" /\ h.score = Min(Scores) /\ ~Superseded(i) /\ i \in Recent(Limit["audit"], Of("audit"))
       => \E limit \in Threshold : <<"score", i, limit>> \in found
FailuresAlerted == \A i \in 1..synced : Alerted(i, Fingerprints)

\* "Threshold-driven persistent operational alerts with cooldown deduplication": two
\* alerts of one type are more than the cooldown apart, unless neither evaluation saw
\* the other's alert.
CooldownKept ==
  \A a, b \in opened : a.nth < b.nth => a.nth > b.saw \/ b.at - a.at > Cooldown

\* What a request may be: a sync, an action on an alert, or an evaluation.
Fingerprint == {"score", "issues", "rule", "contract", "drift", "schedule"} \X Nat \X Nat
Request ==
  {Idle}
    \union [pc: {"sync"}, wrong: SUBSET Fingerprint, missing: SUBSET Fingerprint, upTo: Nat]
    \union [pc: {"act"}, on: Fingerprint, action: Action, row: Columns]
    \union [pc: {"evaluate"}, at: Nat, found: BOOLEAN, saw: Nat]

AlertsTypeOK ==
  /\ happened \in Seq(Happening)
  /\ Fingerprints \subseteq Fingerprint
  /\ alerts \in [Fingerprints -> Columns] /\ decided \in [Fingerprints -> Columns]
  /\ threshold \in Threshold
  /\ opened \subseteq Opened
  /\ now \in Nat /\ req \in [Thread -> Request] /\ requests \in Nat
  /\ synced \in 0..Len(happened) /\ mingled \subseteq Fingerprints

\* The invariant behind the properties.  A sync found what was wrong when it read, and
\* all of it that is not to be inserted has its row.
SyncSees(r) ==
  r.pc = "sync" =>
    /\ r.upTo <= Len(happened)
    /\ r.wrong \ r.missing \subseteq Fingerprints
    /\ \A i \in 1..r.upTo : Alerted(i, r.wrong)
\* The row that an action has read is the row there is, unless another came between.
ActsOnRow(r) ==
  r.pc = "act" => r.on \in Fingerprints /\ (r.on \in mingled \/ r.row = alerts[r.on])
\* An evaluation that found nothing is late by then for every alert it could see.
OpenedNumbered == IsFiniteSet(opened) /\ \A a \in opened : a.nth <= Cardinality(opened)
SawNone(r) ==
  r.pc = "evaluate" =>
    /\ r.saw <= Cardinality(opened)
    /\ r.found \/ \A a \in opened : a.nth > r.saw \/ r.at - a.at > Cooldown

AlertsInv ==
  /\ \A t \in Thread : SyncSees(req[t]) /\ ActsOnRow(req[t]) /\ SawNone(req[t])
  /\ OpenedNumbered
  /\ ActionsKept /\ FailuresAlerted /\ CooldownKept
=============================================================================
