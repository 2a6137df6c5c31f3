---------------------------- MODULE AlertsProofs ----------------------------
(***************************************************************************)
(* Proofs about Alerts: its type, and that a sync leaves out nothing that  *)
(* it could see, that it takes back no decision, and that operational      *)
(* alerts keep their cooldown, for any number of threads, datasets,        *)
(* happenings and requests.                                                *)
(***************************************************************************)
EXTENDS Alerts, FiniteSetTheorems, TLAPS

-----------------------------------------------------------------------------
(* Types.                                                                  *)

\* What a request is, by what it is about to commit.
LEMMA Kinds3 ==
  ASSUME NEW r \in Request
  PROVE  /\ r.pc = "sync" => r.wrong \subseteq Fingerprint /\ r.missing \subseteq Fingerprint /\ r.upTo \in Nat
         /\ r.pc = "act" => r.on \in Fingerprint /\ r.action \in Action /\ r.row \in Columns
         /\ r.pc = "evaluate" => r.at \in Nat /\ r.found \in BOOLEAN /\ r.saw \in Nat
         /\ r.pc \in {"idle", "sync", "act", "evaluate"}
  BY DEF Request, Idle

LEMMA HappenedTyped ==
  ASSUME AlertsTypeOK
  PROVE  /\ Len(happened) \in Nat /\ DOMAIN happened = 1..Len(happened)
         /\ happened \in [DOMAIN happened -> Happening]
         /\ \A kind : Of(kind) \subseteq DOMAIN happened
  BY DEF AlertsTypeOK, Of

LEMMA ActedTyped ==
  ASSUME NEW row \in Columns, NEW action \in Action
  PROVE  Acted(row, action) \in Columns
<1>1. CASE action = "read"
  BY <1>1 DEF Acted, Columns, Status
<1>2. CASE action = "unread"
  BY <1>2 DEF Acted, Columns, Status
<1>3. CASE action = "acknowledge"
  BY <1>3 DEF Acted, Columns, Status
<1>4. CASE action = "resolve"
  BY <1>4 DEF Acted, Columns, Status
<1>5. CASE action = "dismiss"
  BY <1>5 DEF Acted, Columns, Status
<1>6. CASE action = "reopen"
  BY <1>6 DEF Acted, Columns, Status
<1>. QED BY <1>1, <1>2, <1>3, <1>4, <1>5, <1>6 DEF Action

LEMMA WrittenTyped ==
  ASSUME AlertsTypeOK, NEW f \in Fingerprints, NEW old \in Columns, NEW new \in Columns, NEW action
  PROVE  Written(f, old, new, action) \in Columns
  BY DEF Written, Columns, AlertsTypeOK

LEMMA Named ==
  ASSUME NEW name \in {"issues", "rule", "contract", "drift", "schedule"}, NEW S \in SUBSET Nat
  PROVE  {<<name, i, 0>> : i \in S} \subseteq Fingerprint
  BY DEF Fingerprint

LEMMA WrongTyped ==
  ASSUME AlertsTypeOK, NEW limit \in Threshold
  PROVE  Wrong(limit) \subseteq Fingerprint
<1>1. DOMAIN happened \subseteq Nat /\ limit \in Nat
  BY HappenedTyped, AlertsAssumption
<1>2. LatestAudits \subseteq DOMAIN happened
  BY DEF LatestAudits, Recent, Of
<1>3. ScoreAlerts(limit) \subseteq Fingerprint
  BY <1>1, <1>2 DEF ScoreAlerts, Fingerprint
<1>4. IssueAlerts \subseteq Fingerprint
  BY <1>1, <1>2 DEF IssueAlerts, Fingerprint
<1>5. \A n, S : Recent(n, S) \subseteq S
  BY DEF Recent
<1>6. \A kind : Of(kind) \subseteq Nat
  BY <1>1 DEF Of
<1>7. RuleAlerts \subseteq Fingerprint /\ ScheduleAlerts \subseteq Fingerprint
  <2>1. Recent(Limit["rule"], Of("rule")) \subseteq Nat /\ Recent(Limit["schedule"], Of("schedule")) \subseteq Nat
    BY <1>5, <1>6
  <2>. QED BY <2>1 DEF RuleAlerts, ScheduleAlerts, Fingerprint
<1>8. ContractAlerts \subseteq Fingerprint /\ DriftAlerts \subseteq Fingerprint
  <2>1. Recent(Limit["contract"], {c \in Of("contract") : ~happened[c].over}) \subseteq Nat
    BY <1>5, <1>6
  <2>2. {d \in Of("drift") : ~happened[d].over} \subseteq Nat
    BY <1>6
  <2>. QED BY <2>1, <2>2, Named DEF ContractAlerts, DriftAlerts
<1>. QED BY <1>3, <1>4, <1>7, <1>8 DEF Wrong

LEMMA Larger ==
  ASSUME NEW m \in Nat, NEW n \in Nat
  PROVE  /\ Max({m, n}) \in {m, n}
         /\ m <= Max({m, n}) /\ n <= Max({m, n})
<1>1. \E x \in {m, n} : \A y \in {m, n} : x >= y
  OBVIOUS
<1>. QED BY <1>1 DEF Max

\* The columns of alerts and requests stay; what happens and the clock go on.
LEMMA TypeStep == AlertsTypeOK /\ (\A t \in Thread : SyncSees(req[t]) /\ ActsOnRow(req[t])) /\ OpenedNumbered /\ Next => AlertsTypeOK'
<1>. SUFFICES ASSUME AlertsTypeOK, \A t \in Thread : SyncSees(req[t]) /\ ActsOnRow(req[t]), OpenedNumbered, Next
              PROVE  AlertsTypeOK'
  OBVIOUS
<1>. USE HappenedTyped
<1>1. CASE Happen
  <2>1. PICK h \in Happening : happened' = Append(happened, h)
    BY <1>1 DEF Happen
  <2>2. happened' \in Seq(Happening) /\ Len(happened') = Len(happened) + 1
    BY <2>1 DEF AlertsTypeOK
  <2>. QED BY <1>1, <2>2 DEF Happen, rows, histories, AlertsTypeOK, Fingerprints
<1>2. ASSUME NEW i \in DOMAIN happened, Settle(i) PROVE AlertsTypeOK'
  <2>1. [happened[i] EXCEPT !.over = ~@] \in Happening
    BY DEF Happening
  <2>2. happened' = [happened EXCEPT ![i] = [happened[i] EXCEPT !.over = ~@]]
    BY <1>2 DEF Settle
  <2>3. happened' \in [1..Len(happened) -> Happening]
    BY <2>1, <2>2
  <2>4. happened' \in Seq(Happening) /\ Len(happened') = Len(happened)
    BY <2>3
  <2>. QED BY <1>2, <2>4 DEF Settle, rows, histories, AlertsTypeOK, Fingerprints
<1>3. ASSUME NEW limit \in Threshold, SavePreferences(limit) PROVE AlertsTypeOK'
  BY <1>3 DEF SavePreferences, rows, histories, AlertsTypeOK, Fingerprints
<1>4. CASE Tick
  BY <1>4 DEF Tick, rows, histories, AlertsTypeOK, Fingerprints
<1>5. ASSUME NEW t \in Thread, BeginSync(t) PROVE AlertsTypeOK'
  <2>. DEFINE r == [pc |-> "sync", wrong |-> Wrong(threshold), missing |-> Wrong(threshold) \ Fingerprints, upTo |-> Len(happened)]
  <2>1. r \in Request
    BY WrongTyped DEF Request, AlertsTypeOK
  <2>. QED BY <1>5, <2>1 DEF BeginSync, Enter, rows, histories, AlertsTypeOK, Fingerprints
<1>6. ASSUME NEW t \in Thread, CommitSync(t) PROVE AlertsTypeOK'
  <2>1. req[t].pc = "sync" /\ req[t].missing \subseteq Fingerprint /\ req[t].upTo \in 0..Len(happened)
    BY <1>6, Kinds3 DEF CommitSync, SyncSees, AlertsTypeOK
  <2>2. req' \in [Thread -> Request] /\ UNCHANGED <<happened, threshold, opened, now, requests, mingled>>
    BY <1>6 DEF CommitSync, Done, Request, AlertsTypeOK
  <2>3. CASE req[t].missing \intersect Fingerprints # {}
    BY <1>6, <2>2, <2>3 DEF CommitSync, AlertsTypeOK, Fingerprints
  <2>4. CASE req[t].missing \intersect Fingerprints = {}
    <3>. DEFINE new == IF req[t].missing = {} THEN {} ELSE Inserted(req[t])
    <3>1. new = req[t].missing /\ New \in Columns
      BY DEF Inserted, New, Columns, Status
    <3>2. /\ alerts' = [f \in Fingerprints \union new |-> IF f \in Fingerprints THEN alerts[f] ELSE New]
          /\ decided' = [f \in Fingerprints \union req[t].missing |-> IF f \in Fingerprints THEN decided[f] ELSE New]
          /\ synced' = Max({synced, req[t].upTo})
      BY <1>6, <2>4 DEF CommitSync, Refreshed
    <3>3. synced' \in 0..Len(happened)
      <4>1. synced \in 0..Len(happened)
        BY DEF AlertsTypeOK
      <4>2. synced' \in {synced, req[t].upTo}
        <5>1. PICK m \in Nat, n \in Nat : m = synced /\ n = req[t].upTo
          BY <2>1, <4>1
        <5>2. Max({m, n}) \in {m, n}
          BY Larger
        <5>. QED BY <3>2, <5>1, <5>2
      <4>. QED BY <2>1, <4>1, <4>2
    <3>4. /\ Fingerprints' = Fingerprints \union req[t].missing
          /\ alerts' \in [Fingerprints' -> Columns] /\ decided' \in [Fingerprints' -> Columns]
      BY <3>1, <3>2 DEF AlertsTypeOK, Fingerprints
    <3>. QED BY <2>1, <2>2, <3>3, <3>4 DEF AlertsTypeOK
  <2>. QED BY <2>3, <2>4
<1>7. ASSUME NEW t \in Thread, NEW f \in Fingerprints, NEW action \in Action, BeginAction(t, f, action) PROVE AlertsTypeOK'
  <2>1. [pc |-> "act", on |-> f, action |-> action, row |-> alerts[f]] \in Request
    BY DEF Request, AlertsTypeOK
  <2>. QED BY <1>7, <2>1 DEF BeginAction, Enter, rows, histories, AlertsTypeOK, Fingerprints
<1>8. ASSUME NEW t \in Thread, CommitAction(t) PROVE AlertsTypeOK'
  <2>. DEFINE q == req[t]
  <2>1. q.pc = "act" /\ q.on \in Fingerprints /\ q.action \in Action /\ q.row \in Columns
    BY <1>8, Kinds3 DEF CommitAction, ActsOnRow, AlertsTypeOK
  <2>2. Acted(q.row, q.action) \in Columns /\ Acted(decided[q.on], q.action) \in Columns
    BY <2>1, ActedTyped DEF AlertsTypeOK
  <2>3. Written(q.on, q.row, Acted(q.row, q.action), q.action) \in Columns
    BY <2>1, <2>2, WrittenTyped
  <2>4. /\ alerts' \in [Fingerprints -> Columns] /\ decided' \in [Fingerprints -> Columns] /\ Fingerprints' = Fingerprints
        /\ mingled' \subseteq Fingerprints
    BY <1>8, <2>1, <2>2, <2>3 DEF CommitAction, AlertsTypeOK, Fingerprints
  <2>5. req' \in [Thread -> Request]
    BY <1>8 DEF CommitAction, Done, Request, AlertsTypeOK
  <2>. QED BY <1>8, <2>4, <2>5 DEF CommitAction, Done, AlertsTypeOK
<1>9. ASSUME NEW t \in Thread, BeginEvaluation(t) PROVE AlertsTypeOK'
  <2>1. Cardinality(opened) \in Nat
    BY FS_CardinalityType DEF OpenedNumbered
  <2>2. [pc |-> "evaluate", at |-> now, found |-> RecentOpen # {}, saw |-> Cardinality(opened)] \in Request
    BY <2>1 DEF Request, AlertsTypeOK
  <2>. QED BY <1>9, <2>2 DEF BeginEvaluation, Enter, rows, histories, AlertsTypeOK, Fingerprints
<1>10. ASSUME NEW t \in Thread, CommitEvaluation(t) PROVE AlertsTypeOK'
  <2>1. Cardinality(opened) \in Nat /\ req[t].at \in Nat /\ req[t].saw \in Nat
    BY <1>10, FS_CardinalityType, Kinds3 DEF OpenedNumbered, CommitEvaluation, AlertsTypeOK
  <2>2. opened' \subseteq Opened
    BY <1>10, <2>1 DEF CommitEvaluation, Opened, AlertsTypeOK
  <2>3. req' \in [Thread -> Request]
    BY <1>10 DEF CommitEvaluation, Done, Request, AlertsTypeOK
  <2>. QED BY <1>10, <2>2, <2>3 DEF CommitEvaluation, Done, AlertsTypeOK, Fingerprints
<1>. QED BY <1>1, <1>2, <1>3, <1>4, <1>5, <1>6, <1>7, <1>8, <1>9, <1>10 DEF Next

-----------------------------------------------------------------------------
(* What a sync leaves out.                                                 *)

\* The history of what happens is written on, and its rows keep what they are of.
Grows ==
  /\ Len(happened) <= Len(happened')
  /\ \A i \in DOMAIN happened : /\ happened'[i].kind = happened[i].kind
                                /\ happened'[i].of = happened[i].of
                                /\ happened'[i].score = happened[i].score

\* Who is among the newest of more was among the newest.
LEMMA NewestStay ==
  ASSUME NEW m \in Nat, NEW T \in SUBSET (1..m), NEW S \in SUBSET T, NEW n \in Nat, NEW i \in S, i \in Recent(n, T)
  PROVE  i \in Recent(n, S)
<1>1. IsFiniteSet(T)
  <2>1. IsFiniteSet(1..m)
    BY FS_Interval
  <2>. QED BY <2>1, FS_Subset
<1>. DEFINE newer(U) == {j \in U : j > i}
<1>2. newer(T) \subseteq T /\ newer(S) \subseteq newer(T)
  OBVIOUS
<1>3. IsFiniteSet(newer(T)) /\ Cardinality(newer(T)) \in Nat
  BY <1>1, <1>2, FS_Subset, FS_CardinalityType
<1>4. IsFiniteSet(newer(S)) /\ Cardinality(newer(S)) \in Nat /\ Cardinality(newer(S)) <= Cardinality(newer(T))
  BY <1>2, <1>3, FS_Subset, FS_CardinalityType
<1>5. Cardinality(newer(T)) < n
  BY DEF Recent
<1>6. Cardinality(newer(S)) < n
  BY <1>3, <1>4, <1>5
<1>. QED BY <1>6 DEF Recent

LEMMA AlertedStays ==
  ASSUME AlertsTypeOK, AlertsTypeOK', Grows, NEW i \in DOMAIN happened, NEW found, Alerted(i, found)
  PROVE  Alerted(i, found)'
<1>1. PICK m \in Nat : m = Len(happened')
  BY DEF AlertsTypeOK
<1>2. DOMAIN happened \subseteq DOMAIN happened' /\ DOMAIN happened' = 1..m /\ DOMAIN happened = 1..Len(happened)
  BY <1>1 DEF Grows, AlertsTypeOK
<1>3. \A kind : Of(kind) \subseteq Of(kind)' /\ Of(kind)' \subseteq 1..m
  BY <1>2 DEF Of, Grows
<1>4. ASSUME NEW kind, NEW n \in Nat, happened[i].kind = kind, i \in Recent(n, Of(kind)')
      PROVE  i \in Recent(n, Of(kind))
  <2>1. PICK S, T : S = Of(kind) /\ T = Of(kind)'
    OBVIOUS
  <2>2. S \subseteq T /\ T \subseteq 1..m /\ i \in S
    BY <1>3, <1>4, <2>1 DEF Of
  <2>3. i \in Recent(n, S)
    BY <1>4, <2>1, <2>2, NewestStay
  <2>. QED BY <2>1, <2>3
<1>5. happened'[i].kind = happened[i].kind /\ happened'[i].of = happened[i].of /\ happened'[i].score = happened[i].score
  BY DEF Grows
<1>6. Limit \in [{"audit", "rule", "contract", "schedule"} -> Nat]
  BY AlertsAssumption
<1>7. ASSUME NEW kind \in {"rule", "schedule"}, happened'[i].kind = kind, i \in Recent(Limit[kind], Of(kind)')
      PROVE  <<kind, i, 0>> \in found
  <2>1. happened[i].kind = kind
    BY <1>5, <1>7
  <2>2. i \in Recent(Limit[kind], Of(kind))
    BY <1>4, <1>6, <1>7, <2>1
  <2>. QED BY <2>1, <2>2 DEF Alerted
<1>8. ASSUME happened'[i].kind = "audit", happened'[i].score = Min(Scores), ~Superseded(i)', i \in Recent(Limit["audit"], Of("audit")')
      PROVE  \E limit \in Threshold : <<"score", i, limit>> \in found
  <2>1. i \in Recent(Limit["audit"], Of("audit"))
    BY <1>4, <1>5, <1>6, <1>8
  <2>2. ~Superseded(i)
    <3>1. ASSUME NEW j \in Of("audit"), j > i, happened[j].of = happened[i].of PROVE FALSE
      <4>1. j \in Of("audit")' /\ happened'[j].of = happened'[i].of
        BY <1>3, <1>5, <3>1 DEF Of, Grows
      <4>. QED BY <1>8, <3>1, <4>1 DEF Superseded
    <3>. QED BY <3>1 DEF Superseded
  <2>. QED BY <1>5, <1>8, <2>1, <2>2 DEF Alerted
<1>. QED BY <1>7, <1>8 DEF Alerted, Of

\* More fingerprints alert as much.
LEMMA AlertedByMore ==
  ASSUME NEW i, NEW found, NEW more, found \subseteq more, Alerted(i, found)
  PROVE  Alerted(i, more)
  BY DEF Alerted

\* What is read in one go is found: an audit that is not superseded is the
\* newest of its dataset, and below every threshold if it is below the least.
LEMMA ReadAlerted ==
  ASSUME AlertsTypeOK, NEW i \in DOMAIN happened
  PROVE  Alerted(i, Wrong(threshold))
<1>1. ASSUME NEW kind \in {"rule", "schedule"}, happened[i].kind = kind, i \in Recent(Limit[kind], Of(kind))
      PROVE  <<kind, i, 0>> \in Wrong(threshold)
  <2>1. CASE kind = "rule"
    BY <1>1, <2>1 DEF Wrong, RuleAlerts
  <2>2. CASE kind = "schedule"
    BY <1>1, <2>2 DEF Wrong, ScheduleAlerts
  <2>. QED BY <2>1, <2>2
<1>2. ASSUME happened[i].kind = "audit", happened[i].score = Min(Scores), ~Superseded(i), i \in Recent(Limit["audit"], Of("audit"))
      PROVE  <<"score", i, threshold>> \in Wrong(threshold)
  <2>1. PICK recent : recent = Recent(Limit["audit"], Of("audit"))
    OBVIOUS
  <2>2. i \in LatestAudits
    <3>1. recent \subseteq Of("audit") /\ Of("audit") \subseteq Nat
      BY <2>1, HappenedTyped DEF Recent
    <3>2. \A j \in recent : happened[j].of = happened[i].of => j <= i
      BY <1>2, <2>1, <3>1 DEF Superseded
    <3>. QED BY <1>2, <2>1, <3>2 DEF LatestAudits
  <2>3. \E low, high \in Threshold : \A limit \in Threshold : low <= limit /\ limit <= high
    BY AlertsAssumption
  <2>4. Threshold \subseteq Nat /\ threshold \in Threshold
    BY AlertsAssumption DEF AlertsTypeOK
  <2>5. Min(Threshold) \in Threshold /\ \A limit \in Threshold : Min(Threshold) <= limit
    <3>1. \E low \in Threshold : \A limit \in Threshold : low <= limit
      BY <2>3
    <3>. QED BY <3>1 DEF Min
  <2>6. Max(Threshold) \in Threshold /\ Min(Threshold) - 1 < Max(Threshold)
    <3>1. \E high \in Threshold : \A limit \in Threshold : high >= limit
      BY <2>3, <2>4
    <3>2. Max(Threshold) \in Threshold
      BY <3>1 DEF Max
    <3>3. PICK low \in Nat, high \in Nat : low = Min(Threshold) /\ high = Max(Threshold)
      BY <2>4, <2>5, <3>2
    <3>4. low <= high
      BY <2>5, <3>2, <3>3
    <3>5. low - 1 < high
      BY <3>3, <3>4
    <3>. QED BY <3>2, <3>3, <3>5
  <2>7. Min(Scores) = Min(Threshold) - 1
    <3>1. Min(Threshold) \in Nat /\ Max(Threshold) \in Nat
      BY <2>4, <2>5, <2>6
    <3>2. PICK a \in Int, b \in Int : a = Min(Threshold) - 1 /\ b = Max(Threshold)
      BY <3>1
    <3>3. a < b
      BY <2>6, <3>2
    <3>4. \E x \in {a, b} : \A y \in {a, b} : x <= y
      BY <3>3
    <3>5. Min({a, b}) \in {a, b} /\ \A y \in {a, b} : Min({a, b}) <= y
      BY <3>4 DEF Min
    <3>6. Min({a, b}) = a
      BY <3>3, <3>5
    <3>. QED BY <3>2, <3>6 DEF Scores
  <2>8. happened[i].score < threshold
    <3>1. PICK low \in Nat, limit \in Nat : low = Min(Threshold) /\ limit = threshold
      BY <2>4, <2>5
    <3>2. low <= limit /\ happened[i].score = low - 1
      BY <1>2, <2>4, <2>5, <2>7, <3>1
    <3>. QED BY <3>1, <3>2
  <2>. QED BY <2>2, <2>8 DEF Wrong, ScoreAlerts
<1>3. threshold \in Threshold
  BY DEF AlertsTypeOK
<1>. QED BY <1>1, <1>2, <1>3 DEF Alerted

\* Syncs and actions but for their commits add no fingerprint and leave out none.
LEMMA AlertedStep ==
  ASSUME AlertsTypeOK, AlertsTypeOK', \A t \in Thread : SyncSees(req[t]), FailuresAlerted, Next
  PROVE  FailuresAlerted' /\ \A t \in Thread : SyncSees(req[t])'
<1>. DEFINE Quiet == /\ Grows /\ Fingerprints \subseteq Fingerprints' /\ synced' = synced
                    /\ \A t \in Thread : req'[t] = req[t] \/ req'[t].pc # "sync"
<1>1. ASSUME Grows, NEW i \in DOMAIN happened, NEW found, Alerted(i, found) PROVE Alerted(i, found)'
  BY <1>1, AlertedStays
<1>2. ASSUME NEW r, SyncSees(r), Grows, Fingerprints \subseteq Fingerprints', r.pc = "sync" => r.upTo \in Nat
      PROVE  SyncSees(r)'
  <2>. SUFFICES ASSUME r.pc = "sync"
                PROVE  /\ r.upTo <= Len(happened')
                       /\ r.wrong \ r.missing \subseteq Fingerprints'
                       /\ \A i \in 1..r.upTo : Alerted(i, r.wrong)'
    BY DEF SyncSees
  <2>1. r.upTo <= Len(happened) /\ r.upTo \in Nat /\ r.wrong \ r.missing \subseteq Fingerprints /\ \A i \in 1..r.upTo : Alerted(i, r.wrong)
    BY <1>2 DEF SyncSees
  <2>2. Len(happened) \in Nat /\ Len(happened') \in Nat /\ Len(happened) <= Len(happened') /\ DOMAIN happened = 1..Len(happened)
    BY <1>2 DEF Grows, AlertsTypeOK
  <2>3. ASSUME NEW i \in 1..r.upTo PROVE Alerted(i, r.wrong)'
    <3>1. i \in DOMAIN happened /\ Alerted(i, r.wrong)
      BY <2>1, <2>2
    <3>. QED BY <1>2, <3>1, <1>1
  <2>. QED BY <1>2, <2>1, <2>2, <2>3
<1>3. Grows => \A t \in Thread : req'[t] = req[t] /\ Fingerprints \subseteq Fingerprints' => SyncSees(req[t])'
  <2>1. ASSUME Grows, NEW t \in Thread, req'[t] = req[t], Fingerprints \subseteq Fingerprints' PROVE SyncSees(req[t])'
    <3>1. PICK r \in Request : r = req[t]
      BY DEF AlertsTypeOK
    <3>2. SyncSees(r)'
      BY <1>2, <2>1, <3>1, Kinds3
    <3>. QED BY <2>1, <3>1, <3>2
  <2>. QED BY <2>1
<1>4. ASSUME Grows, NEW i \in 1..synced, Fingerprints \subseteq Fingerprints' PROVE Alerted(i, Fingerprints)'
  <2>1. PICK F : F = Fingerprints
    OBVIOUS
  <2>2. Alerted(i, F) /\ i \in DOMAIN happened
    BY <2>1 DEF FailuresAlerted, AlertsTypeOK
  <2>3. Alerted(i, F)'
    BY <1>1, <1>4, <2>2
  <2>. QED BY <1>4, <2>1, <2>3 DEF Alerted
<1>5. ASSUME Quiet PROVE FailuresAlerted' /\ \A t \in Thread : SyncSees(req[t])'
  <2>1. FailuresAlerted'
    BY <1>4, <1>5 DEF FailuresAlerted
  <2>2. \A t \in Thread : SyncSees(req[t])'
    BY <1>3, <1>5 DEF SyncSees
  <2>. QED BY <2>1, <2>2
<1>6. happened' = happened => Grows
  BY DEF Grows, AlertsTypeOK
<1>7. CASE Happen
  <2>1. PICK h \in Happening : happened' = Append(happened, h)
    BY <1>7 DEF Happen
  <2>2. Grows
    BY <2>1 DEF Grows, AlertsTypeOK
  <2>. QED BY <1>5, <1>7, <2>2 DEF Happen, histories, Fingerprints
<1>8. ASSUME NEW i \in DOMAIN happened, Settle(i) PROVE Quiet
  <2>1. Grows
    BY <1>8 DEF Settle, Grows, Happening, AlertsTypeOK
  <2>. QED BY <1>8, <2>1 DEF Settle, histories, Fingerprints
<1>9. CASE Tick \/ \E limit \in Threshold : SavePreferences(limit)
  <2>1. Quiet
    BY <1>6, <1>9 DEF Tick, SavePreferences, rows, histories, Fingerprints
  <2>. QED BY <1>5, <2>1
<1>10. ASSUME NEW t \in Thread, BeginSync(t) PROVE FailuresAlerted' /\ \A u \in Thread : SyncSees(req[u])'
  <2>1. happened' = happened /\ Fingerprints' = Fingerprints /\ synced' = synced /\ \A u \in Thread \ {t} : req'[u] = req[u]
    BY <1>10 DEF BeginSync, Enter, rows, histories, Fingerprints, AlertsTypeOK
  <2>2. FailuresAlerted'
    BY <1>4, <1>6, <2>1 DEF FailuresAlerted
  <2>3. \A u \in Thread \ {t} : SyncSees(req[u])'
    BY <1>3, <1>6, <2>1
  <2>4. SyncSees(req[t])'
    <3>1. PICK r : r = [pc |-> "sync", wrong |-> Wrong(threshold), missing |-> Wrong(threshold) \ Fingerprints, upTo |-> Len(happened)]
      OBVIOUS
    <3>2. req'[t] = r
      BY <1>10, <3>1 DEF BeginSync, Enter, AlertsTypeOK
    <3>3. SyncSees(r)
      BY <3>1, ReadAlerted, HappenedTyped DEF SyncSees
    <3>4. SyncSees(r)'
      BY <1>2, <1>6, <2>1, <3>1, <3>3, HappenedTyped
    <3>. QED BY <3>2, <3>4
  <2>. QED BY <2>2, <2>3, <2>4
<1>11. ASSUME NEW t \in Thread, CommitSync(t) PROVE FailuresAlerted' /\ \A u \in Thread : SyncSees(req[u])'
  <2>1. happened' = happened /\ req[t].pc = "sync" /\ \A u \in Thread : req'[u] = req[u] \/ req'[u].pc # "sync"
    BY <1>11 DEF CommitSync, Done, Idle, AlertsTypeOK
  <2>2. CASE req[t].missing \intersect Fingerprints # {}
    <3>1. Quiet
      BY <1>6, <1>11, <2>1, <2>2 DEF CommitSync, Fingerprints
    <3>. QED BY <1>5, <3>1
  <2>3. CASE req[t].missing \intersect Fingerprints = {}
    <3>1. Fingerprints' = Fingerprints \union req[t].missing /\ synced' = Max({synced, req[t].upTo})
      BY <1>11, <2>3 DEF CommitSync, Refreshed, Inserted, Fingerprints
    <3>2. \A u \in Thread : SyncSees(req[u])'
      BY <1>3, <1>6, <2>1, <3>1 DEF SyncSees
    <3>3. PICK r \in Request : r = req[t]
      BY DEF AlertsTypeOK
    <3>4. r.pc = "sync" /\ SyncSees(r) /\ r.upTo \in Nat /\ synced \in Nat
      BY <2>1, <3>3, Kinds3, HappenedTyped DEF AlertsTypeOK
    <3>5. r.wrong \subseteq Fingerprints'
      BY <3>1, <3>3, <3>4 DEF SyncSees
    <3>6. ASSUME NEW i \in 1..synced' PROVE Alerted(i, Fingerprints)'
      <4>1. CASE i <= synced
        <5>1. synced' \in Nat
          BY DEF AlertsTypeOK
        <5>2. i \in 1..synced
          BY <3>4, <4>1, <5>1
        <5>. QED BY <1>4, <1>6, <2>1, <3>1, <5>2
      <4>2. CASE i <= r.upTo
        <5>1. Alerted(i, r.wrong) /\ i \in DOMAIN happened
          BY <3>4, <4>2, HappenedTyped DEF SyncSees
        <5>2. Alerted(i, r.wrong)'
          BY <1>1, <1>6, <2>1, <5>1
        <5>. QED BY <3>5, <5>2 DEF Alerted
      <4>3. i <= synced \/ i <= r.upTo
        <5>1. PICK m \in Nat, n \in Nat : m = synced /\ n = r.upTo
          BY <3>4
        <5>2. Max({m, n}) \in {m, n}
          BY Larger
        <5>. QED BY <3>1, <3>3, <5>1, <5>2
      <4>. QED BY <4>1, <4>2, <4>3
    <3>. QED BY <3>2, <3>6 DEF FailuresAlerted
  <2>. QED BY <2>2, <2>3
<1>12. ASSUME NEW t \in Thread, CommitAction(t) \/ BeginEvaluation(t) \/ CommitEvaluation(t) PROVE Quiet
  <2>1. CASE CommitAction(t)
    BY <1>6, <2>1 DEF CommitAction, Done, Idle, Fingerprints, AlertsTypeOK
  <2>2. CASE BeginEvaluation(t)
    BY <1>6, <2>2 DEF BeginEvaluation, Enter, rows, histories, Fingerprints, AlertsTypeOK
  <2>3. CASE CommitEvaluation(t)
    BY <1>6, <2>3 DEF CommitEvaluation, Done, Idle, Fingerprints, AlertsTypeOK
  <2>. QED BY <1>12, <2>1, <2>2, <2>3
<1>13. ASSUME NEW t \in Thread, NEW f \in Fingerprints, NEW action \in Action, BeginAction(t, f, action) PROVE Quiet
  BY <1>6, <1>13 DEF BeginAction, Enter, rows, histories, Fingerprints, AlertsTypeOK
<1>. QED BY <1>5, <1>7, <1>8, <1>9, <1>10, <1>11, <1>12, <1>13 DEF Next

-----------------------------------------------------------------------------
(* Actions on an alert.                                                    *)

\* An action on a row as it is writes what the action makes of it.
LEMMA WrittenAsActed ==
  ASSUME NEW row \in Columns, NEW f, alerts[f] = row, NEW action \in Action
  PROVE  Written(f, row, Acted(row, action), action) = Acted(row, action)
<1>1. PICK new \in Columns : new = Acted(row, action)
  BY ActedTyped
<1>2. DOMAIN new = {"status", "read", "acknowledged", "resolved", "dismissed"} /\ new = [c \in DOMAIN new |-> new[c]]
  BY DEF Columns
<1>3. Written(f, row, new, action) = [c \in DOMAIN new |-> new[c]]
  BY DEF Written
<1>. QED BY <1>1, <1>2, <1>3

LEMMA ActionStep ==
  ASSUME AlertsTypeOK, \A t \in Thread : ActsOnRow(req[t]), ActionsKept, Next
  PROVE  ActionsKept' /\ \A t \in Thread : ActsOnRow(req[t])'
<1>1. ASSUME UNCHANGED <<alerts, decided, mingled>>, \A t \in Thread : req'[t] = req[t] \/ req'[t].pc # "act"
      PROVE  ActionsKept' /\ \A t \in Thread : ActsOnRow(req[t])'
  BY <1>1 DEF ActionsKept, ActsOnRow, Fingerprints
<1>2. CASE Happen \/ Tick \/ (\E i \in DOMAIN happened : Settle(i)) \/ (\E limit \in Threshold : SavePreferences(limit))
  BY <1>1, <1>2 DEF Happen, Tick, Settle, SavePreferences, rows, histories
<1>3. ASSUME NEW t \in Thread, BeginSync(t) \/ BeginEvaluation(t) \/ CommitEvaluation(t)
      PROVE  UNCHANGED <<alerts, decided, mingled>> /\ \A u \in Thread : req'[u] = req[u] \/ req'[u].pc # "act"
  <2>1. CASE BeginSync(t)
    BY <2>1 DEF BeginSync, Enter, rows, histories, AlertsTypeOK
  <2>2. CASE BeginEvaluation(t)
    BY <2>2 DEF BeginEvaluation, Enter, rows, histories, AlertsTypeOK
  <2>3. CASE CommitEvaluation(t)
    BY <2>3 DEF CommitEvaluation, Done, Idle, AlertsTypeOK
  <2>. QED BY <1>3, <2>1, <2>2, <2>3
<1>4. ASSUME NEW t \in Thread, CommitSync(t) PROVE ActionsKept' /\ \A u \in Thread : ActsOnRow(req[u])'
  <2>1. \A u \in Thread : req'[u] = req[u] \/ req'[u].pc # "act"
    BY <1>4 DEF CommitSync, Done, Idle, AlertsTypeOK
  <2>2. CASE req[t].missing \intersect Fingerprints # {}
    BY <1>1, <1>4, <2>1, <2>2 DEF CommitSync
  <2>3. CASE req[t].missing \intersect Fingerprints = {}
    <3>. DEFINE all == Fingerprints \union req[t].missing
    <3>1. /\ alerts' = [f \in all |-> IF f \in Fingerprints THEN alerts[f] ELSE New]
          /\ decided' = [f \in all |-> IF f \in Fingerprints THEN decided[f] ELSE New]
          /\ mingled' = mingled
      BY <1>4, <2>3 DEF CommitSync, Refreshed, Inserted
    <3>2. Fingerprints' = all /\ \A f \in Fingerprints : f \in all /\ alerts'[f] = alerts[f]
      BY <3>1 DEF Fingerprints
    <3>3. ActionsKept'
      BY <3>1, <3>2 DEF ActionsKept
    <3>. QED BY <2>1, <3>1, <3>2, <3>3 DEF ActsOnRow
  <2>. QED BY <2>2, <2>3
<1>5. ASSUME NEW t \in Thread, NEW f \in Fingerprints, NEW action \in Action, BeginAction(t, f, action)
      PROVE  ActionsKept' /\ \A u \in Thread : ActsOnRow(req[u])'
  <2>1. UNCHANGED <<alerts, decided, mingled>> /\ \A u \in Thread \ {t} : req'[u] = req[u]
    BY <1>5 DEF BeginAction, Enter, rows, histories, AlertsTypeOK
  <2>2. req'[t].on = f /\ req'[t].row = alerts[f]
    BY <1>5 DEF BeginAction, Enter, AlertsTypeOK
  <2>. QED BY <2>1, <2>2 DEF ActionsKept, ActsOnRow, Fingerprints
<1>6. ASSUME NEW t \in Thread, CommitAction(t) PROVE ActionsKept' /\ \A u \in Thread : ActsOnRow(req[u])'
  <2>1. PICK q \in Request : q = req[t]
    BY DEF AlertsTypeOK
  <2>2. /\ q.pc = "act" /\ q.on \in Fingerprints /\ q.action \in Action /\ q.row \in Columns
        /\ q.on \in mingled \/ q.row = alerts[q.on]
    BY <1>6, <2>1, Kinds3 DEF CommitAction, ActsOnRow
  <2>3. /\ alerts' = [alerts EXCEPT ![q.on] = Written(q.on, q.row, Acted(q.row, q.action), q.action)]
        /\ decided' = [decided EXCEPT ![q.on] = Acted(@, q.action)]
        /\ mingled' = IF \E u \in Thread \ {t} : req[u].pc = "act" /\ req[u].on = q.on
                        THEN mingled \union {q.on} ELSE mingled
        /\ Fingerprints' = Fingerprints
    BY <1>6, <2>1 DEF CommitAction, Fingerprints
  <2>4. ActionsKept'
    <3>1. ASSUME NEW f \in Fingerprints \ mingled', f # q.on PROVE alerts'[f] = decided'[f]
      BY <2>3, <3>1 DEF ActionsKept, AlertsTypeOK
    <3>2. ASSUME q.on \notin mingled' PROVE alerts'[q.on] = decided'[q.on]
      <4>1. q.row = alerts[q.on] /\ alerts[q.on] = decided[q.on]
        BY <2>2, <2>3, <3>2 DEF ActionsKept
      <4>2. Written(q.on, q.row, Acted(q.row, q.action), q.action) = Acted(q.row, q.action)
        BY <2>2, <4>1, WrittenAsActed
      <4>. QED BY <2>2, <2>3, <4>1, <4>2 DEF AlertsTypeOK, Fingerprints
    <3>. QED BY <2>3, <3>1, <3>2 DEF ActionsKept
  <2>5. ASSUME NEW u \in Thread PROVE ActsOnRow(req[u])'
    <3>1. CASE u = t
      BY <1>6, <3>1 DEF CommitAction, Done, Idle, ActsOnRow, AlertsTypeOK
    <3>2. CASE u # t
      <4>1. req'[u] = req[u] /\ ActsOnRow(req[u])
        BY <1>6, <3>2 DEF CommitAction, Done, AlertsTypeOK
      <4>2. CASE req[u].pc = "act" /\ req[u].on = q.on
        BY <2>2, <2>3, <3>2, <4>1, <4>2 DEF ActsOnRow
      <4>3. CASE req[u].pc = "act" /\ req[u].on # q.on
        <5>1. req[u].on \in Fingerprints
          BY <4>1, <4>3 DEF ActsOnRow
        <5>2. alerts'[req[u].on] = alerts[req[u].on]
          BY <2>3, <4>3, <5>1 DEF Fingerprints
        <5>. QED BY <2>3, <4>1, <4>3, <5>2 DEF ActsOnRow
      <4>. QED BY <4>1, <4>2, <4>3 DEF ActsOnRow
    <3>. QED BY <3>1, <3>2
  <2>. QED BY <2>4, <2>5
<1>. QED BY <1>1, <1>2, <1>3, <1>4, <1>5, <1>6 DEF Next

-----------------------------------------------------------------------------
(* The cooldown.                                                           *)

LEMMA CooldownStep ==
  ASSUME AlertsTypeOK, \A t \in Thread : SawNone(req[t]), OpenedNumbered, CooldownKept, Next
  PROVE  OpenedNumbered' /\ CooldownKept' /\ \A t \in Thread : SawNone(req[t])'
<1>1. ASSUME opened' = opened, \A t \in Thread : req'[t] = req[t] \/ req'[t].pc # "evaluate"
      PROVE  OpenedNumbered' /\ CooldownKept' /\ \A t \in Thread : SawNone(req[t])'
  BY <1>1 DEF OpenedNumbered, CooldownKept, SawNone
<1>2. CASE Happen \/ Tick \/ (\E i \in DOMAIN happened : Settle(i)) \/ (\E limit \in Threshold : SavePreferences(limit))
  BY <1>1, <1>2 DEF Happen, Tick, Settle, SavePreferences, rows
<1>3. ASSUME NEW t \in Thread, BeginSync(t) \/ CommitSync(t) \/ CommitAction(t)
      PROVE  opened' = opened /\ \A u \in Thread : req'[u] = req[u] \/ req'[u].pc # "evaluate"
  <2>1. CASE BeginSync(t)
    BY <2>1 DEF BeginSync, Enter, rows, AlertsTypeOK
  <2>2. CASE CommitSync(t)
    BY <2>2 DEF CommitSync, Done, Idle, AlertsTypeOK
  <2>3. CASE CommitAction(t)
    BY <2>3 DEF CommitAction, Done, Idle, AlertsTypeOK
  <2>. QED BY <1>3, <2>1, <2>2, <2>3
<1>4. ASSUME NEW t \in Thread, NEW f \in Fingerprints, NEW action \in Action, BeginAction(t, f, action)
      PROVE  opened' = opened /\ \A u \in Thread : req'[u] = req[u] \/ req'[u].pc # "evaluate"
  BY <1>4 DEF BeginAction, Enter, rows, AlertsTypeOK
<1>5. Cardinality(opened) \in Nat /\ Cooldown \in Nat /\ now \in Nat
  BY FS_CardinalityType, AlertsAssumption DEF OpenedNumbered, AlertsTypeOK
<1>6. ASSUME NEW t \in Thread, BeginEvaluation(t)
      PROVE  OpenedNumbered' /\ CooldownKept' /\ \A u \in Thread : SawNone(req[u])'
  <2>1. opened' = opened /\ \A u \in Thread \ {t} : req'[u] = req[u]
    BY <1>6 DEF BeginEvaluation, Enter, rows, AlertsTypeOK
  <2>2. req'[t] = [pc |-> "evaluate", at |-> now, found |-> RecentOpen # {}, saw |-> Cardinality(opened)]
    BY <1>6 DEF BeginEvaluation, Enter, AlertsTypeOK
  <2>3. ASSUME RecentOpen = {}, NEW a \in opened PROVE now - a.at > Cooldown
    <3>1. a.at \in Nat /\ ~(a.at >= now - Cooldown)
      BY <2>3 DEF RecentOpen, AlertsTypeOK, Opened
    <3>. QED BY <1>5, <3>1
  <2>4. SawNone(req[t])'
    <3>1. PICK n \in Nat, time \in Nat, found \in BOOLEAN : n = Cardinality(opened) /\ time = now /\ found = (RecentOpen # {})
      BY <1>5
    <3>2. PICK q : q = [pc |-> "evaluate", at |-> time, found |-> found, saw |-> n]
      OBVIOUS
    <3>3. req'[t] = q /\ q.at = time /\ q.found = found /\ q.saw = n
      BY <2>2, <3>1, <3>2
    <3>4. found \/ \A a \in opened : time - a.at > Cooldown
      BY <2>3, <3>1
    <3>5. n <= n
      OBVIOUS
    <3>. QED BY <2>1, <3>1, <3>3, <3>4, <3>5 DEF SawNone
  <2>. QED BY <2>1, <2>4 DEF OpenedNumbered, CooldownKept, SawNone
<1>7. ASSUME NEW t \in Thread, CommitEvaluation(t)
      PROVE  OpenedNumbered' /\ CooldownKept' /\ \A u \in Thread : SawNone(req[u])'
  <2>1. PICK q \in Request : q = req[t]
    BY DEF AlertsTypeOK
  <2>2. /\ q.pc = "evaluate" /\ q.at \in Nat /\ q.saw \in Nat /\ q.saw <= Cardinality(opened)
        /\ q.found \/ \A a \in opened : a.nth > q.saw \/ q.at - a.at > Cooldown
    BY <1>7, <2>1, Kinds3 DEF CommitEvaluation, SawNone
  <2>3. \A u \in Thread : req'[u] = req[u] \/ req'[u].pc # "evaluate"
    BY <1>7 DEF CommitEvaluation, Done, Idle, AlertsTypeOK
  <2>4. CASE q.found
    BY <1>1, <1>7, <2>1, <2>3, <2>4 DEF CommitEvaluation
  <2>5. CASE ~q.found
    <3>1. PICK n \in Nat : n = Cardinality(opened)
      BY <1>5
    <3>2. PICK b : b = [at |-> q.at, nth |-> n + 1, saw |-> q.saw]
      OBVIOUS
    <3>3. opened' = opened \union {b}
      BY <1>7, <2>1, <2>5, <3>1, <3>2 DEF CommitEvaluation
    <3>4. \A a \in opened : a.nth \in Nat /\ a.nth <= n /\ a.at \in Nat /\ a.saw \in Nat
      BY <3>1 DEF OpenedNumbered, AlertsTypeOK, Opened
    <3>5. b \notin opened
      BY <3>2, <3>4
    <3>6. IsFiniteSet(opened') /\ Cardinality(opened') = n + 1
      <4>1. IsFiniteSet(opened)
        BY DEF OpenedNumbered
      <4>2. IsFiniteSet(opened \union {b}) /\ Cardinality(opened \union {b}) = Cardinality(opened) + 1
        BY <3>5, <4>1, FS_AddElement
      <4>. QED BY <3>1, <3>3, <4>2
    <3>7. OpenedNumbered'
      <4>1. \A a \in opened : a.nth <= n + 1
        BY <3>1, <3>4
      <4>2. b.nth = n + 1 /\ b.nth <= n + 1
        BY <3>1, <3>2
      <4>. QED BY <3>3, <3>6, <4>1, <4>2 DEF OpenedNumbered
    <3>8. CooldownKept'
      <4>1. ASSUME NEW a \in opened, NEW c \in opened, a.nth < c.nth PROVE a.nth > c.saw \/ c.at - a.at > Cooldown
        BY <4>1 DEF CooldownKept
      <4>2. ASSUME NEW a \in opened PROVE a.nth > b.saw \/ b.at - a.at > Cooldown
        BY <2>2, <2>5, <3>2
      <4>3. \A c \in opened : ~(b.nth < c.nth) /\ ~(b.nth < b.nth)
        BY <3>2, <3>4
      <4>4. PICK new : new = opened \union {b}
        OBVIOUS
      <4>5. ASSUME NEW a \in new, NEW c \in new, a.nth < c.nth PROVE a.nth > c.saw \/ c.at - a.at > Cooldown
        <5>1. CASE c = b
          <6>1. a # b
            BY <3>4, <3>2, <4>5, <5>1
          <6>2. a \in opened
            BY <4>4, <6>1
          <6>. QED BY <4>2, <5>1, <6>2
        <5>2. CASE c # b
          <6>1. c \in opened
            BY <4>4, <5>2
          <6>2. a # b
            BY <4>3, <4>5, <6>1
          <6>3. a \in opened
            BY <4>4, <6>2
          <6>. QED BY <4>1, <4>5, <6>1, <6>3
        <5>. QED BY <5>1, <5>2
      <4>6. opened' = new
        BY <3>3, <4>4
      <4>. QED BY <4>5, <4>6 DEF CooldownKept
    <3>9. ASSUME NEW u \in Thread, req'[u] = req[u], req[u].pc = "evaluate" PROVE SawNone(req[u])'
      <4>1. PICK r \in Request : r = req[u]
        BY DEF AlertsTypeOK
      <4>2. r.saw \in Nat /\ r.saw <= n /\ (r.found \/ \A a \in opened : a.nth > r.saw \/ r.at - a.at > Cooldown)
        BY <3>1, <3>9, <4>1, Kinds3 DEF SawNone
      <4>3. b.nth > r.saw
        BY <3>2, <4>2
      <4>4. r.saw <= n + 1 /\ (r.found \/ \A a \in opened' : a.nth > r.saw \/ r.at - a.at > Cooldown)
        BY <3>3, <4>2, <4>3
      <4>. QED BY <3>6, <3>9, <4>1, <4>4 DEF SawNone
    <3>. QED BY <2>3, <3>7, <3>8, <3>9 DEF SawNone
  <2>. QED BY <2>4, <2>5
<1>. QED BY <1>1, <1>2, <1>3, <1>4, <1>6, <1>7 DEF Next

-----------------------------------------------------------------------------
(* The theorems.                                                           *)

Inv == AlertsTypeOK /\ AlertsInv

LEMMA InitInv == Init => Inv
<1>. SUFFICES ASSUME Init PROVE Inv
  OBVIOUS
<1>1. AlertsTypeOK
  BY DEF Init, AlertsTypeOK, Fingerprints, Request
<1>2. IsFiniteSet(opened) /\ Cardinality(opened) = 0
  BY FS_EmptySet DEF Init
<1>. QED BY <1>1, <1>2 DEF Init, Inv, AlertsInv, Idle, SyncSees, ActsOnRow, SawNone, OpenedNumbered, ActionsKept,
                           FailuresAlerted, CooldownKept, Fingerprints

LEMMA NextInv == Inv /\ [Next]_alertVars => Inv'
<1>. SUFFICES ASSUME Inv, [Next]_alertVars PROVE Inv'
  OBVIOUS
<1>. USE DEF Inv
<1>1. CASE Next
  <2>1. AlertsTypeOK'
    BY <1>1, TypeStep DEF AlertsInv
  <2>2. FailuresAlerted' /\ \A t \in Thread : SyncSees(req[t])'
    BY <1>1, <2>1, AlertedStep DEF AlertsInv
  <2>3. ActionsKept' /\ \A t \in Thread : ActsOnRow(req[t])'
    BY <1>1, ActionStep DEF AlertsInv
  <2>4. OpenedNumbered' /\ CooldownKept' /\ \A t \in Thread : SawNone(req[t])'
    BY <1>1, CooldownStep DEF AlertsInv
  <2>. QED BY <2>1, <2>2, <2>3, <2>4 DEF AlertsInv
<1>2. CASE UNCHANGED alertVars
  BY <1>2 DEF alertVars, rows, histories, AlertsTypeOK, AlertsInv, SyncSees, ActsOnRow, SawNone, OpenedNumbered,
              ActionsKept, FailuresAlerted, Alerted, Superseded, Of, CooldownKept, Fingerprints
<1>. QED BY <1>1, <1>2

\* Every alert, request and happening is of its type.
THEOREM AlertsTypeCorrect == Spec => []AlertsTypeOK
<1>1. Inv => AlertsTypeOK
  BY DEF Inv
<1>. QED BY <1>1, InitInv, NextInv, PTL DEF Spec

\* The invariant that the properties rest on.
THEOREM AlertsInvariant == Spec => []AlertsInv
<1>1. Inv => AlertsInv
  BY DEF Inv
<1>. QED BY <1>1, InitInv, NextInv, PTL DEF Spec

\* An alert is what the actions of update_alert made it, whatever sync_alerts finds
\* again, but for actions that overlap on it.
THEOREM ActionsStay == Spec => []ActionsKept
<1>1. Inv => ActionsKept
  BY DEF Inv, AlertsInv
<1>. QED BY <1>1, InitInv, NextInv, PTL DEF Spec

\* What a committed sync_alerts could see has its alert.
THEOREM FailuresSeen == Spec => []FailuresAlerted
<1>1. Inv => FailuresAlerted
  BY DEF Inv, AlertsInv
<1>. QED BY <1>1, InitInv, NextInv, PTL DEF Spec

\* evaluate_operational_alerts keeps its cooldown, but for evaluations that cannot
\* see each other's alert.
THEOREM CooldownHolds == Spec => []CooldownKept
<1>1. Inv => CooldownKept
  BY DEF Inv, AlertsInv
<1>. QED BY <1>1, InitInv, NextInv, PTL DEF Spec
=============================================================================
