----------------------------- MODULE AuditsProofs -----------------------------
(***************************************************************************)
(* Proofs about what an audit document says: of Issues, that a saved       *)
(* status is explained by the activity, that an update's entries agree     *)
(* with its history, and that a saved score is that of the saved issues;   *)
(* of Drift, what its events and its repetitions mean; of Scoring, that    *)
(* settling an issue never lowers a score; of Remediation, that what is    *)
(* read of one table agrees, that what corrections change is reported, and *)
(* that an issue corrected alone is resolved.                              *)
(***************************************************************************)
EXTENDS Issues, Remediation, Scoring, Drift, FiniteSetTheorems, WellFoundedInduction, TLAPS

-----------------------------------------------------------------------------
(* Copies of the document.                                                 *)

\* Writing one field of one issue leaves a document.
LEMMA WithStatus ==
  ASSUME NEW d \in Document, NEW i \in Issue, NEW v \in AllStatus
  PROVE  /\ With(d, "status", i, v) \in Document
         /\ With(d, "status", i, v).status = [d.status EXCEPT ![i] = v]
  BY DEF With, Document

LEMMA WithText ==
  ASSUME NEW d \in Document, NEW i \in Issue, NEW v \in Text, NEW field \in {"note", "evidence"}
  PROVE  /\ With(d, field, i, v) \in Document
         /\ With(d, field, i, v).status = d.status
<1>1. CASE field = "note"
  BY <1>1 DEF With, Document
<1>2. CASE field = "evidence"
  BY <1>2 DEF With, Document
<1>. QED BY <1>1, <1>2

\* score_audit gives a document its own score and leaves its issues.
LEMMA ScoredDocument ==
  ASSUME NEW d \in Document
  PROVE  /\ Scored(d) \in Document
         /\ Scored(d).status = d.status
         /\ Scored(d).score = ScoreOf(Scored(d))
<1>1. ScoreOf(d) \in Score
  BY DEF ScoreOf, Active, Score, Document
<1>2. /\ Scored(d) \in Document
      /\ Scored(d).status = d.status /\ Scored(d).affected = d.affected /\ Scored(d).context = d.context
      /\ Scored(d).score = ScoreOf(d)
  BY <1>1 DEF Scored, Document
<1>3. ScoreOf(Scored(d)) = ScoreOf(d)
  BY <1>2 DEF ScoreOf, Active
<1>. QED BY <1>2, <1>3

-----------------------------------------------------------------------------
(* Reasons stay: entries are only added.                                   *)

LEMMA EntryExplains ==
  ASSUME activity \in Seq(Entry), NEW e \in Entry, Log(e), unlogged' = unlogged
  PROVE  /\ activity' \in Seq(Entry)
         /\ \A i, v : Explained(i, v) => Explained(i, v)'
         /\ e.field = "status" => Explained(e.issue, e.value)'
<1>1. /\ activity' \in Seq(Entry) /\ Len(activity') = Len(activity) + 1
      /\ \A n \in DOMAIN activity : n \in DOMAIN activity' /\ activity'[n] = activity[n]
      /\ Len(activity') \in DOMAIN activity' /\ activity'[Len(activity')] = e
  BY DEF Log
<1>2. \A i, v : Logged(i, v) => Logged(i, v)'
  BY <1>1 DEF Logged
<1>3. e.field = "status" => Logged(e.issue, e.value)'
  BY <1>1 DEF Logged
<1>. QED BY <1>1, <1>2, <1>3 DEF Explained

LEMMA SameReasons ==
  ASSUME UNCHANGED activity, unlogged \subseteq unlogged'
  PROVE  \A i, v : Explained(i, v) => Explained(i, v)'
BY DEF Explained, Logged

-----------------------------------------------------------------------------
(* A step that puts one request in order and leaves the document keeps the *)
(* invariant: what the others know stays true.                             *)
LEMMA RequestStep ==
  ASSUME IssuesTypeOK, IssuesInv,
         NEW t \in Thread, NEW r \in Request,
         req' = [req EXCEPT ![t] = r],
         UNCHANGED document,
         activity' \in Seq(Entry), dataset' \in Score, requests' \in Nat, stops' \in Nat,
         overlapped' \in BOOLEAN, unsaved' \in BOOLEAN, unlogged' \subseteq Issue,
         \A i, v : Explained(i, v) => Explained(i, v)',
         AtWork(r), CopyExplained(r)', CopyScored(r)
  PROVE  IssuesTypeOK' /\ IssuesInv'
<1>1. req' \in [Thread -> Request] /\ req'[t] = r /\ \A s \in Thread : s # t => req'[s] = req[s]
  BY DEF IssuesTypeOK
<1>2. IssuesTypeOK'
  BY <1>1 DEF IssuesTypeOK
<1>3. ASSUME NEW s \in Thread
      PROVE  AtWork(req'[s]) /\ CopyExplained(req[s])' /\ CopyScored(req'[s])
  <2>1. CASE s = t
    BY <2>1, <1>1 DEF CopyExplained
  <2>2. CASE s # t
    <3>1. req'[s] = req[s] /\ AtWork(req[s]) /\ CopyExplained(req[s]) /\ CopyScored(req[s])
      BY <2>2, <1>1 DEF IssuesInv
    <3>. QED BY <3>1 DEF CopyExplained
  <2>. QED BY <2>1, <2>2
<1>4. ActivityExplainsStatus'
  BY DEF IssuesInv, ActivityExplainsStatus
<1>5. ScoreOfSavedIssues'
  BY DEF IssuesInv, ScoreOfSavedIssues, ScoreOf, Active
<1>. QED BY <1>2, <1>3, <1>4, <1>5 DEF IssuesInv, AtWork, CopyScored

\* A request that ends.
LEMMA IdleRequest == Idle \in Request /\ AtWork(Idle) /\ CopyExplained(Idle)' /\ CopyScored(Idle)
<1>1. /\ Idle.pc = "idle" /\ Idle.op = Null /\ Idle \in Request
  BY DEF Idle, Request, NoUpdate, Body
<1>2. Null \notin {"update", "apply"}
  BY IssuesAssumption DEF Operation
<1>. QED BY <1>1, <1>2 DEF AtWork, CopyExplained, CopyScored

-----------------------------------------------------------------------------
(* Each action.                                                            *)

\* A request that loads the document and works on a copy d of it.
LEMMA LoadStep ==
  ASSUME IssuesTypeOK, IssuesInv, NEW t \in Thread, NEW op \in Operation,
         NEW i \in Issue \union {Null}, NEW u \in Body, NEW d \in Document, NEW pc \in {"status", "save"},
         Load(t, op, i, u, d, pc),
         pc = "status" => op = "update",
         op = "update" => pc = "status",
         op \in {"update", "apply"} => i \in Issue,
         op = "apply" => d.status[i] = "fixed",
         \A j \in Issue : d.status[j] = document.status[j] \/ (op = "apply" /\ j = i),
         pc = "save" => d.score = ScoreOf(d)
  PROVE  IssuesTypeOK' /\ IssuesInv'
<1>1. [pc |-> pc, op |-> op, issue |-> i, update |-> u, doc |-> d, old |-> document.status] \in Request
  BY DEF IssuesTypeOK, Request, Document
<1>2. PICK r \in Request :
        r = [pc |-> pc, op |-> op, issue |-> i, update |-> u, doc |-> d, old |-> document.status]
  BY <1>1
<1>3. r.pc = pc /\ r.op = op /\ r.issue = i /\ r.doc = d
  BY <1>2
<1>4. AtWork(r) /\ CopyScored(r)
  BY <1>3 DEF AtWork, CopyScored, Operation
<1>5. \A j, v : Explained(j, v) => Explained(j, v)'
  BY SameReasons DEF Load
<1>6. \A j \in Issue : Explained(j, document.status[j]) /\ Explained(j, document.status[j])'
  <2>. TAKE j \in Issue
  <2>1. PICK v : v = document.status[j]
    OBVIOUS
  <2>2. Explained(j, v) /\ Explained(j, v)'
    BY <1>5, <2>1 DEF IssuesInv, ActivityExplainsStatus
  <2>3. UNCHANGED document
    BY DEF Load
  <2>. QED BY <2>1, <2>2, <2>3 DEF Explained
<1>7. CopyExplained(r)'
  <2>1. op = "apply" => pc = "save"
    BY DEF Operation
  <2>2. UNCHANGED document
    BY DEF Load
  <2>. QED BY <1>3, <1>6, <2>1, <2>2 DEF CopyExplained
<1>8. /\ req' = [req EXCEPT ![t] = r]
      /\ UNCHANGED document
      /\ activity' \in Seq(Entry) /\ dataset' \in Score /\ requests' \in Nat /\ stops' \in Nat
      /\ overlapped' \in BOOLEAN /\ unsaved' \in BOOLEAN /\ unlogged' \subseteq Issue
  BY <1>2 DEF Load, IssuesTypeOK
<1>. QED BY <1>4, <1>5, <1>7, <1>8, RequestStep

LEMMA UpdateIssueStatusStep ==
  ASSUME IssuesTypeOK, IssuesInv, NEW t \in Thread, NEW i \in Issue, NEW u \in Update, UpdateIssueStatus(t, i, u)
  PROVE  IssuesTypeOK' /\ IssuesInv'
<1>1. u \in Body /\ document \in Document /\ Load(t, "update", i, u, document, "status")
  BY IssuesAssumption DEF UpdateIssueStatus, IssuesTypeOK
<1>. QED BY <1>1, LoadStep DEF Operation

\* The copy that apply_issue_recommendation is to save.
LEMMA AppliedDocument ==
  ASSUME NEW d \in Document, NEW i \in Issue
  PROVE  LET c == Scored([d EXCEPT !.status[i] = "fixed", !.note[i] = "text", !.affected[i] = FALSE])
         IN  c \in Document /\ c.status = [d.status EXCEPT ![i] = "fixed"] /\ c.score = ScoreOf(c)
<1> DEFINE c == [d EXCEPT !.status[i] = "fixed", !.note[i] = "text", !.affected[i] = FALSE]
<1> DEFINE a == [d EXCEPT !.status[i] = "fixed"]
<1>1. a \in Document /\ a.status = [d.status EXCEPT ![i] = "fixed"]
  BY DEF Document, AllStatus, Inactive
<1>2. c = [[a EXCEPT !.note[i] = "text"] EXCEPT !.affected[i] = FALSE]
  OBVIOUS
<1>. HIDE DEF a, c
<1>3. /\ [a EXCEPT !.note[i] = "text"] \in Document
      /\ [a EXCEPT !.note[i] = "text"].status = a.status
  BY <1>1 DEF Document, Text
<1>4. ASSUME NEW b \in Document
      PROVE  [b EXCEPT !.affected[i] = FALSE] \in Document /\ [b EXCEPT !.affected[i] = FALSE].status = b.status
  BY DEF Document
<1>5. c \in Document /\ c.status = a.status
  BY <1>2, <1>3, <1>4
<1>6. Scored(c) \in Document /\ Scored(c).status = c.status /\ Scored(c).score = ScoreOf(Scored(c))
  BY <1>5, ScoredDocument
<1>. QED BY <1>1, <1>5, <1>6 DEF c

LEMMA ApplyRecommendationStep ==
  ASSUME IssuesTypeOK, IssuesInv, NEW t \in Thread, NEW i \in Issue, ApplyRecommendation(t, i)
  PROVE  IssuesTypeOK' /\ IssuesInv'
<1>1. document \in Document /\ NoUpdate \in Body /\ document.status \in [Issue -> AllStatus]
  BY DEF IssuesTypeOK, NoUpdate, Body, Document
<1>2. PICK d \in Document : /\ Load(t, "apply", i, NoUpdate, d, "save")
                            /\ d.status = [document.status EXCEPT ![i] = "fixed"] /\ d.score = ScoreOf(d)
  BY <1>1, AppliedDocument DEF ApplyRecommendation
<1>3. d.status[i] = "fixed" /\ \A j \in Issue : d.status[j] = document.status[j] \/ j = i
  BY <1>1, <1>2
<1>. QED BY <1>1, <1>2, <1>3, LoadStep DEF Operation

LEMMA RecalculateScoreStep ==
  ASSUME IssuesTypeOK, IssuesInv, NEW t \in Thread, NEW c \in Context, RecalculateScore(t, c)
  PROVE  IssuesTypeOK' /\ IssuesInv'
<1> DEFINE d == [document EXCEPT !.context = c]
<1>1. d \in Document /\ d.status = document.status
  BY DEF IssuesTypeOK, Document
<1>2. Load(t, "recalculate", Null, NoUpdate, Scored(d), "save") /\ NoUpdate \in Body
  BY DEF RecalculateScore, NoUpdate, Body
<1>. HIDE DEF d
<1>3. Scored(d) \in Document /\ Scored(d).status = document.status /\ Scored(d).score = ScoreOf(Scored(d))
  BY <1>1, ScoredDocument
<1>. QED BY <1>2, <1>3, LoadStep DEF Operation

LEMMA RegenerateSummaryStep ==
  ASSUME IssuesTypeOK, IssuesInv, NEW t \in Thread, RegenerateSummary(t)
  PROVE  IssuesTypeOK' /\ IssuesInv'
<1>1. Load(t, "summary", Null, NoUpdate, document, "save") /\ NoUpdate \in Body
  BY DEF RegenerateSummary, NoUpdate, Body
<1>2. document \in Document /\ document.score = ScoreOf(document)
  BY DEF IssuesTypeOK, IssuesInv, ScoreOfSavedIssues
<1>. QED BY <1>1, <1>2, LoadStep DEF Operation

\* What the proofs of the later steps of a request know of it.
LEMMA AtWorkFacts ==
  ASSUME IssuesTypeOK, IssuesInv, NEW t \in Thread, req[t].pc # "idle"
  PROVE  /\ req[t] \in Request /\ req[t].doc \in Document
         /\ AtWork(req[t]) /\ CopyExplained(req[t]) /\ CopyScored(req[t])
BY DEF IssuesTypeOK, IssuesInv, AtWork

\* A request that edits its copy: the copy becomes d and the request goes on at pc.
LEMMA EditStep ==
  ASSUME IssuesTypeOK, IssuesInv, NEW t \in Thread,
         NEW d \in Document, NEW pc \in {"note", "evidence", "reopen", "save"},
         req[t].pc \in {"status", "note", "evidence", "reopen"},
         req' = [req EXCEPT ![t].pc = pc, ![t].doc = d],
         UNCHANGED <<document, dataset, requests, stops, overlapped, unlogged, unsaved>>,
         activity' \in Seq(Entry),
         \A i, v : Explained(i, v) => Explained(i, v)',
         \A i \in Issue : d.status[i] = req[t].doc.status[i] \/ Explained(i, d.status[i])',
         pc = "save" => d.score = ScoreOf(d)
  PROVE  IssuesTypeOK' /\ IssuesInv'
<1>1. /\ req[t] \in Request /\ AtWork(req[t]) /\ CopyExplained(req[t])
  BY AtWorkFacts
<1>2. [req[t] EXCEPT !.pc = pc, !.doc = d] \in Request
  BY <1>1 DEF Request
<1>3. PICK r \in Request : r = [req[t] EXCEPT !.pc = pc, !.doc = d]
  BY <1>2
<1>4. r.pc = pc /\ r.doc = d /\ r.op = req[t].op /\ r.issue = req[t].issue
  BY <1>1, <1>3 DEF Request
<1>5. r.op = "update" /\ r.issue \in Issue
  BY <1>1, <1>4 DEF AtWork
<1>6. AtWork(r) /\ CopyScored(r)
  BY <1>4, <1>5 DEF AtWork, CopyScored
<1>7. ASSUME NEW i \in Issue
      PROVE  Explained(i, d.status[i])'
  <2>1. CASE d.status[i] = req[t].doc.status[i]
    <3>1. Explained(i, req[t].doc.status[i])
      BY <1>1, <1>4, <1>5 DEF CopyExplained
    <3>2. PICK v : v = d.status[i]
      OBVIOUS
    <3>3. Explained(i, v)'
      BY <2>1, <3>1, <3>2
    <3>. QED BY <3>2, <3>3 DEF Explained
  <2>. QED BY <2>1
<1>8. CopyExplained(r)'
  BY <1>4, <1>7 DEF CopyExplained
<1>9. /\ req' = [req EXCEPT ![t] = r]
      /\ dataset' \in Score /\ requests' \in Nat /\ stops' \in Nat
      /\ overlapped' \in BOOLEAN /\ unsaved' \in BOOLEAN /\ unlogged' \subseteq Issue
  BY <1>3 DEF IssuesTypeOK
<1>. QED BY <1>6, <1>8, <1>9, RequestStep

\* One field of an update.
LEMMA SetFieldStep ==
  ASSUME IssuesTypeOK, IssuesInv, NEW t \in Thread, NEW field \in {"status", "note", "evidence"},
         NEW next \in {"note", "evidence", "reopen"}, SetField(t, field, field, next)
  PROVE  IssuesTypeOK' /\ IssuesInv'
<1>1. /\ req[t].pc = field /\ req[t] \in Request /\ req[t].doc \in Document /\ req[t].issue \in Issue
  BY AtWorkFacts DEF SetField, AtWork
<1>2. PICK i \in Issue, d \in Document, u \in Body : i = req[t].issue /\ d = req[t].doc /\ u = req[t].update
  BY <1>1 DEF Request
<1>3. CASE u[field] \in {Null, d[field][i]} /\ UNCHANGED activity /\ req' = [req EXCEPT ![t].pc = next]
  <2>1. req[t] = [req[t] EXCEPT !.doc = d]
    BY <1>1, <1>2 DEF Request
  <2>2. req' = [req EXCEPT ![t].pc = next, ![t].doc = d]
    BY <1>2, <1>3, <2>1 DEF IssuesTypeOK, Request
  <2>3. /\ activity' \in Seq(Entry)
        /\ \A j, v : Explained(j, v) => Explained(j, v)'
    BY <1>3, SameReasons DEF SetField, IssuesTypeOK
  <2>. QED BY <1>1, <1>2, <2>2, <2>3, EditStep DEF SetField
<1>4. CASE /\ u[field] \notin {Null, d[field][i]}
           /\ req' = [req EXCEPT ![t].pc = next, ![t].doc = With(d, field, i, u[field])]
           /\ Log([issue |-> i, action |-> "field_updated", field |-> field, value |-> u[field]])
  <2>1. \/ field = "status" /\ u[field] \in AllStatus
        \/ field \in {"note", "evidence"} /\ u[field] \in Text
    BY <1>2, <1>4 DEF Body
  <2>2. PICK e \in Entry : e = [issue |-> i, action |-> "field_updated", field |-> field, value |-> u[field]]
    BY <2>1 DEF Entry
  <2>3. e.issue = i /\ e.field = field /\ e.value = u[field]
    BY <2>2
  <2>4. Log(e) /\ unlogged' = unlogged
    BY <1>4, <2>2 DEF SetField
  <2>5. /\ activity' \in Seq(Entry)
        /\ \A j, v : Explained(j, v) => Explained(j, v)'
        /\ e.field = "status" => Explained(e.issue, e.value)'
    BY <2>4, EntryExplains DEF IssuesTypeOK
  <2>6. PICK c \in Document : c = With(d, field, i, u[field])
    BY <2>1, WithStatus, WithText
  <2>7. \A j \in Issue : c.status[j] = d.status[j] \/ (field = "status" /\ j = i /\ c.status[j] = u[field])
    <3>1. d.status \in [Issue -> AllStatus]
      BY DEF Document
    <3>2. CASE field = "status"
      <4>1. c.status = [d.status EXCEPT ![i] = u[field]]
        BY <2>1, <2>6, <3>2, WithStatus
      <4>. QED BY <3>1, <3>2, <4>1
    <3>3. CASE field \in {"note", "evidence"} /\ u[field] \in Text
      <4>1. c.status = d.status
        BY <2>6, <3>3, WithText
      <4>. QED BY <4>1
    <3>. QED BY <2>1, <3>2, <3>3
  <2>8. \A j \in Issue : c.status[j] = d.status[j] \/ Explained(j, c.status[j])'
    BY <2>3, <2>5, <2>7
  <2>9. req' = [req EXCEPT ![t].pc = next, ![t].doc = c]
    BY <1>4, <2>6
  <2>. QED BY <1>1, <1>2, <2>5, <2>8, <2>9, EditStep DEF SetField
<1>5. \/ u[field] \in {Null, d[field][i]} /\ UNCHANGED activity /\ req' = [req EXCEPT ![t].pc = next]
      \/ /\ u[field] \notin {Null, d[field][i]}
         /\ req' = [req EXCEPT ![t].pc = next, ![t].doc = With(d, field, i, u[field])]
         /\ Log([issue |-> i, action |-> "field_updated", field |-> field, value |-> u[field]])
  BY <1>2 DEF SetField
<1>. QED BY <1>3, <1>4, <1>5

LEMMA ReopenStep ==
  ASSUME IssuesTypeOK, IssuesInv, NEW t \in Thread, Reopen(t)
  PROVE  IssuesTypeOK' /\ IssuesInv'
<1>1. /\ req[t].pc = "reopen" /\ req[t] \in Request /\ req[t].doc \in Document /\ req[t].issue \in Issue
  BY AtWorkFacts DEF Reopen, AtWork
<1>2. PICK i \in Issue, d \in Document : i = req[t].issue /\ d = req[t].doc
  BY <1>1
<1>3. CASE /\ req' = [req EXCEPT ![t].pc = "save", ![t].doc = Scored(With(d, "status", i, "open"))]
           /\ Log([issue |-> i, action |-> "reopened", field |-> "status", value |-> "open"])
  <2>1. "open" \in AllStatus
    BY DEF AllStatus
  <2>2. PICK e \in Entry : e = [issue |-> i, action |-> "reopened", field |-> "status", value |-> "open"]
    BY <2>1 DEF Entry
  <2>3. Log(e) /\ unlogged' = unlogged
    BY <1>3, <2>2 DEF Reopen
  <2>4. activity' \in Seq(Entry) /\ \A j, v : Explained(j, v) => Explained(j, v)'
    BY <2>3, EntryExplains DEF IssuesTypeOK
  <2>5. With(d, "status", i, "open") \in Document
    BY <2>1, WithStatus
  <2>6. PICK c \in Document : c = Scored(With(d, "status", i, "open"))
    BY <2>5, ScoredDocument
  <2>7. c.score = ScoreOf(c) /\ c.status = [d.status EXCEPT ![i] = "open"]
    BY <2>1, <2>5, <2>6, WithStatus, ScoredDocument
  <2>8. \A j \in Issue : c.status[j] = d.status[j] \/ Explained(j, c.status[j])'
    <3>1. d.status \in [Issue -> AllStatus]
      BY DEF Document
    <3>2. \A j \in Issue : c.status[j] = d.status[j] \/ c.status[j] = "open"
      BY <2>7, <3>1
    <3>. QED BY <3>2 DEF Explained
  <2>9. req' = [req EXCEPT ![t].pc = "save", ![t].doc = c]
    BY <1>3, <2>6
  <2>. QED BY <1>1, <1>2, <2>4, <2>7, <2>8, <2>9, EditStep DEF Reopen
<1>4. CASE req' = [req EXCEPT ![t].pc = "save", ![t].doc = Scored(d)] /\ UNCHANGED activity
  <2>1. PICK c \in Document : c = Scored(d)
    BY ScoredDocument
  <2>2. c.score = ScoreOf(c) /\ c.status = d.status
    BY <2>1, ScoredDocument
  <2>3. activity' \in Seq(Entry) /\ \A j, v : Explained(j, v) => Explained(j, v)'
    BY <1>4, SameReasons DEF Reopen, IssuesTypeOK
  <2>4. req' = [req EXCEPT ![t].pc = "save", ![t].doc = c]
    BY <1>4, <2>1
  <2>. QED BY <1>1, <1>2, <2>2, <2>3, <2>4, EditStep DEF Reopen
<1>5. \/ /\ req' = [req EXCEPT ![t].pc = "save", ![t].doc = Scored(With(d, "status", i, "open"))]
         /\ Log([issue |-> i, action |-> "reopened", field |-> "status", value |-> "open"])
      \/ req' = [req EXCEPT ![t].pc = "save", ![t].doc = Scored(d)] /\ UNCHANGED activity
  BY <1>2 DEF Reopen
<1>. QED BY <1>3, <1>4, <1>5

LEMMA SaveStep ==
  ASSUME IssuesTypeOK, IssuesInv, NEW t \in Thread, Save(t)
  PROVE  IssuesTypeOK' /\ IssuesInv'
<1>1. /\ req[t].pc = "save" /\ req[t] \in Request /\ req[t].doc \in Document
      /\ AtWork(req[t]) /\ CopyExplained(req[t]) /\ CopyScored(req[t])
  BY AtWorkFacts DEF Save
<1>2. unlogged' \subseteq Issue /\ unlogged \subseteq unlogged' /\ UNCHANGED activity
  BY <1>1 DEF Save, AtWork, IssuesTypeOK
<1>3. \A j, v : Explained(j, v) => Explained(j, v)'
  BY <1>2, SameReasons
<1>4. ASSUME NEW j \in Issue, NEW v, v = req[t].doc.status[j]
      PROVE  Explained(j, v)'
  <2>1. CASE Explained(j, v)
    BY <1>3, <2>1
  <2>2. CASE req[t].op = "apply" /\ j = req[t].issue
    <3>1. v = "fixed" /\ j \in unlogged'
      BY <1>1, <1>4, <2>2 DEF AtWork, Save
    <3>. QED BY <3>1 DEF Explained
  <2>. QED BY <1>1, <1>4, <2>1, <2>2 DEF CopyExplained
<1>5. document' = req[t].doc
  BY DEF Save
<1>6. ActivityExplainsStatus'
  <2>1. ASSUME NEW j \in Issue
        PROVE  Explained(j, document.status[j])'
    <3>1. PICK v : v = req[t].doc.status[j]
      OBVIOUS
    <3>. QED BY <1>4, <1>5, <3>1 DEF Explained
  <2>. QED BY <2>1 DEF ActivityExplainsStatus
<1>7. ScoreOfSavedIssues'
  BY <1>1, <1>5 DEF CopyScored, ScoreOfSavedIssues, ScoreOf, Active
<1>8. PICK r \in Request : /\ req' = [req EXCEPT ![t] = r]
                           /\ \/ r = Idle
                              \/ /\ r.pc = IF req[t].op = "apply" THEN "log" ELSE "register"
                                 /\ r.op = req[t].op /\ r.issue = req[t].issue /\ r.doc = req[t].doc
  <2>1. CASE req[t].op = "summary"
    BY <2>1, IdleRequest DEF Save
  <2>2. CASE req[t].op # "summary"
    <3> DEFINE next == [req[t] EXCEPT !.pc = IF req[t].op = "apply" THEN "log" ELSE "register"]
    <3>1. next \in Request /\ req' = [req EXCEPT ![t] = next]
      BY <1>1, <2>2 DEF Save, Request
    <3>2. next.pc = (IF req[t].op = "apply" THEN "log" ELSE "register") /\ next.op = req[t].op
          /\ next.issue = req[t].issue /\ next.doc = req[t].doc
      BY <1>1 DEF Request
    <3>. HIDE DEF next
    <3>. QED BY <3>1, <3>2
  <2>. QED BY <2>1, <2>2
<1>9. AtWork(r) /\ CopyScored(r)
  BY <1>1, <1>8, IdleRequest DEF AtWork, CopyScored
<1>10. CopyExplained(r)'
  <2>1. CASE r = Idle
    BY <2>1 DEF CopyExplained, Idle
  <2>2. CASE r.doc = req[t].doc
    <3>1. ASSUME NEW j \in Issue
          PROVE  Explained(j, r.doc.status[j])'
      <4>1. PICK v : v = r.doc.status[j]
        OBVIOUS
      <4>2. Explained(j, v)'
        BY <1>4, <2>2, <4>1
      <4>. QED BY <4>1, <4>2 DEF Explained
    <3>. QED BY <3>1 DEF CopyExplained
  <2>. QED BY <1>8, <2>1, <2>2
<1>11. req' \in [Thread -> Request] /\ req'[t] = r /\ \A s \in Thread : s # t => req'[s] = req[s]
  BY <1>8 DEF IssuesTypeOK
<1>12. ASSUME NEW s \in Thread
       PROVE  AtWork(req'[s]) /\ CopyExplained(req[s])' /\ CopyScored(req'[s])
  <2>1. CASE s = t
    BY <2>1, <1>9, <1>10, <1>11 DEF CopyExplained
  <2>2. CASE s # t
    <3>1. req'[s] = req[s] /\ AtWork(req[s]) /\ CopyExplained(req[s]) /\ CopyScored(req[s])
      BY <2>2, <1>11 DEF IssuesInv
    <3>. QED BY <1>3, <3>1 DEF CopyExplained
  <2>. QED BY <2>1, <2>2
<1>13. IssuesTypeOK'
  BY <1>1, <1>2, <1>11 DEF IssuesTypeOK, Save
<1>. QED BY <1>6, <1>7, <1>12, <1>13 DEF IssuesInv, AtWork, CopyScored

\* The last steps of a request, after which its thread is idle.
LEMMA LogAppliedStep ==
  ASSUME IssuesTypeOK, IssuesInv, NEW t \in Thread, LogApplied(t)
  PROVE  IssuesTypeOK' /\ IssuesInv'
<1>1. req[t].issue \in Issue
  BY AtWorkFacts DEF LogApplied, AtWork
<1>2. PICK i \in Issue : i = req[t].issue
  BY <1>1
<1>3. PICK e \in Entry : e = [issue |-> i, action |-> "recommendation_applied", field |-> "status", value |-> "fixed"]
  BY DEF Entry, AllStatus, Inactive
<1>4. /\ activity' \in Seq(Entry) /\ Len(activity') = Len(activity) + 1
      /\ \A n \in DOMAIN activity : n \in DOMAIN activity' /\ activity'[n] = activity[n]
      /\ Len(activity') \in DOMAIN activity' /\ activity'[Len(activity')] = e
  BY <1>2, <1>3 DEF LogApplied, Log, IssuesTypeOK
<1>5. /\ \A j, v : Logged(j, v) => Logged(j, v)'
      /\ Logged(i, "fixed")'
  BY <1>3, <1>4 DEF Logged
<1>6. \A j, v : Explained(j, v) => Explained(j, v)'
  BY <1>2, <1>5 DEF Explained, LogApplied
<1>. QED BY <1>4, <1>6, IdleRequest, RequestStep DEF LogApplied, IssuesTypeOK

LEMMA RegisterStep ==
  ASSUME IssuesTypeOK, IssuesInv, NEW t \in Thread, Register(t)
  PROVE  IssuesTypeOK' /\ IssuesInv'
<1>1. req[t].doc \in Document
  BY AtWorkFacts DEF Register
<1>2. dataset' \in Score
  BY <1>1 DEF Register, Document
<1>3. \A j, v : Explained(j, v) => Explained(j, v)'
  BY SameReasons DEF Register
<1>. QED BY <1>2, <1>3, IdleRequest, RequestStep DEF Register, IssuesTypeOK

LEMMA StopStep ==
  ASSUME IssuesTypeOK, IssuesInv, NEW t \in Thread, Stop(t)
  PROVE  IssuesTypeOK' /\ IssuesInv'
<1>1. \A j, v : Explained(j, v) => Explained(j, v)'
  BY SameReasons DEF Stop
<1>2. stops' \in Nat /\ unsaved' \in BOOLEAN
  <2>1. stops' \in Nat
    BY DEF Stop, IssuesTypeOK
  <2>2. unsaved' = TRUE \/ unsaved' = unsaved
    BY DEF Stop
  <2>. QED BY <2>1, <2>2 DEF IssuesTypeOK
<1>. QED BY <1>1, <1>2, IdleRequest, RequestStep DEF Stop, IssuesTypeOK

LEMMA AddCommentStep ==
  ASSUME IssuesTypeOK, IssuesInv, NEW t \in Thread, NEW i \in Issue, AddComment(t, i)
  PROVE  IssuesTypeOK' /\ IssuesInv'
<1>1. PICK e \in Entry : e = [issue |-> i, action |-> "comment_added", field |-> Null, value |-> Null]
  BY DEF Entry
<1>2. Log(e) /\ unlogged' = unlogged
  BY <1>1 DEF AddComment
<1>3. activity' \in Seq(Entry) /\ \A j, v : Explained(j, v) => Explained(j, v)'
  BY <1>2, EntryExplains DEF IssuesTypeOK
<1>4. /\ req' = [req EXCEPT ![t] = Idle]
      /\ requests' \in Nat
  BY DEF AddComment, IssuesTypeOK
<1>. QED BY <1>3, <1>4, IdleRequest, RequestStep DEF AddComment, IssuesTypeOK

-----------------------------------------------------------------------------
(* Theorems.                                                               *)

LEMMA IssuesInit == Init => IssuesTypeOK /\ IssuesInv
<1> SUFFICES ASSUME Init PROVE IssuesTypeOK /\ IssuesInv
  OBVIOUS
<1> DEFINE d == [status |-> [i \in Issue |-> "open"], note |-> [i \in Issue |-> ""],
                 evidence |-> [i \in Issue |-> ""], affected |-> [i \in Issue |-> TRUE],
                 context |-> CHOOSE c \in Context : TRUE, score |-> Null]
<1>1. /\ Fresh.status = [i \in Issue |-> "open"] /\ Fresh \in Document
      /\ Fresh.score = ScoreOf(Fresh) /\ Fresh.score \in Score
  <2>1. Fresh = [d EXCEPT !.score = ScoreOf(d)]
    BY DEF Fresh, Scored
  <2>2. ScoreOf(d) \in Score
    BY IssuesAssumption DEF ScoreOf, Active, Score
  <2>3. Fresh = [status |-> d.status, note |-> d.note, evidence |-> d.evidence, affected |-> d.affected,
                 context |-> d.context, score |-> ScoreOf(d)]
    BY <2>1
  <2>4. ScoreOf(Fresh) = ScoreOf(d)
    BY <2>3 DEF ScoreOf, Active
  <2>5. Fresh \in Document
    BY <2>2, <2>3, IssuesAssumption DEF Document, AllStatus, Text
  <2>. QED BY <2>2, <2>3, <2>4, <2>5
<1>2. IssuesTypeOK
  <2>1. req \in [Thread -> Request]
    BY IdleRequest DEF Init
  <2>2. document \in Document /\ dataset \in Score
    BY <1>1 DEF Init
  <2>3. activity \in Seq(Entry) /\ unlogged \subseteq Issue
    BY DEF Init
  <2>4. requests \in Nat /\ stops \in Nat /\ overlapped \in BOOLEAN /\ unsaved \in BOOLEAN
    BY DEF Init
  <2>. QED BY <2>1, <2>2, <2>3, <2>4 DEF IssuesTypeOK
<1>3. \A t \in Thread : AtWork(req[t]) /\ CopyExplained(req[t]) /\ CopyScored(req[t])
  BY IdleRequest DEF Init, CopyExplained, Idle
<1>4. ActivityExplainsStatus /\ ScoreOfSavedIssues
  BY <1>1 DEF Init, ActivityExplainsStatus, Explained, ScoreOfSavedIssues
<1>. QED BY <1>2, <1>3, <1>4 DEF IssuesInv

LEMMA IssuesNext == IssuesTypeOK /\ IssuesInv /\ [Next]_issueVars => IssuesTypeOK' /\ IssuesInv'
<1> SUFFICES ASSUME IssuesTypeOK, IssuesInv, [Next]_issueVars PROVE IssuesTypeOK' /\ IssuesInv'
  OBVIOUS
<1>1. CASE UNCHANGED issueVars
  BY <1>1 DEF issueVars, IssuesTypeOK, IssuesInv, ActivityExplainsStatus, ScoreOfSavedIssues, AtWork,
              CopyExplained, CopyScored, Explained, Logged, ScoreOf, Active
<1>2. ASSUME NEW t \in Thread, NEW i \in Issue,
             (\E u \in Update : UpdateIssueStatus(t, i, u)) \/ ApplyRecommendation(t, i) \/ AddComment(t, i)
      PROVE  IssuesTypeOK' /\ IssuesInv'
  BY <1>2, UpdateIssueStatusStep, ApplyRecommendationStep, AddCommentStep
<1>3. ASSUME NEW t \in Thread, SetStatus(t) \/ SetNote(t) \/ SetEvidence(t)
      PROVE  IssuesTypeOK' /\ IssuesInv'
  BY <1>3, SetFieldStep DEF SetStatus, SetNote, SetEvidence
<1>4. ASSUME NEW t \in Thread,
             \/ \E c \in Context : RecalculateScore(t, c)
             \/ RegenerateSummary(t) \/ Reopen(t) \/ Save(t) \/ LogApplied(t) \/ Register(t) \/ Stop(t)
      PROVE  IssuesTypeOK' /\ IssuesInv'
  BY <1>4, RecalculateScoreStep, RegenerateSummaryStep, ReopenStep, SaveStep, LogAppliedStep, RegisterStep, StopStep
<1>. QED BY <1>1, <1>2, <1>3, <1>4 DEF Next

\* Documents, entries and requests stay what they are declared to be, and a
\* request works on a copy whose statuses are explained and whose score is its
\* own when it is saved (the issue routes of audits.py).
THEOREM IssuesInvariant == Spec => [](IssuesTypeOK /\ IssuesInv)
BY IssuesInit, IssuesNext, PTL DEF Spec

\* Every saved status other than "open" has its activity entry, for any number
\* of overlapping or stopped requests.
THEOREM StatusesExplained == Spec => []ActivityExplainsStatus
<1>1. IssuesTypeOK /\ IssuesInv => ActivityExplainsStatus
  BY DEF IssuesInv
<1>. QED BY <1>1, IssuesInvariant, PTL

\* A saved score is that of the saved issues.
THEOREM ScoresMatchIssues == Spec => []ScoreOfSavedIssues
<1>1. IssuesTypeOK /\ IssuesInv => ScoreOfSavedIssues
  BY DEF IssuesInv
<1>. QED BY <1>1, IssuesInvariant, PTL

-----------------------------------------------------------------------------
(* The newest entry of an issue.                                           *)

\* A set of places of a sequence has a last one.
LEMMA LastPlace ==
  ASSUME NEW n \in Nat, NEW S \in SUBSET (1..n), S # {}
  PROVE  \E x \in S : \A y \in S : y <= x
<1>. DEFINE T == {n - x : x \in S}
<1>1. T \in SUBSET Nat /\ T # {}
  <2>1. \A x \in S : n - x \in Nat
    OBVIOUS
  <2>. QED BY <2>1
<1>2. PICK k \in T : \A j \in T : ~(<<j, k>> \in OpToRel(<, Nat))
  <2>1. IsWellFoundedOn(OpToRel(<, Nat), Nat)
    BY NatLessThanWellFounded, Zenon
  <2>. HIDE DEF T
  <2>. QED BY <1>1, <2>1, WFMin, Zenon
<1>3. PICK x \in S : k = n - x
  BY <1>2
<1>4. \A y \in S : y <= x
  <2>. TAKE y \in S
  <2>1. n - y \in T
    OBVIOUS
  <2>2. ~(n - y < n - x)
    BY <1>1, <1>2, <1>3, <2>1 DEF OpToRel
  <2>. QED BY <2>2
<1>. QED BY <1>4

LEMMA LastAfter ==
  ASSUME activity \in Seq(Entry), NEW e \in Entry, Log(e), NEW i \in Issue
  PROVE  LastStatus(i)' = IF e.issue = i /\ e.field = "status" THEN e.value ELSE LastStatus(i)
<1>. DEFINE S == {n \in DOMAIN activity : activity[n].issue = i /\ activity[n].field = "status"}
            newest(T) == CHOOSE n \in T : \A m \in T : m <= n
            S2 == {n \in DOMAIN activity' : activity'[n].issue = i /\ activity'[n].field = "status"}
<1>1. PICK k \in Nat : k = Len(activity) /\ DOMAIN activity = 1..k
  OBVIOUS
<1>2. /\ DOMAIN activity' = 1..(k + 1)
      /\ \A n \in 1..k : activity'[n] = activity[n]
      /\ activity'[k + 1] = e
  BY <1>1 DEF Log
<1>3. S2 = IF e.issue = i /\ e.field = "status" THEN S \union {k + 1} ELSE S
  BY <1>1, <1>2
<1>4. /\ LastStatus(i) = IF S = {} THEN "open" ELSE activity[newest(S)].value
      /\ LastStatus(i)' = IF S2 = {} THEN "open" ELSE activity'[newest(S2)].value
  BY DEF LastStatus
<1>5. S \subseteq 1..k
  BY <1>1
<1>. HIDE DEF S, S2
<1>6. CASE e.issue = i /\ e.field = "status"
  <2>1. S2 = S \union {k + 1}
    BY <1>3, <1>6
  <2>2. newest(S2) = k + 1
    <3>1. k + 1 \in S2 /\ \A m \in S2 : m <= k + 1
      BY <1>5, <2>1
    <3>2. \A n \in S2 : (\A m \in S2 : m <= n) => n = k + 1
      BY <1>5, <2>1
    <3>. QED BY <3>1, <3>2
  <2>. QED BY <1>2, <1>4, <1>6, <2>1, <2>2
<1>7. CASE ~(e.issue = i /\ e.field = "status")
  <2>1. S2 = S
    BY <1>3, <1>7
  <2>2. S # {} => newest(S) \in S
    BY <1>1, <1>5, LastPlace
  <2>. QED BY <1>2, <1>4, <1>5, <1>7, <2>1, <2>2
<1>. QED BY <1>6, <1>7

LEMMA LastSame ==
  ASSUME UNCHANGED activity PROVE \A i \in Issue : LastStatus(i)' = LastStatus(i)
  BY DEF LastStatus

-----------------------------------------------------------------------------
(* The newest entry shows the status, when requests come one at a time.    *)

LEMMA IdleAgrees == /\ ~Ahead(Idle) /\ CopyAgrees(Idle)' /\ NotReopened(Idle)
                    /\ Idle.pc = "idle" /\ Idle.op = Null /\ Idle \in Request
<1>1. Idle.pc = "idle" /\ Idle.op = Null
  BY DEF Idle
<1>2. Null \notin {"update", "apply"}
  BY IssuesAssumption DEF Operation
<1>. QED BY <1>1, <1>2, IdleRequest DEF Ahead, CopyAgrees, NotReopened

\* What the step of a request knows when it is the only one.
LEMMA Alone ==
  ASSUME AgreementInv, NEW t \in Thread, req[t] # Idle, ~overlapped, ~unsaved
  PROVE  /\ \A u \in Thread \ {t} : req[u] = Idle
         /\ CopyAgrees(req[t])
         /\ ~Ahead(req[t]) => Agree(document.status)
<1>1. \A u \in Thread \ {t} : req[u] = Idle
  BY IdleAgrees DEF AgreementInv
<1>2. ~Ahead(req[t]) => \A u \in Thread : ~Ahead(req[u])
  BY <1>1, IdleAgrees
<1>. QED BY <1>1, <1>2 DEF AgreementInv

\* One request goes on as r; what is to be shown is about it alone.
LEMMA AgreementStep ==
  ASSUME IssuesTypeOK, AgreementInv, NEW t \in Thread, NEW r, req' = [req EXCEPT ![t] = r],
         overlapped => overlapped', unsaved => unsaved',
         req[t] # Idle \/ (~overlapped' => \A u \in Thread : req[u] = Idle),
         NotReopened(r), \A i \in Issue : document'.status[i] # "reopened",
         ~overlapped' /\ ~unsaved' => CopyAgrees(r)' /\ (~Ahead(r) => Agree(document.status)')
  PROVE  AgreementInv'
<1>1. req'[t] = r /\ \A u \in Thread \ {t} : req'[u] = req[u]
  BY DEF IssuesTypeOK
<1>2. ReopenedIsOpen'
  BY <1>1 DEF AgreementInv, ReopenedIsOpen, NotReopened
<1>3. ASSUME ~overlapped'
      PROVE  \A u \in Thread \ {t} : req'[u] = Idle
  BY <1>1, <1>3, IdleAgrees DEF AgreementInv
<1>4. ASSUME ~overlapped', ~unsaved'
      PROVE  /\ (\A u \in Thread : ~Ahead(req'[u])) => Agree(document.status)'
             /\ \A u \in Thread : CopyAgrees(req[u])'
  <2>1. CopyAgrees(r)' /\ (~Ahead(r) => Agree(document.status)')
    BY <1>4
  <2>2. ASSUME NEW u \in Thread PROVE CopyAgrees(req[u])'
    <3>1. req'[u] = r \/ req'[u] = Idle
      BY <1>1, <1>3, <1>4
    <3>. QED BY <2>1, <3>1, IdleAgrees DEF CopyAgrees, Agree
  <2>. QED BY <1>1, <2>1, <2>2
<1>5. ~overlapped' => \A s, u \in Thread : req'[s] # Idle /\ req'[u] # Idle => s = u
  BY <1>3
<1>. QED BY <1>2, <1>4, <1>5 DEF AgreementInv, Ahead

\* A request that loads the document; none was at work, if no two overlap.
LEMMA AgreementOfLoad ==
  ASSUME IssuesTypeOK, IssuesInv, AgreementInv, NEW t \in Thread, NEW op \in Operation,
         NEW i \in Issue \union {Null}, NEW u \in Body, NEW d \in Document, NEW pc \in {"status", "save"},
         Load(t, op, i, u, d, pc),
         pc = "status" => op = "update",
         op = "update" => pc = "status" /\ d = document,
         op = "apply" => d.status[i] = "fixed",
         \A j \in Issue : d.status[j] = document.status[j] \/ (op = "apply" /\ j = i)
  PROVE  AgreementInv'
<1>1. PICK r : r = [pc |-> pc, op |-> op, issue |-> i, update |-> u, doc |-> d, old |-> document.status]
  OBVIOUS
<1>2. r.pc = pc /\ r.op = op /\ r.issue = i /\ r.doc = d /\ r.old = document.status
  BY <1>1
<1>3. /\ req' = [req EXCEPT ![t] = r]
      /\ overlapped => overlapped'
      /\ ~overlapped' => \A other \in Thread : req[other] = Idle
      /\ UNCHANGED <<document, activity, unlogged, unsaved>>
  BY <1>1 DEF Load
<1>4. \A j \in Issue : document.status[j] # "reopened" /\ d.status[j] # "reopened"
  BY DEF AgreementInv, ReopenedIsOpen
<1>5. NotReopened(r)
  BY <1>2, <1>4 DEF NotReopened
<1>6. ~Ahead(r)
  BY <1>2 DEF Ahead
<1>7. ASSUME ~overlapped', ~unsaved'
      PROVE  CopyAgrees(r)' /\ Agree(document.status)'
  <2>1. Agree(document.status)
    BY <1>3, <1>7, IdleAgrees DEF AgreementInv
  <2>2. Agree(document.status)'
    BY <1>3, <2>1, LastSame DEF Agree
  <2>3. CopyAgrees(r)'
    BY <1>2, <1>3, <1>6 DEF CopyAgrees, Ahead
  <2>. QED BY <2>2, <2>3
<1>. QED BY <1>3, <1>4, <1>5, <1>7, IdleAgrees, AgreementStep

LEMMA AgreementOfBegin ==
  ASSUME IssuesTypeOK, IssuesInv, AgreementInv, NEW t \in Thread,
         \/ \E i \in Issue : (\E u \in Update : UpdateIssueStatus(t, i, u)) \/ ApplyRecommendation(t, i)
         \/ \E c \in Context : RecalculateScore(t, c)
         \/ RegenerateSummary(t)
  PROVE  AgreementInv'
<1>1. document \in Document /\ NoUpdate \in Body
  BY DEF IssuesTypeOK, NoUpdate, Body
<1>2. ASSUME NEW i \in Issue, NEW u \in Update, UpdateIssueStatus(t, i, u) PROVE AgreementInv'
  <2>1. u \in Body /\ Load(t, "update", i, u, document, "status")
    BY <1>2, IssuesAssumption DEF UpdateIssueStatus
  <2>. QED BY <1>1, <2>1, AgreementOfLoad DEF Operation
<1>3. ASSUME NEW i \in Issue, ApplyRecommendation(t, i) PROVE AgreementInv'
  <2>1. PICK d : d = Scored([document EXCEPT !.status[i] = "fixed", !.note[i] = "text", !.affected[i] = FALSE])
    OBVIOUS
  <2>2. d \in Document /\ d.status = [document.status EXCEPT ![i] = "fixed"]
    BY <1>1, <2>1, AppliedDocument
  <2>3. document.status \in [Issue -> AllStatus]
    BY <1>1 DEF Document
  <2>4. d.status[i] = "fixed" /\ \A j \in Issue : d.status[j] = document.status[j] \/ j = i
    BY <2>2, <2>3
  <2>5. Load(t, "apply", i, NoUpdate, d, "save")
    BY <1>3, <2>1 DEF ApplyRecommendation
  <2>6. d \in Document
    BY <2>2
  <2>. QED BY <1>1, <2>4, <2>5, <2>6, AgreementOfLoad DEF Operation
<1>4. ASSUME NEW c \in Context, RecalculateScore(t, c) PROVE AgreementInv'
  <2>1. [document EXCEPT !.context = c] \in Document /\ [document EXCEPT !.context = c].status = document.status
    BY <1>1 DEF Document
  <2>2. PICK d \in Document : Load(t, "recalculate", Null, NoUpdate, d, "save") /\ d.status = document.status
    BY <1>4, <2>1, ScoredDocument DEF RecalculateScore
  <2>. QED BY <1>1, <2>2, AgreementOfLoad DEF Operation
<1>5. ASSUME RegenerateSummary(t) PROVE AgreementInv'
  <2>1. Load(t, "summary", Null, NoUpdate, document, "save")
    BY <1>5 DEF RegenerateSummary
  <2>. QED BY <1>1, <2>1, AgreementOfLoad DEF Operation
<1>. QED BY <1>2, <1>3, <1>4, <1>5

\* An update that goes on as r, with the copy r.doc.
LEMMA AgreementOfEdit ==
  ASSUME IssuesTypeOK, AgreementInv, NEW t \in Thread, NEW r, NEW q, q = req[t],
         q.pc \in {"status", "note", "evidence", "reopen"}, q.op = "update",
         req' = [req EXCEPT ![t] = r],
         r.pc \in {"note", "evidence", "reopen", "save"}, r.op = "update", r.old = q.old,
         UNCHANGED <<document, overlapped, unlogged, unsaved>>,
         NotReopened(r),
         ~overlapped /\ ~unsaved => Agree(r.doc.status)',
         ~overlapped /\ ~unsaved => (r.update.status \in {Null, r.old[r.issue]} => r.doc.status = document.status)
  PROVE  AgreementInv'
<1>1. \A j \in Issue : document'.status[j] # "reopened"
  BY DEF AgreementInv, ReopenedIsOpen
<1>2. Ahead(r)
  BY DEF Ahead
<1>3. ASSUME ~overlapped', ~unsaved'
      PROVE  CopyAgrees(r)'
  <2>1. CopyAgrees(req[t]) /\ (Ahead(req[t]) \/ req[t].pc = "status")
    BY <1>3, IdleAgrees, Alone DEF Ahead
  <2>2. r.old = document.status
    BY <2>1 DEF CopyAgrees
  <2>3. UNCHANGED document
    OBVIOUS
  <2>. QED BY <1>2, <1>3, <2>2, <2>3 DEF CopyAgrees, Ahead
<1>. QED BY <1>1, <1>2, <1>3, IdleAgrees, AgreementStep

\* What an update at one of its steps knows.
LEMMA UpdateFacts ==
  ASSUME IssuesTypeOK, IssuesInv, AgreementInv, NEW t \in Thread, NEW i, NEW d, NEW u,
         i = req[t].issue, d = req[t].doc, u = req[t].update,
         req[t].pc \in {"status", "note", "evidence", "reopen"}
  PROVE  /\ req[t] \in Request /\ d \in Document /\ d.status \in [Issue -> AllStatus]
         /\ i \in Issue /\ req[t].op = "update" /\ u \in Body
         /\ \A j \in Issue : d.status[j] = "reopened" => j = i /\ req[t].pc # "status" /\ u.status = "reopened"
         /\ ~overlapped /\ ~unsaved =>
              /\ Agree(d.status) /\ req[t].old = document.status
              /\ req[t].pc = "status" => d.status = document.status
              /\ u.status \in {Null, req[t].old[i]} => d.status = document.status
<1>1. /\ req[t] \in Request /\ req[t].doc \in Document /\ req[t].issue \in Issue /\ req[t].op = "update"
      /\ req[t].update \in Body
  BY AtWorkFacts DEF AtWork, Request
<1>2. req[t].doc.status \in [Issue -> AllStatus] /\ document.status \in [Issue -> AllStatus]
  BY <1>1 DEF Document, IssuesTypeOK
<1>3. NotReopened(req[t]) /\ \A j \in Issue : document.status[j] # "reopened"
  BY DEF AgreementInv, ReopenedIsOpen
<1>4. ASSUME ~overlapped, ~unsaved
      PROVE  /\ Agree(req[t].doc.status) /\ req[t].old = document.status
             /\ req[t].pc = "status" => req[t].doc.status = document.status
             /\ req[t].update.status \in {Null, req[t].old[req[t].issue]} => req[t].doc.status = document.status
  <2>1. CopyAgrees(req[t]) /\ (~Ahead(req[t]) => Agree(document.status))
    BY <1>4, IdleAgrees, Alone
  <2>2. CASE req[t].pc = "status"
    <3>1. \A j \in Issue : req[t].doc.status[j] = document.status[j]
      BY <1>1, <2>1, <2>2 DEF CopyAgrees
    <3>2. req[t].doc.status = document.status
      BY <1>2, <3>1
    <3>. QED BY <2>1, <2>2, <3>2 DEF CopyAgrees, Ahead
  <2>3. CASE Ahead(req[t]) /\ req[t].pc # "status"
    BY <2>1, <2>3 DEF CopyAgrees
  <2>. QED BY <1>1, <2>2, <2>3 DEF Ahead
<1>. QED BY <1>1, <1>2, <1>3, <1>4 DEF NotReopened

\* One field of an update: nothing changes, or its entry is written.
LEMMA AgreementOfField ==
  ASSUME IssuesTypeOK, IssuesInv, AgreementInv, NEW t \in Thread, NEW field \in {"status", "note", "evidence"},
         NEW next \in {"note", "evidence", "reopen"}, SetField(t, field, field, next),
         next = "note" <=> field = "status"
  PROVE  AgreementInv'
<1>1. req[t].pc = field /\ UNCHANGED <<document, overlapped, unlogged, unsaved>>
  BY DEF SetField
<1>2. PICK i, d, u : i = req[t].issue /\ d = req[t].doc /\ u = req[t].update
  OBVIOUS
<1>. req[t].pc \in {"status", "note", "evidence", "reopen"}
  BY <1>1
<1>3. /\ i \in Issue /\ d \in Document /\ u \in Body /\ d.status \in [Issue -> AllStatus]
      /\ req[t].op = "update" /\ req[t] \in Request
      /\ \A j \in Issue : d.status[j] = "reopened" => j = i /\ field # "status" /\ u.status = "reopened"
  BY <1>1, <1>2, UpdateFacts
<1>4. ~overlapped /\ ~unsaved =>
        /\ Agree(d.status) /\ req[t].old = document.status
        /\ field = "status" => d.status = document.status
        /\ u.status \in {Null, req[t].old[i]} => d.status = document.status
  BY <1>1, <1>2, UpdateFacts
<1>5. CASE u[field] \in {Null, d[field][i]} /\ UNCHANGED activity /\ req' = [req EXCEPT ![t].pc = next]
  <2>1. PICK r : /\ req' = [req EXCEPT ![t] = r]
                 /\ r.pc = next /\ r.doc = d /\ r.op = "update" /\ r.issue = i /\ r.update = u /\ r.old = req[t].old
    <3>1. PICK r : r = [req[t] EXCEPT !.pc = next]
      OBVIOUS
    <3>2. r.pc = next /\ r.doc = d /\ r.op = "update" /\ r.issue = i /\ r.update = u /\ r.old = req[t].old
      BY <1>2, <1>3, <3>1 DEF Request
    <3>3. req' = [req EXCEPT ![t] = r]
      BY <1>5, <3>1 DEF IssuesTypeOK
    <3>. QED BY <3>2, <3>3
  <2>2. ~overlapped /\ ~unsaved => Agree(r.doc.status)'
    BY <1>1, <1>4, <1>5, <2>1, LastSame DEF Agree
  <2>3. NotReopened(r)
    BY <1>3, <2>1 DEF NotReopened
  <2>. QED BY <1>1, <1>3, <1>4, <2>1, <2>2, <2>3, AgreementOfEdit
<1>6. CASE /\ u[field] \notin {Null, d[field][i]}
           /\ req' = [req EXCEPT ![t].pc = next, ![t].doc = With(d, field, i, u[field])]
           /\ Log([issue |-> i, action |-> "field_updated", field |-> field, value |-> u[field]])
  <2>1. PICK v : v = u[field]
    OBVIOUS
  <2>2. \/ field = "status" /\ v \in AllStatus
        \/ field \in {"note", "evidence"} /\ v \in Text
    BY <1>3, <1>6, <2>1 DEF Body
  <2>3. PICK e \in Entry : e = [issue |-> i, action |-> "field_updated", field |-> field, value |-> v]
    BY <1>3, <2>2 DEF Entry
  <2>4. Log(e) /\ e.issue = i /\ e.field = field /\ e.value = v
    BY <1>6, <2>1, <2>3
  <2>5. \A j \in Issue : LastStatus(j)' = IF j = i /\ field = "status" THEN v ELSE LastStatus(j)
    BY <2>4, LastAfter DEF IssuesTypeOK
  <2>6. PICK c \in Document : c = With(d, field, i, v)
    BY <1>3, <2>2, WithStatus, WithText
  <2>7. PICK r : /\ req' = [req EXCEPT ![t] = r]
                 /\ r.pc = next /\ r.doc = c /\ r.op = "update" /\ r.issue = i /\ r.update = u /\ r.old = req[t].old
    <3>1. PICK r : r = [req[t] EXCEPT !.pc = next, !.doc = c]
      OBVIOUS
    <3>2. r.pc = next /\ r.doc = c /\ r.op = "update" /\ r.issue = i /\ r.update = u /\ r.old = req[t].old
      BY <1>2, <1>3, <3>1 DEF Request
    <3>3. req' = [req EXCEPT ![t] = r]
      BY <1>6, <2>1, <2>6, <3>1 DEF IssuesTypeOK
    <3>. QED BY <3>2, <3>3
  <2>8. CASE field = "status" /\ v \in AllStatus
    <3>1. c.status = [d.status EXCEPT ![i] = v] /\ u.status = v /\ d.status[i] # v /\ v # Null
      BY <1>3, <1>6, <2>1, <2>6, <2>8, WithStatus
    <3>2. \A j \in Issue : c.status[j] = IF j = i THEN v ELSE d.status[j]
      BY <1>3, <3>1
    <3>3. NotReopened(r)
      BY <1>3, <2>7, <2>8, <3>1, <3>2 DEF NotReopened
    <3>4. ~overlapped /\ ~unsaved => Agree(r.doc.status)'
      BY <1>1, <1>4, <2>5, <2>7, <2>8, <3>2 DEF Agree
    <3>5. ~overlapped /\ ~unsaved => r.update.status \notin {Null, r.old[r.issue]}
      BY <1>4, <2>7, <2>8, <3>1
    <3>. QED BY <1>1, <1>3, <2>7, <3>3, <3>4, <3>5, AgreementOfEdit
  <2>9. CASE field \in {"note", "evidence"} /\ v \in Text
    <3>1. c.status = d.status
      BY <1>3, <2>6, <2>9, WithText
    <3>2. NotReopened(r)
      BY <1>3, <2>7, <2>9, <3>1 DEF NotReopened
    <3>3. ~overlapped /\ ~unsaved => Agree(r.doc.status)'
      BY <1>1, <1>4, <2>5, <2>7, <2>9, <3>1 DEF Agree
    <3>. QED BY <1>1, <1>3, <1>4, <2>7, <3>1, <3>2, <3>3, AgreementOfEdit
  <2>. QED BY <2>2, <2>8, <2>9
<1>7. \/ u[field] \in {Null, d[field][i]} /\ UNCHANGED activity /\ req' = [req EXCEPT ![t].pc = next]
      \/ /\ u[field] \notin {Null, d[field][i]}
         /\ req' = [req EXCEPT ![t].pc = next, ![t].doc = With(d, field, i, u[field])]
         /\ Log([issue |-> i, action |-> "field_updated", field |-> field, value |-> u[field]])
  BY <1>2 DEF SetField
<1>. QED BY <1>5, <1>6, <1>7

\* "reopened" becomes "open"; the document never had it.
LEMMA AgreementOfReopen ==
  ASSUME IssuesTypeOK, IssuesInv, AgreementInv, NEW t \in Thread, Reopen(t)
  PROVE  AgreementInv'
<1>1. req[t].pc = "reopen" /\ UNCHANGED <<document, overlapped, unlogged, unsaved>>
  BY DEF Reopen
<1>2. PICK i, d, u, q : i = req[t].issue /\ d = req[t].doc /\ u = req[t].update /\ q = req[t]
  OBVIOUS
<1>. req[t].pc \in {"status", "note", "evidence", "reopen"}
  BY <1>1
<1>3. /\ i \in Issue /\ d \in Document /\ u \in Body /\ d.status \in [Issue -> AllStatus]
      /\ q.pc = "reopen" /\ q.op = "update" /\ q \in Request
      /\ \A j \in Issue : d.status[j] = "reopened" => j = i /\ u.status = "reopened"
  BY <1>1, <1>2, UpdateFacts
<1>4. ~overlapped /\ ~unsaved =>
        /\ Agree(d.status) /\ q.old = document.status
        /\ u.status \in {Null, q.old[i]} => d.status = document.status
  BY <1>1, <1>2, UpdateFacts
<1>5. ASSUME NEW c, req' = [req EXCEPT ![t].pc = "save", ![t].doc = c],
             \A j \in Issue : c.status[j] # "reopened",
             ~overlapped /\ ~unsaved => Agree(c.status)',
             ~overlapped /\ ~unsaved => (u.status \in {Null, q.old[i]} => c.status = document.status)
      PROVE  AgreementInv'
  <2>1. PICK r : r = [q EXCEPT !.pc = "save", !.doc = c]
    OBVIOUS
  <2>2. r.pc = "save" /\ r.doc = c /\ r.op = "update" /\ r.issue = i /\ r.update = u /\ r.old = q.old
    BY <1>2, <1>3, <2>1 DEF Request
  <2>3. req' = [req EXCEPT ![t] = r]
    BY <1>2, <1>5, <2>1 DEF IssuesTypeOK
  <2>4. NotReopened(r)
    BY <1>5, <2>2 DEF NotReopened
  <2>. QED BY <1>1, <1>2, <1>3, <1>5, <2>2, <2>3, <2>4, AgreementOfEdit
<1>6. CASE /\ d.status[i] = "reopened"
           /\ req' = [req EXCEPT ![t].pc = "save", ![t].doc = Scored(With(d, "status", i, "open"))]
           /\ Log([issue |-> i, action |-> "reopened", field |-> "status", value |-> "open"])
  <2>1. PICK e \in Entry : e = [issue |-> i, action |-> "reopened", field |-> "status", value |-> "open"]
    BY <1>3 DEF Entry, AllStatus
  <2>2. Log(e) /\ e.issue = i /\ e.field = "status" /\ e.value = "open"
    BY <1>6, <2>1
  <2>3. \A j \in Issue : LastStatus(j)' = IF j = i THEN "open" ELSE LastStatus(j)
    BY <2>2, LastAfter DEF IssuesTypeOK
  <2>4. PICK c : c = Scored(With(d, "status", i, "open"))
    OBVIOUS
  <2>5. "open" \in AllStatus
    BY DEF AllStatus
  <2>6. c.status = [d.status EXCEPT ![i] = "open"]
    BY <1>3, <2>4, <2>5, WithStatus, ScoredDocument
  <2>7. \A j \in Issue : c.status[j] = IF j = i THEN "open" ELSE d.status[j]
    BY <1>3, <2>6
  <2>8. \A j \in Issue : c.status[j] # "reopened"
    BY <1>3, <2>7
  <2>9. ~overlapped /\ ~unsaved => Agree(c.status)'
    BY <1>1, <1>4, <2>3, <2>7 DEF Agree
  <2>10. ~overlapped /\ ~unsaved => u.status \notin {Null, q.old[i]}
    <3>1. u.status = "reopened" /\ document.status[i] # "reopened"
      BY <1>3, <1>6 DEF AgreementInv, ReopenedIsOpen
    <3>2. "reopened" # Null
      BY IssuesAssumption DEF AllStatus
    <3>. QED BY <1>4, <3>1, <3>2
  <2>11. req' = [req EXCEPT ![t].pc = "save", ![t].doc = c]
    BY <1>6, <2>4
  <2>. QED BY <1>5, <2>8, <2>9, <2>10, <2>11
<1>7. CASE /\ d.status[i] # "reopened"
           /\ req' = [req EXCEPT ![t].pc = "save", ![t].doc = Scored(d)]
           /\ UNCHANGED activity
  <2>1. PICK c : c = Scored(d)
    OBVIOUS
  <2>2. c.status = d.status
    BY <1>3, <2>1, ScoredDocument
  <2>3. \A j \in Issue : c.status[j] # "reopened"
    BY <1>3, <1>7, <2>2
  <2>4. ~overlapped /\ ~unsaved => Agree(c.status)'
    BY <1>1, <1>4, <1>7, <2>2, LastSame DEF Agree
  <2>5. req' = [req EXCEPT ![t].pc = "save", ![t].doc = c]
    BY <1>7, <2>1
  <2>. QED BY <1>4, <1>5, <2>2, <2>3, <2>4, <2>5
<1>8. \/ /\ d.status[i] = "reopened"
         /\ req' = [req EXCEPT ![t].pc = "save", ![t].doc = Scored(With(d, "status", i, "open"))]
         /\ Log([issue |-> i, action |-> "reopened", field |-> "status", value |-> "open"])
      \/ /\ d.status[i] # "reopened"
         /\ req' = [req EXCEPT ![t].pc = "save", ![t].doc = Scored(d)]
         /\ UNCHANGED activity
  BY <1>2 DEF Reopen
<1>. QED BY <1>6, <1>7, <1>8

\* A save: the document becomes the copy, which the entries agree with.
LEMMA AgreementOfSave ==
  ASSUME IssuesTypeOK, IssuesInv, AgreementInv, NEW t \in Thread, Save(t)
  PROVE  AgreementInv'
<1>1. PICK q : q = req[t]
  OBVIOUS
<1>2. /\ q.pc = "save" /\ q \in Request /\ AtWork(q) /\ document' = q.doc
      /\ unlogged' = (IF q.op = "apply" THEN unlogged \union {q.issue} ELSE unlogged)
      /\ UNCHANGED <<activity, overlapped, unsaved>>
  BY <1>1, AtWorkFacts DEF Save
<1>3. \A j \in Issue : document'.status[j] # "reopened"
  BY <1>1, <1>2 DEF AgreementInv, ReopenedIsOpen, NotReopened
<1>4. PICK r : /\ req' = [req EXCEPT ![t] = r]
               /\ \/ r = Idle
                  \/ /\ r.pc = IF q.op = "apply" THEN "log" ELSE "register"
                     /\ r.op = q.op /\ r.issue = q.issue /\ r.doc = q.doc
  <2>1. CASE q.op = "summary"
    BY <1>1, <2>1 DEF Save
  <2>2. CASE q.op # "summary"
    <3>1. PICK r : r = [q EXCEPT !.pc = IF q.op = "apply" THEN "log" ELSE "register"]
      OBVIOUS
    <3>2. r.pc = (IF q.op = "apply" THEN "log" ELSE "register") /\ r.op = q.op /\ r.issue = q.issue /\ r.doc = q.doc
      BY <1>2, <3>1 DEF Request
    <3>3. req' = [req EXCEPT ![t] = r]
      BY <1>1, <2>2, <3>1 DEF Save
    <3>. QED BY <3>2, <3>3
  <2>. QED BY <2>1, <2>2
<1>5. NotReopened(r) /\ ~Ahead(r)
  <2>1. CASE r = Idle
    BY <2>1, IdleAgrees
  <2>2. CASE r.pc \in {"log", "register"} /\ r.doc = q.doc
    BY <1>2, <1>3, <2>2 DEF NotReopened, Ahead
  <2>. QED BY <1>4, <2>1, <2>2
<1>6. ASSUME ~overlapped', ~unsaved'
      PROVE  CopyAgrees(r)' /\ Agree(document.status)'
  <2>1. CopyAgrees(q) /\ (~Ahead(q) => Agree(document.status))
    BY <1>1, <1>2, <1>6, IdleAgrees, Alone
  <2>2. \A j \in Issue : LastStatus(j)' = LastStatus(j)
    BY <1>2, LastSame
  <2>3. CASE q.op = "update"
    <3>1. Agree(q.doc.status)
      BY <1>2, <2>1, <2>3 DEF CopyAgrees, Ahead
    <3>2. Agree(document.status)'
      BY <1>2, <2>2, <2>3, <3>1 DEF Agree
    <3>3. r.pc # "log"
      BY <1>4, <2>3 DEF Idle
    <3>. QED BY <1>4, <1>5, <3>2, <3>3 DEF CopyAgrees, Idle
  <2>4. CASE q.op # "update"
    <3>1. /\ Agree(document.status)
          /\ \A j \in Issue : q.doc.status[j] = document.status[j] \/ (q.op = "apply" /\ j = q.issue)
      BY <1>2, <2>1, <2>4 DEF CopyAgrees, Ahead
    <3>2. Agree(document.status)'
      BY <1>2, <2>2, <3>1 DEF Agree
    <3>3. r.pc = "log" => document'.status[r.issue] = "fixed"
      BY <1>2, <1>4 DEF AtWork, Idle
    <3>. QED BY <1>4, <1>5, <3>2, <3>3 DEF CopyAgrees, Idle
  <2>. QED BY <2>3, <2>4
<1>7. req[t].pc # "idle"
  BY <1>1, <1>2
<1>. QED BY <1>2, <1>3, <1>4, <1>5, <1>6, <1>7, IdleAgrees, AgreementStep


\* The entry of an applied recommendation comes after its save.
LEMMA AgreementOfLog ==
  ASSUME IssuesTypeOK, IssuesInv, AgreementInv, NEW t \in Thread, LogApplied(t)
  PROVE  AgreementInv'
<1>1. PICK i : i = req[t].issue
  OBVIOUS
<1>2. /\ req[t].pc = "log" /\ i \in Issue /\ unlogged' = unlogged \ {i}
      /\ UNCHANGED <<document, overlapped, unsaved>> /\ req' = [req EXCEPT ![t] = Idle]
      /\ Log([issue |-> i, action |-> "recommendation_applied", field |-> "status", value |-> "fixed"])
  BY <1>1, AtWorkFacts DEF LogApplied, AtWork
<1>3. PICK e \in Entry : e = [issue |-> i, action |-> "recommendation_applied", field |-> "status", value |-> "fixed"]
  BY <1>2 DEF Entry, AllStatus, Inactive
<1>4. Log(e) /\ e.issue = i /\ e.field = "status" /\ e.value = "fixed"
  BY <1>2, <1>3
<1>5. \A j \in Issue : LastStatus(j)' = IF j = i THEN "fixed" ELSE LastStatus(j)
  BY <1>4, LastAfter DEF IssuesTypeOK
<1>6. ASSUME ~overlapped', ~unsaved'
      PROVE  Agree(document.status)'
  <2>1. CopyAgrees(req[t]) /\ (~Ahead(req[t]) => Agree(document.status))
    BY <1>2, <1>6, IdleAgrees, Alone
  <2>2. document.status[i] = "fixed" /\ Agree(document.status)
    BY <1>1, <1>2, <2>1 DEF CopyAgrees, Ahead
  <2>. QED BY <1>2, <1>5, <2>2 DEF Agree
<1>7. \A j \in Issue : document'.status[j] # "reopened"
  BY <1>2 DEF AgreementInv, ReopenedIsOpen
<1>. QED BY <1>2, <1>6, <1>7, IdleAgrees, AgreementStep

\* A request that ends and wrote no entry that it did not save.
LEMMA AgreementOfEnd ==
  ASSUME IssuesTypeOK, IssuesInv, AgreementInv, NEW t \in Thread, Register(t) \/ Stop(t)
  PROVE  AgreementInv'
<1>1. PICK q : q = req[t]
  OBVIOUS
<1>2. /\ q # Idle /\ (unsaved => unsaved')
      /\ UNCHANGED <<document, activity, overlapped, unlogged>> /\ req' = [req EXCEPT ![t] = Idle]
  <2>1. CASE Register(t)
    BY <1>1, <2>1, IdleAgrees DEF Register
  <2>2. CASE Stop(t)
    BY <1>1, <2>2 DEF Stop
  <2>. QED BY <2>1, <2>2
<1>3. ASSUME ~overlapped', ~unsaved'
      PROVE  Agree(document.status)'
  <2>1. CopyAgrees(q) /\ (~Ahead(q) => Agree(document.status))
    BY <1>1, <1>2, <1>3, IdleAgrees, Alone
  <2>2. Agree(document.status)
    <3>1. CASE ~Ahead(q)
      BY <2>1, <3>1
    <3>2. CASE Ahead(q)
      <4>1. q.update.status \in {Null, q.old[q.issue]}
        BY <1>1, <1>3, <3>2 DEF Ahead, Register, Stop
      <4>. QED BY <2>1, <3>2, <4>1 DEF CopyAgrees
    <3>. QED BY <3>1, <3>2
  <2>. QED BY <1>2, <2>2, LastSame DEF Agree
<1>4. \A j \in Issue : document'.status[j] # "reopened"
  BY <1>2 DEF AgreementInv, ReopenedIsOpen
<1>5. req[t] # Idle
  BY <1>1, <1>2
<1>. QED BY <1>2, <1>3, <1>4, <1>5, IdleAgrees, AgreementStep

\* A step that touches neither a request nor the document, nor any last status.
LEMMA AgreementStays ==
  ASSUME AgreementInv, UNCHANGED <<document, req, overlapped, unlogged, unsaved>>,
         \A j \in Issue : LastStatus(j)' = LastStatus(j)
  PROVE  AgreementInv'
<1>1. ReopenedIsOpen'
  BY DEF AgreementInv, ReopenedIsOpen, NotReopened
<1>2. ~overlapped' => \A s, t \in Thread : req'[s] # Idle /\ req'[t] # Idle => s = t
  BY DEF AgreementInv
<1>3. ASSUME ~overlapped', ~unsaved'
      PROVE  /\ (\A t \in Thread : ~Ahead(req'[t])) => Agree(document.status)'
             /\ \A t \in Thread : CopyAgrees(req[t])'
  <2>1. /\ (\A t \in Thread : ~Ahead(req[t])) => Agree(document.status)
        /\ \A t \in Thread : CopyAgrees(req[t])
    BY <1>3 DEF AgreementInv
  <2>2. Agree(document.status) => Agree(document.status)'
    BY DEF Agree
  <2>3. ASSUME NEW t \in Thread PROVE CopyAgrees(req[t])'
    <3>1. PICK r : r = req[t]
      OBVIOUS
    <3>2. CopyAgrees(r) /\ r = req'[t]
      BY <2>1, <3>1
    <3>3. Agree(r.doc.status) => Agree(r.doc.status)'
      BY DEF Agree
    <3>4. Ahead(r) => /\ Agree(r.doc.status)'
                      /\ r.update.status \in {Null, r.old[r.issue]} => r.doc.status = document'.status
      BY <3>1, <3>2, <3>3 DEF CopyAgrees, Agree
    <3>. QED BY <3>2, <3>4 DEF CopyAgrees, Ahead
  <2>. QED BY <2>1, <2>2, <2>3
<1>. QED BY <1>1, <1>2, <1>3 DEF AgreementInv, Ahead

\* A comment has an entry that says nothing of the status.
LEMMA AgreementOfComment ==
  ASSUME IssuesTypeOK, AgreementInv, NEW t \in Thread, NEW i \in Issue, AddComment(t, i)
  PROVE  AgreementInv'
<1>1. PICK e \in Entry : e = [issue |-> i, action |-> "comment_added", field |-> Null, value |-> Null]
  BY DEF Entry
<1>2. Log(e) /\ e.field # "status"
  BY <1>1, IssuesAssumption DEF AddComment
<1>3. \A j \in Issue : LastStatus(j)' = LastStatus(j)
  BY <1>2, LastAfter DEF IssuesTypeOK
<1>. QED BY <1>3, AgreementStays DEF AddComment

LEMMA AgreementInit == Init => AgreementInv
<1> SUFFICES ASSUME Init PROVE AgreementInv
  OBVIOUS
<1>1. \A t \in Thread : req[t] = Idle
  BY DEF Init
<1>2. \A i \in Issue : document.status[i] = "open" /\ LastStatus(i) = "open"
  <2>1. document.status = [i \in Issue |-> "open"]
    BY DEF Init, Fresh, Scored
  <2>2. \A i \in Issue : LastStatus(i) = "open"
    BY DEF Init, LastStatus
  <2>. QED BY <2>1, <2>2
<1>3. CopyAgrees(Idle) /\ NotReopened(Idle)
  <2>1. Null \notin {"update", "apply"}
    BY IssuesAssumption DEF Operation
  <2>. QED BY <2>1 DEF CopyAgrees, NotReopened, Idle, Ahead
<1>. QED BY <1>1, <1>2, <1>3 DEF AgreementInv, ReopenedIsOpen, Agree

LEMMA AgreementNext ==
  IssuesTypeOK /\ IssuesInv /\ AgreementInv /\ [Next]_issueVars => AgreementInv'
<1> SUFFICES ASSUME IssuesTypeOK, IssuesInv, AgreementInv, [Next]_issueVars PROVE AgreementInv'
  OBVIOUS
<1>1. CASE UNCHANGED issueVars
  <2>1. UNCHANGED <<document, req, overlapped, unlogged, unsaved>> /\ UNCHANGED activity
    BY <1>1 DEF issueVars
  <2>. QED BY <2>1, LastSame, AgreementStays
<1>2. ASSUME NEW t \in Thread,
             \/ \E i \in Issue : (\E u \in Update : UpdateIssueStatus(t, i, u)) \/ ApplyRecommendation(t, i)
             \/ \E c \in Context : RecalculateScore(t, c)
             \/ RegenerateSummary(t)
      PROVE  AgreementInv'
  BY <1>2, AgreementOfBegin
<1>3. ASSUME NEW t \in Thread, SetStatus(t) \/ SetNote(t) \/ SetEvidence(t)
      PROVE  AgreementInv'
  BY <1>3, AgreementOfField DEF SetStatus, SetNote, SetEvidence
<1>4. ASSUME NEW t \in Thread,
             \/ \E i \in Issue : AddComment(t, i)
             \/ Reopen(t) \/ Save(t) \/ LogApplied(t) \/ Register(t) \/ Stop(t)
      PROVE  AgreementInv'
  BY <1>4, AgreementOfComment, AgreementOfReopen, AgreementOfSave, AgreementOfLog, AgreementOfEnd
<1>. QED BY <1>1, <1>2, <1>3, <1>4 DEF Next

\* While requests come one at a time and none stops between its entries and its
\* save, an update's entries run ahead of the document by its own copy and no more.
THEOREM EntriesRunAhead == Spec => []AgreementInv
<1>1. Init => IssuesTypeOK /\ IssuesInv /\ AgreementInv
  BY IssuesInit, AgreementInit
<1>2. IssuesTypeOK /\ IssuesInv /\ AgreementInv /\ [Next]_issueVars
        => IssuesTypeOK' /\ IssuesInv' /\ AgreementInv'
  BY IssuesNext, AgreementNext
<1>. QED BY <1>1, <1>2, PTL DEF Spec

\* When nothing is at work, the newest entry of each issue shows its status, unless
\* requests overlapped, or one stopped with entries written and its copy unsaved.
THEOREM ActivitiesAgree == Spec => []ActivityAgrees
<1>1. AgreementInv => ActivityAgrees
  BY IdleAgrees DEF AgreementInv, ActivityAgrees, AllIdle, Agree
<1>. QED BY <1>1, EntriesRunAhead, PTL

-----------------------------------------------------------------------------
(* Drift: the events of two versions.                                      *)

LEMMA LeastPlace ==
  ASSUME NEW S \in SUBSET Nat, S # {}
  PROVE  \E x \in S : \A y \in S : x <= y
<1>1. IsWellFoundedOn(OpToRel(<, Nat), Nat)
  BY NatLessThanWellFounded, Zenon
<1>2. PICK x \in S : \A y \in S : ~(<<y, x>> \in OpToRel(<, Nat))
  BY <1>1, WFMin, Zenon
<1>3. \A y \in S : ~(y < x)
  BY <1>2 DEF OpToRel
<1>. QED BY <1>3

LEMMA EventIs ==
  ASSUME NEW v, NEW type, NEW key, NEW impact, NEW after
  PROVE  LET e == Event(v, type, key, impact, after) IN
         e.version = v /\ e.type = type /\ Columns(e) = DOMAIN after /\ e.after = after
  BY DEF Event, Columns

\* What _pair_events reports of the columns of two versions, and what else.
LEMMA ColumnEventsAre ==
  ASSUME NEW v, NEW old, NEW new, NEW e \in ColumnEvents(v, old, new)
  PROVE  /\ e.version = v
         /\ \/ /\ e.type = "column_added" /\ Columns(e) = Added(old, new) /\ Columns(e) # {}
               /\ \A c \in Columns(e) : e.after[c] = new[c].type
            \/ /\ e.type = "column_removed" /\ Columns(e) = Removed(old, new) /\ Columns(e) # {}
               /\ \A c \in Columns(e) : e.after[c] = "none"
<1>1. CASE \E impact : Added(old, new) # {} /\ e = Event(v, "column_added", Joined[Added(old, new)], impact, [c \in Added(old, new) |-> new[c].type])
  <2>1. e.version = v /\ e.type = "column_added" /\ Columns(e) = Added(old, new) /\ e.after = [c \in Added(old, new) |-> new[c].type]
    BY <1>1, EventIs
  <2>. QED BY <1>1, <2>1
<1>2. CASE \E impact : Removed(old, new) # {} /\ e = Event(v, "column_removed", Joined[Removed(old, new)], impact, [c \in Removed(old, new) |-> "none"])
  <2>1. e.version = v /\ e.type = "column_removed" /\ Columns(e) = Removed(old, new) /\ e.after = [c \in Removed(old, new) |-> "none"]
    BY <1>2, EventIs
  <2>. QED BY <1>2, <2>1
<1>. QED BY <1>1, <1>2 DEF ColumnEvents

LEMMA TypeEventsAre ==
  ASSUME NEW v, NEW old, NEW new, NEW e \in TypeEvents(v, old, new)
  PROVE  /\ e.version = v /\ e.type = "type_changed"
         /\ \E c \in Retyped(old, new) : Columns(e) = {c} /\ e.after[c] = new[c].type
<1>1. PICK c \in Retyped(old, new) : e = Event(v, "type_changed", c, 78, [d \in {c} |-> new[c].type])
  BY DEF TypeEvents
<1>. QED BY <1>1, EventIs

LEMMA ShiftEventsAre ==
  ASSUME NEW v, NEW old, NEW new, NEW e \in ShiftEvents(v, old, new)
  PROVE  e.version = v /\ e.type \in {"nullability_changed", "cardinality_shift"}
<1>1. \/ \E c, impact, after : e = Event(v, "nullability_changed", c, impact, after)
      \/ \E c, impact, after : e = Event(v, "cardinality_shift", c, impact, after)
  BY DEF ShiftEvents
<1>2. \A type, key, impact, after : e = Event(v, type, key, impact, after) => e.version = v /\ e.type = type
  BY EventIs
<1>. QED BY <1>1, <1>2

\* The other way round: columns that came, that went, or have another type have an event.
HasEvent(events, v, type, columns) == \E e \in events : e.version = v /\ e.type = type /\ Columns(e) = columns

LEMMA AddedEvent ==
  ASSUME NEW v, NEW old, NEW new, Added(old, new) # {}
  PROVE  HasEvent(ColumnEvents(v, old, new), v, "column_added", Added(old, new))
<1>1. PICK e : e = Event(v, "column_added", Joined[Added(old, new)], Min({96, 40 + 14 * Cardinality(Added(old, new))}), [c \in Added(old, new) |-> new[c].type])
  OBVIOUS
<1>2. e \in ColumnEvents(v, old, new)
  BY <1>1 DEF ColumnEvents
<1>. QED BY <1>1, <1>2, EventIs DEF HasEvent

LEMMA RemovedEvent ==
  ASSUME NEW v, NEW old, NEW new, Removed(old, new) # {}
  PROVE  HasEvent(ColumnEvents(v, old, new), v, "column_removed", Removed(old, new))
<1>1. PICK e : e = Event(v, "column_removed", Joined[Removed(old, new)], 55 + 15 * Cardinality(Removed(old, new)), [c \in Removed(old, new) |-> "none"])
  OBVIOUS
<1>2. e \in ColumnEvents(v, old, new)
  BY <1>1 DEF ColumnEvents
<1>. QED BY <1>1, <1>2, EventIs DEF HasEvent

LEMMA RetypedEvent ==
  ASSUME NEW v, NEW old, NEW new, NEW c \in Retyped(old, new)
  PROVE  HasEvent(TypeEvents(v, old, new), v, "type_changed", {c})
<1>1. PICK e : e = Event(v, "type_changed", c, 78, [d \in {c} |-> new[c].type])
  OBVIOUS
<1>2. e \in TypeEvents(v, old, new)
  BY <1>1 DEF TypeEvents
<1>. QED BY <1>1, <1>2, EventIs DEF HasEvent

-----------------------------------------------------------------------------
(* Drift: the events of a history.                                         *)

\* There is a version, as many as are counted.
HasVersions == \E n \in Nat : n > 0 /\ Len(versions) = n

\* The type of a column in a version, "none" if it has no such column.
TypeAt(v, c) == IF c \in DOMAIN versions[v] THEN versions[v][c].type ELSE "none"
Turning == {"column_added", "column_removed", "type_changed"}

\* An event on the columns leaves them with the type they have in its version.
LEMMA EventLeaves ==
  ASSUME NEW v, NEW e \in PairEvents(v), e.type \in Turning
  PROVE  e.version = v /\ \A c \in Columns(e) : e.after[c] = TypeAt(v, c)
<1>1. PICK old, new : old = versions[v - 1] /\ new = versions[v]
  OBVIOUS
<1>2. e \in ColumnEvents(v, old, new) \/ e \in TypeEvents(v, old, new) \/ e \in ShiftEvents(v, old, new)
  BY <1>1 DEF PairEvents
<1>3. CASE e \in ColumnEvents(v, old, new)
  <2>1. /\ e.version = v
        /\ \/ Columns(e) = Added(old, new) /\ \A c \in Columns(e) : e.after[c] = new[c].type
           \/ Columns(e) = Removed(old, new) /\ \A c \in Columns(e) : e.after[c] = "none"
    BY <1>3, ColumnEventsAre
  <2>2. ASSUME NEW c \in Added(old, new) PROVE TypeAt(v, c) = new[c].type
    BY <1>1 DEF TypeAt, Added
  <2>3. ASSUME NEW c \in Removed(old, new) PROVE TypeAt(v, c) = "none"
    BY <1>1 DEF TypeAt, Removed
  <2>. QED BY <2>1, <2>2, <2>3
<1>4. CASE e \in TypeEvents(v, old, new)
  <2>1. PICK c \in Retyped(old, new) : e.version = v /\ Columns(e) = {c} /\ e.after[c] = new[c].type
    BY <1>4, TypeEventsAre
  <2>2. TypeAt(v, c) = new[c].type
    BY <1>1 DEF TypeAt, Retyped
  <2>. QED BY <2>1, <2>2
<1>5. CASE e \in ShiftEvents(v, old, new)
  BY <1>5, ShiftEventsAre DEF Turning
<1>. QED BY <1>2, <1>3, <1>4, <1>5

\* A column that no event of a version touches has the type it had.
LEMMA UntouchedStays ==
  ASSUME NEW v, NEW c, \A e \in PairEvents(v) : e.type \in Turning => c \notin Columns(e)
  PROVE  TypeAt(v, c) = TypeAt(v - 1, c)
<1>1. PICK old, new : old = versions[v - 1] /\ new = versions[v]
  OBVIOUS
<1>2. c \notin Added(old, new)
  <2>1. SUFFICES ASSUME c \in Added(old, new) PROVE FALSE
    OBVIOUS
  <2>2. PICK e \in ColumnEvents(v, old, new) : e.type = "column_added" /\ Columns(e) = Added(old, new)
    BY <2>1, AddedEvent DEF HasEvent
  <2>. QED BY <1>1, <2>1, <2>2 DEF PairEvents, Turning
<1>3. c \notin Removed(old, new)
  <2>1. SUFFICES ASSUME c \in Removed(old, new) PROVE FALSE
    OBVIOUS
  <2>2. PICK e \in ColumnEvents(v, old, new) : e.type = "column_removed" /\ Columns(e) = Removed(old, new)
    BY <2>1, RemovedEvent DEF HasEvent
  <2>. QED BY <1>1, <2>1, <2>2 DEF PairEvents, Turning
<1>4. c \notin Retyped(old, new)
  <2>1. SUFFICES ASSUME c \in Retyped(old, new) PROVE FALSE
    OBVIOUS
  <2>2. HasEvent(TypeEvents(v, old, new), v, "type_changed", {c})
    BY <2>1, RetypedEvent
  <2>3. PICK e \in TypeEvents(v, old, new) : e.type = "type_changed" /\ Columns(e) = {c}
    BY <2>2 DEF HasEvent
  <2>. QED BY <1>1, <2>1, <2>3 DEF PairEvents, Turning
<1>. QED BY <1>1, <1>2, <1>3, <1>4 DEF TypeAt, Added, Removed, Retyped

LEMMA EventPlace ==
  ASSUME NEW e \in Events
  PROVE  e.version \in 2..Len(versions) /\ e \in PairEvents(e.version)
<1>1. PICK v \in 2..Len(versions) : e \in PairEvents(v)
  BY DEF Events
<1>2. e.version = v
  <2>1. PICK old, new : old = versions[v - 1] /\ new = versions[v]
    OBVIOUS
  <2>2. e \in ColumnEvents(v, old, new) \/ e \in TypeEvents(v, old, new) \/ e \in ShiftEvents(v, old, new)
    BY <1>1, <2>1 DEF PairEvents
  <2>. QED BY <2>2, ColumnEventsAre, TypeEventsAre, ShiftEventsAre
<1>. QED BY <1>1, <1>2

\* Versions without an event on a column leave it alone.
LEMMA QuietStays ==
  ASSUME HasVersions, NEW c, NEW m \in 1..Len(versions),
         \A e \in Touching(c) : e.version <= m
  PROVE  TypeAt(Len(versions), c) = TypeAt(m, c)
<1>. DEFINE Bad == {v \in m..Len(versions) : TypeAt(v, c) # TypeAt(m, c)}
<1>0. Len(versions) \in Nat /\ Len(versions) \in m..Len(versions)
  BY DEF HasVersions
<1>1. SUFFICES ASSUME Bad # {} PROVE FALSE
  BY <1>0
<1>2. PICK v \in Bad : \A u \in Bad : v <= u
  <2>1. Bad \in SUBSET Nat
    OBVIOUS
  <2>. HIDE DEF Bad
  <2>. QED BY <1>1, <2>1, LeastPlace
<1>3. v \in (m + 1)..Len(versions) /\ v \in 2..Len(versions) /\ v - 1 \in m..Len(versions) /\ v - 1 \notin Bad
  BY <1>0, <1>2
<1>4. ASSUME NEW e \in PairEvents(v), e.type \in Turning PROVE c \notin Columns(e)
  <2>1. e.version = v
    BY <1>4, EventLeaves
  <2>2. e \in Events
    BY <1>3 DEF Events
  <2>. QED BY <1>3, <1>4, <2>1, <2>2 DEF Touching, Turning
<1>5. TypeAt(v, c) = TypeAt(v - 1, c)
  BY <1>4, UntouchedStays
<1>. QED BY <1>2, <1>3, <1>5

\* Replayed on the first version, the events give the type in the latest.
LEMMA EventsGiveType ==
  ASSUME HasVersions, NEW c
  PROVE  TypeByEvents(c) = IF c \in DOMAIN Latest THEN Latest[c].type ELSE "none"
<1>0. Len(versions) \in Nat /\ 1 \in 1..Len(versions)
  BY DEF HasVersions
<1>1. TypeAt(Len(versions), c) = IF c \in DOMAIN Latest THEN Latest[c].type ELSE "none"
  BY DEF TypeAt, Latest
<1>2. CASE Touching(c) = {}
  <2>1. TypeAt(Len(versions), c) = TypeAt(1, c)
    BY <1>0, <1>2, QuietStays
  <2>. QED BY <1>1, <1>2, <2>1 DEF TypeByEvents, TypeAt
<1>3. CASE Touching(c) # {}
  <2>. DEFINE last(e) == e \in Touching(c) /\ \A d \in Touching(c) : d.version <= e.version
              at == {e.version : e \in Touching(c)}
  <2>1. \A e \in Touching(c) : e \in Events /\ c \in Columns(e) /\ e.type \in Turning
    BY DEF Touching, Turning
  <2>2. at \in SUBSET (1..Len(versions)) /\ at # {}
    BY <1>0, <1>3, <2>1, EventPlace
  <2>3. PICK m \in at : \A k \in at : k <= m
    <3>. HIDE DEF at
    <3>. QED BY <1>0, <2>2, LastPlace
  <2>4. PICK e \in Touching(c) : m = e.version
    BY <2>3
  <2>5. last(e)
    BY <2>3, <2>4
  <2>6. PICK d : d = CHOOSE x \in Touching(c) : \A y \in Touching(c) : y.version <= x.version
    OBVIOUS
  <2>7. last(d)
    BY <2>5, <2>6
  <2>8. d.version \in 1..Len(versions) /\ d \in PairEvents(d.version)
    BY <1>0, <2>1, <2>7, EventPlace
  <2>9. d.after[c] = TypeAt(d.version, c)
    BY <2>1, <2>7, <2>8, EventLeaves
  <2>10. TypeAt(Len(versions), c) = TypeAt(d.version, c)
    BY <2>7, <2>8, QuietStays
  <2>. QED BY <1>1, <1>3, <2>6, <2>9, <2>10 DEF TypeByEvents
<1>. QED BY <1>2, <1>3

\* The keys of the events of a type, as the comparison of the versions shows them.
LEMMA ReportedAre ==
  ASSUME NEW v, NEW old, NEW new, old = versions[v - 1], new = versions[v]
  PROVE  /\ UNION {Columns(e) : e \in {d \in PairEvents(v) : d.type = "column_added"}} = Added(old, new)
         /\ UNION {Columns(e) : e \in {d \in PairEvents(v) : d.type = "column_removed"}} = Removed(old, new)
         /\ UNION {Columns(e) : e \in {d \in PairEvents(v) : d.type = "type_changed"}} = Retyped(old, new)
<1>1. \A e \in PairEvents(v) : e \in ColumnEvents(v, old, new) \/ e \in TypeEvents(v, old, new) \/ e \in ShiftEvents(v, old, new)
  BY DEF PairEvents
<1>2. ColumnEvents(v, old, new) \subseteq PairEvents(v) /\ TypeEvents(v, old, new) \subseteq PairEvents(v)
  BY DEF PairEvents
<1>3. \A e \in PairEvents(v) : /\ e.type = "column_added" => Columns(e) = Added(old, new)
                               /\ e.type = "column_removed" => Columns(e) = Removed(old, new)
                               /\ e.type = "type_changed" => \E c \in Retyped(old, new) : Columns(e) = {c}
  <2>. TAKE e \in PairEvents(v)
  <2>1. CASE e \in ColumnEvents(v, old, new)
    BY <2>1, ColumnEventsAre
  <2>2. CASE e \in TypeEvents(v, old, new)
    BY <2>2, TypeEventsAre
  <2>3. CASE e \in ShiftEvents(v, old, new)
    BY <2>3, ShiftEventsAre
  <2>. QED BY <1>1, <2>1, <2>2, <2>3
<1>4. /\ Added(old, new) # {} => HasEvent(PairEvents(v), v, "column_added", Added(old, new))
      /\ Removed(old, new) # {} => HasEvent(PairEvents(v), v, "column_removed", Removed(old, new))
      /\ \A c \in Retyped(old, new) : HasEvent(PairEvents(v), v, "type_changed", {c})
  <2>1. /\ Added(old, new) # {} => HasEvent(ColumnEvents(v, old, new), v, "column_added", Added(old, new))
        /\ Removed(old, new) # {} => HasEvent(ColumnEvents(v, old, new), v, "column_removed", Removed(old, new))
    BY AddedEvent, RemovedEvent
  <2>2. \A c \in Retyped(old, new) : HasEvent(TypeEvents(v, old, new), v, "type_changed", {c})
    BY RetypedEvent
  <2>. QED BY <1>2, <2>1, <2>2 DEF HasEvent
<1>5. UNION {Columns(e) : e \in {d \in PairEvents(v) : d.type = "column_added"}} = Added(old, new)
  BY <1>3, <1>4 DEF HasEvent
<1>6. UNION {Columns(e) : e \in {d \in PairEvents(v) : d.type = "column_removed"}} = Removed(old, new)
  BY <1>3, <1>4 DEF HasEvent
<1>7. UNION {Columns(e) : e \in {d \in PairEvents(v) : d.type = "type_changed"}} = Retyped(old, new)
  BY <1>3, <1>4 DEF HasEvent
<1>. QED BY <1>5, <1>6, <1>7

\* What the comparison shows, and which columns a broken contract names.
LEMMA ComparisonAgrees ==
  ASSUME NEW old, NEW new
  PROVE  /\ Comparison(old, new).added = Added(old, new)
         /\ Comparison(old, new).removed = Removed(old, new)
         /\ {t[1] : t \in Comparison(old, new).types} = Retyped(old, new)
         /\ \A rule \in SchemaViolations(old, new) :
              rule[2] \in IF rule[1] = "required_column" THEN Removed(old, new) ELSE Retyped(old, new)
<1>1. Comparison(old, new).added = Added(old, new) /\ Comparison(old, new).removed = Removed(old, new)
  BY DEF Comparison, Added, Removed
<1>2. {t[1] : t \in Comparison(old, new).types} = Retyped(old, new)
  <2>1. PICK S : S = {<<c, old[c].type, new[c].type>> : c \in Retyped(old, new)}
    OBVIOUS
  <2>2. Comparison(old, new).types = S
    <3>1. {d \in DOMAIN old : d \in DOMAIN new /\ old[d].type # new[d].type} = Retyped(old, new)
      BY DEF Retyped
    <3>. QED BY <2>1, <3>1 DEF Comparison
  <2>3. \A t \in S : t[1] \in Retyped(old, new)
    BY <2>1
  <2>4. \A c \in Retyped(old, new) : \E t \in S : t[1] = c
    <3>. TAKE c \in Retyped(old, new)
    <3>1. PICK t : t = <<c, old[c].type, new[c].type>>
      OBVIOUS
    <3>2. t \in S /\ t[1] = c
      BY <2>1, <3>1
    <3>. QED BY <3>2
  <2>. QED BY <2>2, <2>3, <2>4
<1>3. ASSUME NEW rule \in SchemaViolations(old, new)
      PROVE  rule[2] \in IF rule[1] = "required_column" THEN Removed(old, new) ELSE Retyped(old, new)
  <2>1. CASE \E c \in {d \in DOMAIN old : old[d].missing = 0 /\ d \notin DOMAIN new} : rule = <<"required_column", c>>
    BY <2>1 DEF Removed
  <2>2. CASE \E e \in {d \in ExpectedTypes(old) : d[1] \in DOMAIN new /\ new[d[1]].type # d[2]} : rule = <<"expected_type", e[1]>>
    <3>1. PICK e \in ExpectedTypes(old) : e[1] \in DOMAIN new /\ new[e[1]].type # e[2] /\ rule = <<"expected_type", e[1]>>
      BY <2>2
    <3>2. PICK c \in DOMAIN old : e = <<c, old[c].type>>
      BY DEF ExpectedTypes
    <3>3. e[1] = c /\ e[2] = old[c].type /\ rule[1] = "expected_type" /\ rule[2] = c
      BY <3>1, <3>2
    <3>. QED BY <3>1, <3>2, <3>3 DEF Retyped
  <2>. QED BY <2>1, <2>2 DEF SchemaViolations
<1>. QED BY <1>1, <1>2, <1>3

LEMMA DriftExplained == HasVersions => DriftExplainsSchema
<1>. SUFFICES ASSUME HasVersions PROVE DriftExplainsSchema
  OBVIOUS
<1>1. \A c \in DriftColumn : TypeByEvents(c) = IF c \in DOMAIN Latest THEN Latest[c].type ELSE "none"
  BY EventsGiveType
<1>2. ASSUME NEW v \in 2..Len(versions)
      PROVE  LET shown    == Comparison(versions[v - 1], versions[v])
                 violated == SchemaViolations(versions[v - 1], versions[v])
                 reported(type) == UNION {Columns(e) : e \in {d \in PairEvents(v) : d.type = type}} IN
             /\ reported("column_added") = shown.added
             /\ reported("column_removed") = shown.removed
             /\ reported("type_changed") = {t[1] : t \in shown.types}
             /\ \A rule \in violated :
                  rule[2] \in reported(IF rule[1] = "required_column" THEN "column_removed" ELSE "type_changed")
  <2>. DEFINE reported(type) == UNION {Columns(e) : e \in {d \in PairEvents(v) : d.type = type}}
  <2>1. PICK old, new : old = versions[v - 1] /\ new = versions[v]
    OBVIOUS
  <2>2. /\ reported("column_added") = Added(old, new)
        /\ reported("column_removed") = Removed(old, new)
        /\ reported("type_changed") = Retyped(old, new)
    BY <2>1, ReportedAre
  <2>. HIDE DEF reported
  <2>3. \A rule \in SchemaViolations(old, new) :
          rule[2] \in reported(IF rule[1] = "required_column" THEN "column_removed" ELSE "type_changed")
    BY <2>2, ComparisonAgrees
  <2>4. /\ reported("column_added") = Comparison(old, new).added
        /\ reported("column_removed") = Comparison(old, new).removed
        /\ reported("type_changed") = {t[1] : t \in Comparison(old, new).types}
    BY <2>2, ComparisonAgrees
  <2>. QED BY <2>1, <2>3, <2>4 DEF reported
<1>. QED BY <1>1, <1>2 DEF DriftExplainsSchema

-----------------------------------------------------------------------------
(* Drift: columns that come and go.                                        *)

LEMMA MinMaxOfTwo ==
  ASSUME NEW x \in Nat, NEW y \in Nat, x < y
  PROVE  Min({x, y}) = x /\ Max({x, y}) = y
<1>1. \E m \in {x, y} : \A z \in {x, y} : m <= z
  OBVIOUS
<1>2. \E m \in {x, y} : \A z \in {x, y} : m >= z
  OBVIOUS
<1>. QED BY <1>1, <1>2 DEF Min, Max

\* A column that is not there in one version and there in a later one was added meanwhile.
LEMMA CameBetween ==
  ASSUME HasVersions, NEW c, NEW x \in 1..Len(versions), NEW y \in 1..Len(versions), x < y,
         c \notin DOMAIN versions[x], c \in DOMAIN versions[y]
  PROVE  \E d \in Events : d.type = "column_added" /\ c \in Columns(d) /\ d.version \in (x + 1)..y
<1>. DEFINE S == {v \in x..y : c \in DOMAIN versions[v]}
<1>0. x \in Nat /\ y \in Nat /\ Len(versions) \in Nat
  BY DEF HasVersions
<1>1. PICK v \in S : \A u \in S : v <= u
  <2>1. S \in SUBSET Nat /\ y \in S
    BY <1>0
  <2>. HIDE DEF S
  <2>. QED BY <2>1, LeastPlace
<1>2. v \in (x + 1)..y /\ v - 1 \in x..y /\ v - 1 \notin S /\ v \in 2..Len(versions)
  BY <1>0, <1>1
<1>3. c \in Added(versions[v - 1], versions[v])
  BY <1>1, <1>2 DEF Added
<1>4. PICK d \in PairEvents(v) : d.version = v /\ d.type = "column_added" /\ Columns(d) = Added(versions[v - 1], versions[v])
  <2>1. PICK old, new : old = versions[v - 1] /\ new = versions[v]
    OBVIOUS
  <2>2. PICK d \in ColumnEvents(v, old, new) : d.version = v /\ d.type = "column_added" /\ Columns(d) = Added(old, new)
    <3>1. Added(old, new) # {}
      BY <1>3, <2>1
    <3>2. HasEvent(ColumnEvents(v, old, new), v, "column_added", Added(old, new))
      BY <3>1, AddedEvent
    <3>. QED BY <3>2 DEF HasEvent
  <2>. QED BY <2>1, <2>2 DEF PairEvents
<1>5. d \in Events
  BY <1>2 DEF Events
<1>. QED BY <1>2, <1>3, <1>4, <1>5

LEMMA WentBetween ==
  ASSUME HasVersions, NEW c, NEW x \in 1..Len(versions), NEW y \in 1..Len(versions), x < y,
         c \in DOMAIN versions[x], c \notin DOMAIN versions[y]
  PROVE  \E d \in Events : d.type = "column_removed" /\ c \in Columns(d) /\ d.version \in (x + 1)..y
<1>. DEFINE S == {v \in x..y : c \notin DOMAIN versions[v]}
<1>0. x \in Nat /\ y \in Nat /\ Len(versions) \in Nat
  BY DEF HasVersions
<1>1. PICK v \in S : \A u \in S : v <= u
  <2>1. S \in SUBSET Nat /\ y \in S
    BY <1>0
  <2>. HIDE DEF S
  <2>. QED BY <2>1, LeastPlace
<1>2. v \in (x + 1)..y /\ v - 1 \in x..y /\ v - 1 \notin S /\ v \in 2..Len(versions)
  BY <1>0, <1>1
<1>3. c \in Removed(versions[v - 1], versions[v])
  BY <1>1, <1>2 DEF Removed
<1>4. PICK d \in PairEvents(v) : d.version = v /\ d.type = "column_removed" /\ Columns(d) = Removed(versions[v - 1], versions[v])
  <2>1. PICK old, new : old = versions[v - 1] /\ new = versions[v]
    OBVIOUS
  <2>2. PICK d \in ColumnEvents(v, old, new) : d.version = v /\ d.type = "column_removed" /\ Columns(d) = Removed(old, new)
    <3>1. Removed(old, new) # {}
      BY <1>3, <2>1
    <3>2. HasEvent(ColumnEvents(v, old, new), v, "column_removed", Removed(old, new))
      BY <3>1, RemovedEvent
    <3>. QED BY <3>2 DEF HasEvent
  <2>. QED BY <2>1, <2>2 DEF PairEvents
<1>5. d \in Events
  BY <1>2 DEF Events
<1>. QED BY <1>2, <1>3, <1>4, <1>5

\* The columns of an event came or went in its version.
LEMMA CameOrWent ==
  ASSUME NEW e \in Events, NEW c \in Columns(e)
  PROVE  /\ e.version \in 2..Len(versions)
         /\ e.type = "column_added" => c \notin DOMAIN versions[e.version - 1] /\ c \in DOMAIN versions[e.version]
         /\ e.type = "column_removed" => c \in DOMAIN versions[e.version - 1] /\ c \notin DOMAIN versions[e.version]
<1>1. PICK v \in 2..Len(versions) : v = e.version /\ e \in PairEvents(v)
  BY EventPlace
<1>2. PICK old, new : old = versions[v - 1] /\ new = versions[v]
  OBVIOUS
<1>3. e \in ColumnEvents(v, old, new) \/ e \in TypeEvents(v, old, new) \/ e \in ShiftEvents(v, old, new)
  BY <1>1, <1>2 DEF PairEvents
<1>4. CASE e \in ColumnEvents(v, old, new)
  <2>1. \/ e.type = "column_added" /\ Columns(e) = Added(old, new)
        \/ e.type = "column_removed" /\ Columns(e) = Removed(old, new)
    BY <1>4, ColumnEventsAre
  <2>. QED BY <1>1, <1>2, <2>1 DEF Added, Removed
<1>5. CASE e \in TypeEvents(v, old, new)
  BY <1>1, <1>5, TypeEventsAre
<1>6. CASE e \in ShiftEvents(v, old, new)
  BY <1>1, <1>6, ShiftEventsAre
<1>. QED BY <1>3, <1>4, <1>5, <1>6

\* Between two events that add, or that remove, the same columns each came or went.
LEMMA TwinsApart ==
  ASSUME HasVersions, NEW e \in Events, NEW f \in Events, e.version < f.version,
         f.type = e.type, Columns(f) = Columns(e), e.type \in {"column_added", "column_removed"}, NEW c \in Columns(e)
  PROVE  \E d \in Events : /\ c \in Columns(d) /\ {d.type, e.type} = {"column_added", "column_removed"}
                           /\ d.version \in (e.version + 1)..(f.version - 1)
<1>0. PICK x, y : x = e.version /\ y = f.version
  OBVIOUS
<1>1. /\ x \in 2..Len(versions) /\ y \in 2..Len(versions) /\ Len(versions) \in Nat /\ x < y
      /\ e.type = "column_added" => c \in DOMAIN versions[x] /\ c \notin DOMAIN versions[y - 1]
      /\ e.type = "column_removed" => c \notin DOMAIN versions[x] /\ c \in DOMAIN versions[y - 1]
  BY <1>0, CameOrWent DEF HasVersions
<1>2. x # y - 1
  BY <1>1
<1>3. x \in 1..Len(versions) /\ y - 1 \in 1..Len(versions) /\ x < y - 1
  BY <1>1, <1>2
<1>4. CASE e.type = "column_added"
  <2>1. PICK d \in Events : d.type = "column_removed" /\ c \in Columns(d) /\ d.version \in (x + 1)..(y - 1)
    BY <1>1, <1>3, <1>4, WentBetween
  <2>. QED BY <1>0, <1>4, <2>1
<1>5. CASE e.type = "column_removed"
  <2>1. PICK d \in Events : d.type = "column_added" /\ c \in Columns(d) /\ d.version \in (x + 1)..(y - 1)
    BY <1>1, <1>3, <1>5, CameBetween
  <2>. QED BY <1>0, <1>5, <2>1
<1>. QED BY <1>4, <1>5

LEMMA CameAndWent == HasVersions => PersistentCameAndWent
<1>. SUFFICES ASSUME HasVersions, NEW e \in Events, DriftStatus(e) = "persistent",
                     e.type \in {"column_added", "column_removed"}, ~Confused(e), NEW c \in Columns(e)
              PROVE  \E d \in Events :
                       /\ c \in Columns(d) /\ {d.type, e.type} = {"column_added", "column_removed"}
                       /\ \E twin \in Events : twin # e /\ Signature(twin) = Signature(e)
                            /\ d.version \in (Min({e.version, twin.version}) + 1)..(Max({e.version, twin.version}) - 1)
  BY DEF PersistentCameAndWent
<1>1. PICK f \in Events : Signature(f) = Signature(e) /\ f.version # e.version
  <2>1. e.version \in 2..Len(versions) /\ Len(versions) \in Nat
    BY EventPlace DEF HasVersions
  <2>2. PICK v : v # e.version /\ Signature(e) \in SignaturesOf(v)
    <3>1. CASE e.version = Len(versions)
      <4>1. Signature(e) \in SignaturesOf(e.version - 1)
        BY <3>1 DEF DriftStatus
      <4>2. e.version - 1 # e.version
        BY <2>1
      <4>. QED BY <4>1, <4>2
    <3>2. CASE e.version # Len(versions)
      <4>1. PICK v \in (e.version + 1)..Len(versions) : Signature(e) \in SignaturesOf(v)
        BY <3>2 DEF DriftStatus
      <4>. QED BY <2>1, <4>1
    <3>. QED BY <3>1, <3>2
  <2>. QED BY <2>2 DEF SignaturesOf
<1>2. f.type = e.type /\ Columns(f) = Columns(e) /\ f # e
  BY <1>1 DEF Signature, Confused
<1>3. e.version \in Nat /\ f.version \in Nat
  BY EventPlace
<1>4. CASE e.version < f.version
  <2>1. PICK d \in Events : /\ c \in Columns(d) /\ {d.type, e.type} = {"column_added", "column_removed"}
                            /\ d.version \in (e.version + 1)..(f.version - 1)
    BY <1>2, <1>4, TwinsApart
  <2>2. Min({e.version, f.version}) = e.version /\ Max({e.version, f.version}) = f.version
    BY <1>3, <1>4, MinMaxOfTwo
  <2>. QED BY <1>1, <1>2, <2>1, <2>2
<1>5. CASE f.version < e.version
  <2>1. PICK d \in Events : /\ c \in Columns(d) /\ {d.type, f.type} = {"column_added", "column_removed"}
                            /\ d.version \in (f.version + 1)..(e.version - 1)
    BY <1>2, <1>5, TwinsApart
  <2>2. Min({f.version, e.version}) = f.version /\ Max({f.version, e.version}) = e.version
    BY <1>3, <1>5, MinMaxOfTwo
  <2>3. {f.version, e.version} = {e.version, f.version}
    OBVIOUS
  <2>. QED BY <1>1, <1>2, <2>1, <2>2, <2>3
<1>6. e.version < f.version \/ f.version < e.version
  BY <1>1, <1>3
<1>. QED BY <1>4, <1>5, <1>6

-----------------------------------------------------------------------------
(* Drift: theorems.                                                        *)

LEMMA VersionsCounted == DriftSpec => [](HasVersions /\ versions \in Seq(Profile))
<1>. DEFINE Typed == versions \in Seq(Profile) /\ HasVersions
<1>0. Imported \subseteq Profile
  BY DriftAssumption
<1>1. DriftInit => Typed
  BY <1>0 DEF DriftInit, HasVersions
<1>2. Typed /\ [DriftNext]_versions => Typed'
  BY <1>0 DEF DriftNext, ImportVersion, HasVersions
<1>. QED BY <1>1, <1>2, PTL DEF DriftSpec

\* The events of _all_events, replayed on the first version, give the columns and
\* types of the latest, agree with compare_audits, and name what a contract breaks by,
\* for any number of versions and any columns.
THEOREM DriftIsExplained == DriftSpec => []DriftExplainsSchema
BY VersionsCounted, DriftExplained, PTL

\* Columns of a persistent addition or removal went or came back meanwhile, unless other
\* columns have an event of the same signature: names that hold commas may join alike.
THEOREM PersistentIsRepeated == DriftSpec => []PersistentCameAndWent
BY VersionsCounted, CameAndWent, PTL
-----------------------------------------------------------------------------
(* Sums over finite sets: the recursion of SumFunctionOnSet has one solution. *)

Chosen(s) == CHOOSE x \in s : TRUE
\* g sums f over the subsets of S, an element at a time.
Sums(g, f, S) ==
  g = [s \in SUBSET S |-> IF s = {} THEN 0 ELSE f[Chosen(s)] + g[s \ {Chosen(s)}]]

LEMMA ChosenIs ==
  ASSUME NEW s, s # {} PROVE Chosen(s) \in s
BY DEF Chosen

LEMMA SumIs ==
  ASSUME NEW f, NEW S
  PROVE  SumFunctionOnSet(f, S) = (CHOOSE g : Sums(g, f, S))[S]
BY DEF SumFunctionOnSet, FoldFunctionOnSet, MapThenFoldSet, Sums, Chosen

LEMMA SumsAt ==
  ASSUME NEW f, NEW S, NEW g, Sums(g, f, S)
  PROVE  \A s : s \in SUBSET S => g[s] = IF s = {} THEN 0 ELSE f[Chosen(s)] + g[s \ {Chosen(s)}]
<1>1. PICK h : h = g
  OBVIOUS
<1>2. g = [r \in SUBSET S |-> IF r = {} THEN 0 ELSE f[Chosen(r)] + h[r \ {Chosen(r)}]]
  BY <1>1 DEF Sums
<1>. QED BY <1>1, <1>2

\* Two solutions agree wherever both are defined.
LEMMA SumsAgree ==
  ASSUME NEW f, NEW S, NEW T, NEW g, NEW h, Sums(g, f, S), Sums(h, f, T),
         IsFiniteSet(S), NEW s \in SUBSET S, s \in SUBSET T
  PROVE  g[s] = h[s]
<1>a. \A q : q \in SUBSET S => g[q] = IF q = {} THEN 0 ELSE f[Chosen(q)] + g[q \ {Chosen(q)}]
  BY SumsAt
<1>b. \A q : q \in SUBSET T => h[q] = IF q = {} THEN 0 ELSE f[Chosen(q)] + h[q \ {Chosen(q)}]
  BY SumsAt
<1>. DEFINE Bad == {Cardinality(r) : r \in {q \in SUBSET S : q \in SUBSET T /\ g[q] # h[q]}}
<1>1. SUFFICES ASSUME Bad # {} PROVE FALSE
  OBVIOUS
<1>2. \A r \in SUBSET S : IsFiniteSet(r) /\ Cardinality(r) \in Nat
  BY FS_Subset, FS_CardinalityType
<1>3. PICK n \in Bad : \A m \in Bad : n <= m
  <2>1. Bad \in SUBSET Nat
    BY <1>2
  <2>. HIDE DEF Bad
  <2>. QED BY <1>1, <2>1, LeastPlace
<1>4. PICK r \in SUBSET S : r \in SUBSET T /\ g[r] # h[r] /\ n = Cardinality(r)
  BY <1>3
<1>0. /\ g[r] = IF r = {} THEN 0 ELSE f[Chosen(r)] + g[r \ {Chosen(r)}]
      /\ h[r] = IF r = {} THEN 0 ELSE f[Chosen(r)] + h[r \ {Chosen(r)}]
  BY <1>a, <1>b, <1>4
<1>5. r # {}
  BY <1>0, <1>4
<1>6. PICK q : q = r \ {Chosen(r)}
  OBVIOUS
<1>7. q \in SUBSET S /\ q \in SUBSET T /\ Cardinality(q) = n - 1 /\ n \in Nat
  BY <1>2, <1>4, <1>5, <1>6, ChosenIs, FS_RemoveElement
<1>8. g[q] = h[q]
  <2>1. ~(n <= n - 1)
    BY <1>7
  <2>. QED BY <1>3, <1>7, <2>1
<1>9. g[r] = f[Chosen(r)] + g[q]
  BY <1>0, <1>5, <1>6
<1>10. h[r] = f[Chosen(r)] + h[q]
  BY <1>0, <1>5, <1>6
<1>. QED BY <1>4, <1>8, <1>9, <1>10

\* A solution for a set is one for its subsets, cut down to them.
LEMMA SumsCut ==
  ASSUME NEW f, NEW S, NEW g, Sums(g, f, S), NEW T \in SUBSET S
  PROVE  \E h : Sums(h, f, T) /\ \A s \in SUBSET T : h[s] = g[s]
<1>1. PICK h : h = [s \in SUBSET T |-> g[s]]
  OBVIOUS
<1>2. \A s \in SUBSET T : h[s] = g[s]
  BY <1>1
<1>3. ASSUME NEW s \in SUBSET T
      PROVE  h[s] = IF s = {} THEN 0 ELSE f[Chosen(s)] + h[s \ {Chosen(s)}]
  <2>1. s \in SUBSET S /\ s \ {Chosen(s)} \in SUBSET T
    OBVIOUS
  <2>2. h[s] = g[s] /\ h[s \ {Chosen(s)}] = g[s \ {Chosen(s)}]
    BY <1>2, <2>1
  <2>. QED BY <2>1, <2>2, SumsAt
<1>4. h = [s \in SUBSET T |-> h[s]]
  BY <1>1
<1>5. Sums(h, f, T)
  BY <1>3, <1>4 DEF Sums
<1>. QED BY <1>2, <1>5

LEMMA SumsThere ==
  ASSUME NEW f, NEW S, IsFiniteSet(S)
  PROVE  \E g : Sums(g, f, S)
<1>. DEFINE Solved(n) == \A T \in SUBSET S : Cardinality(T) = n => \E g : Sums(g, f, T)
            Bad == {n \in Nat : ~Solved(n)}
<1>1. \A T \in SUBSET S : IsFiniteSet(T) /\ Cardinality(T) \in Nat
  BY FS_Subset, FS_CardinalityType
<1>2. Bad = {}
  <2>1. SUFFICES ASSUME Bad # {} PROVE FALSE
    OBVIOUS
  <2>2. PICK n \in Bad : \A m \in Bad : n <= m
    <3>1. Bad \in SUBSET Nat
      OBVIOUS
    <3>. HIDE DEF Bad
    <3>. QED BY <2>1, <3>1, LeastPlace
  <2>3. PICK T \in SUBSET S : Cardinality(T) = n /\ ~ \E g : Sums(g, f, T)
    BY <2>2
  <2>4. \A s \in SUBSET T : s # T => \E g : Sums(g, f, s)
    <3>. SUFFICES ASSUME NEW s \in SUBSET T, s # T PROVE \E g : Sums(g, f, s)
      OBVIOUS
    <3>1. Cardinality(s) < n /\ Cardinality(s) \in Nat /\ s \in SUBSET S
      <4>1. Cardinality(s) <= Cardinality(T) /\ Cardinality(s) # Cardinality(T)
        BY <1>1, FS_Subset
      <4>. QED BY <1>1, <2>3, <4>1
    <3>2. Cardinality(s) \notin Bad
      <4>. HIDE DEF Bad
      <4>1. n \in Nat
        BY DEF Bad
      <4>. QED BY <2>2, <3>1, <4>1
    <3>. QED BY <3>1, <3>2
  <2>. DEFINE value(s) == IF s = {} THEN 0 ELSE (CHOOSE g : Sums(g, f, s))[s]
  <2>5. ASSUME NEW s \in SUBSET T, s # T, NEW g, Sums(g, f, s) PROVE value(s) = g[s]
    <3>1. PICK h : h = CHOOSE k : Sums(k, f, s)
      OBVIOUS
    <3>2. Sums(h, f, s)
      BY <2>5, <3>1
    <3>3. IsFiniteSet(s)
      BY <1>1
    <3>4. g[s] = h[s]
      BY <2>5, <3>2, <3>3, SumsAgree
    <3>5. s = {} => g[s] = 0
      BY <2>5, SumsAt
    <3>. QED BY <3>1, <3>4, <3>5
  <2>6. ASSUME NEW s \in SUBSET T, s # T, s # {} PROVE value(s) = f[Chosen(s)] + value(s \ {Chosen(s)})
    <3>1. PICK g : Sums(g, f, s)
      BY <2>4, <2>6
    <3>2. PICK r : r = s \ {Chosen(s)}
      OBVIOUS
    <3>3. r \in SUBSET s /\ r \in SUBSET T /\ r # T
      BY <2>6, <3>2, ChosenIs
    <3>4. PICK h : Sums(h, f, r) /\ \A q \in SUBSET r : h[q] = g[q]
      BY <3>1, <3>3, SumsCut
    <3>5. value(r) = g[r]
      <4>. HIDE DEF value
      <4>. QED BY <2>5, <3>3, <3>4
    <3>6. g[s] = f[Chosen(s)] + g[r]
      BY <2>6, <3>1, <3>2, SumsAt
    <3>7. value(s) = g[s]
      <4>. HIDE DEF value
      <4>. QED BY <2>5, <2>6, <3>1
    <3>. HIDE DEF value
    <3>. QED BY <3>2, <3>5, <3>6, <3>7
  <2>7. value({}) = 0
    OBVIOUS
  <2>. HIDE DEF value
  <2>8. PICK G : G = [s \in SUBSET T |-> IF s = T THEN (IF T = {} THEN 0 ELSE f[Chosen(T)] + value(T \ {Chosen(T)})) ELSE value(s)]
    OBVIOUS
  <2>9. ASSUME NEW s \in SUBSET T
        PROVE  G[s] = IF s = {} THEN 0 ELSE f[Chosen(s)] + G[s \ {Chosen(s)}]
    <3>1. CASE s = {}
      BY <2>7, <2>8, <3>1
    <3>2. CASE s # {}
      <4>1. PICK r : r = s \ {Chosen(s)}
        OBVIOUS
      <4>2. r \in SUBSET T /\ r # T
        BY <3>2, <4>1, ChosenIs
      <4>3. G[r] = value(r)
        BY <2>8, <4>2
      <4>4. G[s] = f[Chosen(s)] + value(r)
        BY <2>6, <2>8, <3>2, <4>1
      <4>. QED BY <3>2, <4>1, <4>3, <4>4
    <3>. QED BY <3>1, <3>2
  <2>10. G = [s \in SUBSET T |-> G[s]]
    BY <2>8
  <2>11. Sums(G, f, T)
    BY <2>9, <2>10 DEF Sums
  <2>. QED BY <2>3, <2>11
<1>. QED BY <1>1, <1>2

-----------------------------------------------------------------------------
(* Sums of integers.                                                       *)

LEMMA SumOfNone ==
  ASSUME NEW f PROVE SumFunctionOnSet(f, {}) = 0
<1>1. PICK g : g = CHOOSE h : Sums(h, f, {})
  OBVIOUS
<1>2. Sums(g, f, {})
  BY <1>1, SumsThere, FS_EmptySet
<1>. QED BY <1>1, <1>2, SumIs, SumsAt

LEMMA SumOfChosen ==
  ASSUME NEW f, NEW S, IsFiniteSet(S), S # {}
  PROVE  SumFunctionOnSet(f, S) = f[Chosen(S)] + SumFunctionOnSet(f, S \ {Chosen(S)})
<1>1. PICK T : T = S \ {Chosen(S)}
  OBVIOUS
<1>2. T \in SUBSET S /\ IsFiniteSet(T)
  BY <1>1, FS_Subset
<1>3. PICK g : g = CHOOSE h : Sums(h, f, S)
  OBVIOUS
<1>4. PICK k : k = CHOOSE h : Sums(h, f, T)
  OBVIOUS
<1>5. Sums(g, f, S) /\ Sums(k, f, T)
  BY <1>2, <1>3, <1>4, SumsThere
<1>6. g[S] = f[Chosen(S)] + g[T]
  BY <1>1, <1>5, SumsAt
<1>7. k[T] = g[T]
  <2>1. T \in SUBSET T
    OBVIOUS
  <2>. QED BY <1>2, <1>5, <2>1, SumsAgree
<1>8. SumFunctionOnSet(f, S) = g[S]
  BY <1>3, SumIs
<1>9. SumFunctionOnSet(f, T) = k[T]
  BY <1>4, SumIs
<1>. QED BY <1>1, <1>6, <1>7, <1>8, <1>9

\* f is an integer at every element of S.
OnInts(f, S) == \A x \in S : f[x] \in Int

LEMMA SumIsInt ==
  ASSUME NEW f, NEW S, IsFiniteSet(S), OnInts(f, S)
  PROVE  SumFunctionOnSet(f, S) \in Int
<1>. DEFINE Bad == {Cardinality(T) : T \in {Q \in SUBSET S : SumFunctionOnSet(f, Q) \notin Int}}
<1>1. \A T \in SUBSET S : IsFiniteSet(T) /\ Cardinality(T) \in Nat
  BY FS_Subset, FS_CardinalityType
<1>2. SUFFICES ASSUME Bad # {} PROVE FALSE
  OBVIOUS
<1>3. PICK n \in Bad : \A m \in Bad : n <= m
  <2>1. Bad \in SUBSET Nat
    BY <1>1
  <2>. HIDE DEF Bad
  <2>. QED BY <1>2, <2>1, LeastPlace
<1>4. PICK T \in SUBSET S : SumFunctionOnSet(f, T) \notin Int /\ n = Cardinality(T)
  BY <1>3
<1>5. T # {}
  BY <1>4, SumOfNone
<1>6. PICK x, R : x = Chosen(T) /\ R = T \ {x}
  OBVIOUS
<1>7. x \in T /\ R \in SUBSET S /\ Cardinality(R) = n - 1 /\ n \in Nat
  BY <1>1, <1>4, <1>5, <1>6, ChosenIs, FS_RemoveElement
<1>8. SumFunctionOnSet(f, R) \in Int
  <2>1. ~(n <= n - 1)
    BY <1>7
  <2>. QED BY <1>3, <1>7, <2>1
<1>9. SumFunctionOnSet(f, T) = f[x] + SumFunctionOnSet(f, R)
  BY <1>1, <1>4, <1>5, <1>6, SumOfChosen
<1>. QED BY <1>4, <1>7, <1>8, <1>9 DEF OnInts

\* The order does not matter: any element can be taken out first.
LEMMA SumOfAny ==
  ASSUME NEW f, NEW S, IsFiniteSet(S), OnInts(f, S), NEW y \in S
  PROVE  SumFunctionOnSet(f, S) = f[y] + SumFunctionOnSet(f, S \ {y})
<1>. DEFINE Wrong(T) == \E z \in T : SumFunctionOnSet(f, T) # f[z] + SumFunctionOnSet(f, T \ {z})
            Bad == {Cardinality(T) : T \in {Q \in SUBSET S : Wrong(Q)}}
<1>1. \A T \in SUBSET S : IsFiniteSet(T) /\ Cardinality(T) \in Nat /\ SumFunctionOnSet(f, T) \in Int
  <2>. TAKE T \in SUBSET S
  <2>1. IsFiniteSet(T) /\ Cardinality(T) \in Nat
    BY FS_Subset, FS_CardinalityType
  <2>2. OnInts(f, T)
    BY DEF OnInts
  <2>. QED BY <2>1, <2>2, SumIsInt
<1>2. SUFFICES ASSUME Bad # {} PROVE FALSE
  OBVIOUS
<1>3. PICK n \in Bad : \A m \in Bad : n <= m
  <2>1. Bad \in SUBSET Nat
    BY <1>1
  <2>. HIDE DEF Bad
  <2>. QED BY <1>2, <2>1, LeastPlace
<1>4. PICK T \in SUBSET S : Wrong(T) /\ n = Cardinality(T)
  BY <1>3
<1>5. PICK z \in T : SumFunctionOnSet(f, T) # f[z] + SumFunctionOnSet(f, T \ {z})
  BY <1>4
<1>6. PICK x, R, Q, P : x = Chosen(T) /\ R = T \ {x} /\ Q = T \ {z} /\ P = (T \ {x}) \ {z}
  OBVIOUS
<1>7. /\ x \in T /\ R \in SUBSET S /\ Q \in SUBSET S /\ P \in SUBSET S /\ n \in Nat
      /\ Cardinality(R) = n - 1 /\ Cardinality(Q) = n - 1
  BY <1>1, <1>4, <1>5, <1>6, ChosenIs, FS_RemoveElement
<1>8. SumFunctionOnSet(f, T) = f[x] + SumFunctionOnSet(f, R)
  <2>1. IsFiniteSet(T) /\ T # {}
    BY <1>1, <1>5
  <2>. QED BY <1>6, <2>1, SumOfChosen
<1>9. x # z
  BY <1>5, <1>6, <1>8
<1>10. ~Wrong(R) /\ ~Wrong(Q)
  <2>1. ~(n <= n - 1)
    BY <1>7
  <2>. HIDE DEF Wrong
  <2>. QED BY <1>3, <1>7, <2>1
<1>11. SumFunctionOnSet(f, R) = f[z] + SumFunctionOnSet(f, P)
  <2>1. z \in R /\ P = R \ {z}
    BY <1>5, <1>6, <1>9
  <2>. QED BY <1>10, <2>1
<1>12. SumFunctionOnSet(f, Q) = f[x] + SumFunctionOnSet(f, P)
  <2>1. x \in Q /\ P = Q \ {x}
    BY <1>6, <1>7, <1>9
  <2>. QED BY <1>10, <2>1
<1>13. f[x] \in Int /\ f[z] \in Int /\ SumFunctionOnSet(f, P) \in Int
  BY <1>1, <1>5, <1>7 DEF OnInts
<1>. QED BY <1>5, <1>6, <1>8, <1>11, <1>12, <1>13

\* Fewer summands, and none that is greater: no greater a sum.
LEMMA SumAtMost ==
  ASSUME NEW f, NEW g, NEW S, NEW T, IsFiniteSet(T), S \subseteq T,
         \A x \in S : f[x] \in Int /\ f[x] <= g[x],
         \A x \in T : g[x] \in Nat
  PROVE  SumFunctionOnSet(f, S) <= SumFunctionOnSet(g, T)
<1>. DEFINE Sf(P) == SumFunctionOnSet(f, P \intersect S)
            Sg(P) == SumFunctionOnSet(g, P)
            Bad == {Cardinality(P) : P \in {Q \in SUBSET T : ~(Sf(Q) <= Sg(Q))}}
<1>0. \A P \in SUBSET T : /\ IsFiniteSet(P) /\ Cardinality(P) \in Nat
                          /\ IsFiniteSet(P \intersect S)
                          /\ OnInts(f, P \intersect S) /\ OnInts(g, P)
  BY FS_Subset, FS_CardinalityType DEF OnInts
<1>1. \A P \in SUBSET T : Sf(P) \in Int /\ Sg(P) \in Int
  BY <1>0, SumIsInt
<1>2. Bad = {}
  <2>1. SUFFICES ASSUME Bad # {} PROVE FALSE
    OBVIOUS
  <2>2. PICK n \in Bad : \A m \in Bad : n <= m
    <3>1. Bad \in SUBSET Nat
      BY <1>0
    <3>. HIDE DEF Bad
    <3>. QED BY <2>1, <3>1, LeastPlace
  <2>3. PICK P \in SUBSET T : ~(Sf(P) <= Sg(P)) /\ n = Cardinality(P)
    BY <2>2
  <2>4. P # {}
    <3>1. {} \intersect S = {}
      OBVIOUS
    <3>2. Sf({}) = 0 /\ Sg({}) = 0
      BY <3>1, SumOfNone
    <3>. QED BY <2>3, <3>2
  <2>5. PICK x \in P : TRUE
    BY <2>4
  <2>6. PICK R : R = P \ {x}
    OBVIOUS
  <2>7. R \in SUBSET T /\ Cardinality(R) = n - 1 /\ n \in Nat
    BY <1>0, <2>3, <2>6, FS_RemoveElement
  <2>8. Sf(R) <= Sg(R)
    <3>1. ~(n <= n - 1)
      BY <2>7
    <3>. HIDE DEF Sf, Sg
    <3>. QED BY <2>2, <2>7, <3>1
  <2>9. Sg(P) = g[x] + Sg(R)
    BY <1>0, <2>3, <2>5, <2>6, SumOfAny
  <2>10. CASE x \in S
    <3>1. x \in P \intersect S /\ (P \intersect S) \ {x} = R \intersect S
      BY <2>5, <2>6, <2>10
    <3>2. SumFunctionOnSet(f, P \intersect S) = f[x] + SumFunctionOnSet(f, (P \intersect S) \ {x})
      <4>1. IsFiniteSet(P \intersect S) /\ OnInts(f, P \intersect S)
        BY <1>0
      <4>. QED BY <3>1, <4>1, SumOfAny
    <3>3. Sf(P) = f[x] + Sf(R)
      BY <3>1, <3>2
    <3>4. f[x] \in Int /\ g[x] \in Int /\ f[x] <= g[x] /\ Sf(R) \in Int /\ Sg(R) \in Int
      <4>. HIDE DEF Sf, Sg
      <4>. QED BY <1>1, <2>5, <2>7, <2>10
    <3>. HIDE DEF Sf, Sg
    <3>. QED BY <2>3, <2>8, <2>9, <3>3, <3>4
  <2>11. CASE x \notin S
    <3>1. P \intersect S = R \intersect S
      BY <2>6, <2>11
    <3>2. Sf(P) = Sf(R)
      BY <3>1
    <3>3. g[x] \in Nat /\ Sf(R) \in Int /\ Sg(R) \in Int
      <4>. HIDE DEF Sf, Sg
      <4>. QED BY <1>1, <2>5, <2>7
    <3>. HIDE DEF Sf, Sg
    <3>. QED BY <2>3, <2>8, <2>9, <3>2, <3>3
  <2>. QED BY <2>10, <2>11
<1>3. Sf(T) <= Sg(T)
  <2>1. T \in SUBSET T
    OBVIOUS
  <2>. HIDE DEF Sf, Sg
  <2>. QED BY <1>2, <2>1
<1>4. T \intersect S = S
  OBVIOUS
<1>. QED BY <1>3, <1>4
-----------------------------------------------------------------------------
(* Scoring: every factor is monotone.                                      *)

LEMMA ProductMonotone ==
  ASSUME NEW a \in Nat, NEW b \in Nat, NEW c \in Nat, NEW d \in Nat, a <= b, c <= d
  PROVE  a * c \in Nat /\ b * d \in Nat /\ a * c <= b * d
<1>1. PICK m \in Nat, n \in Nat : b = a + m /\ d = c + n
  <2>1. b - a \in Nat /\ d - c \in Nat /\ b = a + (b - a) /\ d = c + (d - c)
    OBVIOUS
  <2>. QED BY <2>1
<1>2. (a + m) * (c + n) = a * c + a * n + m * c + m * n
  OBVIOUS
<1>3. a * c \in Nat /\ a * n \in Nat /\ m * c \in Nat /\ m * n \in Nat
  OBVIOUS
<1>. QED BY <1>1, <1>2, <1>3

LEMMA TimesMonotone ==
  ASSUME NEW a \in Nat, NEW b \in Nat, NEW c \in Nat, NEW d \in Nat, a <= b, c <= d
  PROVE  Times(a, c) \in Nat /\ Times(b, d) \in Nat /\ Times(a, c) <= Times(b, d)
<1>1. PICK x, y : x = a * c /\ y = b * d
  OBVIOUS
<1>2. x \in Nat /\ y \in Nat /\ x <= y
  BY <1>1, ProductMonotone
<1>3. x \div 100 \in Nat /\ y \div 100 \in Nat /\ x \div 100 <= y \div 100
  BY <1>2
<1>. QED BY <1>1, <1>3 DEF Times

LEMMA RoundedMonotone ==
  ASSUME NEW x \in Nat, NEW y \in Nat, x <= y, NEW unit \in {100, 1000}
  PROVE  Rounded(x, unit) \in Nat /\ Rounded(y, unit) \in Nat /\ Rounded(x, unit) <= Rounded(y, unit)
<1>1. CASE unit = 100
  BY <1>1 DEF Rounded
<1>2. CASE unit = 1000
  BY <1>2 DEF Rounded
<1>. QED BY <1>1, <1>2

-----------------------------------------------------------------------------
(* Scoring: of two states of an audit, the one whose issues cost less.     *)

ScoringContext == [criticality: DOMAIN Criticality, discount: 0..100]
ScoringTypeOK ==
  /\ status \in [ScoringIssue -> IssueStatus]
  /\ context \in ScoringContext

LEMMA MultiplierIs ==
  ASSUME NEW s, NEW c \in ScoringContext, NEW d \in ScoringContext, c.discount <= d.discount
  PROVE  /\ StatusMultiplier(s, c) \in Nat /\ StatusMultiplier(s, d) \in Nat
         /\ StatusMultiplier(s, c) <= StatusMultiplier(s, d)
         /\ StatusMultiplier(s, c) <= StatusMultiplier("open", d)
BY DEF StatusMultiplier, ScoringContext

\* The penalty of duplicate rows is a number.
LEMMA DuplicatePenaltyIs == DuplicatePenalty \in Nat
<1>1. DuplicatePenalty \in 0..15000
  BY ScoringAssumption, SMTT(30)
<1>. QED BY <1>1

LEMMA CriticalityIs ==
  ASSUME NEW c \in ScoringContext PROVE Criticality[c.criticality] \in Nat
BY DEF ScoringContext, Criticality

\* What an issue costs before the context and its status count.
LEMMA WeighedIs ==
  ASSUME NEW i \in ScoringIssue
  PROVE  LET x == AuditIssues[i] IN
         Times(Times(SeverityWeight[x.severity] * x.breadth, x.confidence), IF x.ruled THEN RuleMultiplier ELSE 100) \in Nat
<1>1. PICK x : x = AuditIssues[i]
  OBVIOUS
<1>2. x.severity \in {"critical", "high", "medium", "low"} /\ x.breadth \in Nat /\ x.confidence \in Nat
  <2>1. PICK T : T = [severity: {"critical", "high", "medium", "low"},
                      bucket: {"completeness", "validity", "consistency", "uniqueness", "reliability"},
                      breadth: 180..1000, confidence: 75..100, ruled: BOOLEAN]
    OBVIOUS
  <2>2. AuditIssues \in [ScoringIssue -> T]
    BY <2>1, ScoringAssumption
  <2>3. x \in T
    BY <1>1, <2>2
  <2>. QED BY <2>1, <2>3
<1>3. SeverityWeight[x.severity] \in Nat
  BY <1>2 DEF SeverityWeight
<1>4. SeverityWeight[x.severity] * x.breadth \in Nat
  BY <1>2, <1>3, ProductMonotone
<1>5. PICK y : y = Times(SeverityWeight[x.severity] * x.breadth, x.confidence)
  OBVIOUS
<1>6. y \in Nat
  BY <1>2, <1>4, <1>5, TimesMonotone
<1>7. \A h \in Nat : Times(y, h) \in Nat
  BY <1>6, TimesMonotone
<1>8. (IF x.ruled THEN RuleMultiplier ELSE 100) \in Nat
  BY DEF RuleMultiplier
<1>. QED BY <1>1, <1>5, <1>7, <1>8

LEMMA PenaltyMonotone ==
  ASSUME NEW i \in ScoringIssue, NEW st, NEW su, NEW c \in ScoringContext, NEW d \in ScoringContext,
         Criticality[c.criticality] <= Criticality[d.criticality], c.discount <= d.discount,
         st[i] = su[i] \/ su[i] = "open"
  PROVE  Penalty(i, st, c) \in Nat /\ Penalty(i, su, d) \in Nat /\ Penalty(i, st, c) <= Penalty(i, su, d)
<1>1. PICK w : w = Times(Times(SeverityWeight[AuditIssues[i].severity] * AuditIssues[i].breadth, AuditIssues[i].confidence),
                         IF AuditIssues[i].ruled THEN RuleMultiplier ELSE 100)
  OBVIOUS
<1>2. w \in Nat
  BY <1>1, WeighedIs
<1>3. PICK k, l, m, n : /\ k = Criticality[c.criticality] /\ l = Criticality[d.criticality]
                        /\ m = StatusMultiplier(st[i], c) /\ n = StatusMultiplier(su[i], d)
  OBVIOUS
<1>4. k \in Nat /\ l \in Nat /\ k <= l /\ m \in Nat /\ n \in Nat /\ m <= n
  BY <1>3, CriticalityIs, MultiplierIs
<1>5. PICK x, y : x = Times(w, k) /\ y = Times(w, l)
  OBVIOUS
<1>6. x \in Nat /\ y \in Nat /\ x <= y
  BY <1>2, <1>4, <1>5, TimesMonotone
<1>7. Times(x, m) \in Nat /\ Times(y, n) \in Nat /\ Times(x, m) <= Times(y, n)
  BY <1>4, <1>6, TimesMonotone
<1>8. Penalty(i, st, c) = Times(x, m) /\ Penalty(i, su, d) = Times(y, n)
  BY <1>1, <1>3, <1>5 DEF Penalty
<1>. QED BY <1>7, <1>8

\* The issues st costs no more than su: active in su, and there at least as much.
Eases(st, su) == \A i \in ActiveIssues(st) : i \in ActiveIssues(su) /\ (st[i] = su[i] \/ su[i] = "open")

LEMMA DeductionMonotone ==
  ASSUME NEW st, NEW su, Eases(st, su), NEW c \in ScoringContext, NEW d \in ScoringContext,
         Criticality[c.criticality] <= Criticality[d.criticality], c.discount <= d.discount, NEW b
  PROVE  Deduction(b, st, c) \in Nat /\ Deduction(b, su, d) \in Nat /\ Deduction(b, st, c) <= Deduction(b, su, d)
<1>1. PICK S, T : /\ S = {i \in ActiveIssues(st) : AuditIssues[i].bucket = b}
                  /\ T = {i \in ActiveIssues(su) : AuditIssues[i].bucket = b}
  OBVIOUS
<1>2. PICK f, g : f = [i \in S |-> Penalty(i, st, c)] /\ g = [i \in T |-> Penalty(i, su, d)]
  OBVIOUS
<1>3. S \subseteq T /\ T \subseteq ScoringIssue /\ \A i \in S : st[i] = su[i] \/ su[i] = "open"
  BY <1>1 DEF Eases, ActiveIssues
<1>4. IsFiniteSet(T) /\ IsFiniteSet(S)
  BY <1>3, ScoringAssumption, FS_Subset
<1>5. \A i \in S : f[i] \in Nat /\ f[i] <= g[i]
  BY <1>2, <1>3, PenaltyMonotone
<1>6. \A i \in T : g[i] \in Nat
  <2>1. \A i \in T : Penalty(i, su, d) \in Nat
    <3>1. Criticality[d.criticality] <= Criticality[d.criticality] /\ d.discount <= d.discount
      BY CriticalityIs DEF ScoringContext
    <3>. QED BY <1>3, <3>1, PenaltyMonotone
  <2>. QED BY <1>2, <2>1
<1>7. SumFunctionOnSet(f, S) <= SumFunctionOnSet(g, T)
  <2>1. \A i \in S : f[i] \in Int /\ f[i] <= g[i]
    BY <1>5
  <2>. QED BY <1>3, <1>4, <1>6, <2>1, SumAtMost
<1>8. SumFunctionOnSet(f, S) \in Nat /\ SumFunctionOnSet(g, T) \in Nat
  <2>1. OnInts(f, S) /\ OnInts(g, T)
    BY <1>5, <1>6 DEF OnInts
  <2>2. SumFunctionOnSet(f, S) \in Int /\ SumFunctionOnSet(g, T) \in Int
    BY <1>4, <2>1, SumIsInt
  <2>3. \A x \in {} : g[x] \in Int /\ g[x] <= f[x]
    OBVIOUS
  <2>4. SumFunctionOnSet(g, {}) <= SumFunctionOnSet(f, S)
    BY <1>4, <1>5, <2>3, SumAtMost
  <2>5. SumFunctionOnSet(g, {}) = 0
    BY SumOfNone
  <2>. QED BY <1>7, <2>2, <2>4, <2>5
<1>9. SumFunction(f) = SumFunctionOnSet(f, S) /\ SumFunction(g) = SumFunctionOnSet(g, T)
  BY <1>2 DEF SumFunction
<1>10. PICK x, y : /\ x = (IF b = "uniqueness" THEN Times(DuplicatePenalty, Criticality[c.criticality]) ELSE 0)
                   /\ y = (IF b = "uniqueness" THEN Times(DuplicatePenalty, Criticality[d.criticality]) ELSE 0)
  OBVIOUS
<1>11. x \in Nat /\ y \in Nat /\ x <= y
  <2>1. DuplicatePenalty \in Nat
    BY DuplicatePenaltyIs
  <2>2. Criticality[c.criticality] \in Nat /\ Criticality[d.criticality] \in Nat
    BY CriticalityIs
  <2>3. /\ Times(DuplicatePenalty, Criticality[c.criticality]) \in Nat
        /\ Times(DuplicatePenalty, Criticality[d.criticality]) \in Nat
        /\ Times(DuplicatePenalty, Criticality[c.criticality]) <= Times(DuplicatePenalty, Criticality[d.criticality])
    <3>1. DuplicatePenalty <= DuplicatePenalty
      BY <2>1
    <3>. QED BY <2>1, <2>2, <3>1, TimesMonotone
  <2>. QED BY <1>10, <2>3
<1>12. Deduction(b, st, c) = SumFunction(f) + x
  BY <1>1, <1>2, <1>10 DEF Deduction
<1>13. Deduction(b, su, d) = SumFunction(g) + y
  BY <1>1, <1>2, <1>10 DEF Deduction
<1>. QED BY <1>7, <1>8, <1>9, <1>11, <1>12, <1>13

LEMMA DimensionMonotone ==
  ASSUME NEW x \in Nat, NEW y \in Nat, x <= y
  PROVE  LET score(z) == Rounded(Max({0, 100000 - z}), 1000) IN
         score(x) \in Nat /\ score(y) \in Nat /\ score(y) <= score(x)
<1>1. ASSUME NEW z \in Nat PROVE Max({0, 100000 - z}) = IF z <= 100000 THEN 100000 - z ELSE 0
  <2>1. CASE z <= 100000
    <3>1. 100000 - z \in {0, 100000 - z} /\ \A w \in {0, 100000 - z} : 100000 - z >= w
      BY <2>1
    <3>2. \A v \in {0, 100000 - z} : (\A w \in {0, 100000 - z} : v >= w) => v = 100000 - z
      BY <2>1
    <3>. QED BY <2>1, <3>1, <3>2 DEF Max
  <2>2. CASE ~(z <= 100000)
    <3>1. 0 \in {0, 100000 - z} /\ \A w \in {0, 100000 - z} : 0 >= w
      BY <2>2
    <3>2. \A v \in {0, 100000 - z} : (\A w \in {0, 100000 - z} : v >= w) => v = 0
      BY <2>2
    <3>. QED BY <2>2, <3>1, <3>2 DEF Max
  <2>. QED BY <2>1, <2>2
<1>2. PICK p, q : p = Max({0, 100000 - x}) /\ q = Max({0, 100000 - y})
  OBVIOUS
<1>3. p \in Nat /\ q \in Nat /\ q <= p
  BY <1>1, <1>2
<1>4. 1000 \in {100, 1000}
  OBVIOUS
<1>5. Rounded(p, 1000) \in Nat /\ Rounded(q, 1000) \in Nat /\ Rounded(q, 1000) <= Rounded(p, 1000)
  BY <1>3, <1>4, RoundedMonotone
<1>. QED BY <1>2, <1>5

LEMMA OverallMonotone ==
  ASSUME NEW st, NEW su, Eases(st, su), NEW c \in ScoringContext, NEW d \in ScoringContext,
         Criticality[c.criticality] <= Criticality[d.criticality], c.discount <= d.discount
  PROVE  Overall(su, d) <= Overall(st, c)
<1>1. PICK B : B = DOMAIN DimensionWeight
  OBVIOUS
<1>2. IsFiniteSet(B) /\ \A b \in B : DimensionWeight[b] \in Nat
  <2>1. B = {"completeness"} \union {"validity"} \union {"consistency"} \union {"uniqueness"} \union {"reliability"}
    BY <1>1 DEF DimensionWeight
  <2>2. IsFiniteSet(B)
    BY <2>1, FS_Singleton, FS_Union
  <2>. QED BY <1>1, <2>1, <2>2 DEF DimensionWeight
<1>3. PICK f, g : /\ f = [b \in B |-> DimensionScore(b, st, c) * DimensionWeight[b]]
                  /\ g = [b \in B |-> DimensionScore(b, su, d) * DimensionWeight[b]]
  OBVIOUS
<1>4. ASSUME NEW b \in B PROVE f[b] \in Nat /\ g[b] \in Nat /\ g[b] <= f[b]
  <2>1. PICK x, y : x = Deduction(b, st, c) /\ y = Deduction(b, su, d)
    OBVIOUS
  <2>2. x \in Nat /\ y \in Nat /\ x <= y
    BY <2>1, DeductionMonotone
  <2>3. PICK p, q : p = DimensionScore(b, st, c) /\ q = DimensionScore(b, su, d)
    OBVIOUS
  <2>4. p \in Nat /\ q \in Nat /\ q <= p
    BY <2>1, <2>2, <2>3, DimensionMonotone DEF DimensionScore
  <2>5. PICK w \in Nat : w = DimensionWeight[b]
    BY <1>2
  <2>6. p * w \in Nat /\ q * w \in Nat /\ q * w <= p * w
    BY <2>4, ProductMonotone
  <2>. QED BY <1>3, <2>3, <2>5, <2>6
<1>5. SumFunctionOnSet(g, B) <= SumFunctionOnSet(f, B)
  <2>1. \A b \in B : g[b] \in Int /\ g[b] <= f[b]
    BY <1>4
  <2>2. \A b \in B : f[b] \in Nat
    BY <1>4
  <2>. QED BY <1>2, <2>1, <2>2, SumAtMost
<1>6. SumFunctionOnSet(g, B) \in Nat /\ SumFunctionOnSet(f, B) \in Nat
  <2>1. OnInts(f, B) /\ OnInts(g, B)
    BY <1>4 DEF OnInts
  <2>2. SumFunctionOnSet(f, B) \in Int /\ SumFunctionOnSet(g, B) \in Int
    BY <1>2, <2>1, SumIsInt
  <2>3. \A x \in {} : f[x] \in Int /\ f[x] <= g[x]
    OBVIOUS
  <2>4. \A b \in B : g[b] \in Nat
    BY <1>4
  <2>5. SumFunctionOnSet(f, {}) <= SumFunctionOnSet(g, B)
    BY <1>2, <2>3, <2>4, SumAtMost
  <2>6. SumFunctionOnSet(f, {}) = 0
    BY SumOfNone
  <2>. QED BY <1>5, <2>2, <2>5, <2>6
<1>7. SumFunction(f) = SumFunctionOnSet(f, B) /\ SumFunction(g) = SumFunctionOnSet(g, B)
  BY <1>3 DEF SumFunction
<1>8. 100 \in {100, 1000}
  OBVIOUS
<1>9. PICK x, y : x = SumFunction(f) /\ y = SumFunction(g)
  OBVIOUS
<1>10. Rounded(y, 100) <= Rounded(x, 100)
  BY <1>5, <1>6, <1>7, <1>8, <1>9, RoundedMonotone
<1>11. Overall(st, c) = Rounded(x, 100)
  BY <1>1, <1>3, <1>9 DEF Overall
<1>12. Overall(su, d) = Rounded(y, 100)
  BY <1>1, <1>3, <1>9 DEF Overall
<1>. QED BY <1>10, <1>11, <1>12

LEMMA ScoringTyped ==
  /\ ScoringInit => ScoringTypeOK
  /\ ScoringTypeOK /\ [ScoringNext]_scoringVars => ScoringTypeOK'
<1>1. ScoringInit => ScoringTypeOK
  BY DEF ScoringInit, ScoringTypeOK, ScoringContext, IssueStatus, Criticality
<1>2. ASSUME ScoringTypeOK, [ScoringNext]_scoringVars PROVE ScoringTypeOK'
  <2>1. ASSUME NEW i \in ScoringIssue, NEW new \in IssueStatus, ChangeStatus(i, new) PROVE ScoringTypeOK'
    <3>1. (IF new = "reopened" THEN "open" ELSE new) \in IssueStatus
      BY DEF IssueStatus
    <3>. QED BY <1>2, <2>1, <3>1 DEF ScoringTypeOK, ChangeStatus
  <2>2. ASSUME NEW criticality \in DOMAIN Criticality, NEW discount \in Discounts, Recalculate(criticality, discount)
        PROVE  ScoringTypeOK'
    <3>1. discount \in 0..100
      BY ScoringAssumption
    <3>. QED BY <1>2, <2>2, <3>1 DEF ScoringTypeOK, ScoringContext, Recalculate
  <2>3. CASE UNCHANGED scoringVars
    BY <1>2, <2>3 DEF scoringVars, ScoringTypeOK
  <2>. QED BY <1>2, <2>1, <2>2, <2>3 DEF ScoringNext
<1>. QED BY <1>1, <1>2

-----------------------------------------------------------------------------
(* Scoring: theorems.                                                      *)

\* The types of the statuses and of the scoring context.
THEOREM ScoringIsTyped == ScoringSpec => []ScoringTypeOK
BY ScoringTyped, PTL DEF ScoringSpec

\* Through both roundings of score_audit and every factor's cut: settling an issue, or
\* taking up an open one, never lowers the score, opening one never raises it, nor does
\* a stricter context, for any issues of an audit.
THEOREM SettlingIsMonotone == ScoringSpec => SettlingNeverLowers
<1>. DEFINE Settles == \A i \in ScoringIssue : status[i] = "open" \/ status'[i] = status[i] \/ status'[i] \in InactiveStatuses
            Opens == \A i \in ScoringIssue : status'[i] = "open" \/ status'[i] = status[i] \/ status[i] \in InactiveStatuses
            Stricter == Criticality[context.criticality] <= Criticality[context'.criticality] /\ context.discount <= context'.discount
            A == /\ status' # status /\ Settles => Overall(status', context') >= Overall(status, context)
                 /\ status' # status /\ Opens => Overall(status', context') <= Overall(status, context)
                 /\ context' # context /\ Stricter => Overall(status', context') <= Overall(status, context)
<1>1. ScoringTypeOK /\ [ScoringNext]_scoringVars => [A]_scoringVars
  <2>. SUFFICES ASSUME ScoringTypeOK, ScoringNext PROVE A
    OBVIOUS
  <2>1. PICK st, su, c, d : st = status /\ su = status' /\ c = context /\ d = context'
    OBVIOUS
  <2>2. /\ c \in ScoringContext /\ d \in ScoringContext
        /\ Criticality[c.criticality] \in Nat /\ Criticality[d.criticality] \in Nat
        /\ c.discount \in Nat /\ d.discount \in Nat
    <3>1. ScoringTypeOK'
      BY ScoringTyped
    <3>2. c \in ScoringContext /\ d \in ScoringContext
      BY <2>1, <3>1 DEF ScoringTypeOK
    <3>. QED BY <3>2, CriticalityIs DEF ScoringContext
  <2>3. su # st => d = c
    BY <2>1 DEF ScoringNext, ChangeStatus, Recalculate
  <2>4. d # c => su = st
    BY <2>1 DEF ScoringNext, ChangeStatus, Recalculate
  <2>5. Settles => Eases(su, st)
    BY <2>1 DEF Eases, ActiveIssues, InactiveStatuses
  <2>6. Opens => Eases(st, su)
    BY <2>1 DEF Eases, ActiveIssues, InactiveStatuses
  <2>7. ASSUME su # st, Settles PROVE Overall(st, c) <= Overall(su, d)
    BY <2>2, <2>3, <2>5, <2>7, OverallMonotone
  <2>8. ASSUME su # st, Opens PROVE Overall(su, d) <= Overall(st, c)
    BY <2>2, <2>3, <2>6, <2>8, OverallMonotone
  <2>9. ASSUME d # c, Stricter PROVE Overall(su, d) <= Overall(st, c)
    <3>1. Eases(st, su)
      BY <2>4, <2>9 DEF Eases
    <3>2. Criticality[c.criticality] <= Criticality[d.criticality] /\ c.discount <= d.discount
      BY <2>1, <2>9
    <3>. QED BY <2>2, <3>1, <3>2, OverallMonotone
  <2>. QED BY <2>1, <2>7, <2>8, <2>9
<1>. QED BY <1>1, ScoringTyped, PTL DEF ScoringSpec, SettlingNeverLowers


\* A sum of values that exceed those of a sum by values of some of the places.
LEMMA SumAtMostBoth ==
  ASSUME NEW f, NEW g, NEW h, NEW S, NEW T, IsFiniteSet(T), S \subseteq T,
         \A x \in T : f[x] \in Int /\ g[x] \in Int /\ g[x] <= f[x] + (IF x \in S THEN h[x] ELSE 0),
         \A x \in S : h[x] \in Int
  PROVE  SumFunctionOnSet(g, T) <= SumFunctionOnSet(f, T) + SumFunctionOnSet(h, S)
<1>. DEFINE Sf(P) == SumFunctionOnSet(f, P)
            Sg(P) == SumFunctionOnSet(g, P)
            Sh(P) == SumFunctionOnSet(h, P \intersect S)
            Bad == {Cardinality(P) : P \in {Q \in SUBSET T : ~(Sg(Q) <= Sf(Q) + Sh(Q))}}
<1>0. \A P \in SUBSET T : /\ IsFiniteSet(P) /\ Cardinality(P) \in Nat
                          /\ IsFiniteSet(P \intersect S)
                          /\ OnInts(h, P \intersect S) /\ OnInts(g, P) /\ OnInts(f, P)
  BY FS_Subset, FS_CardinalityType DEF OnInts
<1>1. \A P \in SUBSET T : Sf(P) \in Int /\ Sg(P) \in Int /\ Sh(P) \in Int
  BY <1>0, SumIsInt
<1>2. Bad = {}
  <2>1. SUFFICES ASSUME Bad # {} PROVE FALSE
    OBVIOUS
  <2>2. PICK n \in Bad : \A m \in Bad : n <= m
    <3>1. Bad \in SUBSET Nat
      BY <1>0
    <3>. HIDE DEF Bad
    <3>. QED BY <2>1, <3>1, LeastPlace
  <2>3. PICK P \in SUBSET T : ~(Sg(P) <= Sf(P) + Sh(P)) /\ n = Cardinality(P)
    BY <2>2
  <2>4. P # {}
    <3>1. {} \intersect S = {}
      OBVIOUS
    <3>2. Sf({}) = 0 /\ Sg({}) = 0 /\ Sh({}) = 0
      BY <3>1, SumOfNone
    <3>3. SUFFICES ASSUME P = {} PROVE FALSE
      OBVIOUS
    <3>4. ~(Sg({}) <= Sf({}) + Sh({}))
      BY <2>3, <3>3
    <3>. HIDE DEF Sf, Sg, Sh
    <3>. QED BY <3>2, <3>4
  <2>5. PICK x \in P : TRUE
    BY <2>4
  <2>6. PICK R : R = P \ {x}
    OBVIOUS
  <2>7. R \in SUBSET T /\ Cardinality(R) = n - 1 /\ n \in Nat
    BY <1>0, <2>3, <2>6, FS_RemoveElement
  <2>8. Sg(R) <= Sf(R) + Sh(R)
    <3>1. ~(n <= n - 1)
      BY <2>7
    <3>. HIDE DEF Sf, Sg, Sh
    <3>. QED BY <2>2, <2>7, <3>1
  <2>9. Sg(P) = g[x] + Sg(R) /\ Sf(P) = f[x] + Sf(R)
    BY <1>0, <2>3, <2>5, <2>6, SumOfAny
  <2>10. CASE x \in S
    <3>1. x \in P \intersect S /\ (P \intersect S) \ {x} = R \intersect S
      BY <2>5, <2>6, <2>10
    <3>2. SumFunctionOnSet(h, P \intersect S) = h[x] + SumFunctionOnSet(h, (P \intersect S) \ {x})
      <4>1. IsFiniteSet(P \intersect S) /\ OnInts(h, P \intersect S)
        BY <1>0
      <4>. QED BY <3>1, <4>1, SumOfAny
    <3>3. Sh(P) = h[x] + Sh(R)
      BY <3>1, <3>2
    <3>4. /\ f[x] \in Int /\ g[x] \in Int /\ h[x] \in Int /\ g[x] <= f[x] + h[x]
          /\ Sf(R) \in Int /\ Sg(R) \in Int /\ Sh(R) \in Int
      <4>. HIDE DEF Sf, Sg, Sh
      <4>. QED BY <1>1, <2>5, <2>7, <2>10
    <3>. HIDE DEF Sf, Sg, Sh
    <3>. QED BY <2>3, <2>8, <2>9, <3>3, <3>4
  <2>11. CASE x \notin S
    <3>1. P \intersect S = R \intersect S
      BY <2>6, <2>11
    <3>2. Sh(P) = Sh(R)
      BY <3>1
    <3>3. /\ f[x] \in Int /\ g[x] \in Int /\ g[x] <= f[x]
          /\ Sf(R) \in Int /\ Sg(R) \in Int /\ Sh(R) \in Int
      <4>1. g[x] <= f[x] + 0 /\ f[x] \in Int /\ g[x] \in Int
        BY <2>5, <2>11
      <4>. HIDE DEF Sf, Sg, Sh
      <4>. QED BY <1>1, <2>7, <4>1
    <3>. HIDE DEF Sf, Sg, Sh
    <3>. QED BY <2>3, <2>8, <2>9, <3>2, <3>3
  <2>. QED BY <2>10, <2>11
<1>3. Sg(T) <= Sf(T) + Sh(T)
  <2>1. T \in SUBSET T
    OBVIOUS
  <2>. HIDE DEF Sf, Sg, Sh
  <2>. QED BY <1>2, <2>1
<1>4. T \intersect S = S
  OBVIOUS
<1>. QED BY <1>3, <1>4

-----------------------------------------------------------------------------
(* Remediation: the places that are kept, in order.                        *)

\* Places are finitely many.
LEMMA PlacesAreFew ==
  ASSUME NEW n \in Nat, NEW S \in SUBSET (1..n)
  PROVE  IsFiniteSet(S) /\ Cardinality(S) \in Nat
<1>1. IsFiniteSet(1..n)
  BY FS_Interval
<1>2. IsFiniteSet(S)
  BY <1>1, FS_Subset
<1>. QED BY <1>2, FS_CardinalityType

\* Every number of predecessors occurs.
LEMMA PlaceThere ==
  ASSUME NEW n \in Nat, NEW S \in SUBSET (1..n), NEW k \in 1..Cardinality(S)
  PROVE  \E p \in S : Cardinality({q \in S : q < p}) = k - 1
<1>. DEFINE Earlier(p) == {q \in S : q < p}
            Late == {p \in S : Cardinality(Earlier(p)) >= k - 1}
<1>0. \A q \in S : q \in Nat
  OBVIOUS
<1>1. IsFiniteSet(S) /\ Cardinality(S) \in Nat
  BY PlacesAreFew
<1>2. \A p \in S : Earlier(p) \in SUBSET (1..n) /\ IsFiniteSet(Earlier(p)) /\ Cardinality(Earlier(p)) \in Nat
  BY <1>1, FS_Subset, FS_CardinalityType
<1>3. S # {}
  BY <1>1, FS_EmptySet
<1>4. PICK last \in S : \A q \in S : q <= last
  BY <1>3, LastPlace
<1>5. last \in Late
  <2>1. Earlier(last) = S \ {last}
    <3>1. \A q \in S : q < last <=> q # last
      BY <1>0, <1>4
    <3>. QED BY <3>1
  <2>2. Cardinality(S \ {last}) = Cardinality(S) - 1
    BY <1>1, FS_RemoveElement
  <2>. QED BY <1>1, <2>1, <2>2
<1>6. PICK p \in Late : \A q \in Late : p <= q
  <2>1. Late \in SUBSET Nat /\ Late # {}
    BY <1>0, <1>5
  <2>. HIDE DEF Late
  <2>. QED BY <2>1, LeastPlace
<1>7. Cardinality(Earlier(p)) = k - 1
  <2>1. SUFFICES ASSUME Cardinality(Earlier(p)) # k - 1 PROVE FALSE
    OBVIOUS
  <2>2. Cardinality(Earlier(p)) >= k /\ Earlier(p) # {}
    BY <1>2, <1>6, <2>1, FS_EmptySet
  <2>3. PICK q \in Earlier(p) : \A r \in Earlier(p) : r <= q
    <3>1. Earlier(p) \in SUBSET (1..n)
      OBVIOUS
    <3>. HIDE DEF Earlier
    <3>. QED BY <2>2, <3>1, LastPlace
  <2>4. Earlier(q) = Earlier(p) \ {q}
    <3>1. \A r \in S : r < p /\ r # q => r < q
      BY <1>0, <2>3
    <3>2. q \in S /\ q < p /\ p \in S
      BY <2>3
    <3>3. \A r \in S : r < q <=> (r < p /\ r # q)
      BY <1>0, <3>1, <3>2
    <3>. QED BY <3>3
  <2>5. Cardinality(Earlier(q)) = Cardinality(Earlier(p)) - 1
    BY <1>2, <2>3, <2>4, FS_RemoveElement
  <2>6. q \in Late /\ q < p /\ p \in Nat /\ q \in Nat
    BY <1>2, <2>2, <2>3, <2>5
  <2>. HIDE DEF Late
  <2>. QED BY <1>6, <2>6
<1>. QED BY <1>7

\* Ordered lists places in order.
LEMMA OrderLists ==
  ASSUME NEW n \in Nat, NEW S \in SUBSET (1..n)
  PROVE  /\ Cardinality(S) \in Nat
         /\ Ordered(S, <) \in [1..Cardinality(S) -> S]
         /\ \A k, m \in 1..Cardinality(S) : k < m => Ordered(S, <)[k] < Ordered(S, <)[m]
<1>0. Cardinality(S) \in Nat
  BY PlacesAreFew
<1>1. \A k \in 1..Cardinality(S) : Ordered(S, <)[k] \in S /\ Cardinality({q \in S : q < Ordered(S, <)[k]}) = k - 1
  <2>1. ASSUME NEW k \in 1..Cardinality(S)
        PROVE  Ordered(S, <)[k] \in S /\ Cardinality({q \in S : q < Ordered(S, <)[k]}) = k - 1
    <3>1. Ordered(S, <)[k] = CHOOSE p \in S : Cardinality({q \in S : q < p}) = k - 1
      BY DEF Ordered
    <3>2. \E p \in S : Cardinality({q \in S : q < p}) = k - 1
      BY PlaceThere
    <3>. QED BY <3>1, <3>2
  <2>. QED BY <2>1
<1>2. Ordered(S, <) \in [1..Cardinality(S) -> S]
  <2>. DEFINE Spot(k) == CHOOSE p \in S : Cardinality({q \in S : q < p}) = k - 1
  <2>1. Ordered(S, <) = [k \in 1..Cardinality(S) |-> Spot(k)]
    BY DEF Ordered
  <2>. HIDE DEF Spot
  <2>2. \A k \in 1..Cardinality(S) : Spot(k) \in S
    BY <1>1, <2>1
  <2>. QED BY <2>1, <2>2
<1>3. ASSUME NEW k \in 1..Cardinality(S), NEW m \in 1..Cardinality(S), k < m
      PROVE  Ordered(S, <)[k] < Ordered(S, <)[m]
  <2>1. PICK x, y : x = Ordered(S, <)[k] /\ y = Ordered(S, <)[m]
    OBVIOUS
  <2>2. x \in S /\ y \in S /\ x \in Nat /\ y \in Nat
    <3>1. x \in S /\ y \in S
      BY <1>1, <2>1
    <3>2. \A q \in S : q \in Nat
      OBVIOUS
    <3>. QED BY <3>1, <3>2
  <2>. SUFFICES ASSUME ~(x < y) PROVE FALSE
    BY <2>1
  <2>3. y <= x
    BY <2>2
  <2>4. PICK A, B : A = {q \in S : q < x} /\ B = {q \in S : q < y}
    OBVIOUS
  <2>5. Cardinality(A) = k - 1 /\ Cardinality(B) = m - 1
    BY <1>1, <2>1, <2>4
  <2>6. B \subseteq A
    <3>1. \A q \in S : q \in Nat
      OBVIOUS
    <3>2. \A q \in S : q < y => q < x
      BY <2>2, <2>3, <3>1
    <3>. QED BY <2>4, <3>2
  <2>7. A \in SUBSET (1..n)
    BY <2>4
  <2>8. Cardinality(B) <= Cardinality(A)
    BY <2>6, <2>7, PlacesAreFew, FS_Subset
  <2>. QED BY <1>0, <1>3, <2>5, <2>8
<1>. QED BY <1>0, <1>2, <1>3

\* A sum of zeros.
LEMMA SumOfZeros ==
  ASSUME NEW f, NEW S, IsFiniteSet(S), \A x \in S : f[x] = 0
  PROVE  SumFunctionOnSet(f, S) = 0
<1>. DEFINE Bad == {Cardinality(T) : T \in {Q \in SUBSET S : SumFunctionOnSet(f, Q) # 0}}
<1>1. \A T \in SUBSET S : IsFiniteSet(T) /\ Cardinality(T) \in Nat
  BY FS_Subset, FS_CardinalityType
<1>2. SUFFICES ASSUME Bad # {} PROVE FALSE
  OBVIOUS
<1>3. PICK n \in Bad : \A m \in Bad : n <= m
  <2>1. Bad \in SUBSET Nat
    BY <1>1
  <2>. HIDE DEF Bad
  <2>. QED BY <1>2, <2>1, LeastPlace
<1>4. PICK T \in SUBSET S : SumFunctionOnSet(f, T) # 0 /\ n = Cardinality(T)
  BY <1>3
<1>5. PICK x \in T : TRUE
  BY <1>4, SumOfNone
<1>6. PICK R : R = T \ {x}
  OBVIOUS
<1>7. R \in SUBSET S /\ Cardinality(R) = n - 1 /\ n \in Nat
  BY <1>1, <1>4, <1>6, FS_RemoveElement
<1>8. SumFunctionOnSet(f, R) = 0
  <2>1. ~(n <= n - 1)
    BY <1>7
  <2>. QED BY <1>3, <1>7, <2>1
<1>9. SumFunctionOnSet(f, T) = f[x] + SumFunctionOnSet(f, R)
  <2>1. OnInts(f, T) /\ IsFiniteSet(T)
    BY <1>1 DEF OnInts
  <2>. QED BY <1>5, <1>6, <2>1, SumOfAny
<1>. QED BY <1>4, <1>5, <1>8, <1>9

\* A sum of numbers is a number.
LEMMA SumIsNat ==
  ASSUME NEW f, NEW S, IsFiniteSet(S), \A x \in S : f[x] \in Nat
  PROVE  SumFunctionOnSet(f, S) \in Nat
<1>1. SumFunctionOnSet(f, S) \in Int
  BY SumIsInt DEF OnInts
<1>2. \A x \in {} : f[x] \in Int /\ f[x] <= f[x]
  OBVIOUS
<1>3. SumFunctionOnSet(f, {}) <= SumFunctionOnSet(f, S)
  BY <1>2, SumAtMost
<1>. QED BY <1>1, <1>3, SumOfNone

-----------------------------------------------------------------------------
(* Remediation: what a correction changes is reported.                     *)

\* Rows of tab that differ in column c from those of src that they were.
Differing(src, tab, org, c) == {k \in DOMAIN tab : tab[k][c] # src[org[k]][c]}

LEMMA ReportedBy ==
  ChangesReported <=>
    /\ \A c \in Column : Differing(source, table, origin, c) # {} => c \in stats.columns
    /\ SumFunctionOnSet([c \in Column |-> Cardinality(Differing(source, table, origin, c))], Column) <= stats.cells
    /\ Len(source) = Len(table) + stats.removed
BY DEF ChangesReported, Differing, SumFunction

\* A function on the first n numbers is a sequence.
LEMMA SequenceOf ==
  ASSUME NEW n \in Nat, NEW f, f = [k \in 1..n |-> f[k]]
  PROVE  f \in Seq({f[k] : k \in DOMAIN f}) /\ Len(f) = n /\ DOMAIN f = 1..n
<1>1. DOMAIN f = 1..n
  OBVIOUS
<1>2. PICK R : R = {f[k] : k \in DOMAIN f}
  OBVIOUS
<1>3. f \in [1..n -> R]
  BY <1>1, <1>2
<1>4. f \in Seq(R)
  BY <1>3
<1>. QED BY <1>1, <1>2, <1>4

LEMMA ColumnsAreFew == IsFiniteSet(Column)
BY RemediationAssumption, FS_Interval DEF Column

\* All of the changes are counted.
LEMMA AllCounted == ASSUME NEW n \in Nat PROVE Counted(n) = n
<1>1. SampleLimit \in Nat
  BY RemediationAssumption
<1>2. \E m \in {n, SampleLimit} : \A z \in {n, SampleLimit} : m <= z
  BY <1>1
<1>3. Min({n, SampleLimit}) \in Nat
  BY <1>1, <1>2 DEF Min
<1>. QED BY <1>3 DEF Counted

\* new has the rows of the table, and other columns than cs as they are.
Rewrites(new, cs) ==
  /\ new = [k \in DOMAIN table |-> new[k]]
  /\ \A k \in DOMAIN table, c \in Column \ cs : new[k][c] = table[k][c]

LEMMA CorrectionsRewrite ==
  ASSUME NEW cs
  PROVE  Rewrites(Filled(table, cs), cs) /\ Rewrites(Standardized(table, cs), cs) /\ Rewrites(Masked(table, cs), cs)
<1>1. Rewrites(Filled(table, cs), cs)
  BY DEF Rewrites, Filled
<1>2. Rewrites(Standardized(table, cs), cs)
  BY DEF Rewrites, Standardized
<1>3. Rewrites(Masked(table, cs), cs)
  BY DEF Rewrites, Masked
<1>. QED BY <1>1, <1>2, <1>3

\* What RowsKept says of the numbers of rows.
LEMMA RowsAre ==
  ASSUME RowsKept
  PROVE  /\ Len(table) \in Nat /\ DOMAIN table = 1..Len(table)
         /\ \A c : /\ Differing(source, table, origin, c) \in SUBSET (1..Len(table))
                   /\ IsFiniteSet(Differing(source, table, origin, c))
                   /\ Cardinality(Differing(source, table, origin, c)) \in Nat
<1>1. Len(table) \in Nat /\ DOMAIN table = 1..Len(table)
  BY DEF RowsKept
<1>2. \A c : Differing(source, table, origin, c) \in SUBSET (1..Len(table))
  BY <1>1 DEF Differing
<1>. QED BY <1>1, <1>2, PlacesAreFew

\* Rewriting columns: a cell that differs did so before, or it is counted.
LEMMA RewriteReports ==
  ASSUME RemediationInv, NEW new, NEW cs \in SUBSET Column, Rewrites(new, cs), Rewrite(new, cs), source' = source
  PROVE  RemediationInv'
<1>. DEFINE changed(c) == {i \in DOMAIN table : new[i][c] # table[i][c]}
            old(c) == Differing(source, table, origin, c)
            after(c) == Differing(source, new, origin, c)
            f == [c \in Column |-> Cardinality(old(c))]
            g == [c \in Column |-> Cardinality(after(c))]
            h == [c \in cs |-> Counted(Cardinality(changed(c)))]
<1>0. RowsKept /\ ChangesReported
  BY DEF RemediationInv
<1>1. Len(table) \in Nat /\ DOMAIN table = 1..Len(table)
  BY <1>0, RowsAre
<1>2. new = [k \in 1..Len(table) |-> new[k]]
  BY <1>1 DEF Rewrites
<1>3. Len(new) = Len(table) /\ DOMAIN new = DOMAIN table /\ new \in Seq({new[k] : k \in DOMAIN new})
  BY <1>1, <1>2, SequenceOf
<1>4. /\ table' = new /\ origin' = origin
      /\ stats' = [stats EXCEPT !.cells = @ + SumFunctionOnSet(h, cs), !.columns = @ \union {c \in cs : changed(c) # {}}]
  BY DEF Rewrite, SumFunction
<1>5. \A c \in Column :
        /\ IsFiniteSet(changed(c)) /\ Cardinality(changed(c)) \in Nat
        /\ IsFiniteSet(after(c)) /\ Cardinality(after(c)) \in Nat
        /\ IsFiniteSet(old(c)) /\ Cardinality(old(c)) \in Nat
  <2>1. \A c \in Column : changed(c) \in SUBSET (1..Len(table)) /\ after(c) \in SUBSET (1..Len(table)) /\ old(c) \in SUBSET (1..Len(table))
    BY <1>1, <1>3 DEF Differing
  <2>. HIDE DEF changed, after, old
  <2>. QED BY <1>1, <2>1, PlacesAreFew
<1>6. \A c \in Column : after(c) \subseteq old(c) \union (IF c \in cs THEN changed(c) ELSE {})
  <2>1. \A c \in Column : after(c) \subseteq old(c) \union changed(c)
    BY <1>3 DEF Differing
  <2>2. \A c \in Column \ cs : changed(c) = {}
    BY DEF Rewrites
  <2>. HIDE DEF changed, after, old
  <2>. QED BY <2>1, <2>2
<1>7. \A c \in cs : h[c] = Cardinality(changed(c)) /\ h[c] \in Nat
  <2>. HIDE DEF changed
  <2>1. \A c \in cs : Cardinality(changed(c)) \in Nat
    BY <1>5
  <2>. QED BY <2>1, AllCounted
<1>8. \A c \in Column : f[c] \in Int /\ g[c] \in Int /\ g[c] <= f[c] + (IF c \in cs THEN h[c] ELSE 0)
  <2>. TAKE c \in Column
  <2>. HIDE DEF changed, after, old
  <2>1. f[c] = Cardinality(old(c)) /\ g[c] = Cardinality(after(c)) /\ f[c] \in Nat /\ g[c] \in Nat
    BY <1>5
  <2>2. CASE c \in cs
    <3>1. after(c) \subseteq old(c) \union changed(c)
      BY <1>6, <2>2
    <3>2. /\ IsFiniteSet(old(c) \union changed(c))
          /\ Cardinality(old(c) \union changed(c)) = Cardinality(old(c)) + Cardinality(changed(c)) - Cardinality(old(c) \intersect changed(c))
      BY <1>5, FS_Union
    <3>3. Cardinality(after(c)) <= Cardinality(old(c) \union changed(c))
      BY <3>1, <3>2, FS_Subset
    <3>4. Cardinality(old(c) \intersect changed(c)) \in Nat
      BY <1>5, FS_Subset, FS_CardinalityType
    <3>5. h[c] = Cardinality(changed(c)) /\ Cardinality(changed(c)) \in Nat
      BY <1>7, <2>2
    <3>. HIDE DEF f, g, h
    <3>. QED BY <2>1, <2>2, <3>2, <3>3, <3>4, <3>5
  <2>3. CASE c \notin cs
    <3>1. after(c) \subseteq old(c)
      BY <1>6, <2>3
    <3>2. Cardinality(after(c)) <= Cardinality(old(c))
      BY <1>5, <3>1, FS_Subset
    <3>. HIDE DEF f, g, h
    <3>. QED BY <2>1, <2>3, <3>2
  <2>. QED BY <2>2, <2>3
<1>9. SumFunctionOnSet(g, Column) <= SumFunctionOnSet(f, Column) + SumFunctionOnSet(h, cs)
  <2>1. \A c \in cs : h[c] \in Int
    BY <1>7
  <2>. HIDE DEF f, g, h
  <2>. QED BY <1>8, <2>1, ColumnsAreFew, SumAtMostBoth
<1>10. SumFunctionOnSet(f, Column) \in Int /\ SumFunctionOnSet(g, Column) \in Int /\ SumFunctionOnSet(h, cs) \in Nat
  <2>1. OnInts(f, Column) /\ OnInts(g, Column)
    BY <1>8 DEF OnInts
  <2>2. IsFiniteSet(cs)
    BY ColumnsAreFew, FS_Subset
  <2>. HIDE DEF f, g, h
  <2>. QED BY <1>7, <2>1, <2>2, ColumnsAreFew, SumIsInt, SumIsNat
<1>11. PICK T : T = [cells: Nat, columns: SUBSET Column, removed: Int]
  OBVIOUS
<1>12. stats \in T /\ stats.cells \in Nat /\ stats.columns \in SUBSET Column /\ stats.removed \in Int
  BY <1>0, <1>11 DEF RowsKept
<1>13. /\ stats'.cells = stats.cells + SumFunctionOnSet(h, cs)
       /\ stats'.columns = stats.columns \union {c \in cs : changed(c) # {}}
       /\ stats'.removed = stats.removed
       /\ stats' \in T
  <2>. HIDE DEF h, changed
  <2>1. {c \in cs : changed(c) # {}} \in SUBSET Column
    OBVIOUS
  <2>2. stats.cells + SumFunctionOnSet(h, cs) \in Nat
    BY <1>10, <1>12
  <2>. QED BY <1>4, <1>11, <1>12, <2>1, <2>2
<1>14. RowsKept'
  <2>1. origin \in [DOMAIN table -> DOMAIN source] /\ \A j, k \in DOMAIN table : j < k => origin[j] < origin[k]
    BY <1>0 DEF RowsKept
  <2>. HIDE DEF h, changed
  <2>. QED BY <1>3, <1>4, <1>11, <1>13, <2>1 DEF RowsKept
<1>15. ChangesReported'
  <2>1. \A c \in Column : after(c) # {} => c \in stats'.columns
    <3>1. \A c \in Column : old(c) # {} => c \in stats.columns
      BY <1>0, ReportedBy
    <3>. HIDE DEF changed, after, old, h
    <3>. QED BY <1>6, <1>13, <3>1
  <2>2. SumFunctionOnSet(g, Column) <= stats'.cells
    <3>1. SumFunctionOnSet(f, Column) <= stats.cells
      BY <1>0, ReportedBy
    <3>. HIDE DEF f, g, h, changed
    <3>. QED BY <1>9, <1>10, <1>12, <1>13, <3>1
  <2>3. Len(source) = Len(new) + stats'.removed
    <3>1. Len(source) = Len(table) + stats.removed
      BY <1>0, ReportedBy
    <3>. HIDE DEF h, changed
    <3>. QED BY <1>3, <1>13, <3>1
  <2>4. /\ \A c \in Column : Differing(source', table', origin', c) # {} => c \in stats'.columns
        /\ SumFunctionOnSet([c \in Column |-> Cardinality(Differing(source', table', origin', c))], Column) <= stats'.cells
        /\ Len(source') = Len(table') + stats'.removed
    BY <1>4, <2>1, <2>2, <2>3
  <2>. QED BY <2>4 DEF ChangesReported, Differing, SumFunction
<1>. QED BY <1>14, <1>15 DEF RemediationInv

\* drop_duplicates keeps n rows of the table, of those that are the first ones.
Kept(n, kept) ==
  /\ \A k, m \in 1..n : k < m => kept[k] < kept[m]
  /\ table' = [k \in 1..n |-> table[kept[k]]]
  /\ origin' = [k \in 1..n |-> origin[kept[k]]]
  /\ stats' = [stats EXCEPT !.removed = @ + Len(table) - n]

LEMMA DroppedRows ==
  ASSUME Len(table) \in Nat, DOMAIN table = 1..Len(table), NEW cs, DropDuplicates(cs)
  PROVE  \E n \in Nat : \E kept \in [1..n -> Firsts(table, cs)] : Kept(n, kept)
<1>0. PICK F : F = Firsts(table, cs)
  OBVIOUS
<1>1. PICK n, kept : F = Firsts(table, cs) /\ n = Cardinality(F) /\ kept = Ordered(F, <)
  BY <1>0
<1>2. F \in SUBSET (1..Len(table))
  BY <1>1 DEF Firsts
<1>3. n \in Nat /\ kept \in [1..n -> F] /\ \A k, m \in 1..n : k < m => kept[k] < kept[m]
  BY <1>1, <1>2, OrderLists
<1>4. DOMAIN kept = 1..n /\ Len(kept) = n
  <2>1. kept \in Seq(F)
    BY <1>3
  <2>. QED BY <1>3, <2>1
<1>5. Kept(n, kept)
  BY <1>1, <1>3, <1>4 DEF DropDuplicates, Kept
<1>. QED BY <1>1, <1>3, <1>5

\* Removing rows: those that are kept differ as they did, and each is one of the table's.
LEMMA DroppingReports ==
  ASSUME RemediationInv, NEW cs, DropDuplicates(cs), source' = source
  PROVE  RemediationInv'
<1>. DEFINE old(c) == Differing(source, table, origin, c)
            after(c) == Differing(source, table', origin', c)
            f == [c \in Column |-> Cardinality(old(c))]
            g == [c \in Column |-> Cardinality(after(c))]
<1>0. RowsKept /\ ChangesReported
  BY DEF RemediationInv
<1>1. Len(table) \in Nat /\ DOMAIN table = 1..Len(table)
  BY <1>0, RowsAre
<1>5. PICK n \in Nat : \E kept \in [1..n -> Firsts(table, cs)] : Kept(n, kept)
  BY <1>1, DroppedRows
<1>2. PICK kept \in [1..n -> Firsts(table, cs)] : Kept(n, kept)
  BY <1>5
<1>3. Firsts(table, cs) \in SUBSET (1..Len(table))
  BY <1>1 DEF Firsts
<1>4. n \in Nat /\ \A k, m \in 1..n : k < m => kept[k] < kept[m]
  BY <1>2 DEF Kept
<1>6. /\ table' = [k \in 1..n |-> table[kept[k]]]
      /\ origin' = [k \in 1..n |-> origin[kept[k]]]
      /\ stats' = [stats EXCEPT !.removed = @ + Len(table) - n]
  BY <1>2 DEF Kept
<1>7. /\ DOMAIN table' = 1..n /\ Len(table') = n /\ table' \in Seq({table'[k] : k \in DOMAIN table'})
  <2>1. table' = [k \in 1..n |-> table'[k]]
    BY <1>6
  <2>. QED BY <1>4, <2>1, SequenceOf
<1>8. \A k \in 1..n : /\ kept[k] \in 1..Len(table) /\ kept[k] \in DOMAIN table
                      /\ table'[k] = table[kept[k]] /\ origin'[k] = origin[kept[k]]
  BY <1>1, <1>2, <1>3, <1>6
<1>9. \A c : /\ after(c) \in SUBSET (1..n)
             /\ \A k \in after(c) : kept[k] \in old(c)
  BY <1>7, <1>8 DEF Differing
<1>10. \A c \in Column : Cardinality(after(c)) \in Nat /\ Cardinality(old(c)) \in Nat /\ Cardinality(after(c)) <= Cardinality(old(c))
  <2>. TAKE c \in Column
  <2>1. IsFiniteSet(old(c)) /\ Cardinality(old(c)) \in Nat
    BY <1>0, RowsAre
  <2>2. PICK A, B : A = after(c) /\ B = old(c)
    OBVIOUS
  <2>. HIDE DEF old, after
  <2>3. A \in SUBSET (1..n) /\ \A k \in A : kept[k] \in B
    BY <1>9, <2>2
  <2>4. PICK e : e = [k \in A |-> kept[k]]
    OBVIOUS
  <2>5. \A k, m \in A : e[k] = e[m] => k = m
    <3>1. ASSUME NEW k \in A, NEW m \in A, e[k] = e[m] PROVE k = m
      <4>1. kept[k] = kept[m] /\ k \in 1..n /\ m \in 1..n
        BY <2>3, <2>4, <3>1
      <4>2. kept[k] \in Nat
        BY <1>8, <4>1
      <4>3. ~(k < m) /\ ~(m < k)
        BY <1>4, <4>1, <4>2
      <4>. QED BY <1>4, <4>1, <4>3
    <3>. QED BY <3>1
  <2>6. e \in [A -> B]
    BY <2>3, <2>4
  <2>7. e \in Injection(A, B)
    BY <2>5, <2>6 DEF Injection, IsInjective
  <2>8. Cardinality(A) <= Cardinality(B)
    BY <2>1, <2>2, <2>7, FS_Injection
  <2>9. Cardinality(A) \in Nat
    BY <1>4, <2>3, PlacesAreFew
  <2>. QED BY <2>1, <2>2, <2>8, <2>9
<1>11. SumFunctionOnSet(g, Column) <= SumFunctionOnSet(f, Column)
  <2>1. \A c \in Column : g[c] \in Int /\ g[c] <= f[c] /\ f[c] \in Nat
    <3>. HIDE DEF old, after
    <3>. QED BY <1>10
  <2>. HIDE DEF f, g
  <2>. QED BY <2>1, ColumnsAreFew, SumAtMost
<1>12. SumFunctionOnSet(f, Column) \in Int /\ SumFunctionOnSet(g, Column) \in Int
  <2>1. OnInts(f, Column) /\ OnInts(g, Column)
    <3>. HIDE DEF old, after
    <3>. QED BY <1>10 DEF OnInts
  <2>. HIDE DEF f, g
  <2>. QED BY <2>1, ColumnsAreFew, SumIsInt
<1>13. PICK T : T = [cells: Nat, columns: SUBSET Column, removed: Int]
  OBVIOUS
<1>14. stats \in T /\ stats.cells \in Nat /\ stats.columns \in SUBSET Column /\ stats.removed \in Int
  BY <1>0, <1>13 DEF RowsKept
<1>15. /\ stats'.cells = stats.cells /\ stats'.columns = stats.columns
       /\ stats'.removed = stats.removed + Len(table) - n
       /\ stats' \in T
  <2>1. stats.removed + Len(table) - n \in Int
    BY <1>1, <1>4, <1>14
  <2>. QED BY <1>6, <1>13, <1>14, <2>1
<1>16. RowsKept'
  <2>1. origin \in [DOMAIN table -> DOMAIN source] /\ \A j, k \in DOMAIN table : j < k => origin[j] < origin[k]
    BY <1>0 DEF RowsKept
  <2>2. origin' \in [1..n -> DOMAIN source]
    BY <1>6, <1>8, <2>1
  <2>3. \A j, k \in 1..n : j < k => origin'[j] < origin'[k]
    BY <1>4, <1>8, <2>1
  <2>. QED BY <1>7, <1>13, <1>15, <2>2, <2>3 DEF RowsKept
<1>17. ChangesReported'
  <2>1. \A c \in Column : after(c) # {} => c \in stats'.columns
    <3>1. \A c \in Column : old(c) # {} => c \in stats.columns
      BY <1>0, ReportedBy
    <3>. HIDE DEF old, after
    <3>. QED BY <1>9, <1>15, <3>1
  <2>2. SumFunctionOnSet(g, Column) <= stats'.cells
    <3>1. SumFunctionOnSet(f, Column) <= stats.cells
      BY <1>0, ReportedBy
    <3>. HIDE DEF f, g
    <3>. QED BY <1>11, <1>12, <1>14, <1>15, <3>1
  <2>3. Len(source) = Len(table') + stats'.removed
    <3>1. Len(source) = Len(table) + stats.removed
      BY <1>0, ReportedBy
    <3>. QED BY <1>1, <1>4, <1>7, <1>14, <1>15, <3>1
  <2>4. /\ \A c \in Column : Differing(source', table', origin', c) # {} => c \in stats'.columns
        /\ SumFunctionOnSet([c \in Column |-> Cardinality(Differing(source', table', origin', c))], Column) <= stats'.cells
        /\ Len(source') = Len(table') + stats'.removed
    BY <2>1, <2>2, <2>3
  <2>. QED BY <2>4 DEF ChangesReported, Differing, SumFunction
<1>. QED BY <1>16, <1>17 DEF RemediationInv

\* The copy starts as the table.
LEMMA NothingToReport == RemediationInit => RemediationInv
<1>. SUFFICES ASSUME RemediationInit PROVE RemediationInv
  OBVIOUS
<1>. DEFINE f == [c \in Column |-> Cardinality(Differing(source, table, origin, c))]
<1>1. table = source /\ origin = [i \in DOMAIN source |-> i] /\ stats = [cells |-> 0, columns |-> {}, removed |-> 0]
  BY DEF RemediationInit
<1>2. source \in Seq([Column -> Value])
  BY RemediationAssumption DEF RemediationInit
<1>3. Len(source) \in Nat /\ DOMAIN source = 1..Len(source)
  BY <1>2
<1>4. source \in Seq({source[k] : k \in DOMAIN source})
  <2>1. source = [k \in 1..Len(source) |-> source[k]]
    BY <1>2
  <2>. QED BY <1>3, <2>1, SequenceOf
<1>5. RowsKept
  <2>1. stats \in [cells: Nat, columns: SUBSET Column, removed: Int]
    BY <1>1
  <2>2. origin \in [DOMAIN source -> DOMAIN source] /\ \A j, k \in DOMAIN source : j < k => origin[j] < origin[k]
    BY <1>1
  <2>. QED BY <1>1, <1>4, <2>1, <2>2 DEF RowsKept
<1>6. \A c : Differing(source, table, origin, c) = {}
  BY <1>1 DEF Differing
<1>7. SumFunctionOnSet(f, Column) = 0
  <2>1. \A c \in Column : f[c] = 0
    BY <1>6, FS_EmptySet
  <2>. HIDE DEF f
  <2>. QED BY <2>1, ColumnsAreFew, SumOfZeros
<1>8. ChangesReported
  BY <1>1, <1>3, <1>6, <1>7, ReportedBy
<1>. QED BY <1>5, <1>8 DEF RemediationInv

LEMMA CorrectingReports == RemediationInv /\ [Correct]_remediationVars => RemediationInv'
<1>. SUFFICES ASSUME RemediationInv, [Correct]_remediationVars PROVE RemediationInv'
  OBVIOUS
<1>1. CASE UNCHANGED remediationVars
  BY <1>1 DEF remediationVars, RemediationInv, RowsKept, ChangesReported
<1>2. CASE Correct
  <2>1. PICK cs : cs = Head(todo).columns \intersect Column
    OBVIOUS
  <2>2. cs \in SUBSET Column /\ source' = source
    BY <1>2, <2>1 DEF Correct
  <2>3. \/ DropDuplicates(IF cs = {} THEN Column ELSE cs)
        \/ Rewrite(Filled(table, cs), cs)
        \/ Rewrite(Standardized(table, cs), cs)
        \/ Rewrite(Masked(table, cs), cs)
        \/ UNCHANGED <<table, origin, stats>>
    BY <1>2, <2>1 DEF Correct
  <2>4. CASE DropDuplicates(IF cs = {} THEN Column ELSE cs)
    BY <2>2, <2>4, DroppingReports
  <2>5. CASE Rewrite(Filled(table, cs), cs)
    BY <2>2, <2>5, CorrectionsRewrite, RewriteReports
  <2>6. CASE Rewrite(Standardized(table, cs), cs)
    BY <2>2, <2>6, CorrectionsRewrite, RewriteReports
  <2>7. CASE Rewrite(Masked(table, cs), cs)
    BY <2>2, <2>7, CorrectionsRewrite, RewriteReports
  <2>8. CASE UNCHANGED <<table, origin, stats>>
    BY <2>2, <2>8 DEF RemediationInv, RowsKept, ChangesReported
  <2>. QED BY <2>3, <2>4, <2>5, <2>6, <2>7, <2>8
<1>. QED BY <1>1, <1>2

\* apply_remediation_actions: the rows of the copy are rows of the audited table in
\* their order, and what differs in them is reported and counted.
THEOREM RemediationInvariant == RemediationSpec => []RemediationInv
BY NothingToReport, CorrectingReports, PTL DEF RemediationSpec

\* Whatever issues are corrected one after another, no cell differs from the audited
\* table in a column that is not reported, no more cells than are counted, and rows
\* are retained or removed.
THEOREM ChangesAreReported == RemediationSpec => []ChangesReported
<1>1. RemediationInv => ChangesReported
  BY DEF RemediationInv
<1>. QED BY <1>1, RemediationInvariant, PTL

-----------------------------------------------------------------------------
(* Remediation: what the detectors find.                                   *)

IsTable(f) == f \in Seq([Column -> Value])

LEMMA TablesAre == \A f \in Tables : IsTable(f) /\ f # <<>>
BY RemediationAssumption DEF IsTable

LEMMA TextsAre ==
  /\ Missing \subseteq Value /\ Nothing \in Missing
  /\ \A v \in Value : Strip[v] \in Value /\ Lower[v] \in Value /\ Title[v] \in Value /\ Rank[v] \in Nat
  /\ \A u, v \in Value : Rank[u] = Rank[v] => u = v
BY RemediationAssumption DEF IsInjective

\* The image of a finite set under a function on texts.
LEMMA ImageIsFew ==
  ASSUME NEW S, IsFiniteSet(S), NEW op
  PROVE  IsFiniteSet({op[v] : v \in S}) /\ Cardinality({op[v] : v \in S}) \in Nat
<1>. DEFINE T == {op[v] : v \in S}
            e == [v \in S |-> op[v]]
<1>1. e \in Surjection(S, T)
  BY DEF Surjection
<1>2. IsFiniteSet(T)
  <2>. HIDE DEF e, T
  <2>. QED BY <1>1, FS_Surjection
<1>. QED BY <1>2, FS_CardinalityType

\* The rows and texts of a column are few.
LEMMA RowsOfTable ==
  ASSUME NEW f, IsTable(f), NEW c \in Column
  PROVE  /\ Len(f) \in Nat /\ DOMAIN f = 1..Len(f)
         /\ \A i \in DOMAIN f : f[i] \in [Column -> Value] /\ f[i][c] \in Value
         /\ MissingRows(f, c) \in SUBSET (1..Len(f)) /\ PresentRows(f, c) \in SUBSET (1..Len(f))
         /\ Twins(f, c) \in SUBSET (1..Len(f)) /\ Copies(f) \in SUBSET (1..Len(f))
         /\ Texts(f, c) \in SUBSET (Value \ Missing)
<1>1. Len(f) \in Nat /\ DOMAIN f = 1..Len(f) /\ \A i \in DOMAIN f : f[i] \in [Column -> Value]
  BY DEF IsTable
<1>2. MissingRows(f, c) \in SUBSET (1..Len(f)) /\ PresentRows(f, c) \in SUBSET (1..Len(f))
  BY <1>1 DEF MissingRows, PresentRows
<1>3. Twins(f, c) \in SUBSET (1..Len(f)) /\ Copies(f) \in SUBSET (1..Len(f))
  BY <1>1, <1>2 DEF Twins, Copies
<1>4. Texts(f, c) \in SUBSET (Value \ Missing)
  BY <1>1 DEF Texts, PresentRows, MissingRows
<1>. QED BY <1>1, <1>2, <1>3, <1>4

LEMMA ColumnIsFew ==
  ASSUME NEW f, IsTable(f), NEW c \in Column
  PROVE  /\ IsFiniteSet(MissingRows(f, c)) /\ Cardinality(MissingRows(f, c)) \in Nat
         /\ IsFiniteSet(PresentRows(f, c)) /\ Cardinality(PresentRows(f, c)) \in Nat
         /\ IsFiniteSet(Twins(f, c)) /\ Cardinality(Twins(f, c)) \in Nat
         /\ IsFiniteSet(Copies(f)) /\ Cardinality(Copies(f)) \in Nat
         /\ IsFiniteSet(Texts(f, c)) /\ Cardinality(Texts(f, c)) \in Nat
         /\ IsFiniteSet(Labels(f, c)) /\ Cardinality(Labels(f, c)) \in Nat
<1>1. Len(f) \in Nat
  BY RowsOfTable
<1>2. /\ IsFiniteSet(MissingRows(f, c)) /\ Cardinality(MissingRows(f, c)) \in Nat
      /\ IsFiniteSet(PresentRows(f, c)) /\ Cardinality(PresentRows(f, c)) \in Nat
  BY <1>1, RowsOfTable, PlacesAreFew
<1>3. /\ IsFiniteSet(Twins(f, c)) /\ Cardinality(Twins(f, c)) \in Nat
      /\ IsFiniteSet(Copies(f)) /\ Cardinality(Copies(f)) \in Nat
  BY <1>1, RowsOfTable, PlacesAreFew
<1>4. IsFiniteSet(Texts(f, c)) /\ Cardinality(Texts(f, c)) \in Nat
  <2>. DEFINE e == [i \in PresentRows(f, c) |-> f[i][c]]
  <2>1. e \in Surjection(PresentRows(f, c), Texts(f, c))
    BY DEF Surjection, Texts
  <2>2. IsFiniteSet(Texts(f, c))
    <3>. HIDE DEF e
    <3>. QED BY <1>2, <2>1, FS_Surjection
  <2>. QED BY <2>2, FS_CardinalityType
<1>5. IsFiniteSet(Labels(f, c)) /\ Cardinality(Labels(f, c)) \in Nat
  BY <1>4, ImageIsFew DEF Labels
<1>. QED BY <1>2, <1>3, <1>4, <1>5

\* An issue of a detector that affects n rows.
Says(x, title, category, columns, n) ==
  x.title = title /\ x.category = category /\ x.columns = columns /\ x.affected = n /\ n > 0

LEMMA FoundSays ==
  ASSUME NEW place, NEW title, NEW category, NEW severity, NEW columns, NEW n
  PROVE  /\ \A x \in Found(QualityIssue(place, title, category, severity, columns, n)) : Says(x, title, category, columns, n)
         /\ n > 0 => QualityIssue(place, title, category, severity, columns, n)
                       \in Found(QualityIssue(place, title, category, severity, columns, n))
         /\ Says(QualityIssue(place, title, category, severity, columns, n), title, category, columns, n) <=> n > 0
<1>1. PICK q : q = QualityIssue(place, title, category, severity, columns, n)
  OBVIOUS
<1>2. q.title = title /\ q.category = category /\ q.columns = columns /\ q.affected = n
  BY <1>1 DEF QualityIssue
<1>. QED BY <1>1, <1>2 DEF Found, Says

\* The number of labels that are the same in lower case.
SameInLower(f, c) == Cardinality(Labels(f, c)) - Cardinality({Lower[v] : v \in Labels(f, c)})

\* The issues are those of the detectors.
Reported(f, x) ==
  \/ \E c \in Column : Says(x, "missing values", "completeness", {c}, Cardinality(MissingRows(f, c)))
  \/ x.title = "one repeated value"
  \/ Says(x, "duplicate rows", "uniqueness", Column, Cardinality(Copies(f)))
  \/ \E c \in KeyNamed : Says(x, "duplicate keys", "uniqueness", {c}, Cardinality(Twins(f, c)))
  \/ \E c \in Column : Says(x, "inconsistent casing", "consistency", {c}, SameInLower(f, c))
  \/ x.title \notin Titles \/ x.title = "sensitive columns"

LEMMA IssuesReported == ASSUME NEW f, NEW x \in Detected(f) PROVE Reported(f, x)
<1>1. \/ \E c \in Column : x \in ColumnIssues(f, c) \/ x \in KeyIssue(f, c) \/ x \in CasingIssue(f, c)
      \/ x \in DuplicateIssue(f) \/ x \in PrivacyIssue(f) \/ \E k \in DOMAIN Checks : x \in RowIssue(f, k)
  BY DEF Detected
<1>2. ASSUME NEW c \in Column, x \in ColumnIssues(f, c) PROVE Reported(f, x)
  <2>1. \/ Says(x, "missing values", "completeness", {c}, Cardinality(MissingRows(f, c)))
        \/ Says(x, "one repeated value", "consistency", {c},
                IF Cardinality(Texts(f, c)) = 1 /\ Len(f) > 1 THEN Len(f) ELSE 0)
    BY <1>2, FoundSays DEF ColumnIssues
  <2>. QED BY <2>1 DEF Reported, Says
<1>3. ASSUME NEW c \in Column, x \in KeyIssue(f, c) PROVE Reported(f, x)
  <2>1. Says(x, "duplicate keys", "uniqueness", {c}, IF c \in KeyNamed THEN Cardinality(Twins(f, c)) ELSE 0)
    BY <1>3, FoundSays DEF KeyIssue
  <2>2. c \in KeyNamed
    <3>1. CASE c \notin KeyNamed
      <4>1. ~(0 > 0)
        OBVIOUS
      <4>. QED BY <2>1, <3>1, <4>1 DEF Says
    <3>. QED BY <3>1
  <2>. QED BY <2>1, <2>2 DEF Reported
<1>4. ASSUME NEW c \in Column, x \in CasingIssue(f, c) PROVE Reported(f, x)
  <2>1. Says(x, "inconsistent casing", "consistency", {c}, SameInLower(f, c))
    BY <1>4, FoundSays DEF CasingIssue, SameInLower
  <2>. QED BY <2>1 DEF Reported
<1>5. CASE x \in DuplicateIssue(f)
  <2>1. Says(x, "duplicate rows", "uniqueness", Column, Cardinality(Copies(f)))
    BY <1>5, FoundSays DEF DuplicateIssue
  <2>. QED BY <2>1 DEF Reported
<1>6. CASE x \in PrivacyIssue(f)
  <2>1. Says(x, "sensitive columns", "privacy", Private, IF Private = {} THEN 0 ELSE Len(f))
    BY <1>6, FoundSays DEF PrivacyIssue
  <2>. QED BY <2>1 DEF Reported, Says
<1>7. ASSUME NEW k \in DOMAIN Checks, x \in RowIssue(f, k) PROVE Reported(f, x)
  <2>1. x.title = Checks[k].title
    <3>1. Says(x, Checks[k].title, Checks[k].category, Checks[k].columns,
               Cardinality({i \in DOMAIN f : [c \in Checks[k].columns |-> f[i][c]] \in Checks[k].bad}))
      BY <1>7, FoundSays DEF RowIssue
    <3>. QED BY <3>1 DEF Says
  <2>2. x.title \notin Titles
    BY <2>1, RemediationAssumption
  <2>. QED BY <2>2 DEF Reported
<1>. QED BY <1>1, <1>2, <1>3, <1>4, <1>5, <1>6, <1>7

\* What a detector counts, it reports.
LEMMA CountedIsFound ==
  ASSUME NEW f, NEW c \in Column
  PROVE  /\ Cardinality(MissingRows(f, c)) > 0 =>
              \E x \in Detected(f) : Says(x, "missing values", "completeness", {c}, Cardinality(MissingRows(f, c)))
         /\ c \in KeyNamed /\ Cardinality(Twins(f, c)) > 0 =>
              \E x \in Detected(f) : Says(x, "duplicate keys", "uniqueness", {c}, Cardinality(Twins(f, c)))
<1>1. ColumnIssues(f, c) \subseteq Detected(f) /\ KeyIssue(f, c) \subseteq Detected(f)
  BY DEF Detected
<1>2. Cardinality(MissingRows(f, c)) > 0 =>
        \E x \in ColumnIssues(f, c) : Says(x, "missing values", "completeness", {c}, Cardinality(MissingRows(f, c)))
  BY FoundSays DEF ColumnIssues
<1>4. c \in KeyNamed /\ Cardinality(Twins(f, c)) > 0 =>
        \E x \in KeyIssue(f, c) : Says(x, "duplicate keys", "uniqueness", {c}, Cardinality(Twins(f, c)))
  <2>. SUFFICES ASSUME c \in KeyNamed, Cardinality(Twins(f, c)) > 0
       PROVE  \E x \in KeyIssue(f, c) : Says(x, "duplicate keys", "uniqueness", {c}, Cardinality(Twins(f, c)))
    OBVIOUS
  <2>1. KeyIssue(f, c) = Found(QualityIssue(Place(2, c), "duplicate keys", "uniqueness", "high", {c}, Cardinality(Twins(f, c))))
    BY DEF KeyIssue
  <2>. QED BY <2>1, FoundSays
<1>. QED BY <1>1, <1>2, <1>4

LEMMA CopiesAreFound ==
  ASSUME NEW f, IsTable(f)
  PROVE  /\ IsFiniteSet(Copies(f)) /\ Cardinality(Copies(f)) \in Nat
         /\ Cardinality(Copies(f)) > 0 =>
              \E x \in Detected(f) : Says(x, "duplicate rows", "uniqueness", Column, Cardinality(Copies(f)))
<1>1. Len(f) \in Nat /\ Copies(f) \in SUBSET (1..Len(f))
  BY DEF IsTable, Copies
<1>2. DuplicateIssue(f) \subseteq Detected(f)
  BY DEF Detected
<1>3. Cardinality(Copies(f)) > 0 =>
        \E x \in DuplicateIssue(f) : Says(x, "duplicate rows", "uniqueness", Column, Cardinality(Copies(f)))
  BY FoundSays DEF DuplicateIssue
<1>. QED BY <1>1, <1>2, <1>3, PlacesAreFew

-----------------------------------------------------------------------------
(* Remediation: the readings of one table agree.                           *)

\* The rows that a rule of uniqueness masks are those that the detector of keys finds.
LEMMA SameTwins == ASSUME NEW f, IsTable(f), NEW c \in Column PROVE UniqueMask(f, c) = Twins(f, c)
<1>1. ASSUME NEW i \in PresentRows(f, c), NEW j \in DOMAIN f \ {i}, Strip[f[j][c]] = Strip[f[i][c]]
      PROVE  j \in PresentRows(f, c)
  <2>1. f[i][c] \in Value \ Missing /\ f[j][c] \in Value
    BY <1>1, RowsOfTable DEF PresentRows, MissingRows
  <2>2. f[j][c] \notin Missing
    BY <1>1, <2>1, TextAssumption
  <2>. QED BY <1>1, <2>2 DEF PresentRows, MissingRows
<1>. QED BY <1>1 DEF UniqueMask, Twins, PresentRows, MissingRows

\* All rows that have a copy.
AllCopies(f) == {i \in DOMAIN f : \E j \in DOMAIN f \ {i} : f[j] = f[i]}

\* Of copies the first is not counted by the detector, but by a rule.
LEMMA FirstOfCopies ==
  ASSUME NEW f, IsTable(f)
  PROVE  (Cardinality(Copies(f)) > 0) = (Cardinality(AllCopies(f)) > Cardinality(Copies(f)))
<1>1. Len(f) \in Nat /\ DOMAIN f = 1..Len(f)
  BY DEF IsTable
<1>2. Copies(f) \subseteq AllCopies(f) /\ AllCopies(f) \in SUBSET (1..Len(f))
  BY <1>1 DEF Copies, AllCopies
<1>3. IsFiniteSet(AllCopies(f)) /\ Cardinality(AllCopies(f)) \in Nat
  BY <1>1, <1>2, PlacesAreFew
<1>4. IsFiniteSet(Copies(f)) /\ Cardinality(Copies(f)) \in Nat
  BY <1>1, <1>2, PlacesAreFew
<1>5. CASE AllCopies(f) = {}
  <2>1. Copies(f) = {}
    BY <1>2, <1>5
  <2>. QED BY <1>5, <2>1, FS_EmptySet
<1>6. CASE AllCopies(f) # {}
  <2>1. PICK i \in AllCopies(f) : \A k \in AllCopies(f) : i <= k
    <3>1. AllCopies(f) \in SUBSET Nat
      BY <1>1, <1>2
    <3>. QED BY <1>6, <3>1, LeastPlace
  <2>2. i \notin Copies(f)
    <3>1. ASSUME NEW j \in 1..(i - 1), f[j] = f[i] PROVE FALSE
      <4>1. i \in 1..Len(f) /\ j \in DOMAIN f /\ i \in DOMAIN f /\ i # j
        BY <1>1, <1>2
      <4>2. j \in AllCopies(f)
        BY <3>1, <4>1 DEF AllCopies
      <4>3. ~(i <= j)
        BY <4>1
      <4>. QED BY <2>1, <4>2, <4>3
    <3>. QED BY <3>1 DEF Copies
  <2>3. Copies(f) # {}
    <3>1. PICK j \in DOMAIN f \ {i} : f[j] = f[i]
      BY <2>1 DEF AllCopies
    <3>2. i \in 1..Len(f) /\ j \in 1..Len(f) /\ j # i
      BY <1>1, <1>2, <3>1
    <3>3. j \in AllCopies(f)
      BY <1>1, <3>1, <3>2 DEF AllCopies
    <3>4. i < j
      BY <2>1, <3>2, <3>3
    <3>5. i \in 1..(j - 1)
      BY <3>2, <3>4
    <3>6. j \in Copies(f)
      BY <1>1, <3>1, <3>2, <3>5 DEF Copies
    <3>. QED BY <3>6
  <2>4. Cardinality(Copies(f)) <= Cardinality(AllCopies(f)) /\ Cardinality(Copies(f)) # Cardinality(AllCopies(f))
    <3>1. Copies(f) # AllCopies(f)
      BY <2>1, <2>2
    <3>. QED BY <1>2, <1>3, <3>1, FS_Subset
  <2>5. Cardinality(Copies(f)) # 0
    BY <1>4, <2>3, FS_EmptySet
  <2>. QED BY <1>3, <1>4, <2>4, <2>5
<1>. QED BY <1>5, <1>6

\* As much as the detectors say that the issues of a title affect.
FoundBy(f, title, columns) == {i \in Detected(f) : i.title = title /\ i.columns = columns}
AffectedBy(f, title, columns) ==
  IF FoundBy(f, title, columns) = {} THEN 0 ELSE (CHOOSE i \in FoundBy(f, title, columns) : TRUE).affected

LEMMA AffectedIs ==
  ASSUME NEW f, NEW title, NEW columns, NEW n \in Nat,
         \A x \in FoundBy(f, title, columns) : x.affected = n,
         n > 0 => FoundBy(f, title, columns) # {},
         FoundBy(f, title, columns) # {} => n > 0
  PROVE  AffectedBy(f, title, columns) = n
<1>1. CASE FoundBy(f, title, columns) = {}
  BY <1>1 DEF AffectedBy
<1>2. CASE FoundBy(f, title, columns) # {}
  <2>1. (CHOOSE i \in FoundBy(f, title, columns) : TRUE) \in FoundBy(f, title, columns)
    BY <1>2
  <2>. QED BY <1>2, <2>1 DEF AffectedBy
<1>. QED BY <1>1, <1>2

LEMMA AffectedAre ==
  ASSUME NEW f, IsTable(f), NEW c \in Column
  PROVE  /\ AffectedBy(f, "missing values", {c}) = Cardinality(MissingRows(f, c))
         /\ c \in KeyNamed => AffectedBy(f, "duplicate keys", {c}) = Cardinality(Twins(f, c))
<1>1. \A d : {c} = {d} => c = d
  OBVIOUS
<1>2. /\ Cardinality(MissingRows(f, c)) \in Nat /\ Cardinality(Twins(f, c)) \in Nat
  BY ColumnIsFew
<1>3. AffectedBy(f, "missing values", {c}) = Cardinality(MissingRows(f, c))
  <2>1. \A x \in FoundBy(f, "missing values", {c}) :
           x.affected = Cardinality(MissingRows(f, c)) /\ Cardinality(MissingRows(f, c)) > 0
    <3>1. ASSUME NEW x \in FoundBy(f, "missing values", {c})
          PROVE  x.affected = Cardinality(MissingRows(f, c)) /\ Cardinality(MissingRows(f, c)) > 0
      <4>1. x \in Detected(f) /\ x.title = "missing values" /\ x.columns = {c}
        BY DEF FoundBy
      <4>2. PICK d \in Column : Says(x, "missing values", "completeness", {d}, Cardinality(MissingRows(f, d)))
        BY <4>1, IssuesReported DEF Reported, Says, Titles
      <4>. QED BY <1>1, <4>1, <4>2 DEF Says
    <3>. QED BY <3>1
  <2>2. ASSUME Cardinality(MissingRows(f, c)) > 0 PROVE FoundBy(f, "missing values", {c}) # {}
    <3>1. PICK x \in Detected(f) : Says(x, "missing values", "completeness", {c}, Cardinality(MissingRows(f, c)))
      BY <2>2, CountedIsFound
    <3>2. x \in FoundBy(f, "missing values", {c})
      BY <3>1 DEF FoundBy, Says
    <3>. QED BY <3>2
  <2>. QED BY <1>2, <2>1, <2>2, AffectedIs
<1>4. ASSUME c \in KeyNamed PROVE AffectedBy(f, "duplicate keys", {c}) = Cardinality(Twins(f, c))
  <2>1. \A x \in FoundBy(f, "duplicate keys", {c}) :
           x.affected = Cardinality(Twins(f, c)) /\ Cardinality(Twins(f, c)) > 0
    <3>1. ASSUME NEW x \in FoundBy(f, "duplicate keys", {c})
          PROVE  x.affected = Cardinality(Twins(f, c)) /\ Cardinality(Twins(f, c)) > 0
      <4>1. x \in Detected(f) /\ x.title = "duplicate keys" /\ x.columns = {c}
        BY DEF FoundBy
      <4>2. PICK d \in KeyNamed : Says(x, "duplicate keys", "uniqueness", {d}, Cardinality(Twins(f, d)))
        BY <4>1, IssuesReported DEF Reported, Says, Titles
      <4>. QED BY <1>1, <4>1, <4>2 DEF Says
    <3>. QED BY <3>1
  <2>2. ASSUME Cardinality(Twins(f, c)) > 0 PROVE FoundBy(f, "duplicate keys", {c}) # {}
    <3>1. PICK x \in Detected(f) : Says(x, "duplicate keys", "uniqueness", {c}, Cardinality(Twins(f, c)))
      BY <2>2, <1>4, CountedIsFound
    <3>2. x \in FoundBy(f, "duplicate keys", {c})
      BY <3>1 DEF FoundBy, Says
    <3>. QED BY <3>2
  <2>. QED BY <1>2, <2>1, <2>2, AffectedIs
<1>. QED BY <1>3, <1>4

LEMMA CopiesAffected ==
  ASSUME NEW f, IsTable(f)
  PROVE  AffectedBy(f, "duplicate rows", Column) = Cardinality(Copies(f))
<1>1. \A x \in FoundBy(f, "duplicate rows", Column) :
         x.affected = Cardinality(Copies(f)) /\ Cardinality(Copies(f)) > 0
  <2>1. ASSUME NEW x \in FoundBy(f, "duplicate rows", Column)
        PROVE  x.affected = Cardinality(Copies(f)) /\ Cardinality(Copies(f)) > 0
    <3>1. x \in Detected(f) /\ x.title = "duplicate rows"
      BY DEF FoundBy
    <3>2. Says(x, "duplicate rows", "uniqueness", Column, Cardinality(Copies(f)))
      BY <3>1, IssuesReported DEF Reported, Says, Titles
    <3>. QED BY <3>2 DEF Says
  <2>. QED BY <2>1
<1>2. Cardinality(Copies(f)) > 0 => FoundBy(f, "duplicate rows", Column) # {}
  BY CopiesAreFound DEF FoundBy, Says
<1>. QED BY CopiesAreFound, <1>1, <1>2, AffectedIs

LEMMA DetectorsDoAgree == ASSUME source \in Tables PROVE DetectorsAgree
<1>1. IsTable(source)
  BY TablesAre
<1>2. \A c \in Column : RuleMask(source, [type |-> "required", column |-> c]) = MissingRows(source, c)
  BY DEF RuleMask
<1>3. \A c \in Column : RuleMask(source, [type |-> "unique", column |-> c]) = UniqueMask(source, c)
  BY DEF RuleMask
<1>4. RuleMask(source, [type |-> "duplicate_rows", column |-> 0]) = AllCopies(source)
  BY DEF RuleMask, AllCopies
<1>5. \A c \in Column : AffectedBy(source, "missing values", {c}) = Cardinality(RuleMask(source, [type |-> "required", column |-> c]))
  BY <1>1, <1>2, AffectedAre
<1>6. \A c \in KeyNamed : AffectedBy(source, "duplicate keys", {c}) = Cardinality(RuleMask(source, [type |-> "unique", column |-> c]))
  <2>1. KeyNamed \subseteq Column
    BY RemediationAssumption
  <2>2. \A c \in KeyNamed : UniqueMask(source, c) = Twins(source, c)
    BY <1>1, <2>1, SameTwins
  <2>3. \A c \in KeyNamed : AffectedBy(source, "duplicate keys", {c}) = Cardinality(Twins(source, c))
    BY <1>1, <2>1, AffectedAre
  <2>. QED BY <1>3, <2>1, <2>2, <2>3
<1>7. (AffectedBy(source, "duplicate rows", Column) > 0) =
        (Cardinality(RuleMask(source, [type |-> "duplicate_rows", column |-> 0])) > AffectedBy(source, "duplicate rows", Column))
  <2>1. AffectedBy(source, "duplicate rows", Column) = Cardinality(Copies(source))
    BY <1>1, CopiesAffected
  <2>. QED BY <1>1, <1>4, <2>1, FirstOfCopies
<1>. QED BY <1>5, <1>6, <1>7 DEF DetectorsAgree, AffectedBy, FoundBy

\* A function whose image is no smaller than what it is of is one to one.
LEMMA OneToOne ==
  ASSUME NEW S, IsFiniteSet(S), NEW op, Cardinality(S) <= Cardinality({op[v] : v \in S}),
         NEW u \in S, NEW v \in S, op[u] = op[v]
  PROVE  u = v
<1>1. PICK T, e : T = {op[w] : w \in S} /\ e = [w \in S |-> op[w]]
  OBVIOUS
<1>2. e \in Surjection(S, T)
  BY <1>1 DEF Surjection
<1>3. Cardinality(T) <= Cardinality(S) /\ Cardinality(T) \in Nat /\ Cardinality(S) \in Nat
  BY <1>2, FS_Surjection, FS_CardinalityType
<1>4. Cardinality(T) = Cardinality(S)
  BY <1>1, <1>3
<1>5. e \in Injection(S, T)
  BY <1>2, <1>4, FS_Surjection
<1>6. e[u] = e[v]
  BY <1>1
<1>7. \A a, b \in S : e[a] = e[b] => a = b
  BY <1>1, <1>5 DEF Injection, IsInjective
<1>. QED BY <1>6, <1>7

\* Texts that all differ, and have labels that do, are not those of twins.
LEMMA NoTwins ==
  ASSUME NEW f, IsTable(f), NEW c \in Column, Cardinality(Texts(f, c)) >= Len(f),
         Cardinality(Labels(f, c)) >= Cardinality(Texts(f, c))
  PROVE  Twins(f, c) = {}
<1>. DEFINE P == PresentRows(f, c)
<1>0. SUFFICES ASSUME Twins(f, c) # {} PROVE FALSE
  OBVIOUS
<1>1. PICK i \in P, j \in P : j # i /\ Strip[f[j][c]] = Strip[f[i][c]]
  BY <1>0 DEF Twins
<1>2. Len(f) \in Nat /\ P \in SUBSET (1..Len(f))
  BY RowsOfTable
<1>3. /\ IsFiniteSet(P) /\ Cardinality(P) \in Nat
      /\ IsFiniteSet(Texts(f, c)) /\ Cardinality(Texts(f, c)) \in Nat /\ Cardinality(Labels(f, c)) \in Nat
  BY ColumnIsFew
<1>4. Cardinality(P) <= Len(f)
  <2>1. IsFiniteSet(1..Len(f)) /\ Cardinality(1..Len(f)) = Len(f)
    <3>1. Len(f) \in Int /\ 1 \in Int /\ (IF 1 > Len(f) THEN 0 ELSE Len(f) - 1 + 1) = Len(f)
      BY <1>2
    <3>. QED BY <3>1, FS_Interval
  <2>2. Cardinality(P) <= Cardinality(1..Len(f))
    <3>. HIDE DEF P
    <3>. QED BY <1>2, <2>1, FS_Subset
  <2>. HIDE DEF P
  <2>. QED BY <2>1, <2>2
<1>5. f[i][c] \in Texts(f, c) /\ f[j][c] \in Texts(f, c)
  BY <1>1 DEF Texts
<1>6. f[i][c] = f[j][c]
  <2>1. Cardinality(Texts(f, c)) <= Cardinality({Strip[v] : v \in Texts(f, c)})
    BY <1>3 DEF Labels
  <2>. QED BY <1>1, <1>3, <1>5, <2>1, OneToOne
<1>7. i = j
  <2>1. PICK e : e = [k \in P |-> f[k][c]]
    OBVIOUS
  <2>2. {e[k] : k \in P} = Texts(f, c)
    BY <2>1 DEF Texts
  <2>3. Cardinality(P) <= Cardinality({e[k] : k \in P})
    <3>. HIDE DEF P
    <3>1. Cardinality(P) <= Cardinality(Texts(f, c))
      BY <1>2, <1>3, <1>4
    <3>. QED BY <2>2, <3>1
  <2>4. e[i] = e[j]
    BY <1>1, <1>6, <2>1
  <2>. HIDE DEF P
  <2>. QED BY <1>1, <1>3, <2>3, <2>4, OneToOne
<1>. QED BY <1>1, <1>7

\* A profile that may keep all labels does.
LEMMA AllLabelsKept ==
  ASSUME NEW f, IsTable(f), NEW c \in Column, NEW T \in TopLabels(f, c),
         ~(Cardinality(LabelsWithBlank(f, c)) > TopValues)
  PROVE  Labels(f, c) \subseteq T
<1>. DEFINE all == LabelsWithBlank(f, c)
            noted == {j \in DOMAIN f : f[j][c] # Nothing}
<1>1. IsFiniteSet(all) /\ Cardinality(all) \in Nat
  <2>1. IsFiniteSet(noted)
    <3>1. Len(f) \in Nat /\ noted \in SUBSET (1..Len(f))
      BY DEF IsTable
    <3>. HIDE DEF noted
    <3>. QED BY <3>1, PlacesAreFew
  <2>2. PICK op : op = [i \in noted |-> Strip[f[i][c]]]
    OBVIOUS
  <2>3. all = {op[i] : i \in noted}
    BY <2>2 DEF LabelsWithBlank
  <2>. HIDE DEF all, noted
  <2>. QED BY <2>1, <2>3, ImageIsFew
<1>2. T \subseteq all /\ Cardinality(T) = Min({TopValues, Cardinality(all)})
  BY DEF TopLabels
<1>3. TopValues \in Nat
  BY RemediationAssumption
<1>4. Min({TopValues, Cardinality(all)}) = Cardinality(all)
  <2>. HIDE DEF all
  <2>1. Cardinality(LabelsWithBlank(f, c)) <= TopValues
    BY <1>1, <1>3 DEF all
  <2>2. PICK a : a = Cardinality(all)
    OBVIOUS
  <2>3. a \in Nat /\ a <= TopValues
    BY <1>1, <2>1, <2>2 DEF all
  <2>4. Min({TopValues, a}) = a
    <3>1. \A x \in {TopValues, a} : (\A y \in {TopValues, a} : x <= y) <=> x = a
      BY <1>3, <2>3
    <3>2. \E x \in {TopValues, a} : \A y \in {TopValues, a} : x <= y
      BY <3>1
    <3>. QED BY <3>1, <3>2 DEF Min
  <2>. QED BY <2>2, <2>4
<1>5. T = all
  <2>. HIDE DEF all
  <2>. QED BY <1>1, <1>2, <1>4, FS_Subset
<1>6. Labels(f, c) \subseteq all
  <2>1. \A i \in PresentRows(f, c) : i \in DOMAIN f /\ f[i][c] # Nothing
    BY TextsAre DEF PresentRows, MissingRows
  <2>. QED BY <2>1 DEF Labels, Texts, LabelsWithBlank
<1>. QED BY <1>5, <1>6

LEMMA OwnTableDoesMeet == ASSUME source \in Tables PROVE OwnTableMeetsContract
<1>0. IsTable(source)
  BY TablesAre
<1>. DEFINE config == ContractOf(source)
            exempt(issue) == \/ issue[1] = "allowed" /\ Cardinality(LabelsWithBlank(source, issue[2])) > TopValues
                             \/ issue[1] = "unique" /\ (Cardinality(Texts(source, issue[2])) < Len(source)
                                   \/ Cardinality(Labels(source, issue[2])) < Cardinality(Texts(source, issue[2])))
<1>1. config.required \subseteq Column /\ config.unique \subseteq Column /\ config.labelled \subseteq Column
  BY DEF ContractOf
<1>2. SUFFICES ASSUME NEW top, \A c \in Column : top[c] \in TopLabels(source, c),
                      NEW issue \in ConfiguredIssues(source, config, top)
               PROVE  exempt(issue)
  BY DEF OwnTableMeetsContract
<1>. HIDE DEF config
<1>3. \/ \E c \in config.unique : issue = <<"unique", c>> /\ Twins(source, c) # {}
      \/ \E c \in config.labelled : issue = <<"allowed", c>> /\ \E v \in Labels(source, c) : v \notin top[c]
  BY <1>1, <1>2 DEF ConfiguredIssues
<1>4. ASSUME NEW c \in config.unique, issue = <<"unique", c>>, Twins(source, c) # {} PROVE exempt(issue)
  <2>1. c \in Column /\ issue[1] = "unique" /\ issue[2] = c
    BY <1>1, <1>4
  <2>2. ~(Cardinality(Texts(source, c)) >= Len(source) /\ Cardinality(Labels(source, c)) >= Cardinality(Texts(source, c)))
    BY <1>0, <1>4, <2>1, NoTwins
  <2>3. Len(source) \in Nat /\ Cardinality(Texts(source, c)) \in Nat /\ Cardinality(Labels(source, c)) \in Nat
    BY <1>0, <2>1, RowsOfTable, ColumnIsFew
  <2>4. Cardinality(Texts(source, c)) < Len(source) \/ Cardinality(Labels(source, c)) < Cardinality(Texts(source, c))
    BY <2>2, <2>3
  <2>. QED BY <2>1, <2>4
<1>5. ASSUME NEW c \in config.labelled, issue = <<"allowed", c>>, NEW v \in Labels(source, c), v \notin top[c] PROVE exempt(issue)
  <2>1. c \in Column /\ issue[1] = "allowed" /\ issue[2] = c
    BY <1>1, <1>5
  <2>2. Cardinality(LabelsWithBlank(source, c)) > TopValues
    BY <1>0, <1>2, <1>5, <2>1, AllLabelsKept
  <2>. QED BY <2>1, <2>2
<1>. QED BY <1>3, <1>4, <1>5

LEMMA ReadingsOfTable == source \in Tables => ReadingsAgree
BY DetectorsDoAgree, OwnTableDoesMeet DEF ReadingsAgree

-----------------------------------------------------------------------------
(* Remediation: an issue that is corrected alone is resolved.              *)

\* Of a number of numbers below a bound one is the largest.
LEMMA LargestCount ==
  ASSUME NEW n \in Nat, NEW S, S # {}, NEW count, \A v \in S : count[v] \in 0..n
  PROVE  \E v \in S : \A u \in S : count[u] <= count[v]
<1>1. PICK T : T = {n - count[v] : v \in S}
  OBVIOUS
<1>2. T \in SUBSET Nat /\ T # {}
  BY <1>1
<1>3. PICK m \in T : \A k \in T : m <= k
  BY <1>2, LeastPlace
<1>4. PICK v \in S : m = n - count[v]
  BY <1>1, <1>3
<1>5. \A u \in S : n - count[v] <= n - count[u] /\ count[u] \in Int /\ count[v] \in Int
  BY <1>1, <1>3, <1>4
<1>. QED BY <1>5

\* The most frequent text is one of the column's.
LEMMA ModeIsThere ==
  ASSUME NEW f, IsTable(f), NEW c \in Column, Texts(f, c) # {}
  PROVE  Mode(f, c) \in Texts(f, c)
<1>. DEFINE rows(v) == {i \in PresentRows(f, c) : f[i][c] = v}
            first(v) == \A u \in Texts(f, c) \ {v} :
                          \/ Cardinality(rows(u)) < Cardinality(rows(v))
                          \/ Cardinality(rows(u)) = Cardinality(rows(v)) /\ Rank[v] < Rank[u]
<1>1. Len(f) \in Nat /\ PresentRows(f, c) \in SUBSET (1..Len(f)) /\ Texts(f, c) \in SUBSET Value
  BY RowsOfTable
<1>2. PICK count : count = [v \in Texts(f, c) |-> Cardinality(rows(v))]
  OBVIOUS
<1>3. \A v \in Texts(f, c) : Cardinality(rows(v)) \in 0..Cardinality(PresentRows(f, c))
  <2>. TAKE v \in Texts(f, c)
  <2>1. IsFiniteSet(PresentRows(f, c)) /\ Cardinality(PresentRows(f, c)) \in Nat
    BY ColumnIsFew
  <2>2. rows(v) \in SUBSET PresentRows(f, c)
    OBVIOUS
  <2>. HIDE DEF rows
  <2>3. IsFiniteSet(rows(v)) /\ Cardinality(rows(v)) <= Cardinality(PresentRows(f, c))
    BY <2>1, <2>2, FS_Subset
  <2>4. Cardinality(rows(v)) \in Nat
    BY <2>3, FS_CardinalityType
  <2>. QED BY <2>1, <2>3, <2>4
<1>4. PICK most \in Texts(f, c) : \A u \in Texts(f, c) : count[u] <= count[most]
  <2>1. Cardinality(PresentRows(f, c)) \in Nat
    BY ColumnIsFew
  <2>2. \A v \in Texts(f, c) : count[v] \in 0..Cardinality(PresentRows(f, c))
    BY <1>2, <1>3
  <2>. QED BY <2>1, <2>2, LargestCount
<1>5. PICK R : R = {Rank[u] : u \in {w \in Texts(f, c) : count[w] = count[most]}}
  OBVIOUS
<1>6. R \in SUBSET Nat /\ R # {}
  BY <1>1, <1>5, TextsAre
<1>7. PICK r \in R : \A q \in R : r <= q
  BY <1>6, LeastPlace
<1>8. PICK v \in Texts(f, c) : count[v] = count[most] /\ r = Rank[v]
  BY <1>5, <1>7
<1>9. first(v)
  <2>. SUFFICES ASSUME NEW u \in Texts(f, c) \ {v}
                PROVE  \/ Cardinality(rows(u)) < Cardinality(rows(v))
                       \/ Cardinality(rows(u)) = Cardinality(rows(v)) /\ Rank[v] < Rank[u]
    OBVIOUS
  <2>1. count[u] = Cardinality(rows(u)) /\ count[v] = Cardinality(rows(v)) /\ count[u] <= count[v]
    BY <1>2, <1>4, <1>8
  <2>2. count[u] \in Nat /\ count[v] \in Nat
    <3>1. \A w \in Texts(f, c) : count[w] \in Nat
      <4>1. Cardinality(PresentRows(f, c)) \in Nat
        BY ColumnIsFew
      <4>. HIDE DEF rows
      <4>. QED BY <1>2, <1>3, <4>1
    <3>. QED BY <3>1
  <2>3. Rank[u] \in Nat /\ Rank[v] \in Nat /\ Rank[u] # Rank[v]
    BY <1>1, TextsAre
  <2>4. count[u] = count[v] => Rank[v] <= Rank[u]
    BY <1>5, <1>7, <1>8
  <2>. HIDE DEF rows
  <2>. QED BY <2>1, <2>2, <2>3, <2>4
<1>10. Mode(f, c) = CHOOSE w \in Texts(f, c) : first(w)
  BY DEF Mode
<1>. HIDE DEF first
<1>. QED BY <1>9, <1>10

\* Missing values are filled with one that is not missing.
LEMMA FillingIsText ==
  ASSUME NEW f, IsTable(f), NEW c \in Column, options.fill \in {"mode", "zero", "blank"}
  PROVE  Filling(f, c) \in Value \ Missing
<1>1. Zero \in Value \ Missing /\ NotProvided \in Value \ Missing
  BY RemediationAssumption
<1>2. CASE options.fill = "zero"
  BY <1>1, <1>2 DEF Filling
<1>3. CASE options.fill = "blank"
  BY <1>1, <1>3 DEF Filling
<1>4. CASE options.fill = "mode" /\ Texts(f, c) = {}
  BY <1>1, <1>4 DEF Filling
<1>5. CASE options.fill = "mode" /\ Texts(f, c) # {}
  <2>1. Mode(f, c) \in Texts(f, c) /\ Texts(f, c) \in SUBSET (Value \ Missing)
    BY <1>5, ModeIsThere, RowsOfTable
  <2>. QED BY <1>5, <2>1 DEF Filling
<1>. QED BY <1>2, <1>3, <1>4, <1>5

LEMMA FilledIsFull ==
  ASSUME NEW f, IsTable(f), NEW c \in Column, options.fill \in {"mode", "zero", "blank"}, NEW g, g = Filled(f, {c})
  PROVE  MissingRows(g, c) = {}
<1>1. Filling(f, c) \notin Missing
  BY FillingIsText
<1>2. DOMAIN g = DOMAIN f /\ \A i \in DOMAIN f : g[i][c] = IF f[i][c] \in Missing THEN Filling(f, c) ELSE f[i][c]
  BY DEF Filled
<1>. QED BY <1>1, <1>2 DEF MissingRows

\* Labels of titles do not differ in case alone.
LEMMA TitlesDiffer ==
  ASSUME NEW f, IsTable(f), NEW c \in Column, NEW g, g = Standardized(f, {c})
  PROVE  ~(SameInLower(g, c) > 0)
<1>1. DOMAIN g = DOMAIN f /\ \A i \in DOMAIN f : g[i][c] = Title[f[i][c]] /\ f[i][c] \in Value
  BY RowsOfTable DEF Standardized
<1>2. \A v \in Texts(g, c) : \E u \in Value : v = Title[u]
  BY <1>1 DEF Texts, PresentRows
<1>3. \A a, b \in Labels(g, c) : Lower[a] = Lower[b] => a = b
  <2>1. ASSUME NEW a \in Labels(g, c), NEW b \in Labels(g, c), Lower[a] = Lower[b] PROVE a = b
    <3>1. PICK u \in Value, v \in Value : a = Strip[Title[u]] /\ b = Strip[Title[v]]
      BY <1>2 DEF Labels
    <3>. QED BY <2>1, <3>1, TextAssumption
  <2>. QED BY <2>1
<1>4. IsFiniteSet(Labels(g, c)) /\ Cardinality(Labels(g, c)) \in Nat
  <2>1. DOMAIN f = 1..Len(f) /\ Len(f) \in Nat
    BY RowsOfTable
  <2>2. PresentRows(g, c) \in SUBSET (1..Len(f))
    BY <1>1, <2>1 DEF PresentRows
  <2>3. IsFiniteSet(PresentRows(g, c))
    BY <2>1, <2>2, PlacesAreFew
  <2>4. PICK op : op = [i \in PresentRows(g, c) |-> g[i][c]]
    OBVIOUS
  <2>5. Texts(g, c) = {op[i] : i \in PresentRows(g, c)}
    BY <2>4 DEF Texts
  <2>6. IsFiniteSet(Texts(g, c))
    <3>1. IsFiniteSet({op[i] : i \in PresentRows(g, c)})
      BY <2>3, ImageIsFew
    <3>. QED BY <2>5, <3>1
  <2>. QED BY <2>6, ImageIsFew DEF Labels
<1>5. PICK T, e : T = {Lower[v] : v \in Labels(g, c)} /\ e = [v \in Labels(g, c) |-> Lower[v]]
  OBVIOUS
<1>6. e \in Injection(Labels(g, c), T)
  BY <1>3, <1>5 DEF Injection, IsInjective
<1>7. IsFiniteSet(T) /\ Cardinality(T) \in Nat
  BY <1>4, <1>5, ImageIsFew
<1>8. Cardinality(Labels(g, c)) <= Cardinality(T)
  BY <1>6, <1>7, FS_Injection
<1>9. SameInLower(g, c) = Cardinality(Labels(g, c)) - Cardinality(T)
  BY <1>5 DEF SameInLower
<1>. QED BY <1>4, <1>7, <1>8, <1>9

\* Rows of f that are the first ones in columns cs, in their order.
FirstOnes(f, g, cs) ==
  \E n \in Nat : \E kept \in [1..n -> Firsts(f, cs)] :
    /\ \A k, m \in 1..n : k < m => kept[k] < kept[m]
    /\ g = [k \in 1..n |-> f[kept[k]]]

LEMMA FirstOnesDiffer ==
  ASSUME NEW f, IsTable(f), NEW g, NEW cs, FirstOnes(f, g, cs)
  PROVE  /\ \A i, j \in DOMAIN g : i # j => \E c \in cs : g[i][c] # g[j][c]
         /\ \A i \in DOMAIN g : i \in Nat /\ \E p \in DOMAIN f : g[i] = f[p]
<1>1. PICK n \in Nat : \E kept \in [1..n -> Firsts(f, cs)] :
        /\ \A k, m \in 1..n : k < m => kept[k] < kept[m]
        /\ g = [k \in 1..n |-> f[kept[k]]]
  BY DEF FirstOnes
<1>2. PICK kept \in [1..n -> Firsts(f, cs)] :
        /\ \A k, m \in 1..n : k < m => kept[k] < kept[m]
        /\ g = [k \in 1..n |-> f[kept[k]]]
  BY <1>1
<1>3. Len(f) \in Nat /\ DOMAIN f = 1..Len(f)
  BY DEF IsTable
<1>4. DOMAIN g = 1..n /\ \A k \in 1..n : g[k] = f[kept[k]] /\ kept[k] \in Firsts(f, cs) /\ kept[k] \in 1..Len(f)
  BY <1>2, <1>3 DEF Firsts
<1>5. ASSUME NEW i \in 1..n, NEW j \in 1..n, i < j PROVE \E c \in cs : g[i][c] # g[j][c]
  <2>1. kept[i] < kept[j] /\ kept[i] \in 1..Len(f) /\ kept[j] \in 1..Len(f)
    BY <1>2, <1>4, <1>5
  <2>2. kept[i] \in 1..(kept[j] - 1)
    BY <1>3, <2>1
  <2>3. \E c \in cs : f[kept[i]][c] # f[kept[j]][c]
    BY <1>4, <2>2 DEF Firsts
  <2>. QED BY <1>4, <2>3
<1>6. \A i, j \in 1..n : i # j => \E c \in cs : g[i][c] # g[j][c]
  <2>1. ASSUME NEW i \in 1..n, NEW j \in 1..n, i # j PROVE \E c \in cs : g[i][c] # g[j][c]
    <3>1. i < j \/ j < i
      BY <2>1
    <3>. QED BY <1>5, <3>1
  <2>. QED BY <2>1
<1>. QED BY <1>3, <1>4, <1>6

\* No row that was kept is a copy, and none has the key of another.
LEMMA FirstOnesAlone ==
  ASSUME NEW f, IsTable(f), NEW g
  PROVE  /\ FirstOnes(f, g, Column) => Copies(g) = {}
         /\ \A c \in Column : FirstOnes(f, g, {c}) /\ Cardinality(Labels(f, c)) = Cardinality(Texts(f, c)) => Twins(g, c) = {}
<1>1. ASSUME FirstOnes(f, g, Column) PROVE Copies(g) = {}
  <2>1. ASSUME NEW i \in DOMAIN g, NEW j \in 1..(i - 1), g[j] = g[i] PROVE FALSE
    <3>1. PICK n \in Nat : DOMAIN g = 1..n
      BY <1>1 DEF FirstOnes
    <3>2. j \in DOMAIN g /\ j # i
      BY <2>1, <3>1
    <3>. QED BY <1>1, <2>1, <3>2, FirstOnesDiffer
  <2>. QED BY <2>1 DEF Copies
<1>2. ASSUME NEW c \in Column, FirstOnes(f, g, {c}), Cardinality(Labels(f, c)) = Cardinality(Texts(f, c))
      PROVE  Twins(g, c) = {}
  <2>1. ASSUME NEW i \in PresentRows(g, c), NEW j \in PresentRows(g, c), i # j, Strip[g[i][c]] = Strip[g[j][c]] PROVE FALSE
    <3>1. i \in DOMAIN g /\ j \in DOMAIN g /\ g[i][c] \notin Missing /\ g[j][c] \notin Missing
      BY DEF PresentRows, MissingRows
    <3>2. g[i][c] \in Texts(f, c) /\ g[j][c] \in Texts(f, c)
      <4>1. PICK p \in DOMAIN f : g[i] = f[p]
        BY <1>2, <3>1, FirstOnesDiffer
      <4>2. PICK q \in DOMAIN f : g[j] = f[q]
        BY <1>2, <3>1, FirstOnesDiffer
      <4>. QED BY <3>1, <4>1, <4>2 DEF Texts, PresentRows, MissingRows
    <3>3. Cardinality(Texts(f, c)) <= Cardinality({Strip[v] : v \in Texts(f, c)}) /\ IsFiniteSet(Texts(f, c))
      <4>1. Cardinality(Texts(f, c)) \in Nat /\ IsFiniteSet(Texts(f, c))
        BY ColumnIsFew
      <4>. QED BY <1>2, <4>1 DEF Labels
    <3>4. g[i][c] = g[j][c]
      BY <2>1, <3>2, <3>3, OneToOne
    <3>5. \E d \in {c} : g[i][d] # g[j][d]
      BY <1>2, <2>1, <3>1, FirstOnesDiffer
    <3>. QED BY <3>4, <3>5
  <2>. QED BY <2>1 DEF Twins
<1>. QED BY <1>1, <1>2

\* The issues for which CorrectionResolves says so.
Corrigible(f, issue) ==
  \/ issue.title \in {"missing values", "duplicate rows", "inconsistent casing"}
  \/ issue.title = "duplicate keys" /\ \A c \in issue.columns : Cardinality(Labels(f, c)) = Cardinality(Texts(f, c))
KeyOf(issue) == [title |-> issue.title, columns |-> issue.columns]

\* An issue is resolved that no issue of the corrected copy has the title and columns of.
LEMMA GoneIsResolved ==
  ASSUME NEW f, NEW g, NEW x \in Detected(f),
         \A y \in Detected(g) : ~(y.title = x.title /\ y.columns = x.columns)
  PROVE  KeyOf(x) \in ResolvedIssues(f, g)
<1>1. KeyOf(x) \in IssueKeys(f)
  BY DEF KeyOf, IssueKeys
<1>2. KeyOf(x) \notin IssueKeys(g)
  <2>1. \A y \in Detected(g) : KeyOf(x) # [title |-> y.title, columns |-> y.columns]
    BY DEF KeyOf
  <2>. QED BY <2>1 DEF IssueKeys
<1>. QED BY <1>1, <1>2 DEF ResolvedIssues

\* What a correction of an issue makes of a table.
Corrected(f, issue, g) ==
  LET columns == issue.columns \intersect Column IN
  /\ issue.category = "uniqueness" => FirstOnes(f, g, IF columns = {} THEN Column ELSE columns)
  /\ issue.category = "completeness" => g = Filled(f, columns)
  /\ issue.category = "consistency" => g = Standardized(f, columns)

LEMMA CorrectedIsResolved ==
  ASSUME NEW f, IsTable(f), NEW g, NEW x \in Detected(f), Corrected(f, x, g), Corrigible(f, x),
         options.fill \in {"mode", "zero", "blank"}
  PROVE  KeyOf(x) \in ResolvedIssues(f, g)
<1>0. \A c, d : {c} = {d} => c = d
  OBVIOUS
<1>1. \A c \in Column : {c} \intersect Column = {c} /\ {c} # {}
  OBVIOUS
<1>2. ~(0 > 0) /\ Cardinality({}) = 0
  BY FS_EmptySet
<1>3. CASE x.title = "missing values"
  <2>1. PICK c \in Column : Says(x, "missing values", "completeness", {c}, Cardinality(MissingRows(f, c)))
    BY <1>3, IssuesReported DEF Reported, Says, Titles
  <2>2. x.category = "completeness" /\ x.columns = {c}
    BY <2>1 DEF Says
  <2>3. g = Filled(f, {c})
    BY <1>1, <2>2 DEF Corrected
  <2>4. MissingRows(g, c) = {}
    BY <2>3, FilledIsFull
  <2>5. ASSUME NEW y \in Detected(g), y.title = "missing values", y.columns = {c} PROVE FALSE
    <3>1. PICK d \in Column : Says(y, "missing values", "completeness", {d}, Cardinality(MissingRows(g, d)))
      BY <2>5, IssuesReported DEF Reported, Says, Titles
    <3>2. c = d /\ Cardinality(MissingRows(g, d)) > 0
      BY <1>0, <2>5, <3>1 DEF Says
    <3>. QED BY <1>2, <2>4, <3>2
  <2>. QED BY <1>3, <2>2, <2>5, GoneIsResolved
<1>4. CASE x.title = "duplicate rows"
  <2>1. Says(x, "duplicate rows", "uniqueness", Column, Cardinality(Copies(f)))
    BY <1>4, IssuesReported DEF Reported, Says, Titles
  <2>2. x.category = "uniqueness" /\ x.columns = Column
    BY <2>1 DEF Says
  <2>3. FirstOnes(f, g, Column)
    <3>1. (IF x.columns \intersect Column = {} THEN Column ELSE x.columns \intersect Column) = Column
      BY <2>2
    <3>. QED BY <2>2, <3>1 DEF Corrected
  <2>4. Copies(g) = {}
    BY <2>3, FirstOnesAlone
  <2>5. ASSUME NEW y \in Detected(g), y.title = "duplicate rows" PROVE FALSE
    <3>1. Says(y, "duplicate rows", "uniqueness", Column, Cardinality(Copies(g)))
      BY <2>5, IssuesReported DEF Reported, Says, Titles
    <3>2. Cardinality(Copies(g)) > 0
      BY <3>1 DEF Says
    <3>. QED BY <1>2, <2>4, <3>2
  <2>. QED BY <1>4, <2>5, GoneIsResolved
<1>5. CASE x.title = "duplicate keys"
  <2>1. PICK c \in KeyNamed : Says(x, "duplicate keys", "uniqueness", {c}, Cardinality(Twins(f, c)))
    BY <1>5, IssuesReported DEF Reported, Says, Titles
  <2>2. x.category = "uniqueness" /\ x.columns = {c} /\ c \in Column
    BY <2>1, RemediationAssumption DEF Says
  <2>3. FirstOnes(f, g, {c})
    <3>1. (IF x.columns \intersect Column = {} THEN Column ELSE x.columns \intersect Column) = {c}
      BY <1>1, <2>2
    <3>. QED BY <2>2, <3>1 DEF Corrected
  <2>4. Cardinality(Labels(f, c)) = Cardinality(Texts(f, c))
    BY <1>5, <2>2 DEF Corrigible
  <2>5. Twins(g, c) = {}
    BY <2>2, <2>3, <2>4, FirstOnesAlone
  <2>6. ASSUME NEW y \in Detected(g), y.title = "duplicate keys", y.columns = {c} PROVE FALSE
    <3>1. PICK d \in KeyNamed : Says(y, "duplicate keys", "uniqueness", {d}, Cardinality(Twins(g, d)))
      BY <2>6, IssuesReported DEF Reported, Says, Titles
    <3>2. c = d /\ Cardinality(Twins(g, d)) > 0
      BY <1>0, <2>6, <3>1 DEF Says
    <3>. QED BY <1>2, <2>5, <3>2
  <2>. QED BY <1>5, <2>2, <2>6, GoneIsResolved
<1>6. CASE x.title = "inconsistent casing"
  <2>1. PICK c \in Column : Says(x, "inconsistent casing", "consistency", {c}, SameInLower(f, c))
    BY <1>6, IssuesReported DEF Reported, Says, Titles
  <2>2. x.category = "consistency" /\ x.columns = {c}
    BY <2>1 DEF Says
  <2>3. g = Standardized(f, {c})
    BY <1>1, <2>2 DEF Corrected
  <2>4. ~(SameInLower(g, c) > 0)
    BY <2>3, TitlesDiffer
  <2>5. ASSUME NEW y \in Detected(g), y.title = "inconsistent casing", y.columns = {c} PROVE FALSE
    <3>1. PICK d \in Column : Says(y, "inconsistent casing", "consistency", {d}, SameInLower(g, d))
      BY <2>5, IssuesReported DEF Reported, Says, Titles
    <3>2. c = d /\ SameInLower(g, d) > 0
      BY <1>0, <2>5, <3>1 DEF Says
    <3>. QED BY <2>4, <3>2
  <2>. QED BY <1>6, <2>2, <2>5, GoneIsResolved
<1>. QED BY <1>3, <1>4, <1>5, <1>6 DEF Corrigible

LEMMA CorrectionResolvesIs ==
  CorrectionResolves <=>
    (todo = <<>> /\ Len(selected) = 1 /\ Corrigible(source, selected[1])
       => KeyOf(selected[1]) \in ResolvedIssues(source, table))
BY DEF CorrectionResolves, Corrigible, KeyOf

\* The step that corrects the issue makes of the table what it does of the audited one.
LEMMA CorrectDoes ==
  ASSUME Correct, IsTable(table), NEW x, x = Head(todo)
  PROVE  Corrected(table, x, table')
<1>. DEFINE cs == x.columns \intersect Column
<1>1. \/ x.category = "uniqueness" /\ DropDuplicates(IF cs = {} THEN Column ELSE cs)
      \/ x.category = "completeness" /\ table' = Filled(table, cs)
      \/ x.category = "consistency" /\ table' = Standardized(table, cs)
      \/ x.category \notin {"uniqueness", "completeness", "consistency"}
  BY DEF Correct, Rewrite
<1>2. ASSUME NEW ds, DropDuplicates(ds) PROVE FirstOnes(table, table', ds)
  <2>1. Len(table) \in Nat /\ DOMAIN table = 1..Len(table)
    BY DEF IsTable
  <2>2. \E n \in Nat : \E kept \in [1..n -> Firsts(table, ds)] : Kept(n, kept)
    BY <1>2, <2>1, DroppedRows
  <2>. QED BY <2>2 DEF Kept, FirstOnes
<1>3. CASE x.category = "uniqueness"
  BY <1>1, <1>2, <1>3 DEF Corrected
<1>4. CASE x.category # "uniqueness"
  BY <1>1, <1>4 DEF Corrected
<1>. QED BY <1>3, <1>4

\* Issues are few, each at a place and of a severity.
At(x, place, severity) == x.place = place /\ x.severity = severity

LEMMA FoundIsFew ==
  ASSUME NEW place, NEW title, NEW category, NEW severity, NEW columns, NEW n
  PROVE  IsFiniteSet(Found(QualityIssue(place, title, category, severity, columns, n)))
BY FS_EmptySet, FS_Singleton DEF Found

LEMMA FoundAt ==
  ASSUME NEW place, NEW title, NEW category, NEW severity, NEW columns, NEW n,
         NEW x \in Found(QualityIssue(place, title, category, severity, columns, n))
  PROVE  At(x, place, severity)
<1>1. x = QualityIssue(place, title, category, severity, columns, n)
  BY DEF Found
<1>. QED BY <1>1 DEF QualityIssue, At

LEMMA PlacesAre ==
  ASSUME NEW detector \in 0..5, NEW k \in Int
  PROVE  Place(detector, k) \in Int
<1>1. Width \in Nat /\ Len(Checks) \in Nat
  BY RemediationAssumption
<1>. QED BY <1>1 DEF Place

LEMMA UnionIsFew ==
  ASSUME NEW S, IsFiniteSet(S), NEW op, \A c \in S : IsFiniteSet(op[c])
  PROVE  IsFiniteSet(UNION {op[c] : c \in S})
<1>1. PICK T : T = {op[c] : c \in S}
  OBVIOUS
<1>2. IsFiniteSet(T)
  BY <1>1, ImageIsFew
<1>3. \A U \in T : IsFiniteSet(U)
  BY <1>1
<1>. QED BY <1>1, <1>2, <1>3, FS_UNION

LEMMA IssuesAreFew == ASSUME NEW f PROVE IsFiniteSet(Detected(f))
<1>. DEFINE of(c) == ColumnIssues(f, c) \union KeyIssue(f, c) \union CasingIssue(f, c)
<1>1. \A c \in Column : IsFiniteSet(of(c))
  <2>1. \A c \in Column : IsFiniteSet(ColumnIssues(f, c)) /\ IsFiniteSet(KeyIssue(f, c)) /\ IsFiniteSet(CasingIssue(f, c))
    BY FoundIsFew, FS_Union DEF ColumnIssues, KeyIssue, CasingIssue
  <2>. QED BY <2>1, FS_Union
<1>2. IsFiniteSet(UNION {of(c) : c \in Column})
  <2>1. PICK op : op = [c \in Column |-> of(c)]
    OBVIOUS
  <2>2. {of(c) : c \in Column} = {op[c] : c \in Column}
    BY <2>1
  <2>. HIDE DEF of
  <2>3. \A c \in Column : IsFiniteSet(op[c])
    BY <1>1, <2>1
  <2>4. IsFiniteSet(UNION {op[c] : c \in Column})
    BY <2>3, ColumnsAreFew, UnionIsFew
  <2>. QED BY <2>2, <2>4
<1>3. IsFiniteSet(UNION {RowIssue(f, k) : k \in DOMAIN Checks})
  <2>1. IsFiniteSet(DOMAIN Checks)
    <3>1. DOMAIN Checks = 1..Len(Checks) /\ Len(Checks) \in Nat
      BY RemediationAssumption
    <3>. QED BY <3>1, FS_Interval
  <2>2. PICK op : op = [k \in DOMAIN Checks |-> RowIssue(f, k)]
    OBVIOUS
  <2>3. {RowIssue(f, k) : k \in DOMAIN Checks} = {op[k] : k \in DOMAIN Checks}
    BY <2>2
  <2>4. \A k \in DOMAIN Checks : IsFiniteSet(op[k])
    <3>1. \A k \in DOMAIN Checks : IsFiniteSet(RowIssue(f, k))
      BY FoundIsFew DEF RowIssue
    <3>. QED BY <2>2, <3>1
  <2>5. IsFiniteSet(UNION {op[k] : k \in DOMAIN Checks})
    BY <2>1, <2>4, UnionIsFew
  <2>. QED BY <2>3, <2>5
<1>4. IsFiniteSet(DuplicateIssue(f)) /\ IsFiniteSet(PrivacyIssue(f))
  BY FoundIsFew DEF DuplicateIssue, PrivacyIssue
<1>. QED BY <1>2, <1>3, <1>4, FS_Union DEF Detected

LEMMA SeveritiesAre == \A rate : MissingSeverity(rate) \in DOMAIN SeverityOrder
BY DEF MissingSeverity, SeverityOrder

\* Where an issue is, and how severe.
Ranked(x) == x.place \in Int /\ x.severity \in DOMAIN SeverityOrder

LEMMA IssuesAreRanked == ASSUME NEW f, NEW x \in Detected(f) PROVE Ranked(x)
<1>1. \/ \E c \in Column : x \in ColumnIssues(f, c) \/ x \in KeyIssue(f, c) \/ x \in CasingIssue(f, c)
      \/ x \in DuplicateIssue(f) \/ x \in PrivacyIssue(f) \/ \E k \in DOMAIN Checks : x \in RowIssue(f, k)
  BY DEF Detected
<1>2. \A c \in Column : c \in Int /\ 2 * c - 1 \in Int /\ 2 * c \in Int
  BY DEF Column
<1>3. {"critical", "high", "medium", "low"} = DOMAIN SeverityOrder
  BY DEF SeverityOrder
<1>4. ASSUME NEW c \in Column, x \in ColumnIssues(f, c) PROVE Ranked(x)
  <2>. DEFINE n == Cardinality(MissingRows(f, c))
              m == IF Cardinality(Texts(f, c)) = 1 /\ Len(f) > 1 THEN Len(f) ELSE 0
              missing == Found(QualityIssue(Place(0, 2 * c - 1), "missing values", "completeness",
                                            MissingSeverity(Rate(n, Len(f))), {c}, n))
              repeated == Found(QualityIssue(Place(0, 2 * c), "one repeated value", "consistency", "medium", {c}, m))
  <2>1. x.place \in {Place(0, 2 * c - 1), Place(0, 2 * c)} /\ x.severity \in {MissingSeverity(Rate(n, Len(f))), "medium"}
    <3>1. x \in missing => At(x, Place(0, 2 * c - 1), MissingSeverity(Rate(n, Len(f))))
      BY FoundAt
    <3>2. x \in repeated => At(x, Place(0, 2 * c), "medium")
      BY FoundAt
    <3>3. x \in missing \/ x \in repeated
      BY <1>4 DEF ColumnIssues
    <3>. HIDE DEF missing, repeated
    <3>. QED BY <3>1, <3>2, <3>3 DEF At
  <2>2. Place(0, 2 * c - 1) \in Int /\ Place(0, 2 * c) \in Int
    BY <1>2, PlacesAre
  <2>. QED BY <1>3, <2>1, <2>2, SeveritiesAre DEF Ranked
<1>5. ASSUME NEW c \in Column, x \in KeyIssue(f, c) \/ x \in CasingIssue(f, c) PROVE Ranked(x)
  <2>1. x.place \in {Place(2, c), Place(5, c)} /\ x.severity \in {"high", "low"}
    <3>1. x \in KeyIssue(f, c) => At(x, Place(2, c), "high")
      BY FoundAt DEF KeyIssue
    <3>2. x \in CasingIssue(f, c) => At(x, Place(5, c), "low")
      BY FoundAt DEF CasingIssue
    <3>. QED BY <1>5, <3>1, <3>2 DEF At
  <2>2. Place(2, c) \in Int /\ Place(5, c) \in Int
    BY <1>2, PlacesAre
  <2>. QED BY <1>3, <2>1, <2>2 DEF Ranked
<1>6. CASE x \in DuplicateIssue(f) \/ x \in PrivacyIssue(f)
  <2>1. x.place \in {Place(1, 0), Place(3, 0)} /\ x.severity \in {"high", "medium"}
    <3>1. x \in DuplicateIssue(f) => At(x, Place(1, 0), IF 20 * Cardinality(Copies(f)) >= Len(f) THEN "high" ELSE "medium")
      BY FoundAt DEF DuplicateIssue
    <3>2. x \in PrivacyIssue(f) => At(x, Place(3, 0), "high")
      BY FoundAt DEF PrivacyIssue
    <3>. QED BY <1>6, <3>1, <3>2 DEF At
  <2>2. Place(1, 0) \in Int /\ Place(3, 0) \in Int
    BY PlacesAre
  <2>. QED BY <1>3, <2>1, <2>2 DEF Ranked
<1>7. ASSUME NEW k \in DOMAIN Checks, x \in RowIssue(f, k) PROVE Ranked(x)
  <2>1. x.place = Place(4, k) /\ x.severity = Checks[k].severity
    BY <1>7, FoundAt DEF RowIssue, At
  <2>2. k \in Int
    BY RemediationAssumption
  <2>3. Place(4, k) \in Int
    BY <2>2, PlacesAre
  <2>. QED BY <2>1, <2>3, RemediationAssumption DEF Ranked
<1>. QED BY <1>1, <1>4, <1>5, <1>6, <1>7

\* One issue in order is that issue.
LEMMA OneInOrder ==
  ASSUME NEW f, NEW chosen \in SUBSET Detected(f), NEW sel, sel = Ordered(chosen, Before), Len(sel) = 1
  PROVE  sel = <<sel[1]>> /\ sel[1] \in Detected(f)
<1>1. IsFiniteSet(chosen) /\ Cardinality(chosen) \in Nat
  BY IssuesAreFew, FS_Subset, FS_CardinalityType
<1>2. DOMAIN sel = 1..Cardinality(chosen) /\ sel = [k \in 1..Cardinality(chosen) |-> sel[k]]
  <2>. DEFINE Spot(k) == CHOOSE y \in chosen : Cardinality({z \in chosen : Before(z, y)}) = k - 1
  <2>1. sel = [k \in 1..Cardinality(chosen) |-> Spot(k)]
    BY DEF Ordered
  <2>. HIDE DEF Spot
  <2>. QED BY <2>1
<1>3. Cardinality(chosen) = 1
  BY <1>1, <1>2, SequenceOf
<1>4. PICK x : chosen = {x}
  BY <1>1, <1>3, FS_Singleton
<1>5. sel = <<sel[1]>>
  BY <1>2, <1>3
<1>6. sel[1] \in chosen
  <2>1. sel[1] = CHOOSE y \in chosen : Cardinality({z \in chosen : Before(z, y)}) = 1 - 1
    <3>1. 1 \in 1..Cardinality(chosen)
      BY <1>3
    <3>. QED BY <3>1 DEF Ordered
  <2>2. Ranked(x)
    BY <1>4, IssuesAreRanked
  <2>3. ~Before(x, x)
    <3>1. \A s \in DOMAIN SeverityOrder : SeverityOrder[s] \in Int
      BY DEF SeverityOrder
    <3>2. PICK a, b : a = SeverityOrder[x.severity] /\ b = x.place
      OBVIOUS
    <3>3. a \in Int /\ b \in Int
      BY <2>2, <3>1, <3>2 DEF Ranked
    <3>4. ~(a < a) /\ ~(b < b)
      BY <3>3
    <3>. QED BY <3>2, <3>4 DEF Before
  <2>4. {z \in chosen : Before(z, x)} = {}
    BY <1>4, <2>3
  <2>5. Cardinality({z \in chosen : Before(z, x)}) = 1 - 1
    BY <2>4, FS_EmptySet
  <2>. QED BY <1>4, <2>1, <2>5
<1>. QED BY <1>5, <1>6

LEMMA SelectedAlone == RemediationInit => AloneInv
<1>. SUFFICES ASSUME RemediationInit PROVE AloneInv
  OBVIOUS
<1>1. source \in Tables /\ table = source /\ todo = selected /\ options.fill \in {"mode", "zero", "blank"}
  BY DEF RemediationInit
<1>2. PICK chosen \in SUBSET Detected(source) : selected = Ordered(chosen, Before)
  BY DEF RemediationInit
<1>3. Len(selected) = 1 => selected = <<selected[1]>> /\ selected[1] \in Detected(source)
  BY <1>2, OneInOrder
<1>. QED BY <1>1, <1>3 DEF AloneInv

LEMMA CorrectingResolves == AloneInv /\ [Correct]_remediationVars => AloneInv'
<1>. SUFFICES ASSUME AloneInv, [Correct]_remediationVars PROVE AloneInv'
  OBVIOUS
<1>1. CASE UNCHANGED remediationVars
  <2>1. source' = source /\ selected' = selected /\ todo' = todo /\ options' = options /\ table' = table
    BY <1>1 DEF remediationVars
  <2>. QED BY <2>1 DEF AloneInv, CorrectionResolves
<1>2. CASE Correct
  <2>1. source' = source /\ selected' = selected /\ options' = options /\ todo # <<>> /\ todo' = Tail(todo)
    BY <1>2 DEF Correct
  <2>2. source \in Tables /\ options.fill \in {"mode", "zero", "blank"}
    BY DEF AloneInv
  <2>3. ASSUME Len(selected) = 1
        PROVE  selected = <<selected[1]>> /\ selected[1] \in Detected(source) /\ todo' = <<>> /\ CorrectionResolves'
    <3>1. selected = <<selected[1]>> /\ selected[1] \in Detected(source) /\ todo = selected /\ table = source
      BY <2>1, <2>3 DEF AloneInv
    <3>2. PICK x : x = selected[1]
      OBVIOUS
    <3>3. Head(todo) = x /\ todo' = <<>>
      <4>1. todo = <<x>>
        BY <3>1, <3>2
      <4>. QED BY <2>1, <4>1
    <3>4. IsTable(table) /\ Corrected(table, x, table')
      BY <1>2, <2>2, <3>1, <3>3, TablesAre, CorrectDoes
    <3>5. PICK f, g : f = table /\ g = table'
      OBVIOUS
    <3>6. Corrigible(f, x) => KeyOf(x) \in ResolvedIssues(f, g)
      BY <2>2, <3>1, <3>2, <3>4, <3>5, CorrectedIsResolved
    <3>7. Corrigible(source', selected'[1]) => KeyOf(selected'[1]) \in ResolvedIssues(source', table')
      BY <2>1, <3>1, <3>2, <3>5, <3>6
    <3>8. CorrectionResolves'
      BY <3>7 DEF CorrectionResolves, Corrigible, KeyOf
    <3>. QED BY <3>1, <3>3, <3>8
  <2>. QED BY <2>1, <2>2, <2>3 DEF AloneInv
<1>. QED BY <1>1, <1>2

\* apply_remediation_actions with one issue, selected of an audit of the table: it waits,
\* or it was corrected, and an audit of the copy does not find it again.
THEOREM AloneInvariant == RemediationSpec => []AloneInv
BY SelectedAlone, CorrectingResolves, PTL DEF RemediationSpec

\* detect_issues, _evaluate_rule and generate_contract read one table alike: the detectors
\* count what the rules of the same kind mask, and the table meets its own contract but
\* for the exceptions that the property names.
THEOREM ReadingsDoAgree == RemediationSpec => []ReadingsAgree
<1>1. AloneInv => ReadingsAgree
  BY ReadingsOfTable DEF AloneInv
<1>. QED BY <1>1, AloneInvariant, PTL

\* compare_audits: missing values, copies, labels that differ in case and duplicate keys
\* that were corrected alone are among the resolved issues, whatever the table.
THEOREM CorrectionsResolve == RemediationSpec => []CorrectionResolves
<1>1. AloneInv => CorrectionResolves
  <2>. SUFFICES ASSUME AloneInv, todo = <<>>, Len(selected) = 1 PROVE CorrectionResolves
    BY DEF CorrectionResolves
  <2>1. selected = <<selected[1]>> /\ (todo = selected \/ CorrectionResolves)
    BY DEF AloneInv
  <2>2. selected # <<>>
    BY <2>1
  <2>. QED BY <2>1, <2>2
<1>. QED BY <1>1, AloneInvariant, PTL

=============================================================================
