------------------------------- MODULE Issues -------------------------------
(***************************************************************************)
(* The issues of one audit and their lifecycle (the issue routes of        *)
(* src/app/api/routes/audits.py, src/app/issue_lifecycle.py).              *)
(*                                                                         *)
(* The issues live in the audit's document.  A request loads the whole     *)
(* document, changes its copy, writes activity entries in transactions of  *)
(* their own, saves the whole copy, and registers it with the dataset row. *)
(* Nothing stops two requests from working on copies of one document.      *)
(*                                                                         *)
(* A score is represented by what score_audit reads of the issues and of   *)
(* the scoring context; Scoring has the arithmetic.                        *)
(***************************************************************************)
EXTENDS Integers, FiniteSets, Sequences

CONSTANTS
  Thread,       \* request threads
  Issue,        \* issue ids of the audit
  Privacy,      \* the issues of category "privacy"
  Update,       \* the bodies of PATCH requests
  Context,      \* scoring contexts (dataset criticality and weights)
  MaxRequests,  \* bound: requests that change something
  MaxStops,     \* bound: requests that an exception or a crash stops
  Null

Inactive == {"fixed", "resolved", "ignored"}
AllStatus == {"open", "triaged", "in_progress", "blocked", "accepted_risk", "reopened"} \union Inactive

\* Notes and evidence are empty (or None) or some text.
Text == {"", "text"}

\* The body of a PATCH; Null is a field that is not there.
Body == [status: AllStatus \union {Null}, note: Text \union {Null}, evidence: Text \union {Null}]

Operation == {"update", "apply", "recalculate", "summary"}

ASSUME IssuesAssumption ==
  /\ Privacy \subseteq Issue
  /\ Update \subseteq Body
  /\ Context # {}
  /\ MaxRequests \in Nat /\ MaxStops \in Nat
  /\ Null \notin AllStatus \union Text \union Issue \union Operation \union {"status"}

\* affected: whether affected_rows is above zero.
Score == [active: SUBSET Issue, affected: SUBSET Issue, context: Context]
Document == [status: [Issue -> AllStatus], note: [Issue -> Text], evidence: [Issue -> Text],
             affected: [Issue -> BOOLEAN], context: Context, score: Score]

NoUpdate == [status |-> Null, note |-> Null, evidence |-> Null]
Request == [pc: {"idle", "status", "note", "evidence", "reopen", "save", "log", "register"},
            op: Operation \union {Null}, issue: Issue \union {Null}, update: Body,
            doc: Document \union {Null}, old: [Issue -> AllStatus] \union {Null}]

VARIABLES
  document,   \* the saved document of the audit
  activity,   \* the activity entries, oldest first
  dataset,    \* the score and issue count that the dataset row shows
  req,        \* req[t]: the request that thread t is working on
  requests,   \* requests so far (for the bound)
  stops,      \* stopped requests so far (for the bound)
  overlapped, \* history: whether two requests were at work at a time
  unlogged,   \* history: issues whose applied recommendation has no entry
  unsaved     \* history: whether a request with an entry stopped before its save

issueVars == <<document, activity, dataset, req, requests, stops, overlapped, unlogged, unsaved>>

Entry == [issue: Issue, action: {"field_updated", "reopened", "recommendation_applied", "comment_added"},
          field: {"status", "note", "evidence", Null}, value: AllStatus \union Text \union {Null}]

Idle == [pc |-> "idle", op |-> Null, issue |-> Null, update |-> NoUpdate, doc |-> Null, old |-> Null]

-----------------------------------------------------------------------------
(* Scores.                                                                 *)

Active(d) == {i \in Issue : d.status[i] \notin Inactive}

ScoreOf(d) == [active |-> Active(d), affected |-> {i \in Active(d) : d.affected[i]}, context |-> d.context]
\* score_audit and summarize_audit, on a copy of the document.
Scored(d) == [d EXCEPT !.score = ScoreOf(d)]

Fresh ==
  Scored([status |-> [i \in Issue |-> "open"], note |-> [i \in Issue |-> ""],
          evidence |-> [i \in Issue |-> ""], affected |-> [i \in Issue |-> TRUE],
          context |-> CHOOSE c \in Context : TRUE, score |-> Null])

-----------------------------------------------------------------------------
(* Requests.                                                               *)

\* load_audit, and the guards that only read.
Load(t, op, i, u, d, pc) ==
  /\ req[t] = Idle
  /\ requests < MaxRequests
  /\ requests' = requests + 1
  /\ overlapped' = (overlapped \/ \E other \in Thread : req[other] # Idle)
  /\ req' = [req EXCEPT ![t] = [pc |-> pc, op |-> op, issue |-> i, update |-> u, doc |-> d, old |-> document.status]]
  /\ UNCHANGED <<document, activity, dataset, stops, unlogged, unsaved>>

\* "A resolution note is required when resolving an issue."
NoteGuard(i, u) == u.status \in {"resolved", "fixed"} => (u.note = "text" \/ document.note[i] = "text")

\* update_issue_status
UpdateIssueStatus(t, i, u) ==
  /\ u # NoUpdate
  /\ NoteGuard(i, u)
  /\ Load(t, "update", i, u, document, "status")

\* apply_issue_recommendation
ApplyGuard(i) ==
  /\ document.status[i] # "fixed"
  /\ i \in Privacy => document.note[i] = "text" /\ document.evidence[i] = "text"
\* Mutant: the score is not recomputed.
ApplyUnscored(t, i) ==
  /\ ApplyGuard(i)
  /\ Load(t, "apply", i, NoUpdate,
          [document EXCEPT !.status[i] = "fixed", !.note[i] = "text", !.affected[i] = FALSE], "save")
ApplyRecommendation(t, i) ==
  /\ ApplyGuard(i)
  /\ Load(t, "apply", i, NoUpdate,
          Scored([document EXCEPT !.status[i] = "fixed",
                                  !.note[i] = "text",
                                  !.affected[i] = FALSE]), "save")

\* recalculate_score
RecalculateScore(t, c) ==
  Load(t, "recalculate", Null, NoUpdate, Scored([document EXCEPT !.context = c]), "save")

\* regenerate_summary: the document is saved again, and not registered.
RegenerateSummary(t) ==
  Load(t, "summary", Null, NoUpdate, document, "save")

Log(e) == activity' = Append(activity, e)
\* A copy of the document with another value in one field.
With(d, field, i, value) == [d EXCEPT ![field][i] = value]

\* Mutant: no entry.
SetSilently(t, pc, field, next) ==
  LET value == req[t].update[field] IN
  /\ req[t].pc = pc
  /\ req' = [req EXCEPT ![t].pc = next, ![t].doc = IF value = Null THEN @ ELSE With(@, field, req[t].issue, value)]
  /\ UNCHANGED <<document, activity, dataset, requests, stops, overlapped, unlogged, unsaved>>
\* One field of the update: skipped when nothing changes, or set and logged.
SetField(t, pc, field, next) ==
  LET i == req[t].issue
      value == req[t].update[field] IN
  /\ req[t].pc = pc
  /\ \/ value \in {Null, req[t].doc[field][i]}
        /\ req' = [req EXCEPT ![t].pc = next]
        /\ UNCHANGED activity
     \/ value \notin {Null, req[t].doc[field][i]}
        /\ req' = [req EXCEPT ![t].pc = next, ![t].doc = With(req[t].doc, field, i, value)]
        /\ Log([issue |-> i, action |-> "field_updated", field |-> field, value |-> value])
  /\ UNCHANGED <<document, dataset, requests, stops, overlapped, unlogged, unsaved>>

SetStatus(t) == SetField(t, "status", "status", "note")
SetNote(t) == SetField(t, "note", "note", "evidence")
SetEvidence(t) == SetField(t, "evidence", "evidence", "reopen")

\* Mutant: no entry of its own.
ReopenSilently(t) ==
  /\ req[t].pc = "reopen"
  /\ req' = [req EXCEPT ![t].pc = "save",
                       ![t].doc = Scored(IF @.status[req[t].issue] = "reopened" THEN With(@, "status", req[t].issue, "open") ELSE @)]
  /\ UNCHANGED <<document, activity, dataset, requests, stops, overlapped, unlogged, unsaved>>
\* "reopened" becomes "open", with an entry of its own; then the score.
Reopen(t) ==
  LET i == req[t].issue
      d == req[t].doc IN
  /\ req[t].pc = "reopen"
  /\ \/ d.status[i] = "reopened"
        /\ req' = [req EXCEPT ![t].pc = "save", ![t].doc = Scored(With(d, "status", i, "open"))]
        /\ Log([issue |-> i, action |-> "reopened", field |-> "status", value |-> "open"])
     \/ d.status[i] # "reopened"
        /\ req' = [req EXCEPT ![t].pc = "save", ![t].doc = Scored(d)]
        /\ UNCHANGED activity
  /\ UNCHANGED <<document, dataset, requests, stops, overlapped, unlogged, unsaved>>

\* AuditStore.save: the whole document, whatever was saved since it was loaded.
Save(t) ==
  /\ req[t].pc = "save"
  /\ document' = req[t].doc
  /\ unlogged' = IF req[t].op = "apply" THEN unlogged \union {req[t].issue} ELSE unlogged
  /\ req' = [req EXCEPT ![t] = IF req[t].op = "summary" THEN Idle
                              ELSE [req[t] EXCEPT !.pc = IF req[t].op = "apply" THEN "log" ELSE "register"]]
  /\ UNCHANGED <<activity, dataset, requests, stops, overlapped, unsaved>>

\* The entry of an applied recommendation follows the save; the dataset row is
\* not registered again.
LogApplied(t) ==
  /\ req[t].pc = "log"
  /\ Log([issue |-> req[t].issue, action |-> "recommendation_applied", field |-> "status", value |-> "fixed"])
  /\ unlogged' = unlogged \ {req[t].issue}
  /\ req' = [req EXCEPT ![t] = Idle]
  /\ UNCHANGED <<document, dataset, requests, stops, overlapped, unsaved>>

\* register_audit_dataset
Register(t) ==
  /\ req[t].pc = "register"
  /\ dataset' = req[t].doc.score
  /\ req' = [req EXCEPT ![t] = Idle]
  /\ UNCHANGED <<document, activity, requests, stops, overlapped, unlogged, unsaved>>

\* add_issue_comment: an entry and nothing else.
AddComment(t, i) ==
  /\ req[t] = Idle
  /\ requests < MaxRequests
  /\ requests' = requests + 1
  /\ Log([issue |-> i, action |-> "comment_added", field |-> Null, value |-> Null])
  /\ UNCHANGED <<document, dataset, req, stops, overlapped, unlogged, unsaved>>

\* An exception or a crash: what is committed stays.
Stop(t) ==
  /\ req[t] # Idle
  /\ stops < MaxStops
  /\ stops' = stops + 1
  /\ unsaved' = IF /\ req[t].op = "update" /\ req[t].pc \notin {"status", "register"}
                   /\ req[t].update.status \notin {Null, req[t].old[req[t].issue]}
                  THEN TRUE ELSE unsaved
  /\ req' = [req EXCEPT ![t] = Idle]
  /\ UNCHANGED <<document, activity, dataset, requests, overlapped, unlogged>>

Init ==
  /\ document = Fresh
  /\ activity = <<>>
  /\ dataset = Fresh.score
  /\ req = [t \in Thread |-> Idle]
  /\ requests = 0
  /\ stops = 0
  /\ overlapped = FALSE
  /\ unlogged = {}
  /\ unsaved = FALSE

Next == \E t \in Thread :
  \/ \E i \in Issue : \/ \E u \in Update : UpdateIssueStatus(t, i, u)
                      \/ ApplyRecommendation(t, i)
                      \/ AddComment(t, i)
  \/ \E c \in Context : RecalculateScore(t, c)
  \/ RegenerateSummary(t)
  \/ SetStatus(t) \/ SetNote(t) \/ SetEvidence(t) \/ Reopen(t)
  \/ Save(t) \/ LogApplied(t) \/ Register(t) \/ Stop(t)

Spec == Init /\ [][Next]_issueVars

-----------------------------------------------------------------------------
(* Properties.                                                             *)

IssuesTypeOK ==
  /\ document \in Document
  /\ activity \in Seq(Entry)
  /\ dataset \in Score
  /\ req \in [Thread -> Request]
  /\ requests \in Nat /\ stops \in Nat
  /\ overlapped \in BOOLEAN /\ unsaved \in BOOLEAN
  /\ unlogged \subseteq Issue

Logged(i, v) == \E n \in DOMAIN activity : /\ activity[n].issue = i
                                          /\ activity[n].field = "status"
                                          /\ activity[n].value = v
LastStatus(i) ==
  LET S == {n \in DOMAIN activity : activity[n].issue = i /\ activity[n].field = "status"} IN
  IF S = {} THEN "open" ELSE activity[CHOOSE n \in S : \A m \in S : m <= n].value
AllIdle == \A t \in Thread : req[t] = Idle
\* What a status that is saved, or to be saved, has as its reason.
Explained(i, v) == v = "open" \/ Logged(i, v) \/ (v = "fixed" /\ i \in unlogged)

\* "Every field update, ..., reopen action, and applied recommendation creates an
\* immutable activity entry": a saved status other than the detected "open" has
\* its entry, however requests overlap or stop; only the entry of an applied
\* recommendation comes after its save, and is missing when that request stops.
ActivityExplainsStatus ==
  \A i \in Issue : Explained(i, document.status[i])

\* When no request is at work, the newest entry of an issue shows its status,
\* unless requests overlapped or a request stopped between its entries and its save.
ActivityAgrees ==
  AllIdle /\ ~overlapped /\ ~unsaved /\ unlogged = {} =>
    \A i \in Issue : document.status[i] = LastStatus(i)

\* The saved score is that of the saved issues and context: no route, and no
\* overlap of two, saves issues with a score computed from others.
ScoreOfSavedIssues == document.score = ScoreOf(document)

\* The invariant behind them: at each step a request works on a copy whose statuses
\* are explained, but for the one that it applies and is to save, and it has a score
\* of its own by the time it is saved.
AtWork(r) ==
  /\ r.op = "apply" => r.pc \in {"save", "log"}
  /\ r.pc = "log" => r.op = "apply"
  /\ r.pc # "idle" => r.doc \in Document
  /\ r.pc \in {"status", "note", "evidence", "reopen"} => r.op = "update"
  /\ r.op \in {"update", "apply"} => r.issue \in Issue
  /\ r.op = "apply" => r.doc.status[r.issue] = "fixed"
CopyExplained(r) ==
  r.pc # "idle" =>
    \A i \in Issue : Explained(i, r.doc.status[i]) \/ (r.op = "apply" /\ r.pc = "save" /\ i = r.issue)
CopyScored(r) == r.pc \in {"save", "register", "log"} => r.doc.score = ScoreOf(r.doc)
IssuesInv ==
  /\ \A t \in Thread : AtWork(req[t]) /\ CopyExplained(req[t]) /\ CopyScored(req[t])
  /\ ActivityExplainsStatus
  /\ ScoreOfSavedIssues

\* The invariant behind ActivityAgrees.  "reopened" is never saved, and a copy has it
\* at most for the issue that it updates.
NotReopened(r) ==
  r.pc # "idle" => \A i \in Issue : r.doc.status[i] = "reopened" =>
                      i = r.issue /\ r.pc \in {"note", "evidence", "reopen"} /\ r.update.status = "reopened"
ReopenedIsOpen ==
  /\ \A i \in Issue : document.status[i] # "reopened"
  /\ \A t \in Thread : NotReopened(req[t])

\* An update writes its entries ahead of its save.  Until then it is its copy that
\* the entries agree with, and the document differs from that only where they do.
Ahead(r) == r.op = "update" /\ r.pc \in {"note", "evidence", "reopen", "save"}
Agree(st) == \A i \in Issue \ unlogged : st[i] = LastStatus(i)
CopyAgrees(r) ==
  /\ Ahead(r) => /\ Agree(r.doc.status)
                 /\ r.update.status \in {Null, r.old[r.issue]} => r.doc.status = document.status
  /\ Ahead(r) \/ r.pc = "status" => r.old = document.status
  /\ r.pc = "status" \/ (r.pc = "save" /\ r.op # "update") =>
       \A i \in Issue : r.doc.status[i] = document.status[i] \/ (r.op = "apply" /\ i = r.issue)
  /\ r.pc = "log" => document.status[r.issue] = "fixed"
AgreementInv ==
  /\ ReopenedIsOpen
  /\ ~overlapped => \A s, t \in Thread : req[s] # Idle /\ req[t] # Idle => s = t
  /\ ~overlapped /\ ~unsaved =>
       /\ (\A t \in Thread : ~Ahead(req[t])) => Agree(document.status)
       /\ \A t \in Thread : CopyAgrees(req[t])
=============================================================================
