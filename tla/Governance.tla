----------------------------- MODULE Governance -----------------------------
(***************************************************************************)
(* Quality rules, their assignment to datasets, the executions that audits *)
(* record, and versioned data contracts with their validation              *)
(* (src/app/api/routes/quality_rules.py, src/app/contracts.py).            *)
(*                                                                         *)
(* A request on contracts reads in one step and commits in a later one; an *)
(* audit reads the assigned rules, and is saved, given its rows of         *)
(* rule_executions, and registered in three transactions, the last two of  *)
(* which a correction makes the other way around.  Of an audit's data      *)
(* there is the inferred type of one column, and each rule's outcome.      *)
(***************************************************************************)
EXTENDS Integers, Sequences, FiniteSets, FiniteSetsExt

CONSTANTS
  Thread,       \* request threads
  Dataset,      \* dataset names
  Registered,   \* the names of the datasets that there are at first
  Cleaned,      \* Cleaned[n]: the name that corrections of n get, Null for none of these
  MaxRules,     \* bound: ids of quality_rules
  MaxRows,      \* bound: ids of datasets
  MaxAudits,    \* bound: audits that are computed, those that there are at first included
  MaxRequests,  \* bound: requests that begin
  Content,      \* bound: contracts that are written by hand
  Cascade,      \* PostgreSQL: foreign keys are enforced, ids come from sequences
  Null

ASSUME GovernanceAssumption ==
  /\ {MaxRules, MaxRows, MaxAudits, MaxRequests} \subseteq Nat
  /\ Registered \subseteq Dataset /\ IsFiniteSet(Registered) /\ Cardinality(Registered) <= MaxRows
  /\ Cascade \in BOOLEAN
  /\ Cleaned \in [Dataset -> Dataset \union {Null}]
  /\ Content \subseteq [type: {"text", "numeric"}, rules: SUBSET (1..MaxRules)]

RuleId == 1..MaxRules
DatasetId == 1..MaxRows
ColumnType == {"text", "numeric"}
ContractStatus == {"draft", "published", "archived"}

\* ran[r]: the outcome of rule r; at is created_at and names the audit; version 0
\* is a dataset_version of None.
Outcomes == UNION {[R -> {"passed", "failed"}] : R \in SUBSET RuleId}
Audit == [at: Nat, name: Dataset, version: Nat, type: ColumnType, ran: Outcomes]
Rules == [type: ColumnType, rules: SUBSET RuleId]  \* what a contract asks for
Evidence == [audit: Audit, passed: BOOLEAN]
Validation == [status: {"not_validated", "passed", "failed"}, evidence: {Null} \union Evidence]

\* Rows; made tells apart the rows that an id was given to.
RuleRow == [active: BOOLEAN, made: Nat]
DatasetRow == [name: Dataset, latest: Nat, made: Nat]
AssignmentRow == [rule: RuleId, dataset: DatasetId, active: BOOLEAN]
ExecutionRow == [audit: Nat, rule: {Null} \union RuleId]
ContractRow == [key: Nat, version: Nat, dataset: DatasetId, status: ContractStatus, content: Rules,
                source: Nat, validation: Validation]

ASSUME NullAssumption == Null \notin RuleRow \union DatasetRow \union ContractRow \union Evidence

VARIABLES
  rule,        \* rule[r]: the row [active, made], or Null
  dataset,     \* dataset[d]: the row [name, latest, made], or Null
  assigned,    \* rows of dataset_rule_assignments
  audits,      \* saved audits
  executions,  \* rows of rule_executions: [audit, rule]
  contracts,   \* data_contracts, by id; a deleted row is Null
  req,         \* req[t]: the request that thread t is working on
  clock,       \* audits computed so far
  requests,    \* requests so far (for the bound)
  cut,         \* history: audits whose request ended before it persisted their executions
  made,        \* history: rows of rules and datasets made so far, to tell them apart
  asked,       \* history: <<rule made, dataset made>> pairs that a request assigned
  branched,    \* history: keys with a row that was made from one that was not the newest
  forked,      \* history: datasets whose first contract was made twice at a time, or that
               \*   have a contract of their own and one that was another dataset's
  entangled    \* history: contract rows that overlapping requests validated

rows == <<rule, dataset, assigned, audits, executions, contracts>>
histories == <<cut, made, asked, branched, forked, entangled>>
governanceVars == <<rows, req, clock, requests, histories>>

Idle == [pc |-> "idle"]
Count == requests < MaxRequests /\ requests' = requests + 1
Enter(t, r) == req[t] = Idle /\ Count /\ req' = [req EXCEPT ![t] = r]
Done(t) == req' = [req EXCEPT ![t] = Idle] /\ UNCHANGED requests

Kept(tab) == {x \in DOMAIN tab : tab[x] # Null}
\* The id of a new row: the sequence's next, or SQLite's largest plus one.
NewId(tab, used) == IF Cascade THEN used + 1 ELSE Max({0} \union Kept(tab)) + 1
RulesMade == made[1]
DatasetsMade == made[2]
RowOf(n) == {d \in Kept(dataset) : dataset[d].name = n}

-----------------------------------------------------------------------------
(* Rules and assignments: one transaction each.                            *)

CreateRule ==
  LET r == NewId(rule, RulesMade) IN
  /\ Count
  /\ r \in RuleId
  /\ rule' = [rule EXCEPT ![r] = [active |-> TRUE, made |-> RulesMade + 1]]
  /\ made' = <<RulesMade + 1, DatasetsMade>>
  /\ UNCHANGED <<dataset, assigned, audits, executions, contracts, req, clock, asked, cut, branched, forked, entangled>>

\* update_rule, as far as anything here reads it: is_active.
UpdateRule(r, active) ==
  /\ Count
  /\ r \in Kept(rule)
  /\ rule' = [rule EXCEPT ![r].active = active]
  /\ UNCHANGED <<dataset, assigned, audits, executions, contracts, req, clock, histories>>

\* ondelete="CASCADE" of assignments and "SET NULL" of executions.
Unassigned(gone) == IF Cascade THEN assigned \ gone ELSE assigned
DeleteRule(r) ==
  /\ Count
  /\ r \in Kept(rule)
  /\ rule' = [rule EXCEPT ![r] = Null]
  /\ assigned' = Unassigned({a \in assigned : a.rule = r})
  /\ executions' = {IF Cascade /\ e.rule = r THEN [e EXCEPT !.rule = Null] ELSE e : e \in executions}
  /\ UNCHANGED <<dataset, audits, contracts, req, clock, histories>>

\* Mutant: an unassignment inserts the pairs that are not there.
SwitchedAlways(R, D, on) ==
  {a \in assigned : ~(a.rule \in R /\ a.dataset \in D)} \union {[rule |-> r, dataset |-> d, active |-> on] : r \in R, d \in D}
\* The unique pair is there once; assign_rule and a bulk assignment switch it on.
Switched(R, D, on) ==
  {a \in assigned : ~(a.rule \in R /\ a.dataset \in D)}
    \union {b \in {[rule |-> r, dataset |-> d, active |-> on] : r \in R, d \in D} :
              on \/ \E a \in assigned : a.rule = b.rule /\ a.dataset = b.dataset}
BulkAssignments(R, D, on) ==
  /\ Count
  /\ R \subseteq Kept(rule) /\ D \subseteq Kept(dataset)
  /\ assigned' = Switched(R, D, on)
  /\ asked' = IF on THEN asked \union {<<rule[r].made, dataset[d].made>> : r \in R, d \in D} ELSE asked
  /\ UNCHANGED <<rule, dataset, audits, executions, contracts, req, clock, made, cut, branched, forked, entangled>>
AssignRule(r, d) == BulkAssignments({r}, {d}, TRUE)
UnassignRule(r, d) ==
  /\ Count
  /\ r \in Kept(rule) /\ d \in Kept(dataset)
  /\ assigned' = {a \in assigned : ~(a.rule = r /\ a.dataset = d)}
  /\ UNCHANGED <<rule, dataset, audits, executions, contracts, req, clock, histories>>

\* update_dataset with a new name (src/app/api/routes/datasets.py), which is unique:
\* the audits keep the old one.
RenameDataset(d, n) ==
  /\ Count
  /\ d \in Kept(dataset) /\ RowOf(n) = {}
  /\ dataset' = [dataset EXCEPT ![d].name = n]
  /\ UNCHANGED <<rule, assigned, audits, executions, contracts, req, clock, histories>>

\* delete_dataset: audits and executions stay.
DeleteDataset(d) ==
  /\ Count
  /\ d \in Kept(dataset)
  /\ dataset' = [dataset EXCEPT ![d] = Null]
  /\ assigned' = Unassigned({a \in assigned : a.dataset = d})
  /\ contracts' = [c \in DOMAIN contracts |->
       IF Cascade /\ contracts[c] # Null /\ contracts[c].dataset = d THEN Null ELSE contracts[c]]
  /\ UNCHANGED <<rule, audits, executions, req, clock, histories>>

-----------------------------------------------------------------------------
(* Audits.                                                                 *)

\* assigned_rules_for_dataset: by the dataset's name, active on both sides.
RulesOf(n) == {r \in Kept(rule) : /\ rule[r].active
                                 /\ \E a \in assigned : a.rule = r /\ a.dataset \in RowOf(n) /\ a.active}
Named(n) == {a \in audits : a.name = n}

\* An audit of the dataset name n is computed: of no version, of one that another
\* audit has, or of the next, for which earlier audits are counted (see Registry).
Compute(t, n, R, type, V, corrects) ==
  /\ \E v \in V, ran \in [R -> {"passed", "failed"}] :
       Enter(t, [pc |-> "save", corrects |-> corrects,
                 audit |-> [at |-> clock + 1, name |-> n, version |-> v, type |-> type, ran |-> ran]])
  /\ clock < MaxAudits /\ clock' = clock + 1
  /\ UNCHANGED <<rows, histories>>
Versions(n) == {a.version : a \in audits} \union 0..(Cardinality(Named(n)) + 1)

\* upload_audit, import_dataset_version, rerun_audit, ScheduledAuditHandler.
BeginAudit(t, n, type) == Compute(t, n, RulesOf(n), type, Versions(n), FALSE)
\* apply_remediation: under another name, by the rules of the dataset it corrects.
BeginCorrection(t, n, type) ==
  /\ Named(n) # {} /\ Cleaned[n] # Null
  /\ Compute(t, Cleaned[n], RulesOf(n), type, {0}, TRUE)
\* update_issue_status and recalculate_score save an audit as it is here, and register it.
Revisit(t, a) ==
  /\ Enter(t, [pc |-> "register", corrects |-> FALSE, audit |-> a])
  /\ UNCHANGED <<rows, clock, histories>>

\* The request goes on to another transaction, or was at its last.
GoOn(t, last, pc) ==
  /\ req' = [req EXCEPT ![t] = IF last THEN Idle ELSE [@ EXCEPT !.pc = pc]]
  /\ UNCHANGED requests

SaveAudit(t) ==
  /\ req[t].pc = "save"
  /\ audits' = audits \union {req[t].audit}
  /\ GoOn(t, FALSE, IF req[t].corrects THEN "register" ELSE "persist")
  /\ UNCHANGED <<rule, dataset, assigned, executions, contracts, clock, histories>>

\* Mutant: the executions are left for later.
Unpersisted(a) == executions
Persisted(a) == executions \union {[audit |-> a.at, rule |-> r] : r \in DOMAIN a.ran}

\* persist_rule_executions: where foreign keys are enforced a rule that was
\* deleted meanwhile fails the request, whose audit is saved by then.
PersistExecutions(t) ==
  LET a == req[t].audit IN
  /\ req[t].pc = "persist"
  /\ \/ /\ Cascade => DOMAIN a.ran \subseteq Kept(rule)
        /\ executions' = Persisted(a)
        /\ GoOn(t, req[t].corrects, "register")
     \/ /\ Cascade /\ ~(DOMAIN a.ran \subseteq Kept(rule))
        /\ UNCHANGED executions
        /\ Done(t)
  /\ UNCHANGED <<rule, dataset, assigned, audits, contracts, clock, histories>>

\* register_audit_dataset
RegisterAudit(t) ==
  LET a == req[t].audit IN
  /\ req[t].pc = "register"
  /\ \/ \E d \in RowOf(a.name) : dataset' = [dataset EXCEPT ![d].latest = a.at] /\ UNCHANGED made
     \/ LET d == NewId(dataset, DatasetsMade) IN
        /\ RowOf(a.name) = {} /\ d \in DatasetId
        /\ dataset' = [dataset EXCEPT ![d] = [name |-> a.name, latest |-> a.at, made |-> DatasetsMade + 1]]
        /\ made' = <<RulesMade, DatasetsMade + 1>>
  /\ GoOn(t, ~req[t].corrects, "persist")
  /\ UNCHANGED <<rule, assigned, audits, executions, contracts, clock, cut, asked, branched, forked, entangled>>

\* The executions of a request's saved audit are still to be persisted.
Persisting(r) == r.pc = "persist" \/ (r.pc = "register" /\ r.corrects)
\* The process stops, or a statement is refused.
FailAudit(t) ==
  /\ req[t].pc \in {"save", "persist", "register"}
  /\ cut' = IF Persisting(req[t]) THEN cut \union {req[t].audit.at} ELSE cut
  /\ Done(t)
  /\ UNCHANGED <<rows, clock, made, asked, branched, forked, entangled>>

-----------------------------------------------------------------------------
(* Contracts: rows are added, versions of a key, and validated in place.   *)

NotValidated == [status |-> "not_validated", evidence |-> Null]
OfDataset(d) == {c \in Kept(contracts) : contracts[c].dataset = d}
OfKey(k) == {c \in Kept(contracts) : contracts[c].key = k}
\* Of rows, the highest version, then the highest id.
Newest(C) == CHOOSE c \in C : \A b \in C : \/ contracts[b].version < contracts[c].version
                                          \/ (contracts[b].version = contracts[c].version /\ b <= c)

\* The row that a new one is to follow, 0 for none, is read with all it gives.
Follow(t, base, new) ==
  Enter(t, [pc |-> "insert", base |-> base, new |-> new, first |-> OfDataset(new.dataset) = {},
            moved |-> base # 0 /\ contracts[base].dataset # new.dataset])

\* Mutant: the number of the row that was changed is kept.
SameVersion(base) == IF base = 0 THEN 1 ELSE contracts[base].version
VersionAfter(base) == IF base = 0 THEN 1 ELSE contracts[base].version + 1

NewRow(base, d, status, content, source, validation) ==
  [key |-> IF base = 0 THEN 0 ELSE contracts[base].key, version |-> VersionAfter(base), dataset |-> d,
   status |-> status, content |-> content, source |-> source, validation |-> validation]
Existing(d) == IF OfDataset(d) = {} THEN 0 ELSE Newest(OfDataset(d))

\* create_contract, and update_contract_record from any row, to any dataset.
CreateContract(t, d, status, content) ==
  /\ d \in Kept(dataset)
  /\ Follow(t, Existing(d), NewRow(Existing(d), d, status, content, dataset[d].latest, NotValidated))
  /\ UNCHANGED <<rows, clock, histories>>
UpdateContract(t, c, d, status, content) ==
  /\ c \in Kept(contracts) /\ d \in Kept(dataset)
  /\ Follow(t, c, NewRow(c, d, status, content, dataset[d].latest, NotValidated))
  /\ UNCHANGED <<rows, clock, histories>>

\* generate_dataset_contract: the latest audit's types and the rules assigned now.
GenerateContract(t, d) ==
  /\ d \in Kept(dataset)
  /\ \E a \in audits :
       /\ a.at = dataset[d].latest
       /\ Follow(t, Existing(d), NewRow(Existing(d), d, "draft",
                  [type |-> a.type, rules |-> RulesOf(dataset[d].name)], a.at, NotValidated))
  /\ UNCHANGED <<rows, clock, histories>>

\* transition_contract_status copies all but the status, the validation too.
TransitionContract(t, c, status) ==
  /\ c \in Kept(contracts)
  /\ LET b == contracts[c] IN
     Follow(t, c, NewRow(c, b.dataset, status, b.content, b.source, b.validation))
  /\ UNCHANGED <<rows, clock, histories>>

\* The commit; the dataset of the row must be there where keys are enforced.
InsertContract(t) ==
  LET b == req[t].base
      id == Len(contracts) + 1
      n == [req[t].new EXCEPT !.key = IF b = 0 THEN id ELSE @] IN
  /\ req[t].pc = "insert"
  /\ \/ /\ Cascade => n.dataset \in Kept(dataset)
        /\ contracts' = Append(contracts, n)
        /\ branched' = IF b # 0 /\ (b \notin OfKey(n.key) \/ Newest(OfKey(n.key)) # b)
                         THEN branched \union {n.key} ELSE branched
        /\ forked' = IF /\ (req[t].first \/ req[t].moved)
                         /\ \E c \in OfDataset(n.dataset) : contracts[c].key # n.key
                       THEN forked \union {n.dataset} ELSE forked
     \/ /\ Cascade /\ n.dataset \notin Kept(dataset)
        /\ UNCHANGED <<contracts, branched, forked>>
  /\ Done(t)
  /\ UNCHANGED <<rule, dataset, assigned, audits, executions, clock, made, asked, cut, entangled>>

\* Mutant: the audits of no version are not set apart.
LastOfAll(c) ==
  {a \in Named(dataset[contracts[c].dataset].name) : \A b \in Named(a.name) : b.at <= a.at}
\* _latest_audit_for_latest_dataset_version: of the audits with a version, if there
\* are any, those of the highest; of what remains the last.
AuditToValidate(c) ==
  LET named == Named(dataset[contracts[c].dataset].name)
      versioned == {a \in named : a.version # 0}
      latest == {a \in versioned : \A b \in versioned : b.version <= a.version}
      rest == IF versioned = {} THEN named ELSE latest IN
  {a \in rest : \A b \in rest : b.at <= a.at}

\* _schema_contract_violations, _rule_contract_violations: a rule that was not
\* executed is a violation as one that failed is.
Satisfies(a, content) ==
  /\ a.type = content.type
  /\ \A r \in content.rules : r \in DOMAIN a.ran /\ a.ran[r] = "passed"

\* validate_contract_record
BeginValidation(t, c) ==
  /\ c \in Kept(contracts)
  /\ contracts[c].dataset \in Kept(dataset)
  /\ \E a \in AuditToValidate(c) :
       Enter(t, [pc |-> "validate", row |-> c, was |-> contracts[c].validation.status, source |-> contracts[c].source,
                 evidence |-> [audit |-> a, passed |-> Satisfies(a, contracts[c].content)]])
  /\ UNCHANGED <<rows, clock, histories>>

StatusOf(e) == IF e.passed THEN "passed" ELSE "failed"
\* Mutant: the status is only written the first time.
WrittenOnce(q, old) == IF q.was = "not_validated" THEN StatusOf(q.evidence) ELSE old
\* A column is written if its value differs from the one that was read.
Written(q, old) == IF StatusOf(q.evidence) = q.was THEN old ELSE StatusOf(q.evidence)

\* The update of a row that was deleted meanwhile fails.
WriteValidation(t) ==
  LET q == req[t] IN
  /\ q.pc = "validate"
  /\ \/ /\ contracts[q.row] # Null
        /\ contracts' = [contracts EXCEPT
             ![q.row].validation = [status |-> Written(q, @.status), evidence |-> q.evidence],
             ![q.row].source = IF q.evidence.audit.at = q.source THEN @ ELSE q.evidence.audit.at]
        /\ entangled' = IF \E u \in Thread \ {t} : req[u].pc = "validate" /\ req[u].row = q.row
                          THEN entangled \union {q.row} ELSE entangled
     \/ contracts[q.row] = Null /\ UNCHANGED <<contracts, entangled>>
  /\ Done(t)
  /\ UNCHANGED <<rule, dataset, assigned, audits, executions, clock, made, asked, cut, branched, forked>>

-----------------------------------------------------------------------------

\* Every dataset there is has an audit; one rule is there, assigned to nothing.
Init ==
  LET n == Cardinality(Registered) IN
  /\ rule = [r \in RuleId |-> IF r = 1 THEN [active |-> TRUE, made |-> 1] ELSE Null]
  /\ \E in \in [1..n -> Registered] :
       /\ \A i, j \in 1..n : in[i] = in[j] => i = j
       /\ dataset = [d \in DatasetId |-> IF d <= n THEN [name |-> in[d], latest |-> d, made |-> d] ELSE Null]
       /\ audits = {[at |-> d, name |-> in[d], version |-> 1, type |-> "text", ran |-> [r \in {} |-> "passed"]] : d \in 1..n}
  /\ made = <<1, n>> /\ clock = n
  /\ assigned = {} /\ executions = {} /\ contracts = <<>>
  /\ req = [t \in Thread |-> Idle] /\ requests = 0
  /\ cut = {} /\ asked = {} /\ branched = {} /\ forked = {} /\ entangled = {}

RuleRequest ==
  \/ CreateRule
  \/ \E r \in RuleId : DeleteRule(r) \/ \E active \in BOOLEAN : UpdateRule(r, active)
  \/ \E r \in RuleId, d \in DatasetId : AssignRule(r, d) \/ UnassignRule(r, d)
  \/ \E R \in (SUBSET RuleId) \ {{}}, D \in (SUBSET DatasetId) \ {{}}, on \in BOOLEAN : BulkAssignments(R, D, on)
  \/ \E d \in DatasetId : DeleteDataset(d) \/ \E n \in Dataset : RenameDataset(d, n)
AuditRequest(t) ==
  \/ \E n \in Dataset, type \in ColumnType : BeginAudit(t, n, type) \/ BeginCorrection(t, n, type)
  \/ \E a \in audits : Revisit(t, a)
  \/ SaveAudit(t) \/ PersistExecutions(t) \/ RegisterAudit(t) \/ FailAudit(t)
ContractRequest(t) ==
  \/ \E d \in DatasetId : \/ GenerateContract(t, d)
                          \/ \E content \in Content : CreateContract(t, d, "draft", content)
  \/ \E c \in DOMAIN contracts :
       \/ \E d \in DatasetId, content \in Content : UpdateContract(t, c, d, "published", content)
       \/ \E status \in ContractStatus : TransitionContract(t, c, status)
       \/ BeginValidation(t, c)
  \/ InsertContract(t) \/ WriteValidation(t)

Next == RuleRequest \/ \E t \in Thread : AuditRequest(t) \/ ContractRequest(t)
Spec == Init /\ [][Next]_governanceVars

-----------------------------------------------------------------------------
(* Properties                                                              *)

\* A rule is run on a dataset because a request assigned that rule to that dataset:
\* an assignment never passes on to a rule or a dataset that was made later.
AssignmentsRequested ==
  \A a \in assigned : a.rule \in Kept(rule) /\ a.dataset \in Kept(dataset) =>
    <<rule[a.rule].made, dataset[a.dataset].made>> \in asked

\* The versions of a contract are numbered apart, as long as each was made from the
\* newest: update_contract_record and transition_contract_status number from the
\* row they were given, which need not be it, or is not by the time of the commit.  A
\* dataset's contracts are one such line, unless two requests made its first at a
\* time or an update moved another dataset's contract to it.
VersionsUnique ==
  \A b, c \in Kept(contracts) :
    /\ contracts[b].key = contracts[c].key /\ contracts[b].version = contracts[c].version
         => b = c \/ contracts[b].key \in branched
    /\ contracts[b].dataset = contracts[c].dataset /\ contracts[b].key # contracts[c].key
         => contracts[b].dataset \in forked

\* validation_status and the validation that is shown say the same, of the row and
\* of the versions that copied it, unless two requests validated a row at a time.
ValidationAgrees ==
  \A c \in Kept(contracts) : LET v == contracts[c].validation IN
    IF v.evidence = Null THEN v.status = "not_validated"
    ELSE v.status = StatusOf(v.evidence) \/ OfKey(contracts[c].key) \intersect entangled # {}

\* What a contract's row shows its validation to be of never goes back: to an audit
\* of an earlier version of the dataset, from one of a version to one of none, or to
\* an earlier audit of the same version; unless two requests validated the row at a
\* time, or the dataset was renamed meanwhile.
Onward(e, f) ==
  \/ e = Null \/ e.audit.name # f.audit.name \/ e.audit.version < f.audit.version
  \/ (e.audit.version = f.audit.version /\ e.audit.at <= f.audit.at)
Advances(c) ==
  LET e == contracts[c].validation.evidence
      f == contracts'[c].validation.evidence IN
  contracts'[c] # Null => e = f \/ c \in entangled' \/ (f # Null /\ Onward(e, f))
ValidationsAdvance == [][\A c \in Kept(contracts) : Advances(c)]_governanceVars

\* Whatever the order in which it is registered and given them, a saved audit has
\* all its rule executions, or its request is still to persist them; unless that
\* failed, or one of the rules was deleted.
Executed(a) == \A r \in DOMAIN a.ran : \E e \in executions : e.audit = a.at /\ e.rule \in {r, Null}
Overdue(a) == \E t \in Thread : Persisting(req[t]) /\ req[t].audit = a
RuleGone(a) == Cascade /\ ~(DOMAIN a.ran \subseteq Kept(rule))
AuditsHaveExecutions ==
  \A a \in audits : Executed(a) \/ Overdue(a) \/ RuleGone(a) \/ a.at \in cut

\* What a request may be: an audit at work, a contract to insert or to validate.
Request ==
  {Idle}
    \union [pc: {"save", "persist", "register"}, corrects: BOOLEAN, audit: Audit]
    \union [pc: {"insert"}, base: Nat, new: ContractRow, first: BOOLEAN, moved: BOOLEAN]
    \union [pc: {"validate"}, row: Nat, was: {"not_validated", "passed", "failed"}, source: Nat, evidence: Evidence]

GovernanceTypeOK ==
  /\ rule \in [RuleId -> {Null} \union RuleRow]
  /\ dataset \in [DatasetId -> {Null} \union DatasetRow]
  /\ assigned \subseteq AssignmentRow
  /\ audits \subseteq Audit
  /\ executions \subseteq ExecutionRow
  /\ contracts \in Seq({Null} \union ContractRow)
  /\ req \in [Thread -> Request]
  /\ clock \in Nat /\ requests \in Nat /\ made \in Nat \X Nat
  /\ cut \subseteq Nat /\ asked \subseteq Nat \X Nat
  /\ branched \subseteq Nat /\ forked \subseteq DatasetId /\ entangled \subseteq Nat

\* The invariants behind the properties.  Assignments are of rows there are, and
\* ids are given out in order; both are the work of the database.
RowsRefer ==
  Cascade =>
    /\ \A a \in assigned : a.rule \in Kept(rule) /\ a.dataset \in Kept(dataset)
    /\ \A r \in Kept(rule) : r <= RulesMade
    /\ \A d \in Kept(dataset) : d <= DatasetsMade

\* created_at tells audits apart, and what was computed is saved, then shown.
Saving == {t \in Thread : req[t].pc = "save"}
AuditsApart ==
  /\ IsFiniteSet(audits) /\ \A a \in audits : a.at <= clock
  /\ \A a, b \in audits : a.at = b.at => a = b
  /\ \A t \in Saving : LET a == req[t].audit IN
       /\ a.at <= clock
       /\ \A b \in audits : b.at # a.at
       /\ \A u \in Saving : req[u].audit.at = a.at => u = t
  /\ \A d \in Kept(dataset) : \E a \in audits : a.at = dataset[d].latest
AuditStage(r) == r.pc \in {"persist", "register"} => r.audit \in audits
\* The rules that an audit ran are of those made so far, so a deleted one stays away.
RulesRan ==
  Cascade => /\ \A a \in audits, r \in RuleId : r \in DOMAIN a.ran => r <= RulesMade
             /\ \A t \in Saving, r \in RuleId : r \in DOMAIN req[t].audit.ran => r <= RulesMade

\* A deleted dataset does not come back, and neither do its contracts.
Gone(d) == Cascade /\ d <= DatasetsMade /\ dataset[d] = Null
\* What was validated is a saved audit.
OfSaved(e) == e = Null \/ e.audit \in audits
\* A status that another validation than the one shown gave has that validation's
\* row, entangled, beside it.
Agrees(v, key, d) ==
  IF v.evidence = Null THEN v.status = "not_validated"
  ELSE \/ v.status = StatusOf(v.evidence)
       \/ \E c \in OfKey(key) \intersect entangled : contracts[c].dataset = d
\* A key is the id of its first row, and no row has a higher number than its id.
RowsNumbered ==
  \A c \in Kept(contracts) : contracts[c].key \in DOMAIN contracts /\ contracts[c].version <= c
RowsAgree ==
  \A c \in Kept(contracts) : Agrees(contracts[c].validation, contracts[c].key, contracts[c].dataset)
\* A row to be inserted follows the row it was made from, if that is there still.
Follows(r) ==
  r.pc = "insert" =>
    LET n == r.new IN
    /\ OfSaved(n.validation.evidence)
    /\ r.base \in {0} \union DOMAIN contracts /\ n.version <= r.base + 1
    /\ r.base = 0 => r.first /\ n.validation = NotValidated
    /\ r.base # 0 =>
         /\ n.key \in DOMAIN contracts
         /\ contracts[r.base] # Null => n.key = contracts[r.base].key /\ n.version = contracts[r.base].version + 1
         /\ \/ r.moved \/ Gone(n.dataset)
            \/ contracts[r.base] # Null /\ contracts[r.base].dataset = n.dataset
         /\ Gone(n.dataset) \/ Agrees(n.validation, n.key, n.dataset)
\* A validation replaces the one it has found, unless another came between.
Validates(r) ==
  r.pc = "validate" =>
    /\ r.row \in DOMAIN contracts /\ OfSaved(r.evidence)
    /\ \/ contracts[r.row] = Null \/ r.row \in entangled
       \/ LET v == contracts[r.row].validation IN v.status = r.was /\ Onward(v.evidence, r.evidence)

RowsOfSaved == \A c \in Kept(contracts) : OfSaved(contracts[c].validation.evidence)
GovernanceInv ==
  /\ RowsRefer /\ AuditsApart /\ RulesRan /\ RowsNumbered /\ RowsAgree /\ RowsOfSaved
  /\ \A t \in Thread : AuditStage(req[t]) /\ Follows(req[t]) /\ Validates(req[t])
  /\ VersionsUnique /\ AuditsHaveExecutions
  /\ Cascade => AssignmentsRequested
=============================================================================
