-------------------------- MODULE GovernanceProofs --------------------------
(***************************************************************************)
(* Proofs about Governance: its type; that the versions of a contract are  *)
(* numbered apart, that a validation says what it shows and never goes     *)
(* back, that a saved audit has its executions unless it is known why not, *)
(* and, where foreign keys are enforced, that no assignment passes on.     *)
(***************************************************************************)
EXTENDS Governance, FiniteSetTheorems, WellFoundedInduction, TLAPS

-----------------------------------------------------------------------------
(* Of naturals below a bound one is the largest.                           *)

LEMMA LeastNatural ==
  ASSUME NEW S \in SUBSET Nat, S # {}
  PROVE  \E x \in S : \A y \in S : x <= y
<1>1. IsWellFoundedOn(OpToRel(<, Nat), Nat)
  BY NatLessThanWellFounded, Zenon
<1>2. PICK x \in S : \A y \in S : ~(<<y, x>> \in OpToRel(<, Nat))
  BY <1>1, WFMin, Zenon
<1>3. \A y \in S : ~(y < x)
  BY <1>2 DEF OpToRel
<1>. QED BY <1>3

LEMMA LargestNatural ==
  ASSUME NEW n \in Nat, NEW S \in SUBSET Nat, S # {}, \A x \in S : x <= n
  PROVE  \E x \in S : \A y \in S : y <= x
<1>. DEFINE T == {n - x : x \in S}
<1>1. T \in SUBSET Nat /\ T # {}
  <2>1. \A x \in S : n - x \in Nat
    OBVIOUS
  <2>. QED BY <2>1
<1>2. PICK m \in T : \A y \in T : m <= y
  BY <1>1, LeastNatural
<1>3. PICK x \in S : m = n - x
  OBVIOUS
<1>4. ASSUME NEW y \in S PROVE y <= x
  <2>1. n - y \in T
    OBVIOUS
  <2>. QED BY <1>2, <1>3, <2>1
<1>. QED BY <1>4

-----------------------------------------------------------------------------
(* Types.                                                                  *)

\* What a request is, by what it is about to do.
LEMMA RequestKinds ==
  ASSUME NEW r \in Request
  PROVE  /\ r.pc \in {"save", "persist", "register"} => /\ r.audit \in Audit /\ r.corrects \in BOOLEAN
                                                          /\ r = [pc |-> r.pc, corrects |-> r.corrects, audit |-> r.audit]
         /\ r.pc = "insert" => r.base \in Nat /\ r.new \in ContractRow /\ r.first \in BOOLEAN /\ r.moved \in BOOLEAN
         /\ r.pc = "validate" => r.row \in Nat /\ r.source \in Nat /\ r.evidence \in Evidence
                                 /\ r.was \in {"not_validated", "passed", "failed"}
  BY DEF Request, Idle

\* A row that is kept is a row.
LEMMA RowsTyped ==
  ASSUME GovernanceTypeOK
  PROVE  /\ DOMAIN contracts = 1..Len(contracts) /\ Len(contracts) \in Nat
         /\ \A c \in Kept(contracts) : c \in DOMAIN contracts /\ contracts[c] \in ContractRow
         /\ \A r \in Kept(rule) : r \in RuleId /\ rule[r] \in RuleRow
         /\ \A d \in Kept(dataset) : d \in DatasetId /\ dataset[d] \in DatasetRow
         /\ RulesMade \in Nat /\ DatasetsMade \in Nat
         /\ \A n : RowOf(n) \subseteq Kept(dataset)
  BY DEF GovernanceTypeOK, Kept, RulesMade, DatasetsMade, RowOf

\* Versions are numbers, for a dataset has finitely many audits.
LEMMA VersionTyped ==
  ASSUME GovernanceTypeOK, AuditsApart, NEW n
  PROVE  Versions(n) \in SUBSET Nat
<1>1. Named(n) \subseteq audits /\ IsFiniteSet(audits)
  BY DEF Named, AuditsApart
<1>2. Cardinality(Named(n)) \in Nat
  BY <1>1, FS_Subset, FS_CardinalityType
<1>3. \A a \in audits : a.version \in Nat
  BY DEF GovernanceTypeOK, Audit
<1>. QED BY <1>2, <1>3 DEF Versions

LEMMA RulesTyped ==
  ASSUME GovernanceTypeOK, NEW n PROVE RulesOf(n) \in SUBSET RuleId
  BY DEF RulesOf, Kept, GovernanceTypeOK

\* The audit rows: requests on rules and audits, and on contracts.
LEMMA TypeOfRules ==
  ASSUME GovernanceTypeOK, RuleRequest
  PROVE  GovernanceTypeOK'
<1>. USE RowsTyped
<1>. USE DEF Count
<1>1. CASE CreateRule
  <2>1. PICK r \in RuleId : rule' = [rule EXCEPT ![r] = [active |-> TRUE, made |-> RulesMade + 1]]
    BY <1>1 DEF CreateRule
  <2>2. rule' \in [RuleId -> {Null} \union RuleRow] /\ made' \in Nat \X Nat
    BY <1>1, <2>1 DEF CreateRule, GovernanceTypeOK, RuleRow
  <2>. QED BY <1>1, <2>2 DEF CreateRule, GovernanceTypeOK
<1>2. ASSUME NEW r \in RuleId, NEW active \in BOOLEAN, UpdateRule(r, active) PROVE GovernanceTypeOK'
  <2>1. r \in Kept(rule) /\ rule' = [rule EXCEPT ![r] = [rule[r] EXCEPT !.active = active]]
    BY <1>2 DEF UpdateRule
  <2>2. [rule[r] EXCEPT !.active = active] \in RuleRow
    BY <2>1 DEF RuleRow
  <2>3. rule' \in [RuleId -> {Null} \union RuleRow]
    BY <2>1, <2>2 DEF GovernanceTypeOK
  <2>. QED BY <1>2, <2>3 DEF UpdateRule, histories, GovernanceTypeOK
<1>3. ASSUME NEW r \in RuleId, DeleteRule(r) PROVE GovernanceTypeOK'
  <2>1. rule' \in [RuleId -> {Null} \union RuleRow] /\ assigned' \subseteq AssignmentRow
    BY <1>3 DEF DeleteRule, Unassigned, GovernanceTypeOK
  <2>2. \A e \in executions : e \in ExecutionRow /\ [e EXCEPT !.rule = Null] \in ExecutionRow
    BY DEF GovernanceTypeOK, ExecutionRow
  <2>3. executions' \subseteq ExecutionRow
    BY <1>3, <2>2 DEF DeleteRule
  <2>. QED BY <1>3, <2>1, <2>3 DEF DeleteRule, histories, GovernanceTypeOK
<1>4. ASSUME NEW R \in SUBSET RuleId, NEW D \in SUBSET DatasetId, NEW on \in BOOLEAN, BulkAssignments(R, D, on)
      PROVE  GovernanceTypeOK'
  <2>1. assigned' \subseteq AssignmentRow
    BY <1>4 DEF BulkAssignments, Switched, AssignmentRow, GovernanceTypeOK
  <2>2. \A r \in R, d \in D : <<rule[r].made, dataset[d].made>> \in Nat \X Nat
    BY <1>4 DEF BulkAssignments, RuleRow, DatasetRow
  <2>3. asked' \subseteq Nat \X Nat
    BY <1>4, <2>2 DEF BulkAssignments, GovernanceTypeOK
  <2>. QED BY <1>4, <2>1, <2>3 DEF BulkAssignments, GovernanceTypeOK
<1>5. ASSUME NEW r \in RuleId, NEW d \in DatasetId, AssignRule(r, d) \/ UnassignRule(r, d) PROVE GovernanceTypeOK'
  <2>1. CASE AssignRule(r, d)
    BY <1>4, <2>1 DEF AssignRule
  <2>2. CASE UnassignRule(r, d)
    BY <2>2 DEF UnassignRule, histories, GovernanceTypeOK
  <2>. QED BY <1>5, <2>1, <2>2
<1>6. ASSUME NEW d \in DatasetId, DeleteDataset(d) PROVE GovernanceTypeOK'
  <2>1. dataset' \in [DatasetId -> {Null} \union DatasetRow] /\ assigned' \subseteq AssignmentRow
    BY <1>6 DEF DeleteDataset, Unassigned, GovernanceTypeOK
  <2>2. contracts' \in [1..Len(contracts) -> {Null} \union ContractRow]
    BY <1>6 DEF DeleteDataset, GovernanceTypeOK
  <2>3. contracts' \in Seq({Null} \union ContractRow)
    BY <2>2
  <2>. QED BY <1>6, <2>1, <2>3 DEF DeleteDataset, histories, GovernanceTypeOK
<1>7. ASSUME NEW d \in DatasetId, NEW n \in Dataset, RenameDataset(d, n) PROVE GovernanceTypeOK'
  <2>1. d \in Kept(dataset) /\ dataset' = [dataset EXCEPT ![d] = [dataset[d] EXCEPT !.name = n]]
    BY <1>7 DEF RenameDataset
  <2>2. [dataset[d] EXCEPT !.name = n] \in DatasetRow
    BY <2>1 DEF DatasetRow
  <2>3. dataset' \in [DatasetId -> {Null} \union DatasetRow]
    BY <2>1, <2>2 DEF GovernanceTypeOK
  <2>. QED BY <1>7, <2>3 DEF RenameDataset, histories, GovernanceTypeOK
<1>. QED BY <1>1, <1>2, <1>3, <1>4, <1>5, <1>6, <1>7 DEF RuleRequest

\* Requests of a thread begin with a request, and end without one.
LEMMA EntersTyped ==
  ASSUME GovernanceTypeOK, NEW t \in Thread, NEW r \in Request, Enter(t, r)
  PROVE  req' \in [Thread -> Request] /\ requests' \in Nat
  BY DEF Enter, Count, GovernanceTypeOK

LEMMA DoneTyped ==
  ASSUME GovernanceTypeOK, NEW t \in Thread, Done(t)
  PROVE  req' \in [Thread -> Request] /\ requests' \in Nat
  BY DEF Done, Request, GovernanceTypeOK

LEMMA GoesOn ==
  ASSUME GovernanceTypeOK, NEW t \in Thread, NEW last \in BOOLEAN, NEW pc \in {"persist", "register"},
         req[t].pc \in {"save", "persist", "register"}, GoOn(t, last, pc)
  PROVE  /\ req' \in [Thread -> Request] /\ requests' \in Nat
         /\ req'[t] = IF last THEN Idle ELSE [pc |-> pc, corrects |-> req[t].corrects, audit |-> req[t].audit]
         /\ \A u \in Thread \ {t} : req'[u] = req[u]
<1>1. req[t] = [pc |-> req[t].pc, corrects |-> req[t].corrects, audit |-> req[t].audit]
      /\ req[t].audit \in Audit /\ req[t].corrects \in BOOLEAN
  BY RequestKinds DEF GovernanceTypeOK
<1>2. [req[t] EXCEPT !.pc = pc] = [pc |-> pc, corrects |-> req[t].corrects, audit |-> req[t].audit]
  BY <1>1
<1>3. req' = [req EXCEPT ![t] = IF last THEN Idle ELSE [pc |-> pc, corrects |-> req[t].corrects, audit |-> req[t].audit]]
      /\ requests' = requests
  BY <1>2 DEF GoOn, GovernanceTypeOK
<1>. QED BY <1>1, <1>3 DEF Request, GovernanceTypeOK

\* A request that computes an audit is one to save it.
Begins(t, a) ==
  /\ \E corrects \in BOOLEAN : Enter(t, [pc |-> "save", corrects |-> corrects, audit |-> a])
  /\ a.at = clock + 1 /\ DOMAIN a.ran \subseteq Kept(rule)
  /\ clock' = clock + 1 /\ UNCHANGED <<rows, histories>>

LEMMA ComputeBegins ==
  ASSUME GovernanceTypeOK, NEW t \in Thread, NEW n \in Dataset, NEW m \in Dataset, NEW type \in ColumnType,
         NEW V \in SUBSET Nat, NEW corrects \in BOOLEAN, Compute(t, n, RulesOf(m), type, V, corrects)
  PROVE  \E a \in Audit : Begins(t, a)
<1>1. PICK v \in V, ran \in [RulesOf(m) -> {"passed", "failed"}] :
        Enter(t, [pc |-> "save", corrects |-> corrects,
                  audit |-> [at |-> clock + 1, name |-> n, version |-> v, type |-> type, ran |-> ran]])
  BY DEF Compute
<1>2. PICK a : a = [at |-> clock + 1, name |-> n, version |-> v, type |-> type, ran |-> ran]
  OBVIOUS
<1>3. ran \in Outcomes
  BY RulesTyped DEF Outcomes
<1>4. a \in Audit /\ a.at = clock + 1 /\ a.ran = ran
  BY <1>2, <1>3 DEF Audit, GovernanceTypeOK
<1>5. DOMAIN a.ran \subseteq Kept(rule)
  BY <1>4 DEF RulesOf
<1>. QED BY <1>1, <1>2, <1>4, <1>5 DEF Begins, Compute

\* So a request on audits is one of six steps.
LEMMA AuditSteps ==
  ASSUME GovernanceTypeOK, AuditsApart, NEW t \in Thread, AuditRequest(t)
  PROVE  \/ \E a \in Audit : Begins(t, a)
         \/ \E a \in audits : Revisit(t, a)
         \/ SaveAudit(t) \/ PersistExecutions(t) \/ RegisterAudit(t) \/ FailAudit(t)
<1>1. ASSUME NEW n \in Dataset, NEW type \in ColumnType, BeginAudit(t, n, type) PROVE \E a \in Audit : Begins(t, a)
  BY <1>1, VersionTyped, ComputeBegins DEF BeginAudit
<1>2. ASSUME NEW n \in Dataset, NEW type \in ColumnType, BeginCorrection(t, n, type) PROVE \E a \in Audit : Begins(t, a)
  <2>1. Cleaned[n] \in Dataset /\ {0} \in SUBSET Nat
    BY <1>2, GovernanceAssumption DEF BeginCorrection
  <2>. QED BY <1>2, <2>1, ComputeBegins DEF BeginCorrection
<1>. QED BY <1>1, <1>2 DEF AuditRequest

LEMMA TypeOfAudits ==
  ASSUME GovernanceTypeOK, AuditsApart, NEW t \in Thread, AuditRequest(t)
  PROVE  GovernanceTypeOK'
<1>. USE RowsTyped
<1>1. ASSUME NEW a \in Audit, Begins(t, a) PROVE GovernanceTypeOK'
  <2>1. PICK r \in Request : Enter(t, r)
    BY <1>1 DEF Begins, Request
  <2>2. req' \in [Thread -> Request] /\ requests' \in Nat
    BY <2>1, EntersTyped
  <2>. QED BY <1>1, <2>2 DEF Begins, rows, histories, GovernanceTypeOK
<1>2. ASSUME NEW a \in audits, Revisit(t, a) PROVE GovernanceTypeOK'
  <2>1. PICK r \in Request : Enter(t, r)
    BY <1>2 DEF Revisit, Request, GovernanceTypeOK
  <2>2. req' \in [Thread -> Request] /\ requests' \in Nat
    BY <2>1, EntersTyped
  <2>. QED BY <1>2, <2>2 DEF Revisit, rows, histories, GovernanceTypeOK
<1>3. CASE SaveAudit(t)
  <2>1. req[t].audit \in Audit
    BY <1>3, RequestKinds DEF SaveAudit, GovernanceTypeOK
  <2>2. req' \in [Thread -> Request] /\ requests' \in Nat
    BY <1>3, GoesOn DEF SaveAudit
  <2>. QED BY <1>3, <2>1, <2>2 DEF SaveAudit, GovernanceTypeOK, histories
<1>4. CASE PersistExecutions(t)
  <2>1. req[t].audit \in Audit /\ req[t].corrects \in BOOLEAN
    BY <1>4, RequestKinds DEF PersistExecutions, GovernanceTypeOK
  <2>2. req' \in [Thread -> Request] /\ requests' \in Nat
    BY <1>4, <2>1, GoesOn, DoneTyped DEF PersistExecutions
  <2>3. DOMAIN req[t].audit.ran \subseteq RuleId /\ req[t].audit.at \in Nat
    BY <2>1 DEF Audit, Outcomes
  <2>4. executions' \subseteq ExecutionRow
    BY <1>4, <2>3 DEF PersistExecutions, Persisted, ExecutionRow, GovernanceTypeOK
  <2>. QED BY <1>4, <2>2, <2>4 DEF PersistExecutions, GovernanceTypeOK, histories
<1>5. CASE RegisterAudit(t)
  <2>1. req[t].audit \in Audit /\ req[t].corrects \in BOOLEAN
    BY <1>5, RequestKinds DEF RegisterAudit, GovernanceTypeOK
  <2>2. req[t].audit.at \in Nat /\ req[t].audit.name \in Dataset
    BY <2>1 DEF Audit
  <2>3. dataset' \in [DatasetId -> {Null} \union DatasetRow] /\ made' \in Nat \X Nat
    <3>1. ASSUME NEW d \in RowOf(req[t].audit.name), dataset' = [dataset EXCEPT ![d].latest = req[t].audit.at], UNCHANGED made
          PROVE  dataset' \in [DatasetId -> {Null} \union DatasetRow] /\ made' \in Nat \X Nat
      <4>1. d \in DatasetId /\ [dataset[d] EXCEPT !.latest = req[t].audit.at] \in DatasetRow
        BY <2>2 DEF DatasetRow
      <4>2. dataset' = [dataset EXCEPT ![d] = [dataset[d] EXCEPT !.latest = req[t].audit.at]]
        BY <3>1
      <4>. QED BY <3>1, <4>1, <4>2 DEF GovernanceTypeOK
    <3>2. ASSUME NEW d \in DatasetId,
                 dataset' = [dataset EXCEPT ![d] = [name |-> req[t].audit.name, latest |-> req[t].audit.at, made |-> DatasetsMade + 1]],
                 made' = <<RulesMade, DatasetsMade + 1>>
          PROVE  dataset' \in [DatasetId -> {Null} \union DatasetRow] /\ made' \in Nat \X Nat
      <4>1. [name |-> req[t].audit.name, latest |-> req[t].audit.at, made |-> DatasetsMade + 1] \in DatasetRow
        BY <2>2 DEF DatasetRow
      <4>. QED BY <3>2, <4>1 DEF GovernanceTypeOK
    <3>. QED BY <1>5, <3>1, <3>2 DEF RegisterAudit
  <2>4. req' \in [Thread -> Request] /\ requests' \in Nat
    BY <1>5, <2>1, GoesOn DEF RegisterAudit
  <2>. QED BY <1>5, <2>3, <2>4 DEF RegisterAudit, GovernanceTypeOK
<1>6. CASE FailAudit(t)
  <2>1. req[t].audit.at \in Nat
    BY <1>6, RequestKinds DEF FailAudit, GovernanceTypeOK, Audit
  <2>2. cut' \subseteq Nat
    BY <1>6, <2>1 DEF FailAudit, GovernanceTypeOK
  <2>. QED BY <1>6, <2>2, DoneTyped DEF FailAudit, rows, GovernanceTypeOK
<1>. QED BY <1>1, <1>2, <1>3, <1>4, <1>5, <1>6, AuditSteps

-----------------------------------------------------------------------------
(* Rows of contracts.                                                      *)

\* Of rows there is a newest one.
LEMMA NewestIs ==
  ASSUME GovernanceTypeOK, RowsNumbered, NEW C \in SUBSET Kept(contracts), C # {}
  PROVE  /\ Newest(C) \in C
         /\ \A b \in C : \/ contracts[b].version < contracts[Newest(C)].version
                       \/ (contracts[b].version = contracts[Newest(C)].version /\ b <= Newest(C))
<1>1. PICK n \in Nat : n = Len(contracts)
  BY RowsTyped
<1>2. \A c \in C : c \in Nat /\ c <= n /\ contracts[c].version \in Nat /\ contracts[c].version <= n
  <2>1. ASSUME NEW c \in C PROVE c \in Nat /\ c <= n /\ contracts[c].version \in Nat /\ contracts[c].version <= n
    <3>1. c \in 1..n /\ contracts[c] \in ContractRow /\ contracts[c].version <= c
      BY <1>1, RowsTyped DEF RowsNumbered
    <3>2. contracts[c].version \in Nat
      BY <3>1 DEF ContractRow
    <3>. QED BY <3>1, <3>2
  <2>. QED BY <2>1
<1>3. PICK V \in SUBSET Nat : V = {contracts[c].version : c \in C}
  BY <1>2
<1>4. V # {} /\ \A v \in V : v <= n
  <2>1. PICK c \in C : TRUE
    OBVIOUS
  <2>. QED BY <1>2, <1>3, <2>1
<1>5. PICK v \in V : \A w \in V : w <= v
  BY <1>4, LargestNatural
<1>6. PICK D \in SUBSET Nat : D = {c \in C : contracts[c].version = v}
  <2>1. {c \in C : contracts[c].version = v} \subseteq Nat
    BY <1>2
  <2>. QED BY <2>1
<1>7. D # {} /\ \A c \in D : c <= n
  <2>1. PICK c \in C : contracts[c].version = v
    BY <1>3
  <2>. QED BY <1>2, <1>6, <2>1
<1>8. PICK d \in D : \A c \in D : c <= d
  BY <1>7, LargestNatural
<1>9. ASSUME NEW b \in C
      PROVE  contracts[b].version < contracts[d].version \/ (contracts[b].version = contracts[d].version /\ b <= d)
  <2>1. contracts[d].version = v /\ contracts[b].version \in V /\ contracts[b].version <= v /\ v \in Nat
    BY <1>3, <1>5, <1>6
  <2>2. CASE contracts[b].version = v
    BY <1>6, <1>8, <2>1, <2>2
  <2>3. CASE contracts[b].version # v
    BY <1>2, <2>1, <2>3
  <2>. QED BY <2>2, <2>3
<1>10. d \in C
  BY <1>6
<1>. QED BY <1>9, <1>10 DEF Newest

LEMMA ExistingIs ==
  ASSUME GovernanceTypeOK, RowsNumbered, NEW d
  PROVE  /\ OfDataset(d) = {} => Existing(d) = 0
         /\ OfDataset(d) # {} => Existing(d) # 0 /\ Existing(d) \in Kept(contracts) /\ contracts[Existing(d)].dataset = d
<1>1. CASE OfDataset(d) # {}
  <2>1. Newest(OfDataset(d)) \in OfDataset(d)
    BY <1>1, NewestIs DEF OfDataset
  <2>. QED BY <1>1, <2>1, RowsTyped DEF Existing, OfDataset
<1>. QED BY <1>1 DEF Existing

LEMMA NewRowTyped ==
  ASSUME GovernanceTypeOK, NEW base \in {0} \union Kept(contracts), NEW d \in DatasetId, NEW status \in ContractStatus,
         NEW content \in Rules, NEW source \in Nat, NEW validation \in Validation
  PROVE  NewRow(base, d, status, content, source, validation) \in ContractRow
<1>1. CASE base = 0
  BY <1>1 DEF NewRow, VersionAfter, ContractRow
<1>2. CASE base # 0
  <2>1. contracts[base].key \in Nat /\ contracts[base].version \in Nat
    BY <1>2, RowsTyped DEF ContractRow
  <2>. QED BY <1>2, <2>1 DEF NewRow, VersionAfter, ContractRow
<1>. QED BY <1>1, <1>2

\* What the four operations that add a row have in common.
Writes(t) ==
  \E base \in {0} \union Kept(contracts), d \in DatasetId, status \in ContractStatus, content \in Rules,
     source \in Nat, validation \in Validation :
    /\ Follow(t, base, NewRow(base, d, status, content, source, validation))
    /\ base = 0 => OfDataset(d) = {} /\ validation = NotValidated
    /\ \/ validation = NotValidated
       \/ base # 0 /\ d = contracts[base].dataset /\ validation = contracts[base].validation
    /\ UNCHANGED <<rows, clock, histories>>

LEMMA CreateWrites ==
  ASSUME GovernanceTypeOK, RowsNumbered, NEW t \in Thread, NEW d \in DatasetId,
         GenerateContract(t, d) \/ \E content \in Content : CreateContract(t, d, "draft", content)
  PROVE  Writes(t)
<1>1. NotValidated \in Validation /\ "draft" \in ContractStatus /\ Content \subseteq Rules
  BY GovernanceAssumption DEF NotValidated, Validation, ContractStatus, Rules, ColumnType, RuleId
<1>2. Existing(d) \in {0} \union Kept(contracts) /\ (Existing(d) = 0 => OfDataset(d) = {})
  BY ExistingIs
<1>3. ASSUME NEW content \in Content, CreateContract(t, d, "draft", content) PROVE Writes(t)
  <2>1. dataset[d].latest \in Nat /\ content \in Rules
    BY <1>1, <1>3, RowsTyped DEF CreateContract, DatasetRow
  <2>. QED BY <1>1, <1>2, <1>3, <2>1 DEF CreateContract, Writes
<1>4. CASE GenerateContract(t, d)
  <2>1. PICK a \in audits : Follow(t, Existing(d), NewRow(Existing(d), d, "draft",
                  [type |-> a.type, rules |-> RulesOf(dataset[d].name)], a.at, NotValidated))
    BY <1>4 DEF GenerateContract
  <2>2. a.at \in Nat /\ a.type \in ColumnType
    BY DEF GovernanceTypeOK, Audit
  <2>3. [type |-> a.type, rules |-> RulesOf(dataset[d].name)] \in Rules
    BY <2>2, RulesTyped DEF Rules
  <2>. QED BY <1>1, <1>2, <1>4, <2>1, <2>2, <2>3 DEF GenerateContract, Writes
<1>. QED BY <1>3, <1>4

LEMMA UpdateWrites ==
  ASSUME GovernanceTypeOK, NEW t \in Thread, NEW c \in DOMAIN contracts, NEW d \in DatasetId, NEW content \in Content,
         UpdateContract(t, c, d, "published", content)
  PROVE  Writes(t)
<1>1. NotValidated \in Validation /\ "published" \in ContractStatus /\ content \in Rules
  BY GovernanceAssumption DEF NotValidated, Validation, ContractStatus, Rules, ColumnType, RuleId
<1>2. dataset[d].latest \in Nat /\ c \in Kept(contracts) /\ c # 0
  BY RowsTyped DEF UpdateContract, DatasetRow
<1>. QED BY <1>1, <1>2 DEF UpdateContract, Writes

LEMMA TransitionWrites ==
  ASSUME GovernanceTypeOK, NEW t \in Thread, NEW c \in DOMAIN contracts, NEW status \in ContractStatus,
         TransitionContract(t, c, status)
  PROVE  Writes(t)
<1>1. PICK b \in ContractRow : b = contracts[c]
  BY RowsTyped DEF TransitionContract
<1>2. c \in Kept(contracts) /\ c # 0
  BY RowsTyped DEF TransitionContract
<1>3. b.dataset \in DatasetId /\ b.content \in Rules /\ b.source \in Nat /\ b.validation \in Validation
  BY DEF ContractRow
<1>4. Follow(t, c, NewRow(c, b.dataset, status, b.content, b.source, b.validation)) /\ UNCHANGED <<rows, clock, histories>>
  BY <1>1 DEF TransitionContract
<1>. QED BY <1>1, <1>2, <1>3, <1>4 DEF Writes

\* So a request on contracts is one of four steps.
LEMMA ContractSteps ==
  ASSUME GovernanceTypeOK, RowsNumbered, NEW t \in Thread, ContractRequest(t)
  PROVE  \/ Writes(t)
         \/ \E c \in DOMAIN contracts : BeginValidation(t, c)
         \/ InsertContract(t) \/ WriteValidation(t)
<1>1. CASE \E d \in DatasetId : GenerateContract(t, d)
  BY <1>1, CreateWrites
<1>2. CASE \E d \in DatasetId, content \in Content : CreateContract(t, d, "draft", content)
  BY <1>2, CreateWrites
<1>3. CASE \E c \in DOMAIN contracts, d \in DatasetId, content \in Content : UpdateContract(t, c, d, "published", content)
  BY <1>3, UpdateWrites
<1>4. CASE \E c \in DOMAIN contracts, status \in ContractStatus : TransitionContract(t, c, status)
  BY <1>4, TransitionWrites
<1>. QED BY <1>1, <1>2, <1>3, <1>4 DEF ContractRequest

\* A validation writes the row it has read, if that is there still: its status, its
\* evidence and its source, and nothing else.
Rewritten(q) ==
  /\ q.row \in Kept(contracts) /\ contracts'[q.row] \in ContractRow
  /\ contracts'[q.row].validation = [status |-> Written(q, contracts[q.row].validation.status), evidence |-> q.evidence]
  /\ contracts'[q.row].key = contracts[q.row].key /\ contracts'[q.row].version = contracts[q.row].version
  /\ contracts'[q.row].dataset = contracts[q.row].dataset
  /\ DOMAIN contracts' = DOMAIN contracts /\ \A c \in DOMAIN contracts \ {q.row} : contracts'[c] = contracts[c]

LEMMA WriteRewrites ==
  ASSUME GovernanceTypeOK, NEW t \in Thread, Validates(req[t]), WriteValidation(t)
  PROVE  UNCHANGED <<contracts, entangled>> \/ Rewritten(req[t])
<1>1. PICK q : q = req[t]
  OBVIOUS
<1>2. q.pc = "validate" /\ q.row \in DOMAIN contracts /\ q.source \in Nat /\ q.evidence \in Evidence
      /\ q.was \in {"not_validated", "passed", "failed"}
  BY <1>1, RequestKinds DEF WriteValidation, Validates, GovernanceTypeOK
<1>3. SUFFICES ASSUME contracts[q.row] # Null PROVE Rewritten(q)
  BY <1>1 DEF WriteValidation
<1>4. PICK old \in ContractRow : old = contracts[q.row]
  BY <1>2, <1>3, RowsTyped DEF Kept
<1>5. PICK status, source : /\ status = Written(q, old.validation.status)
                           /\ source = IF q.evidence.audit.at = q.source THEN old.source ELSE q.evidence.audit.at
  OBVIOUS
<1>6. PICK v : v = [status |-> status, evidence |-> q.evidence]
  OBVIOUS
<1>7. status \in {"not_validated", "passed", "failed"} /\ source \in Nat /\ v \in Validation
  <2>1. old.validation \in Validation /\ old.source \in Nat
    BY DEF ContractRow
  <2>2. old.validation.status \in {"not_validated", "passed", "failed"} /\ q.evidence.audit.at \in Nat
    BY <1>2, <2>1 DEF Validation, Evidence, Audit
  <2>3. status \in {"not_validated", "passed", "failed"} /\ source \in Nat
    BY <1>5, <2>1, <2>2 DEF Written, StatusOf
  <2>. QED BY <1>2, <1>6, <2>3 DEF Validation
<1>8. PICK new : new = [old EXCEPT !.validation = v, !.source = source]
  OBVIOUS
<1>9. /\ new \in ContractRow /\ new.validation = v
      /\ new.key = old.key /\ new.version = old.version /\ new.dataset = old.dataset
  BY <1>7, <1>8 DEF ContractRow
<1>10. contracts' = [contracts EXCEPT ![q.row] = new]
  <2>1. contracts' = [contracts EXCEPT
             ![q.row].validation = [status |-> Written(q, @.status), evidence |-> q.evidence],
             ![q.row].source = IF q.evidence.audit.at = q.source THEN @ ELSE q.evidence.audit.at]
    BY <1>1, <1>3 DEF WriteValidation
  <2>. QED BY <1>2, <1>4, <1>5, <1>6, <1>8, <2>1, RowsTyped DEF GovernanceTypeOK
<1>. QED BY <1>2, <1>3, <1>4, <1>5, <1>6, <1>9, <1>10, RowsTyped DEF Rewritten, Kept

LEMMA TypeOfContracts ==
  ASSUME GovernanceTypeOK, RowsNumbered, NEW t \in Thread, Validates(req[t]), ContractRequest(t)
  PROVE  GovernanceTypeOK'
<1>. USE RowsTyped
<1>1. CASE Writes(t)
  <2>1. PICK base \in {0} \union Kept(contracts), d \in DatasetId, status \in ContractStatus, content \in Rules,
             source \in Nat, validation \in Validation :
          /\ Follow(t, base, NewRow(base, d, status, content, source, validation))
          /\ UNCHANGED <<rows, clock, histories>>
    BY <1>1 DEF Writes
  <2>2. PICK n \in ContractRow : n = NewRow(base, d, status, content, source, validation)
    BY NewRowTyped
  <2>3. PICK first \in BOOLEAN, moved \in BOOLEAN :
          Enter(t, [pc |-> "insert", base |-> base, new |-> n, first |-> first, moved |-> moved])
    BY <2>1, <2>2 DEF Follow
  <2>4. [pc |-> "insert", base |-> base, new |-> n, first |-> first, moved |-> moved] \in Request
    BY DEF Request
  <2>5. req' \in [Thread -> Request] /\ requests' \in Nat
    BY <2>3, <2>4, EntersTyped
  <2>. QED BY <2>1, <2>5 DEF rows, histories, GovernanceTypeOK
<1>2. ASSUME NEW c \in DOMAIN contracts, BeginValidation(t, c) PROVE GovernanceTypeOK'
  <2>1. c \in Kept(contracts) /\ contracts[c] \in ContractRow /\ c \in Nat
    BY <1>2 DEF BeginValidation
  <2>2. PICK a \in AuditToValidate(c) :
          Enter(t, [pc |-> "validate", row |-> c, was |-> contracts[c].validation.status, source |-> contracts[c].source,
                    evidence |-> [audit |-> a, passed |-> Satisfies(a, contracts[c].content)]])
    BY <1>2 DEF BeginValidation
  <2>3. a \in Audit
    BY DEF AuditToValidate, Named, GovernanceTypeOK
  <2>4. [audit |-> a, passed |-> Satisfies(a, contracts[c].content)] \in Evidence
    BY <2>3 DEF Evidence, Satisfies, GovernanceTypeOK
  <2>5. contracts[c].validation.status \in {"not_validated", "passed", "failed"} /\ contracts[c].source \in Nat
    BY <2>1 DEF ContractRow, Validation
  <2>6. PICK e \in Evidence, was \in {"not_validated", "passed", "failed"}, source \in Nat :
          Enter(t, [pc |-> "validate", row |-> c, was |-> was, source |-> source, evidence |-> e])
    BY <2>2, <2>4, <2>5
  <2>7. [pc |-> "validate", row |-> c, was |-> was, source |-> source, evidence |-> e] \in Request
    BY <2>1 DEF Request
  <2>8. req' \in [Thread -> Request] /\ requests' \in Nat
    BY <2>6, <2>7, EntersTyped
  <2>. QED BY <1>2, <2>8 DEF BeginValidation, rows, histories, GovernanceTypeOK
<1>3. CASE InsertContract(t)
  <2>1. req[t].base \in Nat /\ req[t].new \in ContractRow
    BY <1>3, RequestKinds DEF InsertContract, GovernanceTypeOK
  <2>2. PICK id \in Nat, old \in ContractRow : id = Len(contracts) + 1 /\ old = req[t].new
    BY <2>1
  <2>3. PICK n : n = [old EXCEPT !.key = IF req[t].base = 0 THEN id ELSE @]
    OBVIOUS
  <2>4. n \in ContractRow /\ n.key \in Nat /\ n.dataset \in DatasetId
    BY <2>2, <2>3 DEF ContractRow
  <2>5. /\ contracts' = Append(contracts, n) \/ contracts' = contracts
        /\ branched' \in {branched, branched \union {n.key}} /\ forked' \in {forked, forked \union {n.dataset}}
    BY <1>3, <2>2, <2>3 DEF InsertContract
  <2>6. contracts' \in Seq({Null} \union ContractRow)
    <3>1. PICK S : S = {Null} \union ContractRow
      OBVIOUS
    <3>2. contracts \in Seq(S) /\ n \in S
      BY <2>4, <3>1 DEF GovernanceTypeOK
    <3>3. Append(contracts, n) \in Seq(S)
      BY <3>2
    <3>. QED BY <2>5, <3>1, <3>2, <3>3
  <2>. QED BY <1>3, <2>5, <2>6, <2>4, DoneTyped DEF InsertContract, GovernanceTypeOK
<1>4. CASE WriteValidation(t)
  <2>1. PICK q : q = req[t]
    OBVIOUS
  <2>2. q.row \in Nat /\ entangled' \subseteq Nat
    BY <1>4, <2>1, RequestKinds DEF WriteValidation, GovernanceTypeOK
  <2>3. contracts' \in Seq({Null} \union ContractRow)
    <3>1. CASE UNCHANGED contracts
      BY <3>1 DEF GovernanceTypeOK
    <3>2. CASE Rewritten(q)
      <4>1. contracts' \in [1..Len(contracts) -> {Null} \union ContractRow]
        <5>1. \A c \in 1..Len(contracts) : contracts'[c] \in {Null} \union ContractRow
          BY <3>2 DEF Rewritten, GovernanceTypeOK
        <5>2. contracts' = [c \in DOMAIN contracts |-> contracts'[c]]
          BY <1>4, <2>1, <3>2 DEF WriteValidation, Rewritten, GovernanceTypeOK
        <5>. QED BY <5>1, <5>2
      <4>. QED BY <4>1
    <3>. QED BY <1>4, <2>1, <3>1, <3>2, WriteRewrites
  <2>. QED BY <1>4, <2>2, <2>3, DoneTyped DEF WriteValidation, GovernanceTypeOK
<1>. QED BY <1>1, <1>2, <1>3, <1>4, ContractSteps

-----------------------------------------------------------------------------
(* Assignments.                                                            *)

\* What audits and contracts do is of no concern to assignments.
LEMMA ReferStays ==
  ASSUME UNCHANGED <<rule, dataset, assigned, made, asked>>, RowsRefer, Cascade => AssignmentsRequested
  PROVE  RowsRefer' /\ (Cascade => AssignmentsRequested')
  BY DEF RowsRefer, AssignmentsRequested, Kept, RulesMade, DatasetsMade

LEMMA ContractsApart ==
  ASSUME GovernanceTypeOK, RowsNumbered, NEW t \in Thread, ContractRequest(t)
  PROVE  UNCHANGED <<rule, dataset, assigned, audits, executions, made, asked, clock, cut>>
<1>1. CASE Writes(t)
  BY <1>1 DEF Writes, rows, histories
<1>2. CASE \E c \in DOMAIN contracts : BeginValidation(t, c)
  BY <1>2 DEF BeginValidation, rows, histories
<1>3. CASE InsertContract(t) \/ WriteValidation(t)
  BY <1>3 DEF InsertContract, WriteValidation
<1>. QED BY <1>1, <1>2, <1>3, ContractSteps

LEMMA ReferStep ==
  ASSUME GovernanceTypeOK, RowsNumbered, RowsRefer, Cascade => AssignmentsRequested, Next
  PROVE  RowsRefer' /\ (Cascade => AssignmentsRequested')
<1>1. SUFFICES ASSUME Cascade PROVE RowsRefer' /\ AssignmentsRequested'
  BY DEF RowsRefer
<1>2. /\ \A a \in assigned : a.rule \in Kept(rule) /\ a.dataset \in Kept(dataset)
      /\ \A r \in Kept(rule) : r <= RulesMade
      /\ \A d \in Kept(dataset) : d <= DatasetsMade
      /\ \A a \in assigned : <<rule[a.rule].made, dataset[a.dataset].made>> \in asked
  BY <1>1 DEF RowsRefer, AssignmentsRequested
<1>3. /\ \A r \in Kept(rule) : r \in RuleId /\ rule[r] \in RuleRow
      /\ \A d \in Kept(dataset) : d \in DatasetId /\ dataset[d] \in DatasetRow
      /\ RulesMade \in Nat /\ DatasetsMade \in Nat
  BY RowsTyped
<1>4. CASE CreateRule
  <2>1. PICK r \in RuleId : /\ r = RulesMade + 1
                            /\ rule' = [rule EXCEPT ![r] = [active |-> TRUE, made |-> RulesMade + 1]]
    BY <1>1, <1>4 DEF CreateRule, NewId
  <2>2. RulesMade' = RulesMade + 1 /\ DatasetsMade' = DatasetsMade /\ UNCHANGED <<assigned, dataset, asked>>
    BY <1>4 DEF CreateRule, RulesMade, DatasetsMade
  <2>3. \A q \in Kept(rule) : q # r /\ rule'[q] = rule[q]
    BY <1>2, <1>3, <2>1 DEF GovernanceTypeOK
  <2>4. Kept(rule)' \subseteq Kept(rule) \union {r} /\ Kept(rule) \subseteq Kept(rule)'
    BY <2>1, <2>3 DEF Kept, GovernanceTypeOK
  <2>5. \A q \in Kept(rule)' : q <= RulesMade'
    BY <1>2, <1>3, <2>1, <2>2, <2>4 DEF RuleId
  <2>6. Kept(dataset)' = Kept(dataset)
    BY <2>2 DEF Kept
  <2>7. \A a \in assigned : rule'[a.rule] = rule[a.rule]
    BY <1>2, <2>3
  <2>. QED BY <1>2, <2>2, <2>4, <2>5, <2>6, <2>7 DEF RowsRefer, AssignmentsRequested
<1>5. ASSUME NEW r \in RuleId, NEW active \in BOOLEAN, UpdateRule(r, active) PROVE RowsRefer' /\ AssignmentsRequested'
  <2>1. r \in Kept(rule) /\ rule' = [rule EXCEPT ![r] = [rule[r] EXCEPT !.active = active]]
    BY <1>5 DEF UpdateRule
  <2>2. [rule[r] EXCEPT !.active = active] \in RuleRow /\ [rule[r] EXCEPT !.active = active].made = rule[r].made
    BY <1>3, <2>1 DEF RuleRow
  <2>3. Kept(rule)' = Kept(rule) /\ \A q \in Kept(rule) : rule'[q].made = rule[q].made
    BY <2>1, <2>2, NullAssumption DEF Kept, GovernanceTypeOK
  <2>4. UNCHANGED <<dataset, assigned, asked, made>>
    BY <1>5 DEF UpdateRule, histories
  <2>. QED BY <1>2, <2>3, <2>4 DEF RowsRefer, AssignmentsRequested, RulesMade, DatasetsMade, Kept
<1>6. ASSUME NEW r \in RuleId, DeleteRule(r) PROVE RowsRefer' /\ AssignmentsRequested'
  <2>1. rule' = [rule EXCEPT ![r] = Null] /\ assigned' = {a \in assigned : a.rule # r} /\ UNCHANGED <<dataset, made, asked>>
    BY <1>1, <1>6 DEF DeleteRule, Unassigned, histories
  <2>2. Kept(rule)' = Kept(rule) \ {r} /\ \A q \in Kept(rule)' : rule'[q] = rule[q]
    BY <2>1 DEF Kept, GovernanceTypeOK
  <2>. QED BY <1>2, <2>1, <2>2 DEF RowsRefer, AssignmentsRequested, RulesMade, DatasetsMade, Kept
<1>7. ASSUME NEW R \in SUBSET RuleId, NEW D \in SUBSET DatasetId, NEW on \in BOOLEAN, BulkAssignments(R, D, on)
      PROVE  RowsRefer' /\ AssignmentsRequested'
  <2>1. R \subseteq Kept(rule) /\ D \subseteq Kept(dataset) /\ UNCHANGED <<rule, dataset, made>>
    BY <1>7 DEF BulkAssignments
  <2>2. ASSUME NEW a \in assigned'
        PROVE  a.rule \in Kept(rule) /\ a.dataset \in Kept(dataset) /\ <<rule[a.rule].made, dataset[a.dataset].made>> \in asked'
    <3>1. CASE a \in assigned
      BY <1>2, <1>7, <3>1 DEF BulkAssignments
    <3>2. CASE a \notin assigned
      <4>1. PICK r \in R, d \in D : /\ a = [rule |-> r, dataset |-> d, active |-> on]
                                    /\ on \/ \E b \in assigned : b.rule = r /\ b.dataset = d
        BY <1>7, <2>2, <3>2 DEF BulkAssignments, Switched
      <4>2. CASE on
        BY <1>7, <2>1, <4>1, <4>2 DEF BulkAssignments
      <4>3. CASE ~on
        <5>1. PICK b \in assigned : b.rule = r /\ b.dataset = d
          BY <4>1, <4>3
        <5>. QED BY <1>2, <1>7, <2>1, <4>1, <5>1 DEF BulkAssignments
      <4>. QED BY <4>2, <4>3
    <3>. QED BY <3>1, <3>2
  <2>. QED BY <1>2, <2>1, <2>2 DEF RowsRefer, AssignmentsRequested, RulesMade, DatasetsMade, Kept
<1>8. ASSUME NEW r \in RuleId, NEW d \in DatasetId, AssignRule(r, d) \/ UnassignRule(r, d)
      PROVE  RowsRefer' /\ AssignmentsRequested'
  <2>1. CASE AssignRule(r, d)
    BY <1>7, <2>1 DEF AssignRule
  <2>2. CASE UnassignRule(r, d)
    BY <1>2, <2>2 DEF UnassignRule, histories, RowsRefer, AssignmentsRequested, RulesMade, DatasetsMade, Kept
  <2>. QED BY <1>8, <2>1, <2>2
<1>9. ASSUME NEW d \in DatasetId, DeleteDataset(d) PROVE RowsRefer' /\ AssignmentsRequested'
  <2>1. dataset' = [dataset EXCEPT ![d] = Null] /\ assigned' = {a \in assigned : a.dataset # d} /\ UNCHANGED <<rule, made, asked>>
    BY <1>1, <1>9 DEF DeleteDataset, Unassigned, histories
  <2>2. Kept(dataset)' = Kept(dataset) \ {d} /\ \A e \in Kept(dataset)' : dataset'[e] = dataset[e]
    BY <2>1 DEF Kept, GovernanceTypeOK
  <2>. QED BY <1>2, <2>1, <2>2 DEF RowsRefer, AssignmentsRequested, RulesMade, DatasetsMade, Kept
<1>10. ASSUME NEW t \in Thread, RegisterAudit(t) PROVE RowsRefer' /\ AssignmentsRequested'
  <2>1. UNCHANGED <<rule, assigned, asked>> /\ RulesMade' = RulesMade
    BY <1>10 DEF RegisterAudit, RulesMade
  <2>2. ASSUME NEW d \in RowOf(req[t].audit.name), dataset' = [dataset EXCEPT ![d].latest = req[t].audit.at], UNCHANGED made
        PROVE  RowsRefer' /\ AssignmentsRequested'
    <3>1. d \in Kept(dataset) /\ dataset' = [dataset EXCEPT ![d] = [dataset[d] EXCEPT !.latest = req[t].audit.at]]
      BY <2>2, RowsTyped
    <3>2. [dataset[d] EXCEPT !.latest = req[t].audit.at] # Null /\ [dataset[d] EXCEPT !.latest = req[t].audit.at].made = dataset[d].made
      <4>1. req[t].audit.at \in Nat
        BY <1>10, RequestKinds DEF RegisterAudit, GovernanceTypeOK, Audit
      <4>2. [dataset[d] EXCEPT !.latest = req[t].audit.at] \in DatasetRow
        BY <1>3, <3>1, <4>1 DEF DatasetRow
      <4>. QED BY <1>3, <3>1, <4>2, NullAssumption DEF DatasetRow
    <3>3. Kept(dataset)' = Kept(dataset) /\ \A e \in Kept(dataset) : dataset'[e].made = dataset[e].made
      BY <3>1, <3>2 DEF Kept, GovernanceTypeOK
    <3>. QED BY <1>2, <2>1, <2>2, <3>3 DEF RowsRefer, AssignmentsRequested, RulesMade, DatasetsMade, Kept
  <2>3. ASSUME NEW d \in DatasetId, d = DatasetsMade + 1,
               dataset' = [dataset EXCEPT ![d] = [name |-> req[t].audit.name, latest |-> req[t].audit.at, made |-> DatasetsMade + 1]],
               made' = <<RulesMade, DatasetsMade + 1>>
        PROVE  RowsRefer' /\ AssignmentsRequested'
    <3>1. \A e \in Kept(dataset) : e # d /\ dataset'[e] = dataset[e]
      BY <1>2, <1>3, <2>3 DEF GovernanceTypeOK
    <3>2. Kept(dataset)' \subseteq Kept(dataset) \union {d} /\ Kept(dataset) \subseteq Kept(dataset)'
      BY <2>3, <3>1 DEF Kept, GovernanceTypeOK
    <3>3. DatasetsMade' = DatasetsMade + 1
      BY <2>3 DEF DatasetsMade
    <3>4. \A e \in Kept(dataset)' : e <= DatasetsMade'
      BY <1>2, <1>3, <2>3, <3>2, <3>3 DEF DatasetId
    <3>5. \A a \in assigned : dataset'[a.dataset] = dataset[a.dataset]
      BY <1>2, <3>1
    <3>6. Kept(rule)' = Kept(rule)
      BY <2>1 DEF Kept
    <3>. QED BY <1>2, <2>1, <3>2, <3>4, <3>5, <3>6 DEF RowsRefer, AssignmentsRequested
  <2>. QED BY <1>1, <1>10, <2>2, <2>3 DEF RegisterAudit, NewId
<1>11. ASSUME NEW t \in Thread, AuditRequest(t), ~RegisterAudit(t) PROVE RowsRefer' /\ AssignmentsRequested'
  <2>1. UNCHANGED <<rule, dataset, assigned, made, asked>>
    BY <1>11 DEF AuditRequest, BeginAudit, BeginCorrection, Compute, Revisit, SaveAudit, PersistExecutions, FailAudit, rows, histories
  <2>. QED BY <1>1, <2>1, ReferStays
<1>12. ASSUME NEW t \in Thread, ContractRequest(t) PROVE RowsRefer' /\ AssignmentsRequested'
  BY <1>1, <1>12, ContractsApart, ReferStays
<1>13. ASSUME NEW d \in DatasetId, NEW n \in Dataset, RenameDataset(d, n) PROVE RowsRefer' /\ AssignmentsRequested'
  <2>1. d \in Kept(dataset) /\ dataset' = [dataset EXCEPT ![d] = [dataset[d] EXCEPT !.name = n]]
        /\ UNCHANGED <<rule, assigned, made, asked>>
    BY <1>13 DEF RenameDataset, histories
  <2>2. [dataset[d] EXCEPT !.name = n] \in DatasetRow /\ [dataset[d] EXCEPT !.name = n].made = dataset[d].made
    BY <1>3, <2>1 DEF DatasetRow
  <2>3. Kept(dataset)' = Kept(dataset) /\ \A e \in Kept(dataset) : dataset'[e].made = dataset[e].made
    BY <2>1, <2>2, NullAssumption DEF Kept, GovernanceTypeOK
  <2>. QED BY <1>2, <2>1, <2>3 DEF RowsRefer, AssignmentsRequested, RulesMade, DatasetsMade, Kept
<1>. QED BY <1>4, <1>5, <1>6, <1>7, <1>8, <1>9, <1>10, <1>11, <1>12, <1>13 DEF Next, RuleRequest

-----------------------------------------------------------------------------
(* Audits and their executions.                                            *)

AuditPart ==
  AuditsApart /\ RulesRan /\ AuditsHaveExecutions /\ \A t \in Thread : AuditStage(req[t])
AtAudit == {"save", "persist", "register"}

\* A request that changes is not one to save, and was on no audit, has persisted its
\* executions or is to persist them still, or is known to have failed.
Leaves(t) ==
  \/ req'[t] = req[t]
  \/ /\ req'[t].pc # "save" /\ (req'[t].pc \in {"persist", "register"} => req'[t].audit \in audits)
     /\ Persisting(req[t]) => \A a \in audits : a = req[t].audit =>
          Executed(a)' \/ RuleGone(a)' \/ a.at \in cut' \/ (Persisting(req'[t]) /\ req'[t].audit = a)

\* Nothing is lost, as long as executions remain and deleted rules stay away.
LEMMA AuditsStay ==
  ASSUME GovernanceTypeOK, AuditPart, UNCHANGED <<audits, clock>>, cut \subseteq cut',
         RulesMade' \in Nat, RulesMade <= RulesMade',
         \A a \in audits : Executed(a) => Executed(a)', \A a \in audits : RuleGone(a) => RuleGone(a)',
         \A d \in Kept(dataset)' : \E a \in audits : a.at = dataset'[d].latest,
         \A t \in Thread : Leaves(t)
  PROVE  AuditPart'
<1>1. \A t \in Saving' : t \in Saving /\ req'[t] = req[t]
  BY DEF Saving, Leaves
<1>2. AuditsApart'
  BY <1>1 DEF AuditPart, AuditsApart
<1>3. AuditsHaveExecutions'
  <2>1. ASSUME NEW a \in audits PROVE Executed(a)' \/ Overdue(a)' \/ RuleGone(a)' \/ a.at \in cut'
    <3>1. ASSUME NEW t \in Thread, Persisting(req[t]), req[t].audit = a
          PROVE  Executed(a)' \/ Overdue(a)' \/ RuleGone(a)' \/ a.at \in cut'
      <4>1. CASE Persisting(req'[t]) /\ req'[t].audit = a
        BY <4>1 DEF Overdue, Persisting
      <4>2. CASE ~(Persisting(req'[t]) /\ req'[t].audit = a)
        BY <3>1, <4>2 DEF Leaves
      <4>. QED BY <4>1, <4>2
    <3>. QED BY <3>1 DEF AuditPart, AuditsHaveExecutions, Overdue
  <2>. QED BY <2>1 DEF AuditsHaveExecutions
<1>4. \A t \in Thread : AuditStage(req[t])'
  BY DEF AuditPart, AuditStage, Leaves
<1>5. RulesRan'
  <2>1. SUFFICES ASSUME Cascade PROVE RulesRan'
    BY DEF RulesRan
  <2>2. RulesMade \in Nat /\ RuleId \subseteq Nat
    BY RowsTyped DEF RuleId
  <2>3. \A r \in RuleId : r <= RulesMade => r <= RulesMade'
    BY <2>2
  <2>4. /\ \A a \in audits, r \in RuleId : r \in DOMAIN a.ran => r <= RulesMade'
        /\ \A t \in Saving', r \in RuleId : r \in DOMAIN req'[t].audit.ran => r <= RulesMade'
    BY <1>1, <2>1, <2>3 DEF AuditPart, RulesRan
  <2>. QED BY <2>4 DEF RulesRan
<1>. QED BY <1>2, <1>3, <1>4, <1>5 DEF AuditPart

LEMMA LatestStays ==
  ASSUME AuditPart, \A d \in Kept(dataset)' : d \in Kept(dataset) /\ dataset'[d].latest = dataset[d].latest
  PROVE  \A d \in Kept(dataset)' : \E a \in audits : a.at = dataset'[d].latest
BY DEF AuditPart, AuditsApart

\* A request that neither was on an audit nor is now.
LEMMA NoAudit ==
  ASSUME NEW t \in Thread, req'[t] = req[t] \/ (req[t].pc \notin AtAudit /\ req'[t].pc \notin AtAudit)
  PROVE  Leaves(t)
BY DEF Leaves, AtAudit, Persisting

LEMMA ExecutedKept ==
  ASSUME executions \subseteq executions'
  PROVE  \A a : Executed(a) => Executed(a)'
  BY DEF Executed

LEMMA AuditsOfRules ==
  ASSUME GovernanceTypeOK, AuditPart, RuleRequest
  PROVE  AuditPart'
<1>1. RulesMade \in Nat /\ DatasetsMade \in Nat
  BY RowsTyped
<1>2. ASSUME \/ \E r \in RuleId, active \in BOOLEAN : UpdateRule(r, active)
             \/ \E r \in RuleId, d \in DatasetId : AssignRule(r, d) \/ UnassignRule(r, d)
             \/ \E R \in SUBSET RuleId, D \in SUBSET DatasetId, on \in BOOLEAN : BulkAssignments(R, D, on)
      PROVE  AuditPart'
  <2>1. ASSUME NEW R, NEW D, NEW on, BulkAssignments(R, D, on)
        PROVE  UNCHANGED <<dataset, audits, executions, req, clock, cut, made>> /\ Kept(rule)' = Kept(rule)
    BY <2>1 DEF BulkAssignments, Kept
  <2>2. ASSUME NEW r, NEW d, UnassignRule(r, d)
        PROVE  UNCHANGED <<dataset, audits, executions, req, clock, cut, made>> /\ Kept(rule)' = Kept(rule)
    BY <2>2 DEF UnassignRule, histories, Kept
  <2>3. ASSUME NEW r \in RuleId, NEW active \in BOOLEAN, UpdateRule(r, active)
        PROVE  UNCHANGED <<dataset, audits, executions, req, clock, cut, made>> /\ Kept(rule)' = Kept(rule)
    <3>1. r \in Kept(rule) /\ rule' = [rule EXCEPT ![r] = [rule[r] EXCEPT !.active = active]]
      BY <2>3 DEF UpdateRule
    <3>2. [rule[r] EXCEPT !.active = active] \in RuleRow
      BY <3>1, RowsTyped DEF RuleRow
    <3>3. Kept(rule)' = Kept(rule)
      BY <3>1, <3>2, NullAssumption DEF Kept, GovernanceTypeOK
    <3>. QED BY <2>3, <3>3 DEF UpdateRule, histories
  <2>4. UNCHANGED <<dataset, audits, executions, req, clock, cut, made>> /\ Kept(rule)' = Kept(rule)
    BY <1>2, <2>1, <2>2, <2>3 DEF AssignRule
  <2>5. RulesMade' = RulesMade
    BY <2>4 DEF RulesMade
  <2>6. \A a \in audits : RuleGone(a) => RuleGone(a)'
    BY <2>4 DEF RuleGone
  <2>. QED BY <1>1, <2>4, <2>5, <2>6, AuditsStay, LatestStays, NoAudit, ExecutedKept DEF Kept
<1>3. CASE CreateRule
  <2>1. PICK r \in RuleId : r = NewId(rule, RulesMade) /\ rule' = [rule EXCEPT ![r] = [active |-> TRUE, made |-> RulesMade + 1]]
    BY <1>3 DEF CreateRule
  <2>2. RulesMade' = RulesMade + 1 /\ UNCHANGED <<dataset, audits, executions, req, clock, cut>>
    BY <1>3 DEF CreateRule, RulesMade
  <2>3. ASSUME NEW a \in audits, RuleGone(a) PROVE RuleGone(a)'
    <3>1. PICK q \in DOMAIN a.ran : Cascade /\ q \notin Kept(rule)
      BY <2>3 DEF RuleGone
    <3>5. a \in Audit /\ q \in RuleId
      BY <3>1 DEF GovernanceTypeOK, Audit, Outcomes
    <3>2. q \in RuleId /\ q <= RulesMade /\ r = RulesMade + 1
      BY <2>1, <3>1, <3>5 DEF AuditPart, RulesRan, NewId
    <3>3. q # r
      BY <1>1, <3>2 DEF RuleId
    <3>4. q \notin Kept(rule)'
      BY <2>1, <3>1, <3>2, <3>3 DEF Kept, GovernanceTypeOK
    <3>. QED BY <3>1, <3>4 DEF RuleGone
  <2>. QED BY <1>1, <2>2, <2>3, AuditsStay, LatestStays, NoAudit, ExecutedKept DEF Kept
<1>4. ASSUME NEW r \in RuleId, DeleteRule(r) PROVE AuditPart'
  <2>1. UNCHANGED <<dataset, audits, req, clock, cut, made>> /\ rule' = [rule EXCEPT ![r] = Null]
    BY <1>4 DEF DeleteRule, histories
  <2>2. ASSUME NEW a \in audits, Executed(a), NEW q \in DOMAIN a.ran
        PROVE  \E e \in executions' : e.audit = a.at /\ e.rule \in {q, Null}
    <3>1. PICK e \in executions : e.audit = a.at /\ e.rule \in {q, Null}
      BY <2>2 DEF Executed
    <3>2. e \in ExecutionRow
      BY DEF GovernanceTypeOK
    <3>3. PICK f : f = IF Cascade /\ e.rule = r THEN [e EXCEPT !.rule = Null] ELSE e
      OBVIOUS
    <3>4. f \in executions'
      BY <1>4, <3>3 DEF DeleteRule
    <3>5. f.audit = e.audit /\ f.rule \in {e.rule, Null}
      BY <3>2, <3>3 DEF ExecutionRow
    <3>. QED BY <3>1, <3>4, <3>5
  <2>3. \A a \in audits : Executed(a) => Executed(a)'
    BY <2>2 DEF Executed
  <2>4. Kept(rule)' \subseteq Kept(rule)
    BY <2>1 DEF Kept, GovernanceTypeOK
  <2>5. \A a \in audits : RuleGone(a) => RuleGone(a)'
    BY <2>4 DEF RuleGone
  <2>6. RulesMade' = RulesMade
    BY <2>1 DEF RulesMade
  <2>. QED BY <1>1, <2>1, <2>3, <2>5, <2>6, AuditsStay, LatestStays, NoAudit DEF Kept
<1>5. ASSUME NEW d \in DatasetId, DeleteDataset(d) \/ \E n \in Dataset : RenameDataset(d, n) PROVE AuditPart'
  <2>1. UNCHANGED <<rule, audits, executions, req, clock, cut, made>>
    BY <1>5 DEF DeleteDataset, RenameDataset, histories
  <2>2. \A e \in Kept(dataset)' : e \in Kept(dataset) /\ dataset'[e].latest = dataset[e].latest
    <3>1. ASSUME DeleteDataset(d), NEW e \in Kept(dataset)' PROVE e \in Kept(dataset) /\ dataset'[e].latest = dataset[e].latest
      BY <3>1 DEF DeleteDataset, Kept, GovernanceTypeOK
    <3>2. ASSUME NEW n \in Dataset, RenameDataset(d, n), NEW e \in Kept(dataset)'
          PROVE  e \in Kept(dataset) /\ dataset'[e].latest = dataset[e].latest
      <4>1. d \in Kept(dataset) /\ dataset' = [dataset EXCEPT ![d] = [dataset[d] EXCEPT !.name = n]]
        BY <3>2 DEF RenameDataset
      <4>2. [dataset[d] EXCEPT !.name = n].latest = dataset[d].latest
        BY <4>1, RowsTyped DEF DatasetRow
      <4>. QED BY <4>1, <4>2 DEF Kept, GovernanceTypeOK
    <3>. QED BY <1>5, <3>1, <3>2
  <2>3. RulesMade' = RulesMade /\ \A a \in audits : RuleGone(a) => RuleGone(a)'
    BY <2>1 DEF RulesMade, RuleGone, Kept
  <2>. QED BY <1>1, <2>1, <2>2, <2>3, AuditsStay, LatestStays, NoAudit, ExecutedKept
<1>. QED BY <1>2, <1>3, <1>4, <1>5 DEF RuleRequest

LEMMA AuditsOfContracts ==
  ASSUME GovernanceTypeOK, RowsNumbered, AuditPart, NEW t \in Thread, ContractRequest(t)
  PROVE  AuditPart'
<1>1. UNCHANGED <<rule, dataset, audits, executions, clock, made, cut>>
  BY ContractsApart
<1>2. \A u \in Thread : req'[u] = req[u] \/ (req[u].pc \notin AtAudit /\ req'[u].pc \notin AtAudit)
  <2>1. CASE Writes(t)
    <3>1. PICK base, new : Follow(t, base, new)
      BY <2>1 DEF Writes
    <3>2. req' = [req EXCEPT ![t] = [pc |-> "insert", base |-> base, new |-> new, first |-> OfDataset(new.dataset) = {},
                                     moved |-> base # 0 /\ contracts[base].dataset # new.dataset]]
          /\ req[t] = Idle
      BY <3>1 DEF Follow, Enter
    <3>. QED BY <3>2 DEF GovernanceTypeOK, Idle, AtAudit
  <2>2. CASE \E c \in DOMAIN contracts : BeginValidation(t, c)
    <3>1. PICK c \in DOMAIN contracts : BeginValidation(t, c)
      BY <2>2
    <3>2. PICK a :
            Enter(t, [pc |-> "validate", row |-> c, was |-> contracts[c].validation.status, source |-> contracts[c].source,
                      evidence |-> [audit |-> a, passed |-> Satisfies(a, contracts[c].content)]])
      BY <3>1 DEF BeginValidation
    <3>. QED BY <3>2 DEF GovernanceTypeOK, Enter, Idle, AtAudit
  <2>3. CASE InsertContract(t) \/ WriteValidation(t)
    <3>1. req' = [req EXCEPT ![t] = Idle] /\ req[t].pc \in {"insert", "validate"}
      BY <2>3 DEF InsertContract, WriteValidation, Done
    <3>. QED BY <3>1 DEF GovernanceTypeOK, Idle, AtAudit
  <2>. QED BY <2>1, <2>2, <2>3, ContractSteps
<1>3. RulesMade' = RulesMade /\ RulesMade \in Nat /\ \A a \in audits : RuleGone(a) => RuleGone(a)'
  BY <1>1, RowsTyped DEF RulesMade, RuleGone, Kept
<1>. QED BY <1>1, <1>2, <1>3, AuditsStay, LatestStays, NoAudit, ExecutedKept DEF Kept

LEMMA AuditsOfBegin ==
  ASSUME GovernanceTypeOK, RowsRefer, AuditPart, NEW t \in Thread, NEW a \in Audit, Begins(t, a)
  PROVE  AuditPart'
<1>1. PICK corrects \in BOOLEAN : req' = [req EXCEPT ![t] = [pc |-> "save", corrects |-> corrects, audit |-> a]]
  BY DEF Begins, Enter
<1>2. req'[t].pc = "save" /\ req'[t].audit = a /\ req[t] = Idle /\ \A u \in Thread \ {t} : req'[u] = req[u]
  BY <1>1 DEF Begins, Enter, GovernanceTypeOK
<1>3. /\ UNCHANGED <<rule, dataset, audits, executions, cut, made>> /\ clock' = clock + 1 /\ clock \in Nat
      /\ a.at = clock + 1 /\ DOMAIN a.ran \subseteq Kept(rule)
  BY DEF Begins, rows, histories, GovernanceTypeOK
<1>4. /\ \A b \in audits : b \in Audit /\ b.at \in Nat /\ b.at <= clock
      /\ \A u \in Saving : req[u].audit \in Audit /\ req[u].audit.at \in Nat /\ req[u].audit.at <= clock
  BY RequestKinds DEF AuditPart, AuditsApart, GovernanceTypeOK, Audit, Saving
<1>5. Saving' = Saving \union {t} /\ t \notin Saving /\ \A u \in Saving : u # t /\ req'[u] = req[u]
  BY <1>2 DEF Saving, Idle
<1>6. AuditsApart'
  <2>1. \A b \in audits : b.at <= clock + 1 /\ b.at # a.at
    BY <1>3, <1>4
  <2>2. ASSUME NEW u \in Saving'
        PROVE  LET b == req'[u].audit IN
               /\ b.at <= clock + 1 /\ \A c \in audits : c.at # b.at
               /\ \A w \in Saving' : req'[w].audit.at = b.at => w = u
    <3>1. \A w \in Saving : req[w].audit.at # a.at
      BY <1>3, <1>4
    <3>2. CASE u = t
      BY <1>2, <1>3, <1>5, <2>1, <3>1, <3>2
    <3>3. CASE u \in Saving
      <4>1. PICK b \in Audit : b = req[u].audit /\ b = req'[u].audit
        BY <1>4, <1>5, <3>3
      <4>4. (\A c \in audits : c.at # b.at) /\ \A w \in Saving : req[w].audit.at = b.at => w = u
        BY <3>3, <4>1 DEF AuditPart, AuditsApart
      <4>5. b.at \in Nat /\ b.at <= clock
        BY <1>4, <3>3, <4>1
      <4>2. b.at <= clock + 1 /\ (\A c \in audits : c.at # b.at) /\ \A w \in Saving : req[w].audit.at = b.at => w = u
        BY <1>3, <4>4, <4>5
      <4>3. \A w \in Saving' : req'[w].audit.at = b.at => w = u
        BY <1>2, <1>5, <3>1, <3>3, <4>1, <4>2
      <4>. QED BY <4>1, <4>2, <4>3
    <3>. QED BY <1>5, <3>2, <3>3
  <2>. QED BY <1>3, <2>1, <2>2 DEF AuditPart, AuditsApart, Kept
<1>7. AuditsHaveExecutions'
  <2>1. ASSUME NEW b \in audits, Overdue(b) PROVE Overdue(b)'
    BY <1>2, <2>1 DEF Overdue, Persisting, Idle
  <2>. QED BY <1>3, <2>1 DEF AuditPart, AuditsHaveExecutions, Executed, RuleGone, Kept
<1>8. RulesRan'
  <2>1. Cascade => \A r \in DOMAIN a.ran : r <= RulesMade
    BY <1>3 DEF RowsRefer
  <2>. QED BY <1>2, <1>3, <1>5, <2>1 DEF AuditPart, RulesRan, RulesMade
<1>9. \A u \in Thread : AuditStage(req[u])'
  BY <1>2, <1>3 DEF AuditPart, AuditStage
<1>. QED BY <1>6, <1>7, <1>8, <1>9 DEF AuditPart

LEMMA AuditsOfSave ==
  ASSUME GovernanceTypeOK, AuditPart, NEW t \in Thread, SaveAudit(t)
  PROVE  AuditPart'
<1>1. PICK a \in Audit, corrects \in BOOLEAN : a = req[t].audit /\ corrects = req[t].corrects /\ t \in Saving
  BY RequestKinds DEF SaveAudit, Saving, GovernanceTypeOK
<1>2. audits' = audits \union {a} /\ UNCHANGED <<rule, dataset, executions, clock, cut, made>>
  BY <1>1 DEF SaveAudit, histories
<1>3. req'[t] = [pc |-> IF corrects THEN "register" ELSE "persist", corrects |-> corrects, audit |-> a]
      /\ \A u \in Thread \ {t} : req'[u] = req[u]
  BY <1>1, GoesOn DEF SaveAudit
<1>4. Persisting(req'[t]) /\ req'[t].audit = a /\ req'[t].pc # "save"
  BY <1>3 DEF Persisting
<1>5. Saving' = Saving \ {t} /\ \A u \in Saving' : req'[u] = req[u]
  BY <1>3, <1>4 DEF Saving
<1>6. /\ a.at <= clock /\ \A b \in audits : b.at # a.at
      /\ \A u \in Saving : req[u].audit.at = a.at => u = t
  BY <1>1 DEF AuditPart, AuditsApart
<1>7. AuditsApart'
  <2>1. IsFiniteSet(audits')
    BY <1>2, FS_AddElement DEF AuditPart, AuditsApart
  <2>. QED BY <1>2, <1>5, <1>6, <2>1 DEF AuditPart, AuditsApart, Kept
<1>8. AuditsHaveExecutions'
  <2>1. Overdue(a)'
    BY <1>4 DEF Overdue, Persisting
  <2>2. ASSUME NEW b \in audits, Overdue(b) PROVE Overdue(b)'
    BY <1>1, <1>3, <2>2 DEF Overdue, Persisting, Saving
  <2>. QED BY <1>2, <2>1, <2>2 DEF AuditPart, AuditsHaveExecutions, Executed, RuleGone, Kept
<1>9. RulesRan'
  BY <1>1, <1>2, <1>5 DEF AuditPart, RulesRan, RulesMade
<1>10. \A u \in Thread : AuditStage(req[u])'
  BY <1>2, <1>3, <1>4 DEF AuditPart, AuditStage
<1>. QED BY <1>7, <1>8, <1>9, <1>10 DEF AuditPart

LEMMA AuditsOfAudits ==
  ASSUME GovernanceTypeOK, RowsRefer, AuditPart, NEW t \in Thread, AuditRequest(t)
  PROVE  AuditPart'
<1>1. RulesMade \in Nat
  BY RowsTyped
<1>2. ASSUME req[t].pc \in AtAudit
      PROVE  req[t].audit \in Audit /\ req[t].corrects \in BOOLEAN /\ (req[t].pc # "save" => req[t].audit \in audits)
  BY <1>2, RequestKinds DEF AtAudit, AuditPart, AuditStage, GovernanceTypeOK
<1>3. ASSUME NEW a \in audits, Revisit(t, a) PROVE AuditPart'
  <2>1. req' = [req EXCEPT ![t] = [pc |-> "register", corrects |-> FALSE, audit |-> a]] /\ req[t] = Idle
        /\ UNCHANGED <<rule, dataset, audits, executions, clock, cut, made>>
    BY <1>3 DEF Revisit, Enter, rows, histories
  <2>2. \A u \in Thread : Leaves(u)
    BY <2>1 DEF Leaves, Persisting, Idle, GovernanceTypeOK
  <2>3. RulesMade' = RulesMade /\ \A b \in audits : RuleGone(b) => RuleGone(b)'
    BY <2>1 DEF RulesMade, RuleGone, Kept
  <2>. QED BY <1>1, <2>1, <2>2, <2>3, AuditsStay, LatestStays, ExecutedKept DEF Kept
<1>4. CASE PersistExecutions(t)
  <2>1. PICK a \in audits, corrects \in BOOLEAN : a = req[t].audit /\ corrects = req[t].corrects
    BY <1>2, <1>4 DEF PersistExecutions, AtAudit
  <2>2. executions \subseteq executions' /\ UNCHANGED <<rule, dataset, audits, clock, cut, made>>
    BY <1>4 DEF PersistExecutions, Persisted, histories
  <2>3. /\ req'[t] = Idle \/ (req'[t].pc = "register" /\ req'[t].audit = a)
        /\ \A u \in Thread \ {t} : req'[u] = req[u]
    <3>1. CASE GoOn(t, corrects, "register")
      <4>1. req'[t] = (IF corrects THEN Idle ELSE [pc |-> "register", corrects |-> req[t].corrects, audit |-> req[t].audit])
            /\ \A u \in Thread \ {t} : req'[u] = req[u]
        BY <1>4, <3>1, GoesOn DEF PersistExecutions
      <4>. QED BY <2>1, <4>1
    <3>2. CASE Done(t)
      BY <3>2 DEF Done, GovernanceTypeOK
    <3>. QED BY <1>4, <2>1, <3>1, <3>2 DEF PersistExecutions
  <2>4. Executed(a)' \/ RuleGone(a)'
    <3>1. CASE executions' = Persisted(a)
      <4>1. ASSUME NEW r \in DOMAIN a.ran PROVE \E e \in executions' : e.audit = a.at /\ e.rule \in {r, Null}
        <5>1. PICK e : e = [audit |-> a.at, rule |-> r]
          OBVIOUS
        <5>2. e \in executions' /\ e.audit = a.at /\ e.rule = r
          BY <3>1, <5>1 DEF Persisted
        <5>. QED BY <5>2
      <4>. QED BY <4>1 DEF Executed
    <3>2. CASE Cascade /\ ~(DOMAIN a.ran \subseteq Kept(rule))
      BY <2>2, <3>2 DEF RuleGone, Kept
    <3>. QED BY <1>4, <2>1, <3>1, <3>2 DEF PersistExecutions
  <2>5. \A u \in Thread : Leaves(u)
    BY <2>1, <2>3, <2>4 DEF Leaves, Idle
  <2>6. RulesMade' = RulesMade /\ \A b \in audits : RuleGone(b) => RuleGone(b)'
    BY <2>2 DEF RulesMade, RuleGone, Kept
  <2>. QED BY <1>1, <2>2, <2>5, <2>6, AuditsStay, LatestStays, ExecutedKept DEF Kept
<1>5. CASE RegisterAudit(t)
  <2>1. PICK a \in audits, corrects \in BOOLEAN : a = req[t].audit /\ corrects = req[t].corrects
    BY <1>2, <1>5 DEF RegisterAudit, AtAudit
  <2>2. UNCHANGED <<rule, audits, executions, clock, cut>> /\ RulesMade' = RulesMade
    BY <1>5 DEF RegisterAudit, RulesMade
  <2>3. \A d \in Kept(dataset)' : dataset'[d].latest = a.at \/ (d \in Kept(dataset) /\ dataset'[d] = dataset[d])
    <3>1. ASSUME NEW d \in RowOf(a.name), dataset' = [dataset EXCEPT ![d].latest = a.at]
          PROVE  \A e \in Kept(dataset)' : dataset'[e].latest = a.at \/ (e \in Kept(dataset) /\ dataset'[e] = dataset[e])
      <4>1. dataset[d] \in DatasetRow
        BY <3>1, RowsTyped
      <4>2. [dataset[d] EXCEPT !.latest = a.at].latest = a.at
        BY <4>1 DEF DatasetRow
      <4>3. dataset' = [dataset EXCEPT ![d] = [dataset[d] EXCEPT !.latest = a.at]]
        BY <3>1
      <4>. QED BY <4>2, <4>3 DEF Kept, GovernanceTypeOK
    <3>2. ASSUME NEW d \in DatasetId, NEW m, dataset' = [dataset EXCEPT ![d] = [name |-> a.name, latest |-> a.at, made |-> m]]
          PROVE  \A e \in Kept(dataset)' : dataset'[e].latest = a.at \/ (e \in Kept(dataset) /\ dataset'[e] = dataset[e])
      BY <3>2 DEF Kept, GovernanceTypeOK
    <3>. QED BY <1>5, <2>1, <3>1, <3>2 DEF RegisterAudit
  <2>4. \A d \in Kept(dataset)' : \E b \in audits : b.at = dataset'[d].latest
    BY <2>1, <2>3 DEF AuditPart, AuditsApart
  <2>5. /\ req'[t] = IF corrects THEN [pc |-> "persist", corrects |-> corrects, audit |-> a] ELSE Idle
        /\ \A u \in Thread \ {t} : req'[u] = req[u]
    BY <1>5, <2>1, GoesOn DEF RegisterAudit
  <2>6. \A u \in Thread : Leaves(u)
    BY <1>5, <2>1, <2>5 DEF RegisterAudit, Leaves, Persisting, Idle
  <2>7. \A b \in audits : RuleGone(b) => RuleGone(b)'
    BY <2>2 DEF RuleGone, Kept
  <2>. QED BY <1>1, <2>2, <2>4, <2>6, <2>7, AuditsStay, ExecutedKept
<1>6. CASE FailAudit(t)
  <2>1. UNCHANGED <<rule, dataset, audits, executions, clock, made>> /\ req' = [req EXCEPT ![t] = Idle]
        /\ cut \subseteq cut' /\ (Persisting(req[t]) => req[t].audit.at \in cut')
    BY <1>6 DEF FailAudit, Done, rows
  <2>2. \A u \in Thread : Leaves(u)
    BY <2>1 DEF Leaves, Idle, GovernanceTypeOK
  <2>3. RulesMade' = RulesMade /\ \A b \in audits : RuleGone(b) => RuleGone(b)'
    BY <2>1 DEF RulesMade, RuleGone, Kept
  <2>. QED BY <1>1, <2>1, <2>2, <2>3, AuditsStay, LatestStays, ExecutedKept DEF Kept
<1>. QED BY <1>3, <1>4, <1>5, <1>6, AuditSteps, AuditsOfBegin, AuditsOfSave DEF AuditPart

-----------------------------------------------------------------------------
(* Contracts.  A step keeps the key, the number and the dataset of the     *)
(* rows that remain, and takes all rows of a dataset that goes.            *)

Frame ==
  /\ DOMAIN contracts \subseteq DOMAIN contracts'
  /\ \A c \in Kept(contracts)' \intersect DOMAIN contracts :
       /\ c \in Kept(contracts)
       /\ contracts'[c].key = contracts[c].key /\ contracts'[c].version = contracts[c].version
       /\ contracts'[c].dataset = contracts[c].dataset
  /\ \A d \in DatasetId : (\E c \in Kept(contracts) \ Kept(contracts)' : contracts[c].dataset = d) =>
       Gone(d)' /\ \A e \in Kept(contracts)' : contracts'[e].dataset # d
  /\ \A d \in DatasetId : Gone(d) => Gone(d)'
  /\ entangled \subseteq entangled' /\ branched \subseteq branched' /\ forked \subseteq forked'
  /\ audits \subseteq audits'

LEMMA SavedStays ==
  ASSUME audits \subseteq audits', NEW e, OfSaved(e)
  PROVE  OfSaved(e)'
BY DEF OfSaved

LEMMA AgreesStays ==
  ASSUME GovernanceTypeOK, Frame, NEW v, NEW key, NEW d \in DatasetId, Agrees(v, key, d)
  PROVE  Agrees(v, key, d)' \/ (Gone(d)' /\ \A e \in Kept(contracts)' : contracts'[e].dataset # d)
<1>1. CASE v.evidence = Null \/ v.status = StatusOf(v.evidence)
  BY <1>1 DEF Agrees, StatusOf
<1>2. CASE \E c \in OfKey(key) \intersect entangled : contracts[c].dataset = d
  <2>1. PICK c \in OfKey(key) \intersect entangled : contracts[c].dataset = d
    BY <1>2
  <2>2. c \in Kept(contracts) /\ contracts[c].key = key /\ c \in entangled' /\ c \in DOMAIN contracts
    BY <2>1, RowsTyped DEF OfKey, Frame
  <2>3. CASE c \in Kept(contracts)'
    <3>1. contracts'[c].key = key /\ contracts'[c].dataset = d
      BY <2>1, <2>2, <2>3 DEF Frame
    <3>2. c \in OfKey(key)' \intersect entangled'
      BY <2>2, <2>3, <3>1 DEF OfKey
    <3>3. CASE v.evidence # Null
      BY <3>1, <3>2, <3>3 DEF Agrees
    <3>. QED BY <1>1, <3>3
  <2>4. CASE c \notin Kept(contracts)'
    BY <2>1, <2>2, <2>4 DEF Frame
  <2>. QED BY <2>3, <2>4
<1>. QED BY <1>1, <1>2 DEF Agrees

LEMMA FollowsStays ==
  ASSUME GovernanceTypeOK, Frame, NEW r \in Request, Follows(r)
  PROVE  Follows(r)'
<1>1. SUFFICES ASSUME r.pc = "insert" PROVE Follows(r)'
  BY DEF Follows
<1>2. PICK n \in ContractRow : n = r.new
  BY <1>1, RequestKinds
<1>3. n.dataset \in DatasetId /\ r.base \in Nat
  BY <1>1, <1>2, RequestKinds DEF ContractRow
<1>4. /\ OfSaved(n.validation.evidence)
      /\ r.base \in {0} \union DOMAIN contracts /\ n.version <= r.base + 1
      /\ r.base = 0 => r.first /\ n.validation = NotValidated
      /\ r.base # 0 =>
           /\ n.key \in DOMAIN contracts
           /\ contracts[r.base] # Null => n.key = contracts[r.base].key /\ n.version = contracts[r.base].version + 1
           /\ \/ r.moved \/ Gone(n.dataset)
              \/ contracts[r.base] # Null /\ contracts[r.base].dataset = n.dataset
           /\ Gone(n.dataset) \/ Agrees(n.validation, n.key, n.dataset)
  BY <1>1, <1>2 DEF Follows
<1>5. OfSaved(n.validation.evidence)' /\ r.base \in {0} \union DOMAIN contracts'
  BY <1>4, SavedStays DEF Frame
<1>6. ASSUME r.base # 0
      PROVE  /\ n.key \in DOMAIN contracts'
             /\ contracts'[r.base] # Null => n.key = contracts'[r.base].key /\ n.version = contracts'[r.base].version + 1
             /\ \/ r.moved \/ Gone(n.dataset)'
                \/ contracts'[r.base] # Null /\ contracts'[r.base].dataset = n.dataset
             /\ Gone(n.dataset)' \/ Agrees(n.validation, n.key, n.dataset)'
  <2>1. r.base \in DOMAIN contracts /\ n.key \in DOMAIN contracts'
    BY <1>4, <1>6 DEF Frame
  <2>2. contracts'[r.base] # Null => n.key = contracts'[r.base].key /\ n.version = contracts'[r.base].version + 1
    BY <1>4, <1>6, <2>1 DEF Frame, Kept
  <2>3. Gone(n.dataset)' \/ Agrees(n.validation, n.key, n.dataset)'
    BY <1>3, <1>4, <1>6, AgreesStays DEF Frame
  <2>4. ASSUME contracts[r.base] # Null, contracts[r.base].dataset = n.dataset
        PROVE  Gone(n.dataset)' \/ (contracts'[r.base] # Null /\ contracts'[r.base].dataset = n.dataset)
    BY <1>3, <2>1, <2>4 DEF Frame, Kept
  <2>5. Gone(n.dataset) => Gone(n.dataset)'
    BY <1>3 DEF Frame
  <2>. QED BY <1>4, <1>6, <2>1, <2>2, <2>3, <2>4, <2>5
<1>. QED BY <1>1, <1>2, <1>4, <1>5, <1>6 DEF Follows

\* What is said of the rows there were remains true of those that remain.
LEMMA RowsStay ==
  ASSUME GovernanceTypeOK, Frame, RowsNumbered, VersionsUnique, DOMAIN contracts' = DOMAIN contracts
  PROVE  RowsNumbered' /\ VersionsUnique'
<1>1. Kept(contracts)' \subseteq Kept(contracts) /\ Kept(contracts)' \subseteq DOMAIN contracts
  BY DEF Kept, Frame
<1>2. RowsNumbered'
  BY <1>1 DEF RowsNumbered, Frame
<1>3. VersionsUnique'
  <2>1. ASSUME NEW b \in Kept(contracts)', NEW c \in Kept(contracts)'
        PROVE  /\ contracts'[b].key = contracts'[c].key /\ contracts'[b].version = contracts'[c].version
                    => b = c \/ contracts'[b].key \in branched'
               /\ contracts'[b].dataset = contracts'[c].dataset /\ contracts'[b].key # contracts'[c].key
                    => contracts'[b].dataset \in forked'
    <3>1. b \in Kept(contracts) /\ c \in Kept(contracts)
      BY <1>1
    <3>2. /\ contracts'[b].key = contracts[b].key /\ contracts'[b].version = contracts[b].version /\ contracts'[b].dataset = contracts[b].dataset
          /\ contracts'[c].key = contracts[c].key /\ contracts'[c].version = contracts[c].version /\ contracts'[c].dataset = contracts[c].dataset
          /\ branched \subseteq branched' /\ forked \subseteq forked'
      BY <1>1 DEF Frame
    <3>. QED BY <3>1, <3>2 DEF VersionsUnique
  <2>. QED BY <2>1 DEF VersionsUnique
<1>. QED BY <1>2, <1>3

\* And of the validations that are not written.
LEMMA AgreementStays ==
  ASSUME GovernanceTypeOK, Frame, RowsAgree, RowsOfSaved,
         NEW c \in Kept(contracts)', c \in DOMAIN contracts, contracts'[c].validation = contracts[c].validation
  PROVE  /\ Agrees(contracts[c].validation, contracts[c].key, contracts[c].dataset)'
         /\ OfSaved(contracts[c].validation.evidence)'
<1>1. c \in Kept(contracts) /\ contracts[c] \in ContractRow
  BY RowsTyped DEF Frame
<1>2. PICK v, key, d : v = contracts[c].validation /\ key = contracts[c].key /\ d = contracts[c].dataset
  OBVIOUS
<1>3. d \in DatasetId /\ Agrees(v, key, d) /\ OfSaved(v.evidence)
  BY <1>1, <1>2 DEF ContractRow, RowsAgree, RowsOfSaved
<1>4. contracts'[c].validation = v /\ contracts'[c].key = key /\ contracts'[c].dataset = d
  BY <1>2 DEF Frame
<1>5. Agrees(v, key, d)'
  BY <1>3, <1>4, AgreesStays
<1>6. OfSaved(v.evidence)'
  BY <1>3, SavedStays DEF Frame
<1>. QED BY <1>4, <1>5, <1>6 DEF Agrees, OfSaved, OfKey

ContractPart ==
  /\ RowsNumbered /\ RowsAgree /\ VersionsUnique /\ RowsOfSaved
  /\ \A t \in Thread : Follows(req[t]) /\ Validates(req[t])

\* Requests of other rows.
LEMMA ContractsStay ==
  ASSUME GovernanceTypeOK, ContractPart, UNCHANGED <<contracts, branched, forked, entangled>>, audits \subseteq audits',
         \A d \in DatasetId : Gone(d) => Gone(d)',
         \A t \in Thread : req'[t] = req[t] \/ req'[t].pc \notin {"insert", "validate"}
  PROVE  ContractPart'
<1>1. Frame
  BY DEF Frame, Kept
<1>2. RowsNumbered' /\ VersionsUnique'
  BY <1>1, RowsStay DEF ContractPart
<1>3. RowsAgree' /\ RowsOfSaved'
  <2>1. RowsAgree'
    BY DEF ContractPart, RowsAgree, Agrees, OfKey, Kept
  <2>. QED BY <2>1 DEF ContractPart, RowsOfSaved, OfSaved, Kept
<1>4. ASSUME NEW t \in Thread PROVE Follows(req[t])' /\ Validates(req[t])'
  <2>1. CASE req'[t].pc \notin {"insert", "validate"}
    BY <2>1 DEF Follows, Validates
  <2>2. CASE req'[t] = req[t]
    <3>1. PICK r \in Request : r = req[t]
      BY DEF GovernanceTypeOK
    <3>2. Follows(r)'
      BY <1>1, <3>1, FollowsStays DEF ContractPart
    <3>3. Validates(r)'
      BY <3>1, SavedStays DEF ContractPart, Validates
    <3>. QED BY <2>2, <3>1, <3>2, <3>3 DEF Follows, Validates
  <2>. QED BY <2>1, <2>2
<1>. QED BY <1>2, <1>3, <1>4 DEF ContractPart

LEMMA ContractsOfDeletion ==
  ASSUME GovernanceTypeOK, RowsRefer, ContractPart, NEW d \in DatasetId, DeleteDataset(d)
  PROVE  ContractPart'
<1>1. /\ d \in Kept(dataset) /\ dataset' = [dataset EXCEPT ![d] = Null]
      /\ contracts' = [c \in DOMAIN contracts |->
           IF Cascade /\ contracts[c] # Null /\ contracts[c].dataset = d THEN Null ELSE contracts[c]]
      /\ UNCHANGED <<audits, req, made, branched, forked, entangled>>
  BY DEF DeleteDataset, histories
<1>2. DOMAIN contracts' = DOMAIN contracts
  BY <1>1
<1>3. \A c \in Kept(contracts)' : c \in Kept(contracts) /\ contracts'[c] = contracts[c] /\ c \in DOMAIN contracts
                                  /\ (Cascade => contracts[c].dataset # d)
  BY <1>1 DEF Kept
<1>4. \A c \in Kept(contracts) \ Kept(contracts)' : Cascade /\ contracts[c].dataset = d
  BY <1>1 DEF Kept
<1>5. Cascade => Gone(d)'
  BY <1>1 DEF Gone, RowsRefer, DatasetsMade, GovernanceTypeOK
<1>6. \A e \in DatasetId : Gone(e) => Gone(e)'
  BY <1>1 DEF Gone, DatasetsMade, GovernanceTypeOK
<1>7. Frame
  BY <1>1, <1>2, <1>3, <1>4, <1>5, <1>6 DEF Frame
<1>8. RowsNumbered' /\ VersionsUnique'
  BY <1>2, <1>7, RowsStay DEF ContractPart
<1>9. RowsAgree' /\ RowsOfSaved'
  BY <1>3, <1>7, AgreementStays DEF ContractPart, RowsAgree, RowsOfSaved
<1>10. ASSUME NEW t \in Thread PROVE Follows(req[t])' /\ Validates(req[t])'
  <2>1. PICK r \in Request : r = req[t] /\ r = req'[t]
    BY <1>1 DEF GovernanceTypeOK
  <2>2. Follows(r)'
    BY <1>7, <2>1, FollowsStays DEF ContractPart
  <2>3. Validates(r)'
    BY <1>1, <1>2, <1>3, <2>1 DEF ContractPart, Validates, OfSaved, Kept
  <2>. QED BY <2>1, <2>2, <2>3 DEF Follows, Validates
<1>. QED BY <1>8, <1>9, <1>10 DEF ContractPart

LEMMA ContractsOfRules ==
  ASSUME GovernanceTypeOK, RowsRefer, ContractPart, RuleRequest
  PROVE  ContractPart'
<1>1. ASSUME NEW R, NEW D, NEW on, BulkAssignments(R, D, on)
      PROVE  UNCHANGED <<dataset, audits, contracts, req, branched, forked, entangled>> /\ DatasetsMade' = DatasetsMade
  BY <1>1 DEF BulkAssignments, DatasetsMade
<1>2. ASSUME NEW r, NEW d, NEW active, CreateRule \/ UpdateRule(r, active) \/ UnassignRule(r, d) \/ DeleteRule(r)
      PROVE  UNCHANGED <<dataset, audits, contracts, req, branched, forked, entangled>> /\ DatasetsMade' = DatasetsMade
  BY <1>2 DEF CreateRule, UpdateRule, UnassignRule, DeleteRule, histories, DatasetsMade
<1>3. CASE UNCHANGED <<dataset, audits, contracts, req, branched, forked, entangled>> /\ DatasetsMade' = DatasetsMade
  BY <1>3, ContractsStay DEF Gone
<1>4. ASSUME NEW d \in DatasetId, NEW n \in Dataset, RenameDataset(d, n) PROVE ContractPart'
  <2>1. UNCHANGED <<audits, contracts, req, made, branched, forked, entangled>>
        /\ d \in Kept(dataset) /\ dataset' = [dataset EXCEPT ![d] = [dataset[d] EXCEPT !.name = n]]
    BY <1>4 DEF RenameDataset, histories
  <2>2. \A e \in DatasetId : Gone(e) => Gone(e)'
    BY <2>1 DEF Gone, DatasetsMade, Kept, GovernanceTypeOK
  <2>. QED BY <2>1, <2>2, ContractsStay
<1>. QED BY <1>1, <1>2, <1>3, <1>4, ContractsOfDeletion DEF RuleRequest, AssignRule

LEMMA ContractsOfAudits ==
  ASSUME GovernanceTypeOK, AuditsApart, ContractPart, NEW t \in Thread, AuditRequest(t)
  PROVE  ContractPart'
<1>1. UNCHANGED <<contracts, branched, forked, entangled>> /\ audits \subseteq audits'
  BY DEF AuditRequest, BeginAudit, BeginCorrection, Compute, Revisit, SaveAudit, PersistExecutions, RegisterAudit, FailAudit,
         rows, histories
<1>2. \A d \in DatasetId : Gone(d) => Gone(d)'
  <2>1. CASE UNCHANGED <<dataset, made>>
    BY <2>1 DEF Gone, DatasetsMade
  <2>2. CASE RegisterAudit(t)
    <3>1. ASSUME NEW e \in RowOf(req[t].audit.name), dataset' = [dataset EXCEPT ![e].latest = req[t].audit.at], UNCHANGED made
          PROVE  \A d \in DatasetId : Gone(d) => Gone(d)'
      BY <3>1 DEF Gone, DatasetsMade, RowOf, Kept, GovernanceTypeOK
    <3>2. ASSUME NEW e \in DatasetId, Cascade => e = DatasetsMade + 1, NEW row, dataset' = [dataset EXCEPT ![e] = row],
                 made' = <<RulesMade, DatasetsMade + 1>>
          PROVE  \A d \in DatasetId : Gone(d) => Gone(d)'
      <4>1. DatasetsMade' = DatasetsMade + 1 /\ DatasetsMade \in Nat
        BY <3>2, RowsTyped DEF DatasetsMade
      <4>. QED BY <3>2, <4>1 DEF Gone, DatasetId, GovernanceTypeOK
    <3>. QED BY <2>2, <3>1, <3>2 DEF RegisterAudit, NewId
  <2>. QED BY <2>1, <2>2 DEF AuditRequest, BeginAudit, BeginCorrection, Compute, Revisit, SaveAudit, PersistExecutions, FailAudit,
                             rows, histories
<1>3. \A u \in Thread : req'[u] = req[u] \/ req'[u].pc \notin {"insert", "validate"}
  <2>1. ASSUME NEW a, Begins(t, a) \/ Revisit(t, a)
        PROVE  \A u \in Thread : req'[u] = req[u] \/ req'[u].pc \notin {"insert", "validate"}
    <3>1. \E pc \in {"save", "register"}, corrects \in BOOLEAN :
            req' = [req EXCEPT ![t] = [pc |-> pc, corrects |-> corrects, audit |-> a]]
      BY <2>1 DEF Begins, Revisit, Enter
    <3>. QED BY <3>1 DEF GovernanceTypeOK
  <2>2. ASSUME req[t].pc \in {"save", "persist", "register"}, NEW last \in BOOLEAN, NEW pc \in {"persist", "register"}, GoOn(t, last, pc)
        PROVE  \A u \in Thread : req'[u] = req[u] \/ req'[u].pc \notin {"insert", "validate"}
    <3>1. req'[t] = (IF last THEN Idle ELSE [pc |-> pc, corrects |-> req[t].corrects, audit |-> req[t].audit])
          /\ \A u \in Thread \ {t} : req'[u] = req[u]
      BY <2>2, GoesOn
    <3>2. req'[t].pc \in {"idle", "persist", "register"}
      BY <3>1 DEF Idle
    <3>. QED BY <3>1, <3>2
  <2>3. CASE Done(t)
    BY <2>3 DEF Done, GovernanceTypeOK, Idle
  <2>4. CASE SaveAudit(t) \/ PersistExecutions(t) \/ RegisterAudit(t)
    <3>1. req[t].pc \in {"save", "persist", "register"} /\ req[t].corrects \in BOOLEAN
      BY <2>4, RequestKinds DEF SaveAudit, PersistExecutions, RegisterAudit, GovernanceTypeOK
    <3>2. Done(t) \/ \E last \in BOOLEAN, pc \in {"persist", "register"} : GoOn(t, last, pc)
      BY <2>4, <3>1 DEF SaveAudit, PersistExecutions, RegisterAudit
    <3>. QED BY <2>2, <2>3, <3>1, <3>2
  <2>. QED BY <2>1, <2>3, <2>4, AuditSteps DEF FailAudit
<1>. QED BY <1>1, <1>2, <1>3, ContractsStay

LEMMA ContractsOfWrites ==
  ASSUME GovernanceTypeOK, ContractPart, NEW t \in Thread, Writes(t)
  PROVE  ContractPart'
<1>1. PICK base \in {0} \union Kept(contracts), d \in DatasetId, status \in ContractStatus, content \in Rules,
           source \in Nat, validation \in Validation :
        /\ Follow(t, base, NewRow(base, d, status, content, source, validation))
        /\ base = 0 => OfDataset(d) = {} /\ validation = NotValidated
        /\ \/ validation = NotValidated
           \/ base # 0 /\ d = contracts[base].dataset /\ validation = contracts[base].validation
        /\ UNCHANGED <<rows, clock, histories>>
  BY DEF Writes
<1>2. PICK n \in ContractRow : n = NewRow(base, d, status, content, source, validation)
  BY NewRowTyped
<1>3. /\ n.dataset = d /\ n.validation = validation
      /\ base = 0 => n.version = 1
      /\ base # 0 => n.key = contracts[base].key /\ n.version = contracts[base].version + 1
  BY <1>2 DEF NewRow, VersionAfter
<1>4. PICK r : r = [pc |-> "insert", base |-> base, new |-> n, first |-> OfDataset(d) = {},
                    moved |-> base # 0 /\ contracts[base].dataset # d]
  OBVIOUS
<1>5. req' = [req EXCEPT ![t] = r]
  BY <1>1, <1>2, <1>3, <1>4 DEF Follow, Enter
<1>6. r.pc = "insert" /\ r.base = base /\ r.new = n /\ (OfDataset(d) = {} => r.first)
      /\ (base # 0 /\ contracts[base].dataset # d => r.moved)
  BY <1>4
<1>7. base # 0 => base \in DOMAIN contracts /\ contracts[base] # Null /\ contracts[base] \in ContractRow /\ base \in Nat
  BY RowsTyped DEF Kept
<1>8. OfSaved(validation.evidence)
  BY <1>1 DEF ContractPart, RowsOfSaved, OfSaved, NotValidated
<1>9. n.version <= base + 1
  <2>1. CASE base # 0
    <3>1. contracts[base].version \in Nat /\ contracts[base].version <= base
      BY <1>7, <2>1 DEF ContractPart, RowsNumbered, ContractRow
    <3>. QED BY <1>3, <1>7, <2>1, <3>1
  <2>. QED BY <1>3, <2>1
<1>10. Agrees(validation, n.key, d)
  <2>1. CASE validation = NotValidated
    BY <2>1 DEF Agrees, NotValidated
  <2>2. CASE base # 0 /\ d = contracts[base].dataset /\ validation = contracts[base].validation
    BY <1>3, <2>2 DEF ContractPart, RowsAgree
  <2>. QED BY <1>1, <2>1, <2>2
<1>11. base # 0 => n.key \in DOMAIN contracts
  BY <1>3 DEF ContractPart, RowsNumbered
<1>12. Follows(r)
  <2>1. r.base \in {0} \union DOMAIN contracts
    BY <1>6, <1>7
  <2>2. r.base = 0 => r.first /\ n.validation = NotValidated
    BY <1>1, <1>3, <1>6
  <2>3. r.base # 0 => r.moved \/ (contracts[r.base] # Null /\ contracts[r.base].dataset = n.dataset)
    BY <1>3, <1>6, <1>7
  <2>. QED BY <1>3, <1>6, <1>8, <1>9, <1>10, <1>11, <2>1, <2>2, <2>3 DEF Follows
<1>13. UNCHANGED <<audits, contracts, dataset, made, entangled, branched, forked>>
  BY <1>1 DEF rows, histories
<1>14. ASSUME NEW u \in Thread PROVE Follows(req[u])' /\ Validates(req[u])'
  <2>1. PICK q : q = req'[u]
    OBVIOUS
  <2>2. Follows(q) /\ Validates(q)
    BY <1>5, <1>6, <1>12, <2>1 DEF ContractPart, GovernanceTypeOK, Validates
  <2>. QED BY <1>13, <2>1, <2>2 DEF Follows, Validates, OfSaved, Gone, DatasetsMade, Agrees, OfKey, Kept
<1>15. RowsNumbered' /\ RowsAgree' /\ VersionsUnique' /\ RowsOfSaved'
  BY <1>13 DEF ContractPart, RowsNumbered, RowsAgree, VersionsUnique, RowsOfSaved, Agrees, OfSaved, OfKey, Kept
<1>. QED BY <1>14, <1>15 DEF ContractPart

\* Of the audits of a name the one that is validated is of the highest version, and
\* the last of that.
LEMMA ToValidateLast ==
  ASSUME GovernanceTypeOK, NEW c, NEW a \in AuditToValidate(c), NEW b \in audits, b.name = a.name
  PROVE  b.version < a.version \/ (b.version = a.version /\ b.at <= a.at)
<1>. DEFINE named == Named(dataset[contracts[c].dataset].name)
            versioned == {x \in named : x.version # 0}
            latest == {x \in versioned : \A y \in versioned : y.version <= x.version}
            rest == IF versioned = {} THEN named ELSE latest
<1>1. a \in rest /\ \A x \in rest : x.at <= a.at
  BY DEF AuditToValidate
<1>2. a \in named /\ b \in named
  BY <1>1 DEF Named
<1>3. a.version \in Nat /\ b.version \in Nat
  BY <1>2 DEF Named, GovernanceTypeOK, Audit
<1>4. CASE versioned = {}
  BY <1>1, <1>2, <1>4
<1>5. CASE versioned # {}
  <2>1. a \in latest
    BY <1>1, <1>5
  <2>2. a.version # 0 /\ \A y \in versioned : y.version <= a.version
    BY <2>1
  <2>3. CASE b.version = 0
    BY <1>3, <2>2, <2>3
  <2>4. CASE b.version # 0 /\ b.version = a.version
    <3>1. b \in latest
      BY <1>2, <2>2, <2>4
    <3>. QED BY <1>1, <1>5, <2>4, <3>1
  <2>5. CASE b.version # 0 /\ b.version # a.version
    <3>1. b.version <= a.version
      BY <1>2, <2>2, <2>5
    <3>. QED BY <1>3, <2>5, <3>1
  <2>. QED BY <2>3, <2>4, <2>5
<1>. QED BY <1>4, <1>5

LEMMA ContractsOfBegin ==
  ASSUME GovernanceTypeOK, ContractPart, NEW t \in Thread, NEW c \in DOMAIN contracts, BeginValidation(t, c)
  PROVE  ContractPart'
<1>1. PICK a \in AuditToValidate(c) :
        Enter(t, [pc |-> "validate", row |-> c, was |-> contracts[c].validation.status, source |-> contracts[c].source,
                  evidence |-> [audit |-> a, passed |-> Satisfies(a, contracts[c].content)]])
  BY DEF BeginValidation
<1>2. PICK e : e = [audit |-> a, passed |-> Satisfies(a, contracts[c].content)]
  OBVIOUS
<1>3. PICK r : r = [pc |-> "validate", row |-> c, was |-> contracts[c].validation.status, source |-> contracts[c].source, evidence |-> e]
  OBVIOUS
<1>4. req' = [req EXCEPT ![t] = r] /\ r.pc = "validate" /\ r.row = c /\ r.was = contracts[c].validation.status /\ r.evidence = e
  BY <1>1, <1>2, <1>3 DEF Enter
<1>5. OfSaved(e) /\ Onward(contracts[c].validation.evidence, e)
  <2>1. e.audit = a /\ a \in audits
    BY <1>2 DEF AuditToValidate, Named
  <2>2. OfSaved(contracts[c].validation.evidence)
    BY DEF BeginValidation, ContractPart, RowsOfSaved
  <2>. QED BY <2>1, <2>2, ToValidateLast DEF OfSaved, Onward
<1>6. Validates(r)
  BY <1>4, <1>5 DEF Validates
<1>7. UNCHANGED <<audits, contracts, dataset, made, entangled, branched, forked>>
  BY DEF BeginValidation, rows, histories
<1>8. ASSUME NEW u \in Thread PROVE Follows(req[u])' /\ Validates(req[u])'
  <2>1. PICK q : q = req'[u]
    OBVIOUS
  <2>2. Follows(q) /\ Validates(q)
    BY <1>4, <1>6, <2>1 DEF ContractPart, GovernanceTypeOK, Follows
  <2>. QED BY <1>7, <2>1, <2>2 DEF Follows, Validates, OfSaved, Gone, DatasetsMade, Agrees, OfKey, Kept
<1>9. RowsNumbered' /\ RowsAgree' /\ VersionsUnique' /\ RowsOfSaved'
  BY <1>7 DEF ContractPart, RowsNumbered, RowsAgree, VersionsUnique, RowsOfSaved, Agrees, OfSaved, OfKey, Kept
<1>. QED BY <1>8, <1>9 DEF ContractPart

LEMMA ContractsOfValidation ==
  ASSUME GovernanceTypeOK, ContractPart, NEW t \in Thread, WriteValidation(t)
  PROVE  ContractPart'
<1>1. PICK q \in Request : q = req[t] /\ q.pc = "validate" /\ Validates(q)
  BY DEF WriteValidation, ContractPart, GovernanceTypeOK
<1>2. UNCHANGED <<audits, dataset, made, branched, forked>> /\ req' = [req EXCEPT ![t] = Idle]
  BY DEF WriteValidation, Done
<1>3. \A d \in DatasetId : Gone(d) => Gone(d)'
  BY <1>2 DEF Gone, DatasetsMade
<1>4. CASE UNCHANGED <<contracts, entangled>>
  BY <1>2, <1>3, <1>4, ContractsStay DEF GovernanceTypeOK, Idle
<1>5. CASE Rewritten(q)
  <2>1. contracts[q.row] # Null
    BY <1>5 DEF Rewritten, Kept
  <2>2. entangled \subseteq entangled' /\ \A u \in Thread \ {t} : req[u].pc = "validate" /\ req[u].row = q.row => q.row \in entangled'
    BY <1>1, <2>1 DEF WriteValidation
  <2>3. Kept(contracts)' = Kept(contracts) /\ DOMAIN contracts' = DOMAIN contracts
    BY <1>5, NullAssumption DEF Rewritten, Kept
  <2>4. Frame
    BY <1>2, <1>3, <1>5, <2>2, <2>3 DEF Frame, Rewritten
  <2>5. RowsNumbered' /\ VersionsUnique'
    BY <2>3, <2>4, RowsStay DEF ContractPart
  <2>6. q.evidence \in Evidence /\ q.evidence # Null /\ OfSaved(q.evidence)
    BY <1>1, RequestKinds, NullAssumption DEF Validates
  <2>7. PICK old \in ContractRow : old = contracts[q.row]
    BY <1>5, RowsTyped DEF Rewritten
  <2>8. PICK v, key, d : v = [status |-> Written(q, old.validation.status), evidence |-> q.evidence] /\ key = old.key /\ d = old.dataset
    OBVIOUS
  <2>9. contracts'[q.row].validation = v /\ contracts'[q.row].key = key /\ contracts'[q.row].dataset = d
    BY <1>5, <2>7, <2>8 DEF Rewritten
  <2>10. Agrees(v, key, d)'
    <3>1. v.status = StatusOf(q.evidence) \/ q.row \in entangled
      <4>1. v.status = Written(q, old.validation.status)
        BY <2>8
      <4>2. q.row \in entangled \/ old.validation.status = q.was
        BY <1>1, <2>1, <2>7 DEF Validates
      <4>. QED BY <4>1, <4>2 DEF Written
    <3>2. q.row \in OfKey(key)'
      BY <1>5, <2>3, <2>9 DEF OfKey, Rewritten
    <3>3. v.evidence = q.evidence
      BY <2>8
    <3>. QED BY <2>2, <2>6, <2>9, <3>1, <3>2, <3>3 DEF Agrees
  <2>11. RowsAgree' /\ RowsOfSaved'
    <3>1. ASSUME NEW c \in Kept(contracts)'
          PROVE  Agrees(contracts[c].validation, contracts[c].key, contracts[c].dataset)' /\ OfSaved(contracts[c].validation.evidence)'
      <4>1. CASE c = q.row
        <5>1. OfSaved(v.evidence)'
          BY <1>2, <2>6, <2>8 DEF OfSaved
        <5>. QED BY <2>9, <2>10, <4>1, <5>1 DEF Agrees, OfSaved, OfKey
      <4>2. CASE c # q.row
        <5>1. c \in DOMAIN contracts /\ contracts'[c] = contracts[c]
          BY <1>5, <2>3, <4>2, RowsTyped DEF Rewritten
        <5>. QED BY <2>4, <3>1, <5>1, AgreementStays DEF ContractPart
      <4>. QED BY <4>1, <4>2
    <3>. QED BY <3>1 DEF RowsAgree, RowsOfSaved
  <2>12. ASSUME NEW u \in Thread PROVE Follows(req[u])' /\ Validates(req[u])'
    <3>1. CASE u = t
      BY <1>2, <3>1 DEF GovernanceTypeOK, Idle, Follows, Validates
    <3>2. CASE u # t
      <4>1. PICK r \in Request : r = req[u] /\ r = req'[u]
        BY <1>2, <3>2 DEF GovernanceTypeOK
      <4>2. Follows(r)'
        BY <2>4, <4>1, FollowsStays DEF ContractPart
      <4>3. Validates(r)'
        <5>1. SUFFICES ASSUME r.pc = "validate" PROVE Validates(r)'
          BY DEF Validates
        <5>2. /\ r.row \in DOMAIN contracts /\ OfSaved(r.evidence)
              /\ \/ contracts[r.row] = Null \/ r.row \in entangled
                 \/ /\ contracts[r.row].validation.status = r.was
                    /\ Onward(contracts[r.row].validation.evidence, r.evidence)
          BY <4>1, <5>1 DEF ContractPart, Validates
        <5>3. OfSaved(r.evidence)'
          BY <1>2, <5>2 DEF OfSaved
        <5>4. CASE r.row = q.row
          BY <2>2, <2>3, <3>2, <4>1, <5>1, <5>2, <5>3, <5>4 DEF Validates
        <5>5. CASE r.row # q.row
          <6>1. contracts'[r.row] = contracts[r.row]
            BY <1>5, <5>2, <5>5 DEF Rewritten
          <6>. QED BY <2>2, <2>3, <5>2, <5>3, <6>1 DEF Validates
        <5>. QED BY <5>4, <5>5
      <4>. QED BY <4>1, <4>2, <4>3 DEF Follows, Validates
    <3>. QED BY <3>1, <3>2
  <2>. QED BY <2>5, <2>11, <2>12 DEF ContractPart
<1>. QED BY <1>1, <1>4, <1>5, WriteRewrites

LEMMA ContractsOfInsert ==
  ASSUME GovernanceTypeOK, ContractPart, NEW t \in Thread, InsertContract(t)
  PROVE  ContractPart'
<1>1. PICK r \in Request : r = req[t] /\ r.pc = "insert" /\ Follows(r)
  BY DEF InsertContract, ContractPart, GovernanceTypeOK
<1>2. UNCHANGED <<audits, dataset, made, entangled>> /\ req' = [req EXCEPT ![t] = Idle]
  BY DEF InsertContract, Done
<1>3. \A d \in DatasetId : Gone(d) => Gone(d)'
  BY <1>2 DEF Gone, DatasetsMade
<1>4. CASE UNCHANGED <<contracts, branched, forked>>
  BY <1>2, <1>3, <1>4, ContractsStay DEF GovernanceTypeOK, Idle
<1>5. PICK old \in ContractRow, id \in Nat : old = r.new /\ id = Len(contracts) + 1
  BY <1>1, RequestKinds, RowsTyped
<1>6. PICK n : n = [old EXCEPT !.key = IF r.base = 0 THEN id ELSE @]
  OBVIOUS
<1>7. /\ n \in ContractRow /\ n.dataset = old.dataset /\ n.dataset \in DatasetId /\ n.version = old.version
      /\ n.validation = old.validation /\ n.key = IF r.base = 0 THEN id ELSE old.key
  BY <1>5, <1>6 DEF ContractRow
<1>8. CASE /\ Cascade => n.dataset \in Kept(dataset)
           /\ contracts' = Append(contracts, n)
           /\ branched' = IF r.base # 0 /\ (r.base \notin OfKey(n.key) \/ Newest(OfKey(n.key)) # r.base)
                            THEN branched \union {n.key} ELSE branched
           /\ forked' = IF (r.first \/ r.moved) /\ \E c \in OfDataset(n.dataset) : contracts[c].key # n.key
                          THEN forked \union {n.dataset} ELSE forked
  <2>1. /\ DOMAIN contracts = 1..(id - 1) /\ DOMAIN contracts' = 1..id /\ id # 0
        /\ contracts'[id] = n /\ \A c \in DOMAIN contracts : contracts'[c] = contracts[c] /\ c # id
    BY <1>5, <1>8, RowsTyped DEF GovernanceTypeOK
  <2>2. n # Null /\ ~Gone(n.dataset)
    BY <1>7, <1>8, NullAssumption DEF Gone, Kept
  <2>3. Kept(contracts)' = Kept(contracts) \union {id} /\ Kept(contracts) \subseteq DOMAIN contracts
    BY <2>1, <2>2 DEF Kept
  <2>4. branched \subseteq branched' /\ forked \subseteq forked'
    BY <1>8
  <2>5. Frame
    BY <1>2, <1>3, <2>1, <2>3, <2>4 DEF Frame
  <2>6. /\ OfSaved(n.validation.evidence)
        /\ r.base \in {0} \union DOMAIN contracts /\ n.version <= r.base + 1
        /\ r.base = 0 => r.first /\ n.validation = NotValidated
        /\ r.base # 0 =>
             /\ n.key \in DOMAIN contracts
             /\ contracts[r.base] # Null => n.key = contracts[r.base].key /\ n.version = contracts[r.base].version + 1
             /\ r.moved \/ (contracts[r.base] # Null /\ contracts[r.base].dataset = n.dataset)
             /\ Agrees(n.validation, n.key, n.dataset)
    BY <1>1, <1>5, <1>7, <2>2 DEF Follows
  <2>7. RowsNumbered'
    <3>1. n.key \in 1..id /\ n.version <= id
      <4>1. r.base \in 0..(id - 1) /\ n.version \in Nat
        BY <1>7, <2>1, <2>6 DEF ContractRow
      <4>. QED BY <1>5, <1>7, <2>1, <2>6, <4>1
    <3>2. \A c \in Kept(contracts) : contracts[c].key \in DOMAIN contracts' /\ contracts[c].version <= c
      BY <2>5 DEF ContractPart, RowsNumbered, Frame
    <3>. QED BY <2>1, <2>3, <3>1, <3>2 DEF RowsNumbered
  <2>8. RowsAgree' /\ RowsOfSaved'
    <3>1. ASSUME NEW c \in Kept(contracts)', c # id
          PROVE  Agrees(contracts[c].validation, contracts[c].key, contracts[c].dataset)' /\ OfSaved(contracts[c].validation.evidence)'
      BY <2>1, <2>3, <2>5, <3>1, AgreementStays DEF ContractPart
    <3>2. Agrees(contracts[id].validation, contracts[id].key, contracts[id].dataset)' /\ OfSaved(contracts[id].validation.evidence)'
      <4>1. PICK v, key, d : v = n.validation /\ key = n.key /\ d = n.dataset
        OBVIOUS
      <4>2. Agrees(v, key, d) /\ OfSaved(v.evidence)
        BY <2>6, <4>1 DEF Agrees, NotValidated
      <4>3. Agrees(v, key, d)'
        <5>1. contracts'[id].dataset = d /\ id \in Kept(contracts)'
          BY <2>1, <2>3, <4>1
        <5>2. d \in DatasetId
          BY <1>7, <4>1
        <5>. QED BY <2>5, <4>2, <5>1, <5>2, AgreesStays
      <4>4. OfSaved(v.evidence)'
        BY <1>2, <4>2, SavedStays
      <4>. QED BY <2>1, <4>1, <4>3, <4>4 DEF Agrees, OfSaved, OfKey
    <3>. QED BY <3>1, <3>2 DEF RowsAgree, RowsOfSaved
  <2>9. VersionsUnique'
    <3>1. ASSUME NEW c \in Kept(contracts), contracts[c].key = n.key PROVE contracts[c].version # n.version \/ n.key \in branched'
      <4>1. SUFFICES ASSUME n.key \notin branched' PROVE contracts[c].version # n.version
        OBVIOUS
      <4>2. r.base # 0
        BY <1>7, <2>1, <3>1 DEF ContractPart, RowsNumbered
      <4>3. r.base \in OfKey(n.key) /\ Newest(OfKey(n.key)) = r.base
        BY <1>8, <4>1, <4>2
      <4>4. c \in OfKey(n.key) /\ contracts[c].version \in Nat /\ contracts[r.base].version \in Nat
        BY <3>1, <4>3, RowsTyped DEF OfKey, ContractRow
      <4>5. contracts[c].version <= contracts[r.base].version
        BY <4>3, <4>4, NewestIs DEF OfKey, ContractPart
      <4>6. n.version = contracts[r.base].version + 1
        BY <2>6, <4>2, <4>3 DEF OfKey, Kept
      <4>. QED BY <4>4, <4>5, <4>6
    <3>2. ASSUME NEW c \in Kept(contracts), contracts[c].dataset = n.dataset, contracts[c].key # n.key PROVE n.dataset \in forked'
      <4>1. c \in OfDataset(n.dataset)
        BY <3>2 DEF OfDataset
      <4>2. CASE r.first \/ r.moved
        BY <1>8, <3>2, <4>1, <4>2
      <4>3. CASE ~r.first /\ ~r.moved
        <5>1. r.base \in Kept(contracts) /\ contracts[r.base].dataset = n.dataset /\ contracts[r.base].key = n.key
          BY <2>6, <4>3 DEF Kept
        <5>. QED BY <2>4, <3>2, <5>1 DEF ContractPart, VersionsUnique
      <4>. QED BY <4>2, <4>3
    <3>3. ASSUME NEW b \in Kept(contracts)', NEW c \in Kept(contracts)'
          PROVE  /\ contracts'[b].key = contracts'[c].key /\ contracts'[b].version = contracts'[c].version
                      => b = c \/ contracts'[b].key \in branched'
                 /\ contracts'[b].dataset = contracts'[c].dataset /\ contracts'[b].key # contracts'[c].key
                      => contracts'[b].dataset \in forked'
      <4>1. CASE b \in Kept(contracts) /\ c \in Kept(contracts)
        BY <2>1, <2>3, <2>4, <4>1 DEF ContractPart, VersionsUnique
      <4>2. CASE b = id /\ c \in Kept(contracts)
        BY <2>1, <2>3, <3>1, <3>2, <4>2
      <4>3. CASE c = id /\ b \in Kept(contracts)
        BY <2>1, <2>3, <3>1, <3>2, <4>3
      <4>. QED BY <2>3, <4>1, <4>2, <4>3
    <3>. QED BY <3>3 DEF VersionsUnique
  <2>10. ASSUME NEW u \in Thread PROVE Follows(req[u])' /\ Validates(req[u])'
    <3>1. CASE u = t
      BY <1>2, <3>1 DEF GovernanceTypeOK, Idle, Follows, Validates
    <3>2. CASE u # t
      <4>1. PICK q \in Request : q = req[u] /\ q = req'[u]
        BY <1>2, <3>2 DEF GovernanceTypeOK
      <4>2. Follows(q)'
        BY <2>5, <4>1, FollowsStays DEF ContractPart
      <4>3. Validates(q)'
        <5>1. SUFFICES ASSUME q.pc = "validate" PROVE Validates(q)'
          BY DEF Validates
        <5>2. /\ q.row \in DOMAIN contracts /\ OfSaved(q.evidence)
              /\ \/ contracts[q.row] = Null \/ q.row \in entangled
                 \/ /\ contracts[q.row].validation.status = q.was
                    /\ Onward(contracts[q.row].validation.evidence, q.evidence)
          BY <4>1, <5>1 DEF ContractPart, Validates
        <5>3. contracts'[q.row] = contracts[q.row] /\ q.row \in DOMAIN contracts' /\ OfSaved(q.evidence)'
          BY <1>2, <2>1, <5>2 DEF OfSaved
        <5>. QED BY <1>2, <5>2, <5>3 DEF Validates
      <4>. QED BY <4>1, <4>2, <4>3 DEF Follows, Validates
    <3>. QED BY <3>1, <3>2
  <2>. QED BY <2>7, <2>8, <2>9, <2>10 DEF ContractPart
<1>. QED BY <1>1, <1>4, <1>5, <1>6, <1>8 DEF InsertContract

-----------------------------------------------------------------------------
(* The theorems.                                                           *)

Inv == GovernanceTypeOK /\ GovernanceInv

LEMMA InitInv == Init => Inv
<1>. SUFFICES ASSUME Init PROVE Inv
  OBVIOUS
<1>1. PICK n \in Nat : n = Cardinality(Registered) /\ n <= MaxRows
  BY FS_CardinalityType, GovernanceAssumption
<1>2. PICK in \in [1..n -> Registered] :
        /\ dataset = [d \in DatasetId |-> IF d <= n THEN [name |-> in[d], latest |-> d, made |-> d] ELSE Null]
        /\ audits = {[at |-> d, name |-> in[d], version |-> 1, type |-> "text", ran |-> [r \in {} |-> "passed"]] : d \in 1..n}
  BY <1>1 DEF Init
<1>3. PICK empty : empty = [r \in {} |-> "passed"]
  OBVIOUS
<1>4. empty \in Outcomes /\ DOMAIN empty = {}
  <2>1. empty \in [{} -> {"passed", "failed"}] /\ {} \in SUBSET RuleId
    BY <1>3
  <2>. QED BY <1>3, <2>1 DEF Outcomes
<1>5. PICK audit : audit = [d \in 1..n |-> [at |-> d, name |-> in[d], version |-> 1, type |-> "text", ran |-> empty]]
  OBVIOUS
<1>6. audits = {audit[d] : d \in 1..n}
  BY <1>2, <1>3, <1>5
<1>7. \A d \in 1..n : audit[d] \in Audit /\ audit[d].version = 1 /\ audit[d].at = d /\ DOMAIN audit[d].ran = {}
  <2>1. ASSUME NEW d \in 1..n PROVE audit[d] \in Audit /\ audit[d].version = 1 /\ audit[d].at = d /\ DOMAIN audit[d].ran = {}
    <3>1. audit[d] = [at |-> d, name |-> in[d], version |-> 1, type |-> "text", ran |-> empty]
      BY <1>5
    <3>2. in[d] \in Dataset
      BY <1>2, GovernanceAssumption
    <3>. QED BY <1>4, <3>1, <3>2 DEF Audit, ColumnType
  <2>. QED BY <2>1
<1>8. rule \in [RuleId -> {Null} \union RuleRow]
  BY DEF Init, RuleRow
<1>9. dataset \in [DatasetId -> {Null} \union DatasetRow]
  <2>1. \A d \in DatasetId : d <= n => [name |-> in[d], latest |-> d, made |-> d] \in DatasetRow
    BY <1>2, GovernanceAssumption DEF DatasetId, DatasetRow
  <2>. QED BY <1>2, <2>1
<1>10. GovernanceTypeOK
  <2>1. audits \subseteq Audit
    BY <1>6, <1>7
  <2>2. clock \in Nat /\ requests \in Nat /\ made \in Nat \X Nat
    BY <1>1 DEF Init
  <2>3. req \in [Thread -> Request]
    BY DEF Init, Request
  <2>4. /\ assigned = {} /\ executions = {} /\ contracts \in Seq({Null} \union ContractRow)
        /\ cut = {} /\ asked = {} /\ branched = {} /\ forked = {} /\ entangled = {}
    BY DEF Init
  <2>. QED BY <1>8, <1>9, <2>1, <2>2, <2>3, <2>4 DEF GovernanceTypeOK
<1>11. RowsRefer
  <2>1. \A r \in Kept(rule) : r = 1
    BY DEF Init, Kept
  <2>2. \A d \in Kept(dataset) : d <= n
    BY <1>2 DEF Kept, DatasetId
  <2>3. RulesMade = 1 /\ DatasetsMade = n /\ assigned = {}
    BY <1>1 DEF Init, RulesMade, DatasetsMade
  <2>. QED BY <2>1, <2>2, <2>3 DEF RowsRefer
<1>12. AuditsApart
  <2>1. \A a \in audits : a.at <= clock
    BY <1>1, <1>6, <1>7 DEF Init
  <2>5. IsFiniteSet(audits)
    <3>1. IsFiniteSet(1..n)
      BY FS_Interval
    <3>2. audit \in Surjection(1..n, audits)
      BY <1>5, <1>6 DEF Surjection
    <3>. QED BY <3>1, <3>2, FS_Surjection
  <2>2. \A a, b \in audits : a.at = b.at => a = b
    BY <1>6, <1>7
  <2>3. \A d \in Kept(dataset) : \E a \in audits : a.at = dataset[d].latest
    <3>1. ASSUME NEW d \in Kept(dataset) PROVE \E a \in audits : a.at = dataset[d].latest
      <4>1. d \in 1..n /\ dataset[d].latest = d
        BY <1>2 DEF Kept, DatasetId
      <4>. QED BY <1>6, <1>7, <4>1
    <3>. QED BY <3>1
  <2>4. Saving = {}
    BY DEF Saving, Init, Idle
  <2>. QED BY <2>1, <2>2, <2>3, <2>4, <2>5 DEF AuditsApart
<1>13. AuditsHaveExecutions /\ RulesRan
  <2>1. Saving = {}
    BY DEF Saving, Init, Idle
  <2>. QED BY <1>6, <1>7, <2>1 DEF AuditsHaveExecutions, Executed, RulesRan
<1>14. Kept(contracts) = {} /\ assigned = {} /\ \A t \in Thread : req[t].pc = "idle"
  BY DEF Init, Kept, Idle
<1>. QED BY <1>10, <1>11, <1>12, <1>13, <1>14 DEF Inv, GovernanceInv, RowsNumbered, RowsAgree, VersionsUnique, RowsOfSaved,
                                              AuditStage, Follows, Validates, AssignmentsRequested

LEMMA NextInv == Inv /\ [Next]_governanceVars => Inv'
<1>. SUFFICES ASSUME Inv, [Next]_governanceVars PROVE Inv'
  OBVIOUS
<1>1. GovernanceTypeOK /\ AuditsApart /\ RowsRefer /\ AuditPart /\ ContractPart /\ (Cascade => AssignmentsRequested)
  BY DEF Inv, GovernanceInv, AuditPart, ContractPart
<1>2. CASE Next
  <2>1. GovernanceTypeOK'
    BY <1>1, <1>2, TypeOfRules, TypeOfAudits, TypeOfContracts DEF Next, AuditPart, ContractPart
  <2>2. RowsRefer' /\ (Cascade => AssignmentsRequested')
    BY <1>1, <1>2, ReferStep DEF ContractPart
  <2>3. AuditPart'
    BY <1>1, <1>2, AuditsOfRules, AuditsOfAudits, AuditsOfContracts DEF Next, ContractPart
  <2>4. ContractPart'
    <3>1. ASSUME NEW t \in Thread, ContractRequest(t) PROVE ContractPart'
      BY <1>1, <3>1, ContractSteps, ContractsOfWrites, ContractsOfBegin, ContractsOfInsert, ContractsOfValidation DEF ContractPart
    <3>. QED BY <1>1, <1>2, <3>1, ContractsOfRules, ContractsOfAudits DEF Next
  <2>. QED BY <2>1, <2>2, <2>3, <2>4 DEF Inv, GovernanceInv, AuditPart, ContractPart
<1>3. CASE UNCHANGED governanceVars
  <2>1. GovernanceTypeOK'
    BY <1>1, <1>3 DEF governanceVars, rows, histories, GovernanceTypeOK
  <2>2. RowsRefer' /\ (Cascade => AssignmentsRequested')
    BY <1>1, <1>3, ReferStays DEF governanceVars, rows, histories
  <2>3. AuditPart'
    <3>1. UNCHANGED <<rule, dataset, audits, executions, req, clock, cut, made>>
      BY <1>3 DEF governanceVars, rows, histories
    <3>2. RulesMade' = RulesMade /\ RulesMade \in Nat /\ \A a \in audits : RuleGone(a) => RuleGone(a)'
      BY <1>1, <3>1, RowsTyped DEF RulesMade, RuleGone, Kept
    <3>. QED BY <1>1, <3>1, <3>2, AuditsStay, LatestStays, NoAudit, ExecutedKept DEF Kept
  <2>4. ContractPart'
    BY <1>1, <1>3, ContractsStay DEF governanceVars, rows, histories, Gone, DatasetsMade
  <2>. QED BY <2>1, <2>2, <2>3, <2>4 DEF Inv, GovernanceInv, AuditPart, ContractPart
<1>. QED BY <1>2, <1>3

\* Every row and request is of its type.
THEOREM GovernanceTypeCorrect == Spec => []GovernanceTypeOK
<1>1. Inv => GovernanceTypeOK
  BY DEF Inv
<1>. QED BY <1>1, InitInv, NextInv, PTL DEF Spec

\* The invariant that the properties rest on.
THEOREM GovernanceInvariant == Spec => []GovernanceInv
<1>1. Inv => GovernanceInv
  BY DEF Inv
<1>. QED BY <1>1, InitInv, NextInv, PTL DEF Spec

\* A foreign key that cascades, and ids from a sequence, keep an assignment from
\* passing on to a rule or a dataset that was made later.
THEOREM AssignmentsStay == ASSUME Cascade PROVE Spec => []AssignmentsRequested
<1>1. Inv => AssignmentsRequested
  BY DEF Inv, GovernanceInv
<1>. QED BY <1>1, InitInv, NextInv, PTL DEF Spec

\* create_contract, update_contract_record and transition_contract_status number the
\* versions of a contract apart, as long as each follows the newest.
THEOREM VersionsApart == Spec => []VersionsUnique
<1>1. Inv => VersionsUnique
  BY DEF Inv, GovernanceInv
<1>. QED BY <1>1, InitInv, NextInv, PTL DEF Spec

\* validate_contract_record writes a status that is that of the validation it shows,
\* unless two requests validate a row at a time.
THEOREM ValidationsAgree == Spec => []ValidationAgrees
<1>1. Inv => ValidationAgrees
  BY DEF Inv, GovernanceInv, RowsAgree, Agrees, ValidationAgrees
<1>. QED BY <1>1, InitInv, NextInv, PTL DEF Spec

\* A row's validation is replaced by one that is onward of it.
LEMMA StepAdvances ==
  ASSUME Inv, Next, NEW c \in Kept(contracts)
  PROVE  Advances(c)
<1>. DEFINE Same == contracts'[c] = Null \/ contracts'[c] = contracts[c]
<1>1. GovernanceTypeOK /\ AuditsApart /\ RowsNumbered /\ c \in DOMAIN contracts /\ \A t \in Thread : Validates(req[t])
  BY RowsTyped DEF Inv, GovernanceInv
<1>2. Same => Advances(c)
  BY DEF Advances
<1>3. CASE RuleRequest
  <2>1. ASSUME NEW R, NEW D, NEW on, BulkAssignments(R, D, on) PROVE UNCHANGED contracts
    BY <2>1 DEF BulkAssignments
  <2>2. ASSUME NEW r, NEW d, NEW n, NEW active,
               CreateRule \/ UpdateRule(r, active) \/ DeleteRule(r) \/ UnassignRule(r, d) \/ RenameDataset(d, n)
        PROVE  UNCHANGED contracts
    BY <2>2 DEF CreateRule, UpdateRule, DeleteRule, UnassignRule, RenameDataset
  <2>3. UNCHANGED contracts \/ \E d \in DatasetId : DeleteDataset(d)
    BY <1>3, <2>1, <2>2 DEF RuleRequest, AssignRule
  <2>. QED BY <1>1, <1>2, <2>3 DEF DeleteDataset
<1>4. ASSUME NEW t \in Thread, AuditRequest(t) PROVE Advances(c)
  <2>1. UNCHANGED contracts
    BY <1>4 DEF AuditRequest, BeginAudit, BeginCorrection, Compute, Revisit, SaveAudit, PersistExecutions, RegisterAudit, FailAudit,
                rows
  <2>. QED BY <1>2, <2>1
<1>5. ASSUME NEW t \in Thread, Writes(t) \/ \E b \in DOMAIN contracts : BeginValidation(t, b) PROVE Advances(c)
  <2>1. UNCHANGED contracts
    BY <1>5 DEF Writes, BeginValidation, rows
  <2>. QED BY <1>2, <2>1
<1>6. ASSUME NEW t \in Thread, InsertContract(t) PROVE Advances(c)
  <2>1. PICK n : contracts' = Append(contracts, n) \/ contracts' = contracts
    BY <1>6 DEF InsertContract
  <2>2. contracts'[c] = contracts[c]
    <3>1. contracts \in Seq({Null} \union ContractRow) /\ c \in 1..Len(contracts)
      BY <1>1, RowsTyped DEF GovernanceTypeOK
    <3>2. Append(contracts, n)[c] = contracts[c]
      BY <3>1
    <3>. QED BY <2>1, <3>2
  <2>. QED BY <1>2, <2>2
<1>7. ASSUME NEW t \in Thread, WriteValidation(t) PROVE Advances(c)
  <2>1. PICK q : q = req[t]
    OBVIOUS
  <2>2. CASE UNCHANGED <<contracts, entangled>>
    BY <1>2, <2>2
  <2>3. CASE Rewritten(q) /\ c # q.row
    BY <1>1, <1>2, <2>3 DEF Rewritten
  <2>4. CASE Rewritten(q) /\ c = q.row
    <3>1. q.evidence \in Evidence /\ q.pc = "validate" /\ Validates(q)
      BY <1>1, <1>7, <2>1, RequestKinds DEF WriteValidation, GovernanceTypeOK
    <3>2. q.evidence # Null
      BY <3>1, NullAssumption
    <3>3. c \in entangled' \/ Onward(contracts[c].validation.evidence, q.evidence)
      BY <1>7, <2>1, <2>4, <3>1 DEF Validates, WriteValidation, Kept
    <3>4. contracts'[c].validation.evidence = q.evidence
      BY <2>4 DEF Rewritten
    <3>. QED BY <3>2, <3>3, <3>4 DEF Advances
  <2>. QED BY <1>1, <1>7, <2>1, <2>2, <2>3, <2>4, WriteRewrites
<1>. QED BY <1>1, <1>3, <1>4, <1>5, <1>6, <1>7, ContractSteps DEF Next

\* persist_rule_executions completes a saved audit, whether it is registered before
\* (apply_remediation) or after that, unless the request failed or a rule is gone.
THEOREM SavedHasExecutions == Spec => []AuditsHaveExecutions
<1>1. Inv => AuditsHaveExecutions
  BY DEF Inv, GovernanceInv
<1>. QED BY <1>1, InitInv, NextInv, PTL DEF Spec

\* What validate_contract_record shows for a row never goes back to an older version
\* of the dataset, or an older audit of one, as long as validations do not overlap.
THEOREM NeverGoesBack == Spec => ValidationsAdvance
<1>1. Inv /\ [Next]_governanceVars => [\A c \in Kept(contracts) : Advances(c)]_governanceVars
  BY StepAdvances
<1>. QED BY <1>1, InitInv, NextInv, PTL DEF Spec, ValidationsAdvance

=============================================================================
