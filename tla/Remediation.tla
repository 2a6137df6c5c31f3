----------------------------- MODULE Remediation -----------------------------
(***************************************************************************)
(* The audit of a table (src/app/rules.py, src/app/quality_rules.py,       *)
(* src/app/profiling/), the contract that is generated from it             *)
(* (src/app/contracts.py), and the corrections that are applied, issue by  *)
(* issue, to a copy of it (src/app/remediation.py).                        *)
(*                                                                         *)
(* A table is a sequence of rows.  Its values are a few texts, with what   *)
(* strip, lower, title and the masking of a value make of each.  The       *)
(* detectors that look at one row are sets of rejected values; inferred    *)
(* types and outliers are left out, and columns of more than 50 labels.    *)
(***************************************************************************)
EXTENDS Integers, Sequences, FiniteSets, FiniteSetsExt, SequencesExt

CONSTANTS
  Value,          \* texts of cells, the missing ones among them
  Nothing,           \* the missing value
  Missing,        \* Nothing, and texts of nothing but space
  Strip, Lower, Title, Token, \* functions on texts
  Rank,           \* the order of texts
  NotProvided, Zero, \* what missing values are filled with
  Width,          \* columns are 1..Width
  KeyNamed,       \* columns whose name has "id", "key", "number" or "code"
  Private,        \* columns that the privacy scan finds sensitive
  Checks,         \* detectors of one row: [title, category, severity, columns, bad]
  SampleLimit,    \* 20: changes that are recorded one by one
  TopValues,      \* 5: labels that a profile keeps
  MaxLabels,      \* 20: labels up to which a column's are allowed values
  UniqueRate,     \* 98: per cent of different texts from which a column is to be unique
  Tables,         \* bound: the tables that are audited
  MaxSelected     \* bound: issues that are corrected together

Column == 1..Width
Titles == {"missing values", "one repeated value", "duplicate rows", "duplicate keys", "sensitive columns",
           "inconsistent casing"}
SeverityOrder == [critical |-> 0, high |-> 1, medium |-> 2, low |-> 3]
ASSUME RemediationAssumption ==
  /\ Nothing \in Missing /\ Missing \subseteq Value /\ {NotProvided, Zero} \subseteq Value \ Missing
  /\ {Strip, Lower, Title, Token} \subseteq [Value -> Value]
  /\ Rank \in [Value -> Nat] /\ IsInjective(Rank)
  /\ \A f \in Tables : f \in Seq([Column -> Value]) /\ f # <<>>
  /\ {Width, SampleLimit, TopValues, MaxLabels, UniqueRate, MaxSelected} \subseteq Nat
  /\ KeyNamed \subseteq Column /\ Private \subseteq Column
  /\ Checks \in Seq({Checks[k] : k \in DOMAIN Checks})
  /\ \A k \in DOMAIN Checks : Checks[k].title \notin Titles /\ Checks[k].severity \in DOMAIN SeverityOrder
\* Of texts of ASCII letters, none of which is what null is written as: a text that is not
\* missing has the label of none that is, and titles that differ do so in lower case.
ASSUME TextAssumption ==
  /\ \A u \in Value \ Missing, v \in Missing : Strip[u] # Strip[v]
  /\ \A u, v \in Value : Lower[Strip[Title[u]]] = Lower[Strip[Title[v]]] => Strip[Title[u]] = Strip[Title[v]]

VARIABLES
  source,    \* the audited table
  selected,  \* the issues that the user selected, in the audit's order
  todo,      \* those that are not corrected yet
  options,   \* [fill, mask]
  table,     \* the corrected copy
  origin,    \* history: the row of source that each row was
  stats      \* [cells, columns, removed], as they are reported

remediationVars == <<source, selected, todo, options, table, origin, stats>>

-----------------------------------------------------------------------------
(* Profiles and detectors.                                                 *)

MissingRows(f, c) == {i \in DOMAIN f : f[i][c] \in Missing}
PresentRows(f, c) == DOMAIN f \ MissingRows(f, c)
Texts(f, c) == {f[i][c] : i \in PresentRows(f, c)}
Labels(f, c) == {Strip[v] : v \in Texts(f, c)}
\* Rows that have the label of another; rows that are copies of an earlier one.
Twins(f, c) == {i \in PresentRows(f, c) : \E j \in PresentRows(f, c) \ {i} : Strip[f[j][c]] = Strip[f[i][c]]}
Copies(f) == {i \in DOMAIN f : \E j \in 1..(i - 1) : f[j] = f[i]}

\* A share that a profile has rounded to four digits.
Rate(n, all) == (20000 * n + all) \div (2 * all)
MissingSeverity(rate) == IF rate >= 5000 THEN "critical" ELSE IF rate >= 2000 THEN "high"
                         ELSE IF rate >= 500 THEN "medium" ELSE "low"
\* The place that an issue is found at: the detectors run in order, each over its columns.
Place(detector, k) == detector * (2 * Width + Len(Checks) + 1) + k
QualityIssue(place, title, category, severity, columns, affected) ==
  [place |-> place, title |-> title, category |-> category, severity |-> severity, columns |-> columns, affected |-> affected]
\* An issue is there if it affects rows.
Found(issue) == IF issue.affected > 0 THEN {issue} ELSE {}

ColumnIssues(f, c) == LET n == Cardinality(MissingRows(f, c)) IN
  Found(QualityIssue(Place(0, 2 * c - 1), "missing values", "completeness", MissingSeverity(Rate(n, Len(f))), {c}, n))
  \union Found(QualityIssue(Place(0, 2 * c), "one repeated value", "consistency", "medium", {c},
                 IF Cardinality(Texts(f, c)) = 1 /\ Len(f) > 1 THEN Len(f) ELSE 0))
DuplicateIssue(f) == LET n == Cardinality(Copies(f)) IN
  Found(QualityIssue(Place(1, 0), "duplicate rows", "uniqueness", IF 20 * n >= Len(f) THEN "high" ELSE "medium", Column, n))
KeyIssue(f, c) ==
  Found(QualityIssue(Place(2, c), "duplicate keys", "uniqueness", "high", {c},
              IF c \in KeyNamed THEN Cardinality(Twins(f, c)) ELSE 0))
PrivacyIssue(f) ==
  Found(QualityIssue(Place(3, 0), "sensitive columns", "privacy", "high", Private, IF Private = {} THEN 0 ELSE Len(f)))
RowIssue(f, k) == LET check == Checks[k] IN
  Found(QualityIssue(Place(4, k), check.title, check.category, check.severity, check.columns,
              Cardinality({i \in DOMAIN f : [c \in check.columns |-> f[i][c]] \in check.bad})))
CasingIssue(f, c) ==
  Found(QualityIssue(Place(5, c), "inconsistent casing", "consistency", "low", {c},
              Cardinality(Labels(f, c)) - Cardinality({Lower[v] : v \in Labels(f, c)})))

\* detect_issues, and the order of its result: by severity, then by place.
Detected(f) ==
  (UNION {ColumnIssues(f, c) \union KeyIssue(f, c) \union CasingIssue(f, c) : c \in Column})
  \union DuplicateIssue(f) \union PrivacyIssue(f) \union (UNION {RowIssue(f, k) : k \in DOMAIN Checks})
Before(x, y) ==
  \/ SeverityOrder[x.severity] < SeverityOrder[y.severity]
  \/ SeverityOrder[x.severity] = SeverityOrder[y.severity] /\ x.place < y.place

\* A set in an order: the kth element has k - 1 others before it.
Ordered(S, before(_, _)) ==
  [k \in 1..Cardinality(S) |-> CHOOSE x \in S : Cardinality({y \in S : before(y, x)}) = k - 1]

\* compare_audits: issues are the same if their title and columns are.
IssueKeys(f) == {[title |-> issue.title, columns |-> issue.columns] : issue \in Detected(f)}
ResolvedIssues(before, after) == IssueKeys(before) \ IssueKeys(after)

-----------------------------------------------------------------------------
(* Assigned rules, and the contract of a table that has none.              *)

\* Mutant: values that are missing are duplicates too.
UniqueWithMissing(f, c) == {i \in DOMAIN f : \E j \in DOMAIN f \ {i} : Strip[f[j][c]] = Strip[f[i][c]]}
UniqueMask(f, c) == {i \in DOMAIN f \ MissingRows(f, c) : \E j \in DOMAIN f \ {i} : Strip[f[j][c]] = Strip[f[i][c]]}

\* _evaluate_rule: the rows that a rule affects; it failed if there are any.
RuleMask(f, rule) ==
  CASE rule.type = "duplicate_rows" -> {i \in DOMAIN f : \E j \in DOMAIN f \ {i} : f[j] = f[i]}
    [] rule.type # "duplicate_rows" /\ rule.column \notin Column -> DOMAIN f
    [] rule.type = "required" /\ rule.column \in Column -> MissingRows(f, rule.column)
    [] rule.type = "unique" /\ rule.column \in Column -> UniqueMask(f, rule.column)
    [] rule.type = "allowed_values" /\ rule.column \in Column ->
         {i \in PresentRows(f, rule.column) : Strip[f[i][rule.column]] \notin rule.values}
    [] rule.type = "missing_threshold" /\ rule.column \in Column ->
         LET n == Cardinality(MissingRows(f, rule.column)) IN
         IF 100 * n <= rule.percent * Len(f) THEN {} ELSE MissingRows(f, rule.column)

\* column_stats: of the labels, that of blank texts among them, as many as a profile
\* keeps, none of them less frequent than one left out.
LabelsWithBlank(f, c) == {Strip[f[i][c]] : i \in {j \in DOMAIN f : f[j][c] # Nothing}}
Frequency(f, c, v) == Cardinality({i \in DOMAIN f : f[i][c] # Nothing /\ Strip[f[i][c]] = v})
TopLabels(f, c) == LET all == LabelsWithBlank(f, c) IN
  {T \in SUBSET all : /\ Cardinality(T) = Min({TopValues, Cardinality(all)})
                      /\ \A v \in T, u \in all \ T : Frequency(f, c, u) <= Frequency(f, c, v)}

NearlyUnique(f, c) == Rate(Cardinality(Texts(f, c)), Len(f)) >= 100 * UniqueRate
NoneMissing(f, c) == Rate(Cardinality(MissingRows(f, c)), Len(f)) = 0

\* generate_contract without rules, as contract_to_rule_config hands it on.
ContractOf(f) ==
  [required |-> {c \in Column : NoneMissing(f, c)},
   unique   |-> {c \in Column : NearlyUnique(f, c) /\ NoneMissing(f, c)},
   labelled |-> {c \in Column : Cardinality(Texts(f, c)) \in 2..MaxLabels}]

\* _detect_configured_rules with the columns and labels of a contract; top gives
\* each labelled column the labels that were kept.
ConfiguredIssues(f, config, top) ==
  {<<"required", c>> : c \in config.required \ Column}
  \union {<<"unique", c>> : c \in {d \in config.unique : Twins(f, d) # {}}}
  \union {<<"allowed", c>> : c \in {d \in config.labelled : \E v \in Labels(f, d) : v \notin top[d]}}

-----------------------------------------------------------------------------
(* Corrections.                                                            *)

\* The most frequent text, of those the first in order.
Mode(f, c) ==
  LET count(v) == Cardinality({i \in PresentRows(f, c) : f[i][c] = v}) IN
  CHOOSE v \in Texts(f, c) : \A u \in Texts(f, c) \ {v} : count(u) < count(v) \/ (count(u) = count(v) /\ Rank[v] < Rank[u])
Filling(f, c) == CASE options.fill = "zero" -> Zero
                   [] options.fill = "blank" -> NotProvided
                   [] options.fill = "mode" -> IF Texts(f, c) = {} THEN NotProvided ELSE Mode(f, c)

Filled(f, columns) ==
  [i \in DOMAIN f |-> [c \in Column |-> IF c \in columns /\ f[i][c] \in Missing THEN Filling(f, c) ELSE f[i][c]]]
\* strip().title() of texts; null is left.
Standardized(f, columns) == [i \in DOMAIN f |-> [c \in Column |-> IF c \in columns THEN Title[f[i][c]] ELSE f[i][c]]]
Masked(f, columns) ==
  [i \in DOMAIN f |-> [c \in Column |-> IF c \in columns /\ f[i][c] \notin Missing THEN Token[f[i][c]] ELSE f[i][c]]]

\* Mutant: only the changes that are shown are counted.
Shown(n) == Min({n, SampleLimit})
Counted(n) == Min({n, SampleLimit}) + (n - Min({n, SampleLimit}))

\* The cells of the columns are rewritten.
Rewrite(new, columns) ==
  LET changed(c) == {i \in DOMAIN table : new[i][c] # table[i][c]} IN
  /\ table' = new
  /\ stats' = [stats EXCEPT !.cells = @ + SumFunction([c \in columns |-> Counted(Cardinality(changed(c)))]),
                            !.columns = @ \union {c \in columns : changed(c) # {}}]
  /\ UNCHANGED origin

\* Mutant: the last of the rows that agree is compared with the first only.
NextTo(f, columns) == {i \in DOMAIN f : \A j \in {i - 1} \ {0} : \E c \in columns : f[j][c] # f[i][c]}
\* drop_duplicates(subset=columns, keep="first"), where null equals null.
Firsts(f, columns) == {i \in DOMAIN f : \A j \in 1..(i - 1) : \E c \in columns : f[j][c] # f[i][c]}

DropDuplicates(columns) ==
  LET kept == Ordered(Firsts(table, columns), <) IN
  /\ table' = [k \in DOMAIN kept |-> table[kept[k]]]
  /\ origin' = [k \in DOMAIN kept |-> origin[kept[k]]]
  /\ stats' = [stats EXCEPT !.removed = @ + Len(table) - Len(kept)]

\* apply_remediation_actions, one issue of it: the columns of it that the table has,
\* all columns when duplicates of none of them are to go.
Correct ==
  LET issue == Head(todo)
      columns == issue.columns \intersect Column IN
  /\ todo # <<>>
  /\ todo' = Tail(todo)
  /\ \/ issue.category = "uniqueness" /\ DropDuplicates(IF columns = {} THEN Column ELSE columns)
     \/ issue.category = "completeness" /\ Rewrite(Filled(table, columns), columns)
     \/ issue.category = "consistency" /\ Rewrite(Standardized(table, columns), columns)
     \/ issue.category = "privacy" /\ options.mask /\ Rewrite(Masked(table, columns), columns)
     \/ /\ issue.category \notin {"uniqueness", "completeness", "consistency"}
        /\ ~(issue.category = "privacy" /\ options.mask)
        /\ UNCHANGED <<table, origin, stats>>
  /\ UNCHANGED <<source, selected, options>>

\* The audit of a table and a selection of its issues.
RemediationInit ==
  /\ source \in Tables /\ table = source
  /\ \E chosen \in SUBSET Detected(source) : Cardinality(chosen) <= MaxSelected /\ selected = Ordered(chosen, Before)
  /\ todo = selected
  /\ options \in [fill: {"mode", "zero", "blank"}, mask: BOOLEAN]
  /\ origin = [i \in DOMAIN source |-> i]
  /\ stats = [cells |-> 0, columns |-> {}, removed |-> 0]

RemediationSpec == RemediationInit /\ [][Correct]_remediationVars

-----------------------------------------------------------------------------
(* Properties.                                                             *)

\* The detectors, which group and count values one way, and the evaluation of assigned
\* rules, which masks rows another way, find the same missing values and keys, and
\* duplicate rows in the same tables, where a rule counts all copies.
DetectorsAgree ==
  LET found(title, columns) == {i \in Detected(source) : i.title = title /\ i.columns = columns}
      affected(title, columns) ==
        IF found(title, columns) = {} THEN 0 ELSE (CHOOSE i \in found(title, columns) : TRUE).affected
      mask(type, c) == Cardinality(RuleMask(source, [type |-> type, column |-> c])) IN
  /\ \A c \in Column : affected("missing values", {c}) = mask("required", c)
  /\ \A c \in KeyNamed : affected("duplicate keys", {c}) = mask("unique", c)
  /\ (affected("duplicate rows", Column) > 0) = (mask("duplicate_rows", 0) > affected("duplicate rows", Column))

\* The contract that is generated from an audit without rules is met by the audited
\* table, unless a column has more labels than a profile keeps, the blank one among
\* them, or texts that only nearly are unique or differ in the space around them.
OwnTableMeetsContract ==
  LET config == ContractOf(source) IN
  \A top \in [Column -> UNION {TopLabels(source, c) : c \in Column}] :
    (\A c \in Column : top[c] \in TopLabels(source, c)) =>
      \A issue \in ConfiguredIssues(source, config, top) :
        \/ issue[1] = "allowed" /\ Cardinality(LabelsWithBlank(source, issue[2])) > TopValues
        \/ issue[1] = "unique" /\ (Cardinality(Texts(source, issue[2])) < Len(source)
                                   \/ Cardinality(Labels(source, issue[2])) < Cardinality(Texts(source, issue[2])))

\* What is read of one table agrees.  (Looked at when nothing is selected.)
ReadingsAgree == selected = <<>> => DetectorsAgree /\ OwnTableMeetsContract

\* An issue that was corrected alone is among the resolved ones when the copy is
\* audited and compared: missing values, copies and labels that differ in case; and
\* duplicate keys, unless there are some that differ in the space around them.
CorrectionResolves ==
  todo = <<>> /\ Len(selected) = 1 =>
    LET issue == selected[1] IN
    (\/ issue.title \in {"missing values", "duplicate rows", "inconsistent casing"}
     \/ issue.title = "duplicate keys" /\ \A c \in issue.columns : Cardinality(Labels(source, c)) = Cardinality(Texts(source, c)))
      => [title |-> issue.title, columns |-> issue.columns] \in ResolvedIssues(source, table)

\* "Changed cells and columns, rows retained or removed" are reported of any selection:
\* no cell of a row that was kept differs in a column that is not reported, and no
\* more cells differ than are counted.
ChangesReported ==
  LET differing(c) == {k \in DOMAIN table : table[k][c] # source[origin[k]][c]} IN
  /\ \A c \in Column : differing(c) # {} => c \in stats.columns
  /\ SumFunction([c \in Column |-> Cardinality(differing(c))]) <= stats.cells
  /\ Len(source) = Len(table) + stats.removed

\* The rows that were kept are rows of the audited table in their order.
RowsKept ==
  /\ table \in Seq({table[k] : k \in DOMAIN table})
  /\ origin \in [DOMAIN table -> DOMAIN source]
  /\ \A j, k \in DOMAIN table : j < k => origin[j] < origin[k]
  /\ stats \in [cells: Nat, columns: SUBSET Column, removed: Int]
RemediationInv == RowsKept /\ ChangesReported
\* An issue selected alone waits, and the table is as it was audited, or it is resolved.
AloneInv ==
  /\ source \in Tables /\ options.fill \in {"mode", "zero", "blank"}
  /\ Len(selected) = 1 => /\ selected = <<selected[1]>> /\ selected[1] \in Detected(source)
                          /\ \/ todo = selected /\ table = source
                             \/ todo = <<>> /\ CorrectionResolves
=============================================================================
