-------------------------------- MODULE Drift --------------------------------
(***************************************************************************)
(* Schema drift between the versions of a dataset (src/app/api/routes/     *)
(* schema_drift.py), beside two other readings of the same profiles: the   *)
(* comparison of two versions (src/app/comparison.py) and the contract     *)
(* that is generated from one and validated on the next.                   *)
(***************************************************************************)
EXTENDS Integers, Sequences, FiniteSets, FiniteSetsExt, SequencesExt

CONSTANTS
  DriftColumn,   \* names of columns
  ColumnProfile, \* what a profile says of a column: [type, missing, unique], missing in hundredths
  Joined,        \* the text of some columns: their names, sorted, with commas between them
  Imported,      \* bound: the profiles that are imported
  MaxVersions    \* bound: versions that are imported

InferredType == {"empty", "text", "numeric", "datetime", "boolean"}
SomeColumns == (SUBSET DriftColumn) \ {{}}
\* A profile is a function from the columns that there are.
Profile == UNION {[C -> ColumnProfile] : C \in SomeColumns}
\* Names may hold commas: different columns may have one text.
ASSUME DriftAssumption ==
  /\ ColumnProfile \subseteq [type: InferredType, missing: 0..100, unique: Nat]
  /\ DOMAIN Joined = SomeColumns /\ \A c \in DriftColumn : Joined[{c}] = c
  /\ Imported \subseteq Profile /\ MaxVersions \in Nat

VARIABLE versions  \* profiles of the dataset's versions, in the order of its lineage

-----------------------------------------------------------------------------
(* Events.                                                                 *)

Abs(n) == IF n < 0 THEN -n ELSE n
\* key: the text of the columns; after: for each of them its new type, "none" without.
Event(v, type, key, impact, after) ==
  [version |-> v, type |-> type, key |-> key, impact |-> Max({1, Min({100, impact})}), after |-> after]

\* The columns of an event: affected_columns names them.
Columns(e) == DOMAIN e.after

Added(old, new) == DOMAIN new \ DOMAIN old
Removed(old, new) == DOMAIN old \ DOMAIN new
Retyped(old, new) == {c \in DOMAIN old \intersect DOMAIN new : old[c].type # new[c].type}

\* _pair_events, of version v and the one before.
ColumnEvents(v, old, new) ==
  (IF Added(old, new) = {} THEN {}
   ELSE {Event(v, "column_added", Joined[Added(old, new)], Min({96, 40 + 14 * Cardinality(Added(old, new))}), [c \in Added(old, new) |-> new[c].type])})
  \union
  (IF Removed(old, new) = {} THEN {}
   ELSE {Event(v, "column_removed", Joined[Removed(old, new)], 55 + 15 * Cardinality(Removed(old, new)), [c \in Removed(old, new) |-> "none"])})

\* Mutant: a type is compared if the column has values in both versions.
TypeEventsOfFull(v, old, new) ==
  {Event(v, "type_changed", c, 78, [d \in {c} |-> new[c].type]) :
     c \in {d \in Retyped(old, new) : "empty" \notin {old[d].type, new[d].type}}}
TypeEvents(v, old, new) == {Event(v, "type_changed", c, 78, [d \in {c} |-> new[c].type]) : c \in Retyped(old, new)}

ShiftEvents(v, old, new) ==
  LET both == DOMAIN old \intersect DOMAIN new
      delta(c) == Abs(new[c].missing - old[c].missing)
      ratio(c) == (100 * Abs(new[c].unique - old[c].unique)) \div old[c].unique IN
  {Event(v, "nullability_changed", c, Min({90, 25 + delta(c)}), [d \in {c} |-> new[c].type]) :
     c \in {d \in both : delta(d) >= 10}}
  \union
  {Event(v, "cardinality_shift", c, Min({85, 20 + (55 * ratio(c)) \div 100}), [d \in {c} |-> new[c].type]) :
     c \in {d \in both : old[d].unique > 0 /\ new[d].unique > 0 /\ ratio(d) >= 30}}

PairEvents(v) == LET old == versions[v - 1]  new == versions[v] IN
  ColumnEvents(v, old, new) \union TypeEvents(v, old, new) \union ShiftEvents(v, old, new)
Events == UNION {PairEvents(v) : v \in 2..Len(versions)}

\* Mutant: what was done to the columns is left out.
SignatureOfKey(e) == e.key
Signature(e) == <<e.type, e.key>>
SignaturesOf(v) == {Signature(e) : e \in {d \in Events : d.version = v}}

\* _all_events: of the latest version by the one before, of others by the later ones.
DriftStatus(e) ==
  IF e.version = Len(versions)
  THEN IF Signature(e) \in SignaturesOf(e.version - 1) THEN "persistent" ELSE "new"
  ELSE IF \E v \in (e.version + 1)..Len(versions) : Signature(e) \in SignaturesOf(v) THEN "persistent" ELSE "resolved"

ImportVersion(p) == Len(versions) < MaxVersions /\ versions' = Append(versions, p)

DriftInit == \E p \in Imported : versions = <<p>>
DriftNext == \E p \in Imported : ImportVersion(p)
DriftSpec == DriftInit /\ [][DriftNext]_versions

-----------------------------------------------------------------------------
(* Two other readings.                                                     *)

\* compare_audits: schema_changes, type_changes and the columns that got worse.
Comparison(old, new) ==
  [added   |-> {c \in DOMAIN new : c \notin DOMAIN old},
   removed |-> {c \in DOMAIN old : c \notin DOMAIN new},
   types   |-> {<<c, old[c].type, new[c].type>> : c \in {d \in DOMAIN old : d \in DOMAIN new /\ old[d].type # new[d].type}},
   worse   |-> {c \in DOMAIN old \intersect DOMAIN new : new[c].missing > old[c].missing}]

ExpectedTypes(p) == {<<c, p[c].type>> : c \in {d \in DOMAIN p : p[d].type # "empty"}}

\* generate_contract without rules, and _schema_contract_violations.
SchemaViolations(old, new) ==
  {<<"required_column", c>> : c \in {d \in DOMAIN old : old[d].missing = 0 /\ d \notin DOMAIN new}}
  \union {<<"expected_type", e[1]>> : e \in {d \in ExpectedTypes(old) : d[1] \in DOMAIN new /\ new[d[1]].type # d[2]}}

-----------------------------------------------------------------------------
(* Properties.                                                             *)

Latest == versions[Len(versions)]
\* The type that the events since the first version leave a column with.
Touching(c) == {e \in Events : c \in Columns(e) /\ e.type \in {"column_added", "column_removed", "type_changed"}}
TypeByEvents(c) ==
  IF Touching(c) = {} THEN IF c \in DOMAIN versions[1] THEN versions[1][c].type ELSE "none"
  ELSE (CHOOSE e \in Touching(c) : \A d \in Touching(c) : d.version <= e.version).after[c]

\* The drift that is reported explains the schema: replayed on the first version it
\* gives the latest, it is what the comparison of each two versions shows, and a
\* contract that was generated from a version and is broken by the next is broken by
\* an event that is reported, whatever was missing from the columns.
DriftExplainsSchema ==
  /\ \A c \in DriftColumn : TypeByEvents(c) = IF c \in DOMAIN Latest THEN Latest[c].type ELSE "none"
  /\ \A v \in 2..Len(versions) :
       LET shown    == Comparison(versions[v - 1], versions[v])
           violated == SchemaViolations(versions[v - 1], versions[v])
           reported(type) == UNION {Columns(e) : e \in {d \in PairEvents(v) : d.type = type}} IN
       /\ reported("column_added") = shown.added
       /\ reported("column_removed") = shown.removed
       /\ reported("type_changed") = {t[1] : t \in shown.types}
       /\ \A rule \in violated :
            rule[2] \in reported(IF rule[1] = "required_column" THEN "column_removed" ELSE "type_changed")

\* Another event has its signature and is of other columns, whose names join to one text.
Confused(e) == \E twin \in Events : Signature(twin) = Signature(e) /\ Columns(twin) # Columns(e)

\* "New, persistent, and resolved": columns whose addition is persistent were removed
\* meanwhile, as those that are added only once and stay are resolved, and the other
\* way round; unless signatures confuse them with other columns.
PersistentCameAndWent ==
  \A e \in Events :
    DriftStatus(e) = "persistent" /\ e.type \in {"column_added", "column_removed"} /\ ~Confused(e) =>
      \A c \in Columns(e) : \E d \in Events :
        /\ c \in Columns(d) /\ {d.type, e.type} = {"column_added", "column_removed"}
        /\ \E twin \in Events : /\ twin # e /\ Signature(twin) = Signature(e)
                               /\ d.version \in (Min({e.version, twin.version}) + 1)..(Max({e.version, twin.version}) - 1)
=============================================================================
