# Verification of the Data Reliability Copilot

TLA+ models of the application under `src/`, checked with TLC and proved about
with TLAPS. The application is a FastAPI server over SQLAlchemy: it audits CSV
datasets in background jobs and on schedules, and keeps datasets, versions,
issues, rules, contracts, alerts and teams in a relational database (SQLite by
default, PostgreSQL in production).

## 1. How the system executes, and why it is hard

* Every route opens a session, SELECTs rows, changes attributes and commits.
  The sessions are built with `autoflush=False, expire_on_commit=False`
  (`app/db/session.py`), no version column is used, and only one statement of
  the whole program asks for a row lock (`with_for_update(skip_locked=True)` in
  `app/scheduling/service.py`; SQLite ignores it). Between the SELECT and the
  commit another request or thread may commit. The UPDATE names only the
  columns whose value differs from the one loaded.
* `def` routes run in the framework's thread pool and interleave freely; the
  `async def` uploads run on the event loop and are atomic with respect to each
  other from their last `await` on, but not with respect to anything else.
* Background jobs run in a `ThreadPoolExecutor(max_workers=2)` created lazily
  per process. Its queue is memory only: a restart forgets it, the table of jobs
  survives. The `dispatch_due` command is a second process with a pool of its own.
* Files are written outside the database, before or after the transaction that
  records them.
* An operation of the application often is several transactions: an upload saves
  the file, the audit, the rule executions and the dataset row one after another.
* Foreign keys act (`CASCADE`, `SET NULL`, or an error) on PostgreSQL only: SQLite
  does not enforce them unless a connection asks for it, which this program does
  not, and it gives the id of a deleted newest row again.

## 2. Inventory

| Component | State | Operations | Interacts with | Hard behaviour | What makes it correct |
|---|---|---|---|---|---|
| Background jobs (`app/jobs`, `api/routes/jobs.py`) | `background_jobs` rows, pool queue, threads | create, update, cancel, retry, enqueue, run | uploads and schedules create jobs, handlers run in them | lost updates between run_job, cancel and retry; duplicate creation; crash loses the queue | no unsettled job is abandoned; no job runs more often than asked; a job at rest stays; every job settles |
| Asynchronous audits (`audits.py:103`, `handlers.py:9`, `storage.py`, `datasets.py:87`) | audits, uploads, issues, dataset rows, stored files | upload, three handler transactions, registration | jobs, files, datasets | partial failure between the transactions, retry after part of the work, file deleted while a payload names it | one audit per upload; completed means registered; no orphan or missing file |
| Scheduling (`scheduling/service.py`, `schedules.py`, `handlers.py:42`) | schedules, runs | create, pause, activate, delete, dispatch, run now, scheduled handler | jobs, datasets | two dispatchers on a database without row locks; crash between claim and enqueue; failure outside the handler's try | one run per occurrence; every run reaches a final state; only active schedules are claimed |
| Datasets and versions (`datasets.py`, `versioning.py`) | dataset rows; version numbers derived from audits | upload, rerun, correct, import version, rename, delete, lineage | audits, files, schedules, rules | count read before an await and used after it; audits saved in another order than computed | a version keeps its number and its audit; files are owned; a dataset shows its rows |
| Issues (`audits.py`, `issue_lifecycle.py`) | JSON document of an audit, activity entries, the dataset row's score | status, recommendation, comment, score, summary | audits, dataset rows, scoring | whole-document read-modify-write by concurrent requests; entries in transactions of their own | every saved status has its entry; the score is that of the saved issues |
| Rules and contracts (`quality_rules.py`, `contracts.py`) | rules, assignments, executions, contract rows | create, update, assign, delete, generate, transition, validate | audits, datasets | version number computed from a read; rules deleted while an audit runs; validation written column by column | versions are unique; validations say what they were made of; an assignment was asked for |
| Alerts (`alerts.py`) | alert rows derived from what is wrong | sync, act, preferences | audits, rules, contracts, drift, schedules | two syncs insert one fingerprint; actions overlap; a sync looks at the newest rows only | what a sync saw has an alert; a decision is not taken back |
| Operational monitoring (`operational_reliability.py`) | operational alerts | evaluate | all | concurrent evaluations | a cooldown between alerts of a type |
| Teams (`team.py`) | memberships, invitations | role, status, invite, revoke, accept, list | authentication | roles and counts read before a write | an owner remains; members were invited; one invitation is good |
| Authentication (`auth.py`, `auth_dependencies.py`) | users, sessions, tokens, attempts | register, login, logout, revoke, reset | teams | attempts counted before they are recorded; login beside a reset | a reset ends older sessions; failed attempts are bounded |
| Audit engine (`rules.py`, `quality_rules.py`, `profiling/`, `remediation.py`, `scoring.py`) | a table, its issues and score | detect, evaluate, correct, score | issues, contracts | several readings of one table; corrections that follow each other; rounding | readings agree; a correction resolves its issue and is reported; settling never lowers the score |
| Schema drift (`schema_drift.py`) | none: derived from versions | events, status | versions, contracts, comparison | columns that come, go and come back | drift explains the schema |
| Stored files (`dataset_files.py`, `object_storage.py`) | the object store | save, read, delete | audits, datasets | refused deletions; deletes outside transactions | as for audits and datasets |
| Reports, summaries, copilot; connectors and system routes; persistence; user interface and scripts | rows of their own, settings | insert, delete, format | | nothing that another part acts on | section 7 |

## 3. Modules

| Module | Models | Proved in |
|---|---|---|
| `Jobs` | the job table, the pools, the requests on jobs, crashes | `JobsProofs` |
| `AuditImport` (extends `Jobs`) | the asynchronous upload, its handler, registration, dataset deletion, the stored files | `AuditImportProofs` |
| `ImportOnce` | the promise of an idempotent upload, abstractly; implemented by `AuditImport` | `AuditImportProofs` |
| `Schedules` (extends `Jobs`) | schedules, claims, run records, the scheduled handler | `SchedulesProofs` |
| `Registry` | the synchronous requests that make audits, dataset rows, files, the version history | `RegistryProofs` |
| `Issues` | the routes on the issues of an audit, their activity, score and registration | `AuditsProofs` |
| `Accounts` | roles, invitations, sessions, login attempts, password resets | `AccountsProofs` |
| `Governance` | rules, assignments, executions, contracts and validations | `GovernanceProofs` |
| `Alerts` | syncs and actions on alerts, operational alerts | `AlertsProofs` |
| `Remediation` | detectors, rule evaluation, generated contract and corrections on a table | `AuditsProofs` |
| `Scoring` | the reliability score | `AuditsProofs` |
| `Drift` | drift events between versions, comparison and contract | `AuditsProofs` |
| `MCJobs`, `MCAuditImport`, `MCSchedules`, `MCRegistry`, `MCAccounts`, `MCGovernance`, `MCAlerts` | instances for TLC | |
| `MCAudits` | composes `Issues`, `Remediation`, `Scoring` and `Drift` for TLC: they share no state, and the variable `part` says which of them moves | |

All modules that model requests follow one scheme. `req[t]` (in `Jobs`: `client[c]`)
is the place of the request that a thread works on, with what it has read;
a step reads, checks and keeps what it read; a later one commits, which writes
only the columns that changed where the code does. What is lost between them is the
subject of the properties. Several hold but for what the code gives no protection
against; variables called *history* record that this happened, so that a
property says exactly when it may fail, and a mutant shows that it fails only then.

### Jobs

`job[k]` is the row with idempotency key `k` (the UNIQUE constraint on workspace
and key makes it one row); a row keeps status, progress and attempt count.
`queue[p]` is the work queue of the pool of process `p`, `worker[w]` the place
of `run_job` in a thread, `client[c]` the place of a request handler. Each
service function is two steps: the read, which keeps the loaded row, and the
commit, which flushes (`Flush`) the columns that differ from it.

| Actions | Code |
|---|---|
| `Dequeue`, `Observe`, `UpdateRead`, `UpdateCommit`, `HandlerReturns`, `HandlerRaises` | `run_job`, `get_job`, `update_job` |
| `CreateSelect`, `CreateInsert`, `AnswerDuplicate`, `Enqueue` | `create_job` and its callers, `LocalThreadDispatcher.enqueue` |
| `CancelRead`, `CancelCommit` | `cancel_job` |
| `RetryCheck`, `RetryRead`, `RetryCommit`, `Enqueue` | `retry` |
| `ThreadFails`, `RequestFails` | an exception that nothing catches: a refused statement in `run_job`, in a request |
| `Crash` | the death and restart of a process |

The handler is one step here, returning or raising at will. Timestamps, the
payload, the result and the error text are left out. `get_job` by a request that
only reports is left out, and so is the cancel of a job that is already final,
which changes nothing. Rows are never deleted by the application.

Properties:

* `NoJobStranded`: an unsettled job has a queue entry, a thread or a request
  that will still act on it, unless a crash or an exception took one. A cancellation may be
  overwritten and a retry may rewrite a running job; none of this may leave a job
  that nobody carries, since `retry` answers 409 to it and nothing else
  resubmits it.
* `AttemptsPaidFor`: no job is executed more often than it was inserted and
  retried.
* `RestUntilRetried`: a job at rest keeps its row until a retry is accepted.
* `EveryJobSettles`: every job reaches a final state unless a crash or an exception took it.

### AuditImport and ImportOnce

`AuditImport` takes the steps of `Jobs` over by conjoining them: an upload makes
the request steps that create a job, and a thread whose `worker[w].pc` is
`execute` stands at `stage[w]` inside the handler.

| State | Code |
|---|---|
| `files` | the objects in the dataset storage |
| `holding[c]`, `upload[u]` | the file that request `c` has saved; the content and name of a saved file |
| `payload[k]` | `payload_json` of the job with key `k`: the storage key to read |
| `audits` | the saved audits with their `uploads` row (`stored_filename` is UNIQUE) |
| `dataset[n]` | the `datasets` row of the name |
| `deletion` | the place of `delete_dataset` between its query, its commit and its file deletions |
| `registered`, `orphans` | history: audits that were registered; files that a crash or an exception left |

| Actions | Code |
|---|---|
| `SaveUpload`, `RejectUpload`, `AcceptUpload`, `CreateImport`, `EnqueueImport`, `DropDuplicate`, `FailImport` | `upload_audit_async` |
| `ReadFile`, `SaveAudit`, `RegisterRead`, `RegisterCommit`, `HandlerFails` | `DatasetAuditHandler.execute`, `AuditStore.save`, `register_audit_dataset` |
| `DeleteRead`, `DeleteCommit`, `DeleteFile`, `DeleteAnswer` | `delete_dataset` |

`upload_audit_async` awaits nothing after reading the body, so two uploads to one
process do not interleave (`LoopFree`); everything else does. Properties:
`AuditedOnce` (only a theorem: the refinement implies it), `CompletedIsRegistered`, `AcceptedFileKept` (the file of an
accepted upload is there until the upload is audited), `FilesAccounted` (a stored
file belongs to a job, a request or a deletion, or a crash, an exception or a
refused deletion is to blame) and `ImportsOnce`: the import implements
`ImportOnce`, in which a content is accepted once, audited at most once after
that, and registered only after its audit.

### Schedules

`Schedules` composes `Jobs` in the same way. The database is a constant:
`Postgres` turns row locks and cascading deletes on.

| State | Code |
|---|---|
| `now` | the clock, counted in occurrences of the frequency |
| `schedule[s]`, `run[r]` | `audit_schedules` (status, `next_run_at`), `scheduled_audit_runs` (occurrence, status) |
| `dataset` | whether the schedules' dataset is there |
| `patch[c]` | a status request between its SELECT and its commit |
| `task[c]` | a dispatcher: the rows it has selected (`claim`), the runs whose job it has still to create (`jobs`), the item that raised (`mark`) |
| `runOf[k]` | the run in the payload of the job |
| `stage[w]` | the place of `ScheduledAuditHandler.execute` and the run status it has loaded |
| `finished`, `dropped`, `rewound` | history: runs that were completed; runs whose job a crash or an exception prevented; schedules whose `next_run_at` was moved back |
| `refusals` | refused claims and marks; together with `crashes` bounded by `MaxCrashes` (`Trouble`) |

| Actions | Code |
|---|---|
| `CreateSchedule`, `StatusRead`, `StatusCommit`, `DeleteSchedule`, `RunNow` | `schedules.py` |
| `DispatchSelect`, `DispatchCommit` | the claim of `dispatch_due_schedules`: the locking SELECT, then the inserts, the advance and the commit |
| `NextJob`, `CreateJob`, `KnownJob`, `EnqueueJob`, `FailJob`, `MarkFailed`, `DispatchRefused` | `_create_job_for_run` for each claimed run, and the `except` around it |
| `StartRead`, `StartCommit`, `FindSource`, `CompleteRead`, `CompleteCommit`, `AuditFails`, `FailRead`, `FailCommit`, `HandlerFails` | `ScheduledAuditHandler.execute`; `HandlerFails` is an exception outside the `try` or in its `except` branch |
| `DeleteDataset`, `Tick`, `CrashSchedules` | `delete_dataset`; the clock; the death of a process |

The audit that the handler makes is one step: its transactions are those of
`AuditImport`. `last_status`, `claimed_at` and the other columns that only the
dashboard shows are left out. Properties: `ClaimedOnce`, `OnlyActiveClaimed`,
`NoRunStranded` (a run that is neither completed nor failed has a request on its
way to its job, or the job, unless it lost its claim to another run of the
occurrence or a crash or an exception prevented the job), `CompletedJobRan` (a
completed job is a run whose row said completed) and `EveryRunSettles`. `ScheduleInv`
is the invariant behind `NoRunStranded` and `CompletedJobRan` (section 5).
`OneRunPerOccurrence` is what a docstring says (section 6).

### Registry

`Registry` has the requests that make an audit synchronously, the files and rows they
leave, and the version history, which is stored nowhere: `lineage_audits` replays the
audits of a name in the order of `created_at`. That time is taken when an audit is
computed; here it is the value of `clock`, which also names the audit and its file.

| State | Code |
|---|---|
| `audits` | `audit_records` with their uploads: name, source kind, version number, source file name |
| `files` | the objects in the dataset storage |
| `rows[d]` | the row of `datasets`: its name and `latest_audit_id` |
| `req[t]` | a request that is to save its audit, to register it, or to unlink files |
| `issued`, `left`, `overtaken`, `deleted`, `raced` | history: ids given out; files that failed requests left behind; names with an audit saved after one computed later; names of deleted datasets; imports that another audit of the name overtook |

| Actions | Code |
|---|---|
| `UploadAudit`, `SampleAudit`, `RerunAudit`, `ApplyRemediation` | the routes of `audits.py` that compute an audit, to the point where it is saved |
| `CountVersions`, `ImportDatasetVersion` | `import_dataset_version` before and after its `await` |
| `SaveAudit`, `RegisterAudit`, `PersistExecutions` | `AuditStore.save`, `register_audit_dataset`; the executions, which `apply_remediation` persists after it has registered |
| `FailRequest`, `FailAndLeave` | an exception with a clean-up (`CleanUp`); one that no clean-up follows, or a clean-up that the store refused |
| `Revisit` | the routes on issues, as far as they register an audit that is there |
| `CreateDataset`, `RenameDataset`, `DeleteDataset`, `UnlinkFiles` | `datasets.py` |
| `Lineage`, `Reconstruct`, `NextVersion`, `Preview` | `versioning.py`; what `preview_dataset` decides to show |

Properties: `LineageDense` (the number shown for a version is the one its import was
answered with), `VersionsImmutable` (a listed version keeps audit and number,
whatever follows), `StoredFilesOwned` (the files without an owner are exactly those
that a failing request left for want of a clean-up, or by a refused one: no clean-up
and no deletion takes another file, and nothing takes what was left), `PreviewShowsRows`
(a dataset shows the rows of
its audit through renames and other datasets' deletions).

### Issues

The issues of an audit are one JSON document: `document` is the saved one,
`req[t].doc` the copy that a request works on, `activity` the entries, `dataset` what
the dataset row shows. A score is represented by what of its arguments these routes
change: the active issues, those with affected rows, and the scoring context. Severity,
confidence and the multipliers of `score_audit`, which the routes leave alone, are in
`Scoring`.

| Actions | Code |
|---|---|
| `UpdateIssueStatus`, then `SetStatus`, `SetNote`, `SetEvidence`, `Reopen`, `Save`, `Register` | `update_issue_status`: each entry is a transaction, and so are the save and the registration |
| `ApplyRecommendation`, `Save`, `LogApplied` | `apply_issue_recommendation`, whose entry follows the save |
| `RecalculateScore`, `RegenerateSummary`, `AddComment` | the routes of these names |
| `Stop` | an exception or a crash anywhere in a request |

Properties: `ActivityExplainsStatus` (a saved status has its entry, however requests
overlap or stop), `ActivityAgrees` (the newest entry shows the status when nothing
overlapped or stopped), `ScoreOfSavedIssues`. `IssuesInv` is the invariant behind
the first and the third.

### Accounts

One organization: `account[u]` and `role[u]` are the rows of user and membership,
`invite`, `session` and `token` rows by id, `failures[u]` the failed attempts within
the login window. Expiry marks a row `past`. A team request has three steps: the dependency
`require_roles` reads session and role (`Authorize`), the handler reads and checks,
the commit writes.

| Actions | Code |
|---|---|
| `BeginRoleUpdate`, `CheckRole`, `WriteRole` | `update_member_role` |
| `BeginStatusUpdate`, `UpdateStatus` | `update_member_status` |
| `BeginInvitation`, `CheckInvitation`, `WriteInvitation` | `create_invitation` |
| `BeginRevocation`, `BeginListing`, `CheckStatus`, `WriteStatus` | `revoke_invitation`; `list_invitations`, which writes what expired |
| `BeginAcceptance`, `Accept` | `accept_invitation` |
| `Register`, `BeginLogin`, `FailLogin`, `EnterSession`, `RevokeSessions` | `register`, `login`, `logout` and the revocations |
| `RequestReset`, `BeginReset`, `ConfirmReset` | the password reset |
| `Expire...` | the clock |

Properties: `OwnerRemains` (unless role changes overlapped), `MembershipInvited`,
`PendingUnique`, `ResetEndsSessions` (but for a login that had checked the old password),
`FailuresBounded` (the limit plus one for each other thread). The histories
`overlapped`, `clobbered`, `doubled` and `late` record the exceptions. The roles
`analyst` and `viewer` are alike to these routes; the instance has one of them.

### Governance

| State | Code |
|---|---|
| `rule`, `dataset`, `assigned` | `quality_rules`, `datasets`, `dataset_rule_assignments` |
| `audits`, `executions` | saved audits with the outcomes of the rules that ran; `rule_executions` |
| `contracts` | `data_contracts` by id: key, version, status, content, source audit, validation |
| `req[t]` | an audit between its transactions, a contract row to insert, a validation to write |
| `cut`, `made`, `asked`, `branched`, `forked`, `entangled` | history: audits whose request ended before it persisted their executions; which row an id stands for; assignments that were requested; keys with a row made from one that was not the newest; datasets with two lines of contracts; rows validated by overlapping requests |

| Actions | Code |
|---|---|
| `CreateRule`, `UpdateRule`, `DeleteRule`, `AssignRule`, `UnassignRule`, `BulkAssignments`, `RenameDataset`, `DeleteDataset` | one transaction each |
| `BeginAudit`, then `SaveAudit`, `PersistExecutions`, `RegisterAudit` | an upload, import, rerun or scheduled audit with the assigned rules |
| `BeginCorrection`, then `SaveAudit`, `RegisterAudit`, `PersistExecutions` | `apply_remediation`: an audit of another name and of no version, registered first |
| `Revisit`, then `RegisterAudit` | the routes on issues, which register whatever audit they edited |
| `FailAudit` | an exception or a crash between two of these transactions |
| `CreateContract`, `UpdateContract`, `GenerateContract`, `TransitionContract`, then `InsertContract` | the routes that add a row: the read and the commit |
| `BeginValidation`, `WriteValidation` | `validate_contract_record` |

An audit's number is any that the count of earlier audits may give (`Versions`; `Registry`
has the counting itself), and 0 for a `dataset_version` of None. `AuditToValidate` takes
the last audit of the highest version, or, if none of the name has a version, the last.

Properties: `AssignmentsRequested` (an assignment never passes on to another rule or
dataset), `VersionsUnique`, `ValidationAgrees` (status and findings are of one
validation), `ValidationsAdvance` (what a row shows its validation to be of never goes
back to an earlier version of the dataset or an earlier audit of one, although audits
are saved in another order than computed, share numbers or have none) and
`AuditsHaveExecutions` (in either order of the transactions a saved audit has its
executions, or its request is on its way to them; unless it failed before, which `cut`
records, or a rule was deleted meanwhile).

### Alerts

Nothing is alerted when it happens. `happened` is what went wrong, `alerts` the rows by
fingerprint. A sync (`BeginSync`, `CommitSync`) reads what is wrong from the newest
rows of each kind (`Limit`), inserts what has no row and commits all or nothing. Actions
(`BeginAction`, `CommitAction`) write the columns that differ. `opened` are
operational alerts of one type (`BeginEvaluation`, `CommitEvaluation`, `Tick`).
Properties: `ActionsKept` (an alert is what the actions made it, one after
another), `FailuresAlerted` (what a committed sync could see has an alert),
`CooldownKept`. `mingled` records alerts on which actions overlapped.

### Remediation, Scoring, Drift

`Remediation` audits a table (`Detected`), evaluates rules on it (`RuleMask`), generates
a contract (`ContractOf`, `ConfiguredIssues`), and applies selected corrections
one after another (`Correct`, with `Filled`, `Standardized`, `Masked`, `DropDuplicates`).
A cell is one of a few texts, with what `strip`, `lower`, `title` and the masking make
of it as constants. Properties: `ReadingsAgree` (detectors, rules and the
generated contract agree on a table, with the exceptions that section 6 names),
`CorrectionResolves` (an issue that is corrected is resolved in the audit of the copy),
`ChangesReported` (the reported cells, columns and rows cover every difference, where
`origin` remembers each row's source).

`Scoring` computes the score in integers: thousandths of a point, cut off after each
factor, rounded as the code rounds, per dimension and in all. `SettlingNeverLowers`:
settling or working on an issue never lowers the score, and a stricter context never
raises it.

`Drift` derives the events between consecutive versions and their status.
`DriftExplainsSchema`: replayed on the first version the events give the latest, they
are what the comparison shows, and a contract that is broken by a version is broken
by an event. `PersistentCameAndWent`: what is persistent went away meanwhile. Which
events are the same is decided by the text of their columns' names joined by commas
(`Joined`), and a name may hold commas: events of different columns that read alike
are exempted (`Confused`).

## 4. Runs

| Run | Instance | Shows |
|---|---|---|
| `jobs_races` | 1 job, 2 threads, 2 requests, 1 retry, 1 crash or exception, `FairSpec` | every interleaving of two threads with two requests on one job, and that the job settles |
| `import_uploads` | three instances, chosen by `instance`: one content uploaded twice with a retry and a deletion (`retry`); to two servers with a crash or exception (`servers`); two contents of one name and a deletion (`registry`) | executions of one import beside each other, the handler raising before or after each transaction; a rolling deployment; the refinement of `ImportOnce`. Two handlers that both find no row of a name and insert one are beyond these instances: that the second insert fails and is survived is in the model, and covered by the proofs |
| `import_copy` | 1 content uploaded again after its dataset was deleted | section 6 |
| `schedules_claims` | PostgreSQL, 2 schedules, 2 dispatchers with batches of 2, 3 instants, 2 runs, 1 crash or exception | claims against pauses, activations, deletions and each other; a batch that fails in the middle |
| `schedules_runs` | PostgreSQL, 1 run, 2 threads, 1 request, 1 retry, 1 crash or exception | two executions of one run; what a crash between claim and job leaves behind |
| `schedules_settle` | SQLite, 1 schedule, 2 requests, 1 thread, 2 runs, 1 crash or exception, `ScheduleFairSpec` | lost claims, a crash between claim and job, runs that outlive their schedule; every run settles that these did not leave behind |
| `schedules_twice` | the same, without fairness | section 6 |
| `registry_versions` | PostgreSQL, 2 threads, 2 names, 3 audits, 2 rows, 1 failed transaction, 1 edit | imports, corrections, reruns and deletions beside each other; a failure with and without a clean-up |
| `accounts_team` | 2 threads, 3 users, 3 requests, 1 expiry, 1 attempt | role changes, invitations, logins and resets beside each other |
| `governance_contracts` | PostgreSQL, 2 threads, 1 dataset and its corrected copy, 2 rules, 3 rows, 3 audits, 4 requests | rules deleted under audits; corrections without a version, failures between the transactions; datasets deleted, renamed and made again; contracts that branch, move and are validated |
| `alerts_syncs` | 2 threads, 2 datasets, 2 thresholds, 2 happenings, 3 requests, 2 ticks with a cooldown of 1 | syncs, actions and evaluations beside each other; the newest rows of a kind filled up |
| `audits` | 2 threads, 2 issues, 3 requests, 1 stop; tables of 3 rows, and of 2 beside 4 others; 2 corrections; 3 scored issues; 4 versions of columns `x`, `y` and `x,y` | the four modules of an audit, one at a time |

Most runs say `CHECK_DEADLOCK FALSE`: storage keys, ids, time and requests are
bounded, so a behaviour may come to an end where the program goes on.

The bounds, and why they are enough:

* In `Jobs` one job is enough for the races, since rows of different keys share nothing
  but the threads. `MaxRetries` and `MaxCrashes` (crashes and uncaught exceptions) are its
  only bounds; a second thread comes to the job by the cancel and the retry of a job
  whose first entry is still queued or running.
* `AuditImport` adds `Path` (uploads) and `MaxDeletes`; two uploads of a content are
  the original and its duplicate, and a third is another duplicate. Its three
  instances bound different faults, which together are beyond five minutes.
* `Schedules` adds `Run`, `MaxTime`, `MaxManual` and `Limit`: three instants let an
  occurrence be claimed, claimed again and passed.
* Every property of `Registry`, `Issues`, `Accounts`, `Governance` and `Alerts` is about one or two
  requests in flight and what a third finds; `MaxRequests` (and in `Registry`
  `MaxAudits`) has at least one more than there are threads. Three audits are two versions
  and one that comes between them. In `Governance` one name is `Registered` at first,
  with an audit, and `Cleaned` says what its corrected copy is called.
* `MaxAttempts` 1 makes the window of login attempts as small as it can be: what
  exceeds it are concurrent requests.
* In `Remediation` two rows may be copies, twins or neither beside a third, and the four
  other rows make rates low enough for the other severities and for columns that are
  nearly unique (`UniqueRate` is 80 instead of 98 per cent, which takes 50 rows);
  `TopValues` and `MaxLabels` are 2 and 3 so that tables reach both. In `Drift` four
  versions let a column come, go and come back; of `x` and `y` there are all profiles, and
of the third column, whose name is theirs joined, those that let it come and go beside
them (`Imported`).
* The foreign keys of `governance_contracts` and the ids of `registry_versions` are those of PostgreSQL, which production
  uses; what SQLite does instead is in section 6.

Fairness (`Fairness`): pool threads run and handlers return or raise
(`WF_vars(WorkerStep(w))`), and a request that has arrived is served to its end
(`WF_vars(Serve(c))`). No request has to arrive, no retry has to be made, and no
process has to crash. `ScheduleFairness` adds that the handler's steps go on, that
requests on schedules are served to their end. It does not assume that
`dispatch_due_schedules` is called: the repository leaves this to a cron service
(`schedules.py:111`, `scheduling/dispatch_due.py`), and `EveryRunSettles` is about runs
that there are. That a due schedule is claimed in the end is not stated: the clock has
finitely many instants, so that no limit and no skipped lock can pass a schedule over
for ever here, in whatever order the claims are taken.
The other modules state no fairness: none of their requests waits for another, and
what they promise is safety.

## 5. Proofs

`JobsProofs` proves, for any sets of keys, threads, requests and processes and
any bounds, from `JobsAssumption` (each thread and request has a home process,
`Null` is no key and no row, the bounds are naturals):

* `TypeCorrect`: `Spec => []TypeOK`. Types need the references: the key of a
  busy thread is a key with a row. `Refers` (types, and every queue entry, thread
  and request refers to an existing row) is the inductive form.
* `JobsInvariant`: `Spec => []JobsInv`. `NoJobStranded` is not inductive: a
  thread that is to write `completed` over a row it loaded as `completed` writes
  no status (`Flush`), so if a retry requeued the row in between, that thread
  carries the job and will not settle it. `UnsettledBound` asks for somebody
  `Bound`: a queue entry, a request about to enqueue, or a thread other than
  that one.
* `NothingStranded`: `Spec => []NoJobStranded`, from `JobsInvariant`.
* `RestPreserved`: `Spec => RestUntilRetried`, from `Refers`: a thread that is
  on a job at rest has only dequeued it, and what it sees is a cancelled row.
* `OwedIsPaid`, `AttemptsArePaidFor`: `PaidInv`, and `AttemptsPaidFor` from it. A
  thread counts an attempt on its own copy of the row, which may be old, so the
  count in the table says too little. `Owed` are the executions that were paid for
  and not counted yet: the entries of a key in the queues, the requests that are to
  submit one, the threads that have not committed `starting`. The largest count of
  the row or of such a thread's copy, plus what is owed, never exceeds one and the
  accepted retries; the proof moves one element between these finite sets at a time.

`AuditImportProofs` proves, from `JobsAssumption` and `ImportAssumption`:

* `ImportImplementsJobs`: every step of the import is a step of `Jobs` or
  leaves its variables alone, so the theorems above hold of it.
* `ImportInvariant`: `ImportInv`, the inductive form: types; who holds which stored
  file; and what a thread's stage says of its audit (a thread that is to register
  has a saved audit of its own upload, and so on).
* `CompletedMeansRegistered`, `OnlyOneAudit`, `FileKeptUntilAudited`,
  `FilesAllAccounted`: the four invariants that the runs check, from it.
* `ImportKeepsPromise`: the refinement of `ImportOnce`: initial states map to
  initial states, every step to a step or a stutter.

`SchedulesProofs` proves, from `JobsAssumption` and `ScheduleAssumption`:

* `ScheduleImplementsJobs`: as for the import, every step is a step of `Jobs` or
  leaves its variables alone.
* `ScheduleInvariant`: `ScheduleInv`, the inductive form: types; the item a
  dispatcher is on is the job its request creates, and a manual run is alone
  (`TasksOwn`); the payload of a job names a run of its key, which stays there
  (`PayloadsName`); a thread that is to write `completed` over the job has written it
  over the run, or there is no run any more (`HandlersKnow`); `NoRunStranded`.
* `NoRunLeftBehind`, `CompletedMeansRan`: the two invariants the runs check.
  The first needs that a request lets go of a run only with a job, a mark or an
  entry in the history (`TodoLeaves`), and that a thread reopens only the run of
  the job it executes (`Opens`).
* `OccurrencesClaimedOnce`, `ActiveClaimed`: with row locks (`Postgres`), from
  two more facts that are inductive together: the rows of a claim that is not
  committed stay as it selected them and no other claim has them (`RowsHeld`), and
  the occurrence of every run is behind its schedule's `next_run_at` unless this
  was moved back (`OccurrencesPassed`).

`AuditsProofs` proves of `Issues`, from `IssuesAssumption`:

* `IssuesInvariant`: `IssuesInv`, the inductive form of two of the invariants the runs
  check, which only speak of the saved document. A save makes a copy that was loaded
  long before the saved one, so each copy has to have what the saved one has:
  `AtWork` (which steps a request goes through, and that it has a copy), `CopyExplained`
  (the statuses of a copy have their entries, which are never deleted, except for the
  recommendation that is applied and is logged after its save) and `CopyScored`
  (a copy that is to be saved has the score of its own issues).
* `StatusesExplained`, `ScoresMatchIssues`: `ActivityExplainsStatus`, `ScoreOfSavedIssues`.
* `EntriesRunAhead`, `ActivitiesAgree`: `AgreementInv`, and `ActivityAgrees` from it.
  The entries of an update are committed before its document, so in between they
  agree with its copy (`CopyAgrees`) and not with the document. The last status among
  a sequence of entries is that of the newest entry, which the proof takes by its
  place (`LastPlace`).

Of `Drift`, from `DriftAssumption`:

* `DriftIsExplained`: `DriftExplainsSchema`. It is no matter of steps, as the events are
  computed from the versions: what is proved is that between two versions in which a
  column is there and not there lies its removal, and the other way round
  (`WentBetween`, `CameBetween`), and that after the newest event that touches a
  column nothing changes it.
* `PersistentIsRepeated`: `PersistentCameAndWent`, for any names and any way to join
  them. Two events of one signature have the same type, and the same columns unless
  names confuse them; what came twice went between.

Of `Scoring`, from `ScoringAssumption` (finitely many issues, with the ranges that the
detectors give their breadth and confidence):

* `SettlingIsMonotone`: `SettlingNeverLowers`. Each factor of a penalty is monotone in status
  and context (`Times`, which cuts, among them), a sum over fewer issues of smaller penalties
  is smaller, and both roundings are monotone. The library has no facts about
  sums, which the community modules define by a recursive function over the subsets
  of a set: `SumsThere`, `SumsAgree` and `SumOfAny` (any element may be taken first) are
  proved by least counterexample, and the rest follows from them.

Of `Remediation`, from `RemediationAssumption`:

* `RemediationInvariant`, `ChangesAreReported`: `RemediationInv` and `ChangesReported`.
  `RowsKept`: the copy's rows are rows of the audited table in their order. A correction
  rewrites other columns' cells nowhere and counts each cell it changes, so that a
  cell that differs afterwards did so before or is counted (`RewriteReports`); removing
  rows lets none differ that did not (`DroppingReports`, by the injection of the rows
  that are kept). It holds of every order of issues, also of issues
  that the audit did not find.
* `AloneInvariant`, `CorrectionsResolve`: `AloneInv` and `CorrectionResolves`. Each issue is
  classed by its detector (`IssuesReported`), and each correction is shown to leave its
  detector nothing to count: the filling is not missing, as a most frequent text exists
  (`FilledIsFull`); rows kept in order differ from all earlier ones (`FirstOnesAlone`); the
  labels of titles do not differ in case alone (`TitlesDiffer`, which needs `TextAssumption`).
* `ReadingsDoAgree`: `ReadingsAgree`, for any table. The first of a set of copies is counted by
  the rule and not by the detector (`FirstOfCopies`); texts that all differ, with as many
  labels, have no twins (`NoTwins`, by cardinalities); a profile that may keep all labels
  does (`AllLabelsKept`).

`TextAssumption` is about `strip`, `lower` and `title`: a text that is not missing is not
stripped to what a missing one is, and titles that differ do so in lower case, which
texts of ASCII letters meet unless one is written as null is.

`AccountsProofs` proves, from `AccountsAssumption` (finitely many users and threads,
the roles contain owner and admin, `Null` is none of the values):

* `AccountsTypeCorrect`, and `AccountsInvariant`: `AccountsInv`, the inductive form of
  the five properties. `RowsRefer` and `Refers`: rows that a request or another row
  names are there. `LeavesOwner`: a role change that has been checked leaves another
  owner when it is written, for as long as no two of them overlap. `ReadPending`: an
  invitation to be written has read the pending ones of its email. `AttemptsCounted`:
  failures and the attempts that are about to fail are together below the limit and
  the number of threads, from cardinalities of finite sets.
* `OwnersRemain`, `MembersInvited`, `OnePending`, `ResetsEnd`, `FailuresBound`: the five.

`AlertsProofs` proves, from `AlertsAssumption` (thresholds are naturals and have a
lowest and a highest, limits and bounds are naturals; neither threads, datasets nor
happenings need be finite):

* `AlertsTypeCorrect`, and `AlertsInvariant`: `AlertsInv`, the inductive form of the
  three properties. A sync commits what it read some steps before, so `SyncSees`
  carries what it read: it found all that was wrong among the first `upTo`
  happenings, and whatever it will not insert has its row. That this stays true
  while more happens rests on one lemma: what is among the newest `n` of a kind was
  among them before (`AlertedStays`). `ActsOnRow`: the row an action has read is still
  the row, unless another action came between. `OpenedNumbered` and `SawNone`: an
  evaluation that found nothing is more than a cooldown later than every alert
  that it could see.
* `ActionsStay`, `FailuresSeen`, `CooldownHolds`: `ActionsKept`, `FailuresAlerted`,
  `CooldownKept`.


`GovernanceProofs` proves, from `GovernanceAssumption` (the names registered at first
are finitely many and fit the rows, what contracts ask for is of its type; threads need
not be finite) and `NullAssumption`:

* `GovernanceTypeCorrect`, and `GovernanceInvariant`: `GovernanceInv`, the
  inductive form of the four invariants and the action property. Its parts are what
  the routes rely on without saying so. `AuditsApart`: `created_at` tells saved audits
  and those still computed apart, and what a dataset shows was saved. `AuditStage`: an
  audit past its save is saved. `RulesRan`: a rule that an audit ran has been made,
  so that one deleted stays away. `RowsNumbered`: no contract has a higher number than
  its id, so that a newest row exists (`NewestIs`, which rests on the least and largest
  element of a set of naturals, proved from well-foundedness). `Follows`: a row to be
  inserted carries the key and the next number of the row it was made from, if that is
  there still; when it is not, either its dataset went with all its rows (`Gone`) or the
  row only copies. `Validates`: the status a validation has read is still the row's, and
  the audit it has read is no step back from the one that is shown, unless another
  came between and the row is entangled. `OfSaved`: what a row shows was validated on
  a saved audit. `RowsAgree` strengthens `ValidationAgrees` by where the entangled row
  is: in the same dataset, so that a deletion cannot take it and leave a copy of its
  status.
* `AssignmentsStay`: `AssignmentsRequested`, where `Cascade` holds (foreign keys are
  enforced, and ids come from a sequence), which is where the code's own comments
  place it. The other theorems hold with and without `Cascade`.
* `VersionsApart`, `ValidationsAgree`, `SavedHasExecutions`: `VersionsUnique`,
  `ValidationAgrees`, `AuditsHaveExecutions`.
* `NeverGoesBack`: `ValidationsAdvance`, an action property, from the same invariant.
  `ToValidateLast` shows that the choice of `AuditToValidate` only moves forward as
  audits are saved, and `Validates` carries this from the read to the commit, which
  may come after other audits, renames and deletions.

`RegistryProofs` proves, from `NullAssumption` (`Null` is no number; nothing need be
finite):

* `RegistryInvariant`: `RegistryInv`, the inductive form of the two properties about
  files. `AuditsApart`: `created_at`, which also names an audit's file in the model,
  tells saved audits and those still computed apart. `RequestStage`: a request that
  will save has stored its file, one that registers or persists has saved its audit, and one that
  unlinks holds only files of audits of a deleted name, so that neither a clean-up nor
  a deletion takes a file of anybody else, nor one that was left. `FilesKept`: without failures the file of
  a saved audit goes only with a deletion of its name.
* `FilesOwned`, `ShownHasRows`: `StoredFilesOwned`, `PreviewShowsRows`.
* `VersionInvariant`: `VersionInv`. `Lineage` replays the audits of a name from the oldest
  to the newest with a recursive function, which one lemma shows to exist and to
  depend on the audits up to its argument only. A saved audit is the newest of its name
  unless something younger was saved before it (history `overtaken`); then all positions
  stay and one is appended. `Dense`: without that, numbers have no gaps. `ImportNumbered`:
  an import that is at work carries a number that the history will have reached,
  and the next one if no other audit of the name came between.
* `LineageIsDense`, `VersionsStay`: `LineageDense`, `VersionsImmutable`.
Only model-checked is liveness (`EveryJobSettles`, `EveryRunSettles`), which
is out of the prover's reach. Of sorting, the order in which `Detected` lists issues is in the
model (`Ordered`), but no property depends on it beyond a single issue.

## 6. Disagreements between the code and what it says

Two runs show one each:

* `import_copy`: `upload_audit_async` gives a duplicate's copy up because the first
  one is stored; after `delete_dataset` removed that one, a new upload of the
  content stores and audits nothing and is answered with the old job.
* `schedules_twice`: on SQLite, the default, the lock of the claim does not exist,
  and two dispatchers record a run each for one occurrence; the second stays queued.

Others were met while modelling; the models have the behaviour, and the properties
exempt it by a history or a precondition:

* `retry` checks the status on one read and requeues on another (`jobs.py:39`): of two
  retries the second puts a job back to queued that runs or has completed by then.
* A status request on a schedule that is committed after a claim moves `next_run_at`
  back (`schedules.py:293`, history `rewound`), and the occurrence is claimed again, on
  PostgreSQL too.
* Version numbers collide and move. `import_dataset_version` counts the versions, awaits
  the upload, and numbers by the old count (`datasets.py:467`): of two imports at a time
  both get one number, and the history lists the first (history `raced`). And an audit
  that is saved after one that was computed later enters the history before it
  (`versioning.py:30`): later versions without a number of their own move up, and a
  number may pass to another audit (history `overtaken`), although the docstring of
  `dataset_versions` calls them immutable.
* A route that edits an issue registers the audit it edited (`datasets.py:114`): when
  that is an older one, the dataset shows the older version as its latest.
* Stored files are left that nothing owns (history `left`): `rerun_audit` has no clean-up;
  an upload or import cleans up after a few named exceptions only until it saves
  (`audits.py:175`, `datasets.py:483`); and a refused deletion is swallowed
  (`audits.py:180`).
* `persist_rule_executions` follows the save, and in `apply_remediation` the registration
  (`audits.py:585`) too: when it fails, a dataset shows an audit without executions.
* The signature of a drift event joins names by commas (`schema_drift.py:82`): an event on
  a column `x,y` passes for one on `x` and `y`, and is persistent though nothing went
  away.
* Overlapping requests on one audit's issues take changes back: the document is saved
  whole. Overlapping role changes may leave an organization without an owner.
* Where foreign keys are not enforced (SQLite), the assignments of a deleted rule
  remain, and pass to the next rule, which is given the same id.
* `documents/CONTRACT_RULE_AWARE_GENERATION.md` says that observed profiling values are "retained only
  under `profile_summary`; they are not enforced"; `generate_contract` enforces them when
  no rules are assigned.
* Such a contract allows the five labels that a profile keeps of a column of up to
  twenty, so that the audited table may break it; a column that is unique as it
  is may not be after `strip`; and one whose texts differ by 98 % is required to be
  unique, which it is not (all exempted in `OwnTableMeetsContract`).
* Removing duplicate keys drops all rows but one that have no key, as `drop_duplicates`
  takes nulls for equal, and leaves keys that only differ in the space around them,
  which the detector takes for equal (exempted in `CorrectionResolves`).
* A sync sees the newest rows only, and a failed one loses all it found; what is
  pushed out before the next sync is never alerted.

## 7. Not modelled

* Schedules: the calendar arithmetic of `next_occurrence`, and the repair of legacy
  rows in the dashboard (`schedules.py:144`), which is another status request without
  a user. `last_status` and the other columns that only the dashboard shows.
* Audit engine: parsing of files, inferred types, outliers, distributions and ML
  readiness are computations over data frames on one request's data.
* Quality rules: templates, dry runs, exports, diffs and a rule's own version number.
* Accounts: hashing, cookies, headers, the rate limits of the middleware, email
  verification, the audit log; workspaces of an organization, their settings and
  the switch between them.
* Alerts: texts, severities and filters; that PostgreSQL refuses a fingerprint of more than
  160 characters (`models.py:372`); the metrics of operational monitoring.
* Reports, summaries and the copilot insert and delete rows that no other part acts on;
  nothing dispatches a report schedule. Connectors store a record of each sync,
  which counts configured sources and starts nothing. Both are one read and
  one commit of one row at a time.
* The browser client, scripts, migrations and settings keep no shared state of their own.
