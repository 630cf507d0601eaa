# Dokploy Migrator: TLA+ models and proofs

Dokploy Migrator moves the metadata of Dokploy resources from one server to
another: it rewrites the `serverId` column of rows in Dokploy's PostgreSQL
database after a reviewed dry run, keeps its own jobs, events and reports in a
SQLite file, and is driven by a web UI, an HTTP API and a command line. This
directory holds TLA+ models of that program, the TLC runs that check them on
small instances, and TLAPS proofs that hold for every instance. All paths below
are relative to the repository.

## Inventory

| Component | State it keeps | Operations | Talks to |
|---|---|---|---|
| Database adapter (`internal/dokploydb`) | none of its own; one PostgreSQL transaction per write | `BuildRetargetPlan`, `ListServers`, `ApplyRetargetPlan`, `RollbackRetargetPlan` | Dokploy's PostgreSQL, which Dokploy writes too |
| Job manager (`internal/jobs`) | none | `Plan`, `Apply`, `Rollback`, plan validation | store, adapter, Dokploy API |
| State store (`internal/state`) | tables `jobs`, `events`, `reports` | create, update, list, count, delete, append event, save report | SQLite file, possibly shared by server and command line |
| HTTP server (`internal/server`) | none; one goroutine per request | plan, apply, rollback, history page, delete, server scan, shutdown | manager, store |
| Web UI (`internal/server/static/app.js`) | current job and plan, selected rows, history page | dry run, selection, apply, paging, delete, language switch | HTTP API, asynchronously |
| Command line (`cmd/dokploy-migrator`) | none; one process per command | `plan`, `apply`, `rollback`, `jobs`, `serve` | manager, store |
| Dokploy API client (`internal/jobs`) | none | health check (logged only), deploy (unused) | Dokploy's HTTP API |
| Data model (`internal/model`) | none | mode normalisation | |
| Configuration (`internal/config`) | none after start | load from the environment | |
| Backup candidates (`internal/s3backup`) | none; nothing calls it | list, match manifest, sort | S3 |
| SSH restore (`internal/sshrestore`) | a connection, a goroutine per call; nothing calls it | upload, run, command texts | remote host |

What is hard about this program, and where:

* **Two writers.** Nothing serialises writes: two HTTP requests, or the server
  and the command line, may apply and roll back overlapping rows, or the same
  job, at once. `Apply` and `Rollback` do not look at the job's status.
* **A foreign writer.** Dokploy moves and deletes resources and migrates its
  schema at any time, between the dry run and the apply and during the apply.
* **Two databases, no common transaction.** A write to PostgreSQL is framed by
  several separate SQLite statements. Any of them can fail, the context can be
  cancelled, the process can die, and the confirmation of a commit can be lost.
  Nothing repairs a job afterwards.
* **Check, then act.** The schema fingerprint is read before the transaction;
  the protected jobs are read before the deletion; the stored plan is read
  before the write.
* **Row locks in free order.** The order of submitted rows is not constrained
  and a rollback reverses it.
* **Asynchronous UI.** Answers arrive in any order; the page of jobs is two
  reads; a language switch renders what the page has cached, however old.
* **Shutdown with a deadline.** A signal ends the server after five seconds
  although requests may wait longer for a row lock; then the stores are closed
  under them.
* **Order by text.** Jobs are ordered, paged and protected by the text of their
  times, which is not the order of the times.

What makes each part correct:

* *Adapter*: a plan is written whole or not at all, only from the state that
  was reviewed; success is reported for nothing less; every call returns.
* *Manager and store*: status, checkpoint, events and report of a job tell what
  was committed for it; nothing is written that the job's dry run did not list;
  nothing of a deleted job remains; the newest jobs stay.
* *Dry run*: it lists what was on the source all along, and nothing that never
  was.
* *From dry run to commit*: a commit moves nothing that was not reviewed, and a
  whole plan leaves nothing behind.
* *UI*: what is applied is what is displayed and selected.
* *Process*: it ends when told to, closes what it opened, and its exit status
  tells of requests that were cut off.
* *Restore pieces*: a backup that is there is found; success means done; a name
  reaches the remote command whole.

## Modules

| Module | What it is |
|---|---|
| `Ordering` | Finite sets put in order by counting: the rows of a dry run, the jobs of the store, keys and candidates. |
| `Ordering_proofs` | Counting does put a set in order, for any finite set and strict order. |
| `PlanRows` | Data of a retarget and the adapter's pure checks: servers and the NULL marker of the local one, plans, reversal for a rollback, validation, schema approval. |
| `Retarget` | Abstract specification of a write: one step, whole, from the reviewed state, or nothing. |
| `RetargetTx` | `ApplyRetargetPlan` as it runs: fingerprint, transaction, one guarded `UPDATE` per row under row locks, commit, every error path. Implements `Retarget`. |
| `RetargetTx_proofs` | The inductive invariant of `RetargetTx`, the proof of the refinement, and that no call is stuck or goes on without end. |
| `DryRun` | `BuildRetargetPlan` as it runs: fingerprint, supported tables, one `SELECT` per table, while rows move and the schema migrates. |
| `Migration` | `DryRun` and `RetargetTx` over one database: from the dry run to the commit of its plan. |
| `Migration_proofs` | The dry run is complete, sound and can be written, for any tables and schemas; a whole plan leaves nothing behind and no plan moves what was not reviewed, from the invariants of both modules; together they keep the promise of `Retarget`. |
| `JobManager` | `Plan`, `Apply`, `Rollback` and the job deletion over the store, one step per store or database call, with failing calls and dying processes. |
| `JobManager_proofs` | What the records of a job say about the writes made for it, for any number of jobs and calls, and that these write by the promise of `Retarget`. |
| `PlanCheck` | `validateStoredDryRunPlan` and `validatePlanSubset`, loop by loop, against a definition of what may be applied. |
| `PlanCheck_proofs` | The verdict is right for events and plans of any length. |
| `JobOrder` | The text of times and the order of jobs, pages and protected jobs that follows from it. |
| `ServerScan` | `ListServers`: counts table by table, then the server table, then the local server. |
| `PlanPage` | The web page's dry runs, selection, confirmation and apply, with answers in any order. |
| `HistoryPage` | The web page's job history: paging and deletion with requests in flight. |
| `OperatorView` | `PlanPage`, `HistoryPage`, `ServerScan` and `JobOrder` side by side, with the language switch that works on the first two: all that the operator sees. |
| `OperatorView_proofs` | What the operator is shown, what the page sends and how the pages of jobs fit together, for any number of rows, tables, servers, jobs, dry runs and requests in flight. |
| `Process` | One process of any command, from its start to its exit: what it opens and closes, the listener, signals, the shutdown and its deadline. |
| `Process_proofs` | What a process leaves behind, and that nothing delays its exit, for any number of requests. |
| `BackupCandidates` | `ListCandidates` over a bucket that changes. |
| `SSHSession` | `Upload` and `Run`: the caller, its context, the goroutine and the remote command. |
| `RestoreCommand` | The text of the restore commands, and how two shells read it. |
| `Restore` | `BackupCandidates`, `SSHSession` and `RestoreCommand` side by side. |
| `Restore_proofs` | What the search for backups finds and how it ranks it, what success of a remote call means, and what the shells read of the commands, for any buckets, pages, manifests, uploads and names. |
| `MCRetargetTx`, `MCMigration`, `MCJobManager`, `MCPlanCheck`, `MCHistoryPage`, `MCProcess` | Values of the constants for TLC. |
| `MCOperatorView`, `MCRestore` | Values of the constants of `OperatorView` and `Restore`; one component runs at a time. |

`RetargetTx` and `DryRun` extend `PlanRows`; `RetargetTx` instantiates
`Retarget`; `Migration` extends `DryRun` and instantiates `RetargetTx`, over the
same `server` and `schema`. `JobManager` sees a dry run and a write as single
steps. For the write that is what `RetargetTx` implements, and `JobManager` is
proved to write by the same promise (`ManagerKeepsPromise`). For the dry run it
leaves out plans whose rows come from different moments; the properties of
`JobManager` compare writes with the plan that was stored, not with the rows
that were there, so what a plan lists is the question of `DryRun` and
`Migration`. `PlanCheck` takes the step "check plan" of `JobManager` apart,
`JobOrder` its order of jobs, and `Process` the death of its calls.

### RetargetTx and the code

Each element of `Writer` is one call of `ApplyRetargetPlan`; a rollback is a
call with the reversed plan (`Reversed`). `phase` is the place in the function:
`check` before the fingerprint, `begin` before `BeginTx`, `rows` in the loop,
`waiting` inside an `UPDATE` that waits for a lock, then `ok` or `err`. `next`
is the loop variable. `held` is the set of rows the open transaction has
updated; their new value is not committed and follows from the plan, so
`server` holds committed values only. `End` is the return with its deferred
`Rollback`.

PostgreSQL is external and modelled from what the code relies on. An `UPDATE`
under READ COMMITTED looks at the committed row or its own change; when the row
does not match it affects no row at once, even if another transaction holds it
(`Miss`); when it matches and is locked it waits and then evaluates its WHERE
again (`Block`, then `Hit` or `Miss`). A cycle of waits costs some member its
transaction (`DeadlockVictim`). `Commit(w, "err")` is a commit whose
confirmation is lost. `Fail` is any other error: a cancelled context, a lost
connection, a failed statement. Dokploy's own changes (`DokployChanges`) wait
for locks; a deleted row (`Gone`) never comes back, as IDs are not reused.

After it has been answered a caller may ask again (`Leave`), so runs are not
bounded in length.

### JobManager and the code

Each element of `Client` is a call in some process: an HTTP request or a
command. `call[c].at` names the next store or database call that it makes; the
actions carry the order of `jobs.go`. `Checked` is a store call whose error is
returned, `BestEffort` one whose error is dropped (`_ =`), `Last` the last one.
Every store call may fail without effect, which covers a locked file and, since
later calls may fail too, a cancelled context. `Die` ends a call at any step; a
crash of the server is the death of its calls. The write to Dokploy is the one
step that `RetargetTx` is proved to implement, with its lost confirmation.

`fkOff` is the state of SQLite's foreign keys. The store turns them on with a
`PRAGMA` when it is opened (`store.go:95`), on one connection; `database/sql`
replaces that connection after a call whose context was cancelled while it ran
(`CallCancelled`), and the new one has them off. From then on an event or a
report of a job that was deleted in the meantime is accepted (`Accepted`). The
deletion itself does not depend on them: `DeleteJob` deletes the records that are
there with statements of its own. `NothingOrphaned` holds as long as every process
has its first connection.

Jobs are ordered by their last update, as `ListJobsPage` means to order them;
the encoding of times is `JobOrder`'s. Events are kept as the set of their kinds,
except for the plan of the dry-run event, which `validateStoredDryRunPlan`
reads back. Job IDs come from a nanosecond clock and are taken to be unique.
`lastWrite`, `faulty` and `overlapped` are history variables: no action reads
them.

### DryRun and ServerScan and the code

`phase` is the place in `BuildRetargetPlan`: `schema` before `ValidateSchema`,
`tables` before `supportedTables`, `list` in the loop of `ListServerResources`,
whose remaining tables are `tables`. `hash` and `found` are what the plan will
carry; `DryRunPlan` is the plan, in the order in which the rows are read
(`RowsInOrder`; the constant `Place` is the place of a row by its table and then
its ID), in the form that `PlanRows` and the write path use. A table that the schema of the
moment cannot tell servers of makes its query fail. Dokploy's schema moves
forward only (`Version`): with a schema that came back, a dry run could list
tables of one schema under the fingerprint of the other. `kept` and `seen` are
history variables: the rows on the source all along, and ever.

`ServerScan` follows `ListServers` in the same way; `registered` is Dokploy's
server table, where each server has a `Report` that `Classify` turns into a
status. A server's removal takes its rows along, as Dokploy's foreign keys do.
The order of the list and the names are left out.

### Migration and the code

The dry run is followed by calls of `ApplyRetargetPlan` with a selection of its
rows, or with the selection turned round for a rollback, at any time later. That
the manager lets through nothing but selections of a stored dry run is
`PlanCheck`'s. `MigrationNext` conjoins the two modules' actions for what Dokploy
does, and otherwise interleaves them. `stayed` is a history variable: the rows on
the source ever since the dry run began. One dry run is followed at a time; a
second one would have its own history and share only the database.

### PlanCheck and the code

`at` and `n` are the place in `validateStoredDryRunPlan` and
`validatePlanSubset`: in the loop over the events, at the comparison of the
headers, in the loop over the stored rows, in the loop over the submitted rows.
A row is a value; `Ident` is `planRowIdentityFor`, which trims blanks and drops
names, so different rows may have one identity, and `Blank` are the identities
with an empty part. Go's map from identity to row is the set `storedRows`, of
which `KeepStoredRow` lets in one row of an identity. An event whose payload
cannot be decoded ends the search. That reading the events may fail is in
`JobManager`.

### JobOrder and the code

A moment is what a clock shows: a second and the digits of its fraction,
`Places` of them to the base `Base`. Times are written with `time.RFC3339Nano`,
which drops the trailing zeros of the fraction and the dot with them (`Written`,
`formatTime`), and compared as text. What is fixed in width, the date down to the
second, is one character of the text. The characters are ordered as their codes
are: the dot, the digits, the `Z`. So 5.1 s ("05.1Z") comes after 5.12 s
("05.12Z"), and 5 s ("05Z") after both. `Listed` is the `ORDER BY`,
`ListJobsPage` its `LIMIT` and `OFFSET`, `Limit` and `Offset` are how the handler
reads the client's numbers. `touched` is a history variable, the moment that
`updated` is the text of. The protected window and the page size have constants
of their own here (`ProtectedCount`, `MaxLimit`), apart from those of
`HistoryPage`.

### PlanPage and HistoryPage and the code

JavaScript handlers run to completion, so each is one action; what lies before
and after an `await` is two. In `PlanPage` a dry run is named by its plan's ID,
and a row by its key, so two dry runs list the same rows. `Sync` is
`syncSelectionForPlan`, `Ready` the conditions of `updateApplyState`, `enabled`
the state of the button. `stored` is what the server has kept for each job;
`sent` and `unchecked` are history variables.

In `HistoryPage` each element of `Slot` is a request that may be in flight.
`offset` is `jobsOffset`, `page` is `currentJobsPage`, and `displayed` what the
history panel shows. `Absent` stands for a request that is not there. The server
lists, then counts. `disturbed` and `restored` are history variables. `disturbed`:
another client changed the jobs, two requests overlapped, or the answer to a
deletion was lost. `restored`: a language switch brought back a page that an error
box or the request of another page had replaced. The check of the protected jobs
and the deletion are one step here, as their race is `JobManager`'s.

The language switch is one handler, `applyLanguage`, that renders both again:
`SwitchLanguage` is what it does to the plan, `SwitchHistoryLanguage` what it does
to the history, and `ApplyLanguage` of `OperatorView` both at once. To the plan it
is `renderPlan` with what is displayed, which changes nothing but texts. To the
history it is `renderJobs` with `currentJobsPage`, the last page that was rendered,
whatever is displayed by then; and `renderJobs` sets `jobsOffset` too.

### Process and the code

`main` is the place in `run`, the function of the command, `buildRuntime` and
`ListenAndServe`; `deferred` is the list of the deferred closings, in the order
in which they run. The listener is the goroutine that calls
`http.Server.ListenAndServe` and sends its error into a channel with room for
one; `SelectDone` and `SelectError` are the branches of the select, either of
which may be taken when both are ready. Of a request only what depends on the
process is kept: it begins its write while both databases are open, goes on with
the connection that it has when the pool is closed, and needs the store for its
record. `unrecorded` is a committed write whose record found the store closed.
A `serve` without a DSN has no Dokploy database and starts all the same.

### BackupCandidates, SSHSession and RestoreCommand and the code

Keys of `BackupCandidates` are numbers in the order in which S3 lists them. What
the code reads off the text of a key is a constant: `isManifestKey`,
`looksLikeBackup`, `nameMatches`. `page` is what is left of the current page.
Objects come and go between any two calls to S3 (`BucketChanges`); a manifest is
read as it is at that moment, and passed over when it is gone, too large or not
JSON. `kept` and `skipped` are history variables. `InOrder` of `Ordering` puts a
set in order by giving each element the number of those that come before it; the
stable sort of `sortCandidates` is that order on the places of the slice, and
`At` is what `dedupeCandidates` keeps of it.

In `SSHSession` `at` is the place of the caller and `worker` that of the
goroutine that runs the remote command. A write, and the remote command, may take
for ever. `scp` is external: it ends without an error when it was sent the
header, as many bytes as announced, the terminator and the end of the input.

`RestoreCommand` has no behaviour but what the operator gives, a character at a
time. `Shell` is a reference reader of a line, with single and double quotes and
a replacing character; `ReadFrom` goes on reading where a text before it ended.
The line for the remote shell contains the line for the shell in the container
as one argument.

`Restore` puts the three side by side; its types and what holds of a call that
waits are stated there.

## Runs

| Run | Instance | Shows |
|---|---|---|
| `tx_refines` | 2 writers, 3 rows of which one is not in the table allowlist, 3 servers, 2 schemas; applies in both row orders, a rollback, a subset, plans the checks refuse, a duplicate row, a plan between two remote servers | `TypeOK`, `LockedRowsUnchanged`, `ProgressMatchesLocks`, `ImplementsRetarget` |
| `tx_returns` | 3 writers that lock 2 rows in opposite orders, 1 schema | `CallsReturn` |
| `tx_schema` | 1 writer, 2 schemas | violates `SchemaCurrentAtCommit` |
| `migration` | a dry run and a writer, 3 rows in 3 tables of which one is not in the table allowlist, 2 servers, 3 schemas of which only the second knows a table and the third is not approved | `MigrationTypeOK`, `Complete`, `Sound`, `WritableIfUnchanged`, `NothingLeftBehind`, `MovesOnlyReviewed` |
| `jobs_concurrent` | 2 calls, 1 job, 1 row, 2 servers; every store call may fail or be cancelled, every call may die | `TypeOK`, `OutcomeIsDocumented`, `StatusNamesLastWrite`, `NothingOrphaned`, `SettledWithoutFault`, `WritesAreTraced` |
| `jobs_two` | 1 call at a time, 2 jobs, plans of any job, direction and row set; the second job is planned but not written to, and no call fails | `WritesAreTraced` |
| `jobs_newest` | 2 calls, 2 jobs, 1 protected | violates `NewestJobsKept` |
| `plan_check` | every history of up to 2 events, stored and submitted plans of up to 2 of 4 rows, of which two share an identity and one has a blank one | `VerdictIsRight` |
| `operator_view` | the scan of 3 rows in 2 tables, a remote server and 9 reports; 2 dry runs with 2 rows, 2 fingerprints and 1 apply; 3 jobs on pages of 2, 1 of them protected, 2 requests in flight; 3 jobs with times of 2 seconds and 2 binary places | `ViewTypeOK`, `CountsWithinBounds`, `QuietScanShowsAll`, `SentIsStored`, `ButtonTellsTruth`, `UncheckedStaysOut`, `EmptyWhenUndisturbed`, `RefreshKeepsPage`, `OfferedIsDeletable`, `PagesPartition`, `MisorderIsByTrimming` |
| `history_language` | the history page with as many protected jobs as a page has rows, as in the code | violates `EmptyWhenAlone` |
| `process` | every command, 2 requests, a signal, a deadline, a failure of every step | `TypeOK`, `ExitStatusTells`, `NothingLeftOpen`, `Ends` |
| `restore` | a bucket of 4 keys, 2 of them manifests of 3 contents, on 2 pages; one call of `Upload` or `Run`; names of up to 3 characters together, of 5 | `RestoreTypeOK`, `FindsWhatIsKept`, `Ranking`, `SuccessMeansDone`, `NothingWaitsForEver`, `NamesArriveWhole` |

`operator_view` and `restore` each hold modules that share no state; the language
switch alone is a step of two of them. The specifications `OperatorView` and `Restore` let these run side by side, and that is
what the proofs are about. In the runs one component runs and the others rest, so
that TLC checks their sum and not their product. Nothing is lost by that. A
language switch does to each page what it would do to it alone, and a dry
run and an apply reload the history, but `HistoryPage` can reload at any time; it
leaves open in which order the store lists jobs; and the list of servers only
fills a form. The pieces of a restore are not put together by the program.

Why the bounds are enough. Two rows give the two lock orders and the partly
written plan. Refinement needs a pair of writers, as a commit involves one and a
conflict two; a deadlock needs two, and the third in `tx_returns` is the
bystander that may overtake or wait behind them. For the manager the hard cases
are two calls on one job; with one row a write is possible or not, which is all
the manager sees, and it is whole because `RetargetTx` is. A second job matters
for plans sent to the wrong job and for the order of jobs, which `jobs_two` and
`jobs_newest` cover. The protected window is 1 (0 where deletion should be
unrestricted) instead of 50: only membership in it matters. What is proved
below holds without these bounds.

A dry run needs one table that is always there, one that comes and goes and one
outside the allowlist. One writer is enough in `migration`: what a second one
does to its rows Dokploy's changes do too, and two writers are `tx_refines`'s.
A scan counts each server on its own, so one remote server is enough. On the
plan page a dry run and a late answer to another are the hard case; the
constraint `OneApply` bounds the applies that are followed, and each is judged
when it is sent. Three jobs on pages of two give a full page, a page of one row
and a page behind the end; page size and protected jobs differ there, so that
both pages have delete buttons. Two places of a fraction give a text that begins
another, with and without the dot. Two events are needed for one to hide
another, and two rows for a duplicate.

`CHECK_DEADLOCK FALSE` stands where what is modelled comes to its end: a process
that has exited, a call of the restore pieces that has returned, a plan check
with its verdict.

Fairness. `tx_returns`: a call keeps executing (weak fairness of `Proceed`); a
call that waits for a row is woken and not overtaken for ever, since PostgreSQL
queues the waiters of a row (strong fairness of `Wake`); the deadlock detector
acts (weak fairness of `DeadlockVictim`). Weak fairness alone does not do: later
calls could overtake a waiter again and again. `process`: the main goroutine is
scheduled, the timer of the shutdown runs, and a command ends once its context is
done, as its database calls take that context. `restore`: the caller's select and
the goroutine's send are scheduled. No fairness is put on failures, on new calls,
on requests, on Dokploy or on remote hosts.

### Disagreements with the documents

* `tx_schema`: the UI says the approved hash must match the current schema, and
  the adapter compares it, but outside the transaction (`postgres.go:363`), so
  the schema may migrate before the commit. The guarded updates and the affected
  counts still keep the write whole (`ImplementsRetarget` holds with schema
  migrations).
* `jobs_newest`: the newest 50 jobs are documented as protected, but the check
  and the deletion are two store calls (`server.go:123-132`). A job updated in
  between, by its own dry run, an apply or a rollback, is deleted as the newest.
* `history_language`: "Job history is empty." is shown for any page without rows
  (`app.js:603`), and an operator who works alone, one request at a time, gets to
  such a page by way of the language switch. The last job of a page is deleted, the
  reload of the page before it fails, and the switch, before or after the failure,
  puts the page back with its offset (`app.js:278-280`, `600-601`); the next
  refresh asks behind the end. Without such a switch the operator does not get
  there: that is `EmptyWhenUndisturbed`, whose condition `~restored` says that no
  switch met an error box, or a page requested elsewhere, in place of the page
  that it rendered; a switch at any other time is harmless. Its other condition,
  `~disturbed`, leaves out a history that another client, a second deletion in
  flight or a deletion with a lost answer has shortened under the page.

Two more are stated positively, as the condition under which the documented
behaviour holds. `store.go:192` speaks of jobs newest first: two updates within a
second may be listed the other way round, which `MisorderIsByTrimming` confines
to texts of which one begins the other. And an event may outlive its job once a
process has lost its first SQLite connection, which `NothingOrphaned` excludes by
`fkOff`.

## Proofs

`RetargetTx_proofs`, for any finite or infinite sets of calls, rows, servers and
plans that satisfy `ConstantsAssumption`:

* `Invariance`: `IInv`, the conjunction of `TypeOK`, `ProgressMatchesLocks` and
  `LockedRowsUnchanged`, is inductive; `TypeCorrect`, `LocksProtectReview` and
  `NoRowSkipped` follow. Neither part is inductive alone: that a row is still at
  the source when the commit comes needs the exclusive lock since the row's
  `UPDATE`, and that no row was skipped needs the progress of the loop.
* `Refinement`: `Spec => ImplementsRetarget`. Every step but a commit changes
  nothing an observer sees or is an answer. At a commit, `ProgressMatchesLocks`
  says that the locked rows are the rows of the whole plan, and
  `LockedRowsUnchanged` that each is still at the plan's source; that is the
  precondition of `Retarget`'s `Write`, and its effect on the columns follows.
* `NobodyIsStuck`, for finitely many calls: among a running call and all that it
  waits for, itself or through others, one has a step of its own or is in a cycle
  of waits that PostgreSQL resolves. It needs that a call only waits at a row that
  its `UPDATE` may name (`WaitsAtRow`). If none can go on, each waits for another
  one of them; the smallest set of calls with that property is a cycle (`Core`).
  What can go on is spelled out in `CanGoOn`, as the prover has no `ENABLED`.
* `CallsAreShort`, an action property: `StepsLeft`, two for each row left and a
  few around the loop, falls with each step of a call and is raised by nobody.
  With `NobodyIsStuck` this is what `CallsReturn` asks of the code; fairness adds
  that steps which can be taken are taken.

`Ordering_proofs`, for any finite set and any strict order in which all its
elements can be compared:

* Counting puts the set in its order (`InOrderIs`): an element has more below it
  than any that comes before it (`RanksGrow`), so the counts are an injection into
  as many numbers as there are elements, and an injection between finite sets of
  one size is onto. `AscendingIs` and `AtIs` are its cases for numbers and for the
  places of a sequence. These lemmas serve the rows of a dry run, the jobs of the
  store and the candidates.

`Migration_proofs`, first of a dry run alone, for any tables, rows, servers and
schemas that satisfy `ConstantsAssumption` and `DryRunAssumption`:

* `AcceptedPlanIsComplete` and `PlanIsSound` follow from `DryRunInvariance`.
  `Complete` alone is not inductive: it needs that the fingerprint is no later
  than the schema, that while it is current a supported table is read or still
  to be read, and that the rows kept are those that a `SELECT` would find. A
  migration makes the fingerprint outdated for good, which is what saves the
  table that it adds.
* `PlanCanBeWritten`: the plan that was read is one that the write path takes as
  long as nothing it read has changed. Distinct rows have distinct places, so the
  rows in the order of their places are a sequence without a row twice, whose
  elements are the rows found (`RowsInOrderIs`).

Then of the dry run and the writes on one database, from these invariants and
those of `RetargetTx_proofs`, the latter carried over the instance (`SameCalls`,
`SameCallSteps`):

* `MigrationTypeCorrect`, `PromisesOutliveCommits`, and the action properties
  `WholePlanLeavesNothing` and `OnlyReviewedMoves` follow from
  `MigrationInvariance`. Its invariant `MInv` joins the two: a call runs only while
  the dry run that it follows is done, on a plan of that dry run's rows between its
  two servers (`PlansOfDryRun`); the rows that stayed are among those the dry run
  kept (`StayedFits`); and a call that is past the comparison of the fingerprints
  has the plan of a complete dry run, even if the schema has migrated since
  (`CheckedIsComplete`). At a commit `RetargetTx`'s part says that each row of the
  plan is locked, at its source, and takes its destination.
* `MigrationRefinement`: `Migration` implements `Retarget`, with the requests left
  open: a call asks for any selection of whatever the dry run found. The dry run's
  own steps change nothing that `Retarget` speaks of.
* `DeliveredIsPlan` in `RetargetTx_proofs` is the lemma about what a caller hands
  over: the rows it selected, or the same rows turned round.

`OperatorView_proofs`, for any number of rows, tables, servers, jobs, dry runs
and requests in flight. Its invariant is the conjunction of four, one for each
component; `ViewPlaysPage` says that the page of a dry run is not disturbed by the
other three.

* `AppliesNameTheirPlan`: the displayed plan is the stored plan of the displayed
  job, and a stored plan is never replaced.
* `UncheckedIsNotMoved`, an action property: the selection belongs to the
  displayed plan and avoids what was unchecked in it, and nothing is unchecked in
  a plan that has not been answered.
* `ButtonIsTruthful`: inductive as it stands, as whatever changes the plan, the
  selection or an input computes the button's state anew.
* `CountsAreBounded` and `QuietScanIsExact`: while the scan counts, each server's
  count lies between the rows kept and the rows seen of the tables counted so far
  (`CountsFit`). With nothing moving the two are equal. That the counts of the
  servers of a quiet scan add up to the rows counted (`SumOfCounts`) is an
  induction over the servers.
* `NeverLeftOnEmptyPage` needs that, as long as nothing has disturbed the page and
  no language switch has restored a replaced one, a request in flight and the
  displayed page agree with the history (`InStep`, `OneAtATime`); a switch that
  meets the page it renders changes nothing; `RefreshAsksForShownPage` that the offset follows what
  is displayed (`OffsetFollows`); `ButtonsFollowProtection` that a page is a
  stretch of the list of jobs, without a job twice (`PageAtIs`).
* `PagesFitTogether`: that texts, compared character by character, are in a strict
  order (`TextBeforeIs`, `TextsOrdered`) makes one order of the jobs, the ID
  deciding between equal texts (`PrecedesOrders`), so `Listed` has each job once
  (`ListedIs`). A job is on the first page that ends at its place or behind it, and
  a page ends where the next begins (`PagesBegin`, `PageIs`).
* `MisorderIsTrimming` needs that `updated` is the text of `touched` (`TextsFit`)
  and what that text looks like (`WrittenIs`, `TextIs`): the text of an earlier
  moment is the lesser one unless its digits end before the two differ
  (`EarlierText`). `ReadBack` is the same about `parseTime`, and part of the types.

`Process_proofs`, for any number of requests:

* `TypeCorrect`, `ClosesEverything` and `OkMeansServed` follow from `Inductive`.
  The invariant says which command reaches which place (`PathFits`), that what is
  open is what the deferred functions still have to close, in the order in which
  they close it (`DeferredCloses`), and that a record is missing only once the
  store is closed, which before the return of `run` it is not (`OkHolds`). An "ok"
  of the server needs the call of `Shutdown`, after which no request is received;
  that is why requests stay answered while the databases are closed.
* `NothingDelaysExit`: `StepsToExit`, at most 12, falls with each step of the main
  goroutine and of the shutdown's timer, and nothing raises it; and once there is
  a signal, or the listener has failed, the place where the process is waits for
  nothing that may not come (`Ready`). `Ends` is that with fairness.

`JobManager_proofs`, for any number of jobs, calls, rows and servers:

* `TypeCorrect`, `NoOrphans`, `OutcomesDocumented`, `StatusTruthful`, `Settled`
  and the action property `Traced` follow from `Invariance`. The inductive invariant adds to the
  properties what calls know at each of their steps: a writing call past the
  check has a plan that fits the stored one (`PlanIsChecked`), at the write its
  announcement is there (`Announced`), after the commit report and event are
  there as far as it has come (`CommitIsRecorded`), a job that no two writing
  calls shared shows no final status while one is under way (`Alone`), and a job
  without faults that is not settled has a call that will settle it (`Attended`).
  A job is planned by one call only (`PlannedOnce`), which is why its plan does
  not change under a writing call. The order of the jobs is part of it
  (`Ordered`): it lists each job of the table once and no other.
* The proof first shows, action by action, what a step changes (one lemma each),
  and then each part of the invariant from these effects.
* `ManagerKeepsPromise`: seen through what its calls ask of the adapter and hear
  from it (`Sent`, `Heard`: from the write on, until the call ends), the manager
  behaves as `Retarget` says. So the levels fit: the manager writes by the promise
  that `RetargetTx` implements. `AsSent` and `AsAsked` turn its plans, which are
  sets of rows, into those of `PlanRows`, with the rows in any order and each once
  (`Listing`). The invariant is extended by `Proper`: stored plans are between two
  servers, and a plan past the check has rows, which is what the adapter's own
  checks ask for. A process may die while its request is pending. `Retarget` has no
  such step, as a call there is answered before its caller leaves; `DiesAsking` is
  that step, and it changes no column. The theorem assumes that the rows are
  finitely many and that the mark of a deleted row is no server.

`PlanCheck_proofs`, for events and plans of any length, any rows and identities:

* `VerdictCorrect`: the invariant says what the loops have established at each
  place: no event before the loop variable decides; the stored rows before it
  passed and are those kept; the submitted rows before it are among these and
  have different identities. Since only one event decides (`OneDecides`), the
  verdict is that on its plan.

`Restore_proofs`, for buckets of any finite size, pages of any length, any
manifests and any call to the remote host:

* `SortIs` and `DedupeIs`: the stable sort, and the first candidate of each key, from
  the lemmas of `Ordering_proofs`.
* `SearchIsComplete` follows from `SearchInv`: what was there all along and is not
  beyond the last page is on the page still or has been found, by its name
  (`NamesFound`) and by every manifest that could be read (`ManifestsFound`). That
  a page ends where the next begins comes from the order of its keys (`NewPage`).
* `AnswerIsRanked`: sorting first and then keeping the first of each key leaves
  the best of each key (`AnswerIs`).
* `OkMeansDone`: an "ok" is handed from the command to the goroutine, the channel
  and the caller (`OkFromCommand`), and the remote end of an upload has it only
  after the last write.
* `SenderNeverWaits`: the goroutine of a call finds room for its one result, as
  nothing else is ever in the channel; it starts once (`StartsOnce`).
* `NamesReachShells`, for names of any length and characters. A line is read text
  after text (`ReadConcat`). A quoted text adds itself to the word that is being
  read, whatever is in it, and leaves the quotes closed (`EscapedReads`,
  `QuotedReads`); texts that are words, with blanks between, are read as these
  words (`SpacedReads`). The remote line has the script as one quoted word, so the
  second shell reads what was written, and there the archive's name is quoted
  again. The restore command of a dump is the end of its script, unchanged.
* `RestoreTypeCorrect` follows from the same invariants.

Induction over data. The induction theorems of the proof library take the
predicate as a parameter and cannot be used. Where an induction is needed about
one given function it goes by the least counterexample (`Least`), which a
well-founded order on the numbers provides, or by counting up to a bound
(`UpTo`); `SumOfCounts`, `DedupeIs`, `Core`, `QuotedReads` and `SpacedReads` are of
that kind. That a recursive function is what its equation says is shown in the
same way, once for each.

Model-checked only: the three liveness properties (`CallsReturn`, `Ends`,
`NothingWaitsForEver`), as fairness and `ENABLED` are outside what the prover
handles. Of each, what holds without fairness is proved: `NobodyIsStuck` and
`CallsAreShort`, `NothingDelaysExit`, `SenderNeverWaits`. `NobodyIsStuck` assumes
that calls are finitely many; with infinitely many each could wait for the next.

## Plan

What would come next: the composition of the restore pieces, once the program
calls them.

## Not modelled, and why

The parsing of configuration and arguments runs once before any state exists;
that it may fail is in `Process`. HTTP authentication is a comparison per request
without state. The wording of reports, events and pages is presentation.
`APIClient.Deploy` is not called by any operation; of the API client only the
logged outcome of its health check is left, in `JobManager`. `Dial` of the SSH
package keeps nothing when it fails. The S3 and the SSH packages are modelled but
called by nothing yet. The end-to-end script, container files and templates hold
no logic of the program.
