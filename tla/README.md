# Formal models of pottracker

pottracker mirrors what the CNC controls of a shop hold (tool offsets, pots,
tool life, macro variables, status) into PostgreSQL, keeps an audit log of every
change it sees, and lets an API stage and execute offset writes back to a
control.  This directory holds TLA+ models of the parts of it where an
interleaving, a failure or a long history decides whether the result is right,
the TLC instances that check them, and TLAPS proofs of the properties that
matter most.  Paths below are relative to `src/`.

## 1. Inventory

| part | state | operations | talks to | hard about it |
|---|---|---|---|---|
| Poll supervisor, `shared/focas/service.py` (`FocasService`) | handle, failure counter, reported state, heartbeat file, stop event | connect, full cycle, fast status tick, cooldown, sleep, stop | control (FOCAS library), persist, heartbeat reader | recovery after any outage, one counter for many errors, stop during a sleep |
| Instance locks and fleet, `shared/focas/fleet.py`, `service.py:110-192`, `scripts/focas_fleet.py`, `scripts/focas_service.py` | lockfiles, threads, stop event | acquire, release, start, run, wait, signal | operating system, other processes | killed processes, reused pids, starts that fail half-way, accounts that do not see each other |
| Sweep of a control, `shared/focas/client.py`, `client_reads.py`, `lathe.py`, `programs.py` | a handle | read one item, skip it when its read fails | FOCAS library | not atomic: the control changes while it is read |
| Persistence and audit, `shared/focas/snapshot.py`, `snapshot_diff.py`, `shared/audit.py` | mirror tables, audit log, tool memory | load, diff, upsert, audit, one commit | PostgreSQL | diff against a SELECT of earlier, attribution from two timestamps, failed transactions |
| Offset writes, `apps/tooling/api/services/offset_write.py`, `write_safety.py`, `offset_math.py` (bounds) | request rows, audit rows, the control's registers | create, execute, execute a batch | PostgreSQL, control | a register outside the transaction, several sessions, checks that age |
| Session boundary, `apps/tooling/api/db.py` | a session | commit on return, roll back on an exception | PostgreSQL | what an exception takes with it |
| Async poller, `shared/focas/poller.py` | source, state, queue, counters | start, run, stop, `snapshots()` | control, a consumer | cancellation, thread affinity, a full queue |
| Assignments, tools, machines, `apps/tooling/api/services/{assignments,tools,machines}.py` | tables with partial unique indexes | create, move, confirm, delete, retire, patch | PostgreSQL | write skew under READ COMMITTED, rows that change between SELECT and UPDATE |
| Occupancy and loadout, `services/occupancy.py`, `web/.../activeLoadout.ts` | none | functions of mirror, assignments and the probe tool | | cells that outlive their tool, lengths of another cycle |
| Exports, `services/{g10,offset_export,program_export,tool_label}.py` | none; a handle during a program upload | text from rows, upload of a program | control | a mirror with gaps, pieces of a program, the upload mode |
| Decoding, `shared/focas/{decoders,params,offset_math}.py` | none | words and bytes to values | | sign, BCD, scale, codes that differ by memory type |
| Session of a browser tab, `security.py`, `deps.py`, `routers/auth.py`, `web/src/lib/{api.ts,auth.tsx,tokens.ts}` | token pair, user shown, the shared refresh | login, bootstrap, call, refresh, logout | API | a refresh that answers after a logout, calls that expire together |
| Schema, `migrations/versions`, `shared/db.py`, `tables.py` | the database at a revision | upgrade, downgrade | PostgreSQL | rows that a constraint meets, three statements of the same tables |
| Migration guards, `migrations/{_guard,env}.py`, `shared/dsn_guard.py` | none | check a target, an operation, a statement | PostgreSQL | nested operations, bare names, which transaction commits |
| TechDB insert, `src/techdb_insert.py` | two SQLite files | read the pending rows, insert, write the links back | the registry's owner, other runs | two commits, a lock taken after the read |
| Tool import, `scripts/import_tools.py` | a transaction | look up, check a file, upsert, assign | PostgreSQL, the API | requests between look-up and commit |
| FOCAS binding, HTTP routes, rendering, diagnosis scripts | none | | | |

How they interact.  A fleet process takes one lockfile per machine and runs one
`FocasService` in a thread for each; every service sweeps its control through
one handle and hands the snapshot to `persist`, which owns the mirror and writes
the audit log.  The API reads the mirror, and its write path goes to the control
directly; the poller then sees the written value as one more change.  The
asyncio `Poller` is the other way to poll, used by the soak runs: one task, one
thread for the calls into the library, and snapshots handed to a consumer
through a bounded queue.
Each of the modules models one of these parts and states what it takes from the
others:

- `PollerFleet!ExclusivePolling` is why `SnapshotPersist` may be proved for one
  poller of a machine: with two, an audit entry can start from a value the other
  poller has already replaced, and `LedgerReplays` fails.
- `FocasService!StopHonoured` is why `PollerFleet` may assume that the thread of
  a stopped process ends.
- `SnapshotPersist!Abandon` is what `FocasService` calls a failed read or a
  database error: the cycle leaves nothing behind.
- `ControlReads!SnapshotIsHonest` is what `SnapshotPersist` takes a read to be:
  a value that its item had during the sweep.  The mirror of `MachineViews` is
  that of `SnapshotPersist` without its audit log.
- `ControlReads` tells which rejections end a sweep; to `FocasService` they are
  the errors of a read.
- `Schema!ProbeLocksTogether` is the type of the probes in `ToolImport` and
  `Assignments`.

## 2. Modules

| module | models | state |
|---|---|---|
| `FocasService` | `FocasService.run` and all it calls | `pc` is where the thread of `run` is, `source`, `consecutive`, `state`, `hb` are the fields of the same meaning |
| `SnapshotPersist` | `read_snapshot`, `persist`, the diffs | `control` is the machine, `snap` and `base` the locals of a cycle, `mirror`, `ledger`, `lastTool` the tables |
| `AuditedMirror` | what mirror and audit log promise: atomic partial observations, one entry per change | `row`, `log` |
| `OffsetWrite` | `create_request`, `execute_request`, `execute_batch`, `mode_lockout_ok`, `authorize_write`, `get_session` | `row`, `audit` are committed rows, `dirty`, `notes` what a session has not committed, `register`, `machine`, `probe` the world |
| `PollerFleet` | `SingleInstanceLock`, `FleetService`, the two `main`s | `file` are the lockfiles, `at`, `want`, `unit`, `stop` a process |
| `Assignments` | `create`, `update`, `confirm`, `soft_delete` of assignments, `retire` and `update` of tools, `update` of machines, the partial unique indexes | `asg`, `tool`, `machine` are committed rows, `current`, `tsc` the locals of a request, `write` the row it has written |
| `Dictionaries` | the dictionaries of the Python code as functions, `sorted()` | none |
| `Decoders` | the decoders and tables of `decoders.py`, `lathe.py`, `client_reads.py` | none |
| `ControlReads` | `FocasClient` from connect to close, the sweep of a mill and the two of a lathe, call by call | `handle`, `open`, `cache` are the connection, `todo`, `snap`, `outcome` the sweep, `control`, `layout`, `link` the machine |
| `ProgramExport` | `read_program_text`, `fetch_program` | `text`, `calls`, `streak` are its locals, `uploading` is the control's mode |
| `G10` | `build_g10`, `parse_g10`, and what the panel does with a block | none |
| `Occupancy` | `occupancy`, `classify_pot`, `buildActiveLoadout` | none |
| `MachineViews` | the four above on one control, `export_g10`, `export_csv`, `mode_lockout_ok` | `punched` is the last program exported |
| `ClientSession` | `api.ts`, `auth.tsx` and the routes they call | `stored`, `shown`, `loading`, `login`, `refresh` as in the code, `pc` and `carried` the calls in flight |
| `TechdbInsert` | `techdb_insert.run` with `--apply` | `registry`, `techdb` are the files, `draft` and `holder` an open transaction, `seen` and `planned` the locals of a run |
| `ToolImport` | `import_tools.run` against the services | `types`, `tools`, `probes`, `assigned` are committed rows, the rest the import |
| `Migrations` | `_guard.py`, `env.py`, `dsn_guard.py` | `written` are the revisions, `version` and `schemas` the databases, the rest a run |
| `Schema` | the thirteen revisions up and down, the tables as declared | `revision`, `db` |
| `Maintenance` | the four above side by side | `desk` says which |
| `Poller` | `Poller` with `run`, `start`, `stop`, `snapshots` and the FOCAS thread | `loop` is where the task is, `jobs` and `answer` the executor, `handle`, `fails`, `state`, `queue`, `stop` the fields |

`MC...` modules hold the definitions the configurations name; `...Proofs`
modules hold the theorems.

### FocasService

One action for each stretch of `run` between two points where something else
can happen: a call into the control, a database call, a sleep.  `ConnectOk` sets
the counter to 0 as `service.py:310` does.  `ReadStale`, `ReadError` and
`ReadCrash` are the three `except` clauses a full read can meet;
`OnReadFailure` counts, reports, and at the threshold closes the handle and
cools down.  A sleep is a location that `Wake` or `EndCooldown` leaves after any
time, so no length of a sleep is assumed; `LongInterval` says whether the
interval is longer than the cooldown, which decides whether line 336 sleeps
again.  `FastTicks` is the number of status reads between two cycles (0 for a
mill).  The environment takes the control up, down or to answering now and then
(a handle held while it goes down is forgotten by the control), takes the
database away and gives it back, lets the mirror age, and sets the stop event.
`StaleRaises` is the set of exceptions a forgotten handle can raise; since
`errors._KNOWN_CODES` maps no code to `FocasHandleError` today it is `{"focas"}`
in production, and the run checks both.

`streak` and `onHandle` are history: failed reads since the last good read or
cooldown, and on the present handle.

### SnapshotPersist and AuditedMirror

A mirrored item is a key whatever its table.  The tables differ in being
attributed (`Geom`, the H geometry offsets), in being the presetter's skip
variables (`Skip`), in being watched for a reset (`Pots`) and in not being
audited (`Status`).  A sweep reads the keys in `Order`, one per step, and
operators, the presetter and the PMC change the control between any two reads.
A read that fails is left out (`SkipItem`) for the items whose reader skips
rather than raises.  `Load` is the SELECTs of `persist` with the presetter
test, `Commit` the upserts and audit rows with the transaction's end,
`Abandon` any exception on the way.

One assumption about the world is in `BeginSweep`: the macro writes the length
it measured within the pause between two cycles.  Without it no inference from
"the previous cycle" could attribute anything.

`AuditedMirror` is the abstract promise.  `SnapshotPersist` maps to it by
keeping the values of the mirror rows and the before and after of the ledger;
`Commit` is its `Observe`, every other step stutters.

### OffsetWrite

The steps of `execute_request` that touch something another party can change
are actions of their own: fetch the row (`NotFound`, `AlreadyExecuted`,
`GetPending`), the gate (`Blocked`, `Permitted`), the live read, the comparison,
the write, the read-back and the recording UPDATE.  The batch takes its ids
from `todo`.  `Update` waits while another session holds the row; `Commit` and
`Rollback` end a session, and `Commits` says which of them an exception leads
to: `get_session` rolls back, the callers in the tests catch and commit.
`MachineChanges`, `PanelEdit` and `ProbeMoves` are the control, the operator and
`PATCH /machines`.  The writer may reject a value or store another one
(`Faults`), a session may be lost at any statement (`Crashes`), and PostgreSQL
aborts one of two sessions that wait for each other (`DeadlockVictim`).

`writes` records what each write met; `changed[c]` what has moved since session
`c` last looked at it.

### PollerFleet

`Reclaim`, `Open` and `Write` are the three steps of `acquire`: the look at the
pid in the file, the truncation and the write of the own pid.  Starts are one at
a time, as `service.py:152-155` states of its deployment; everything else
overlaps with them.  A fleet starts its units one by one and skips those that
are polled; `WriteFails` and `ThreadFails` are an `OSError` of the lockfile and
a `RuntimeError` of the thread, and what `start` had not come to is "dropped".
`Leave` is the `finally` of `main`, `left` the state of a process whose main
thread is gone while other threads still run.  `Kill` removes a process and
nothing else, `StrangerStarts` gives a free pid to another program, and
`PidAlive` is what `_pid_alive` finds: on Windows a process one may not open
counts as dead, which `CanQuery` expresses.

Assumed: different machines have different lock paths.  Names are unique, but
`_slug` (`focas_fleet.py:68-69`) can map two names to one path.

### Assignments

A request is one transaction, and each of its SELECTs and its INSERT or UPDATE a
step: `LoadTool`, `LoadMachine` with the probe lock, `CheckSlot` for the T, H
and D numbers with the capability after the last, `Write`, `CommitRow`.  A move
begins with `LoadRow` and reads the machine before the tool; a confirmation and
a deletion only read their row.  The commit is `get_session`'s, after the audit
row, so there is a window between `Write` and `CommitRow` in which only
PostgreSQL knows of the row.  `NewRow` is the row the UPDATE makes of what it
finds then, not of what was read; `MustWait` and `Duplicate` are the row lock and
the partial unique indexes of migration 0003.  A column set to null is legal in
the schema of a PATCH and ends at NOT NULL for T and H.  `CommitRetire`,
`PatchMachine` and `PatchTool` are an UPDATE and its commit in one, since nothing
that follows the UPDATE looks at anything.  Names, notes and cached offset
values are left out.

`changed[c]` is which of the facts session `c` has looked at have changed since
(`machine`, `tool` and its `need` for coolant, the `row`, the `use` of a tool
that is to be retired), `since[a]` the same of whoever last answered for row
`a`, `shown[a]` the registers of the row that its last confirmation had read.

### Poller

An action is what the event loop runs between two awaits, or one step of the
thread.  `Submit` hands a call over and leaves the task waiting for `answer`;
`Poll` and `CycleEnds` are the two places where `run` looks at `_stop`;
`Finally` is its last clause up to the disconnect.  The thread works through
`jobs` whether or not somebody still awaits them.  `Cancel` cancels the task at
any await: a job the thread has not begun is dropped, one it has begun goes on
(`Remaining`), and a task cancelled before its first step never enters `run`
("stillborn").  A consumer cancelled in `asyncio.wait` leaves its getter behind
(`orphans`).  A reconnect inside a cycle is a step of its own
(`ThreadReconnects`), since the control can change between it and the read, and
it counts its failure before the cycle does.  `StaleRaises` is as in
`FocasService`.

A snapshot is represented by its age, which tells order and loss apart and keeps
the states finite.  `failed` is history: failed cycles in a row, the first
connect included, to compare the counter with; `got` and `lost` are the ages of
the last snapshots taken by a consumer and by an orphan; `cut` says that the
disconnect of this run was cancelled.

### Decoders, ControlReads and ProgramExport

A sweep is a sequence of calls into the library, `todo`, each served or
rejected.  A call is rejected if the link is down, the handle is forgotten or
the control does not have what is asked, and now and then for no reason
(`Rejected`); what happens then is the code's: `Raise` ends the sweep,
`PassOver` leaves the item out, and a few fields become none.  A layout, a group
of tools or a program number that is read adds the calls it leads to.  Between
two calls `Edit` changes a datum, `Reconfigure` the layout of the offset table,
`LinkChanges` takes the network and gives it back.  The words of the control and
what its panel shows of them (`Shown`) are one thing, `Decoders` another, so
that `SnapshotIsHonest` compares the two.  A word outside the envelope of the
models raises a validation error ("crashed").  `held` is history: the words that
each datum has had during the sweep; `relaid` that the layout changed under the
cached one.

`ProgramExport` is a client of its own that resolves the current program,
uploads it in pieces of any size with pieces of no data in between, ends the
upload and closes, whatever failed.  The text is a sequence of "%", line ends and
others, which is what the test for the end looks at.

### G10, Occupancy and MachineViews

A block of a G10 program is the register and the words it sets; numbers are not
printed, but the scale of each is kept.  `ParseG10` is the strict parser of the
code, `PanelWrites` what the control does with a block, from the manual's codes
as the comments of `g10.py` quote them.  `RunG10` is the operator running the
program; the mirror need not be current then.  `PotRows` joins the mirror with
assignments as `occupancy` does, `Loadout` is what the web client lists.
Labels, CSV quoting and file names are left out.

### ClientSession

A pair of tokens has an age instead of times.  `Send`, `Served`,
`FirstUnauthorized`, `SecondUnauthorized` and `CallLost` are the branches of
`apiFetch`; `RefreshServed`, `RefreshRefused` and `RefreshLost` those of
`doRefresh`, with the calls that wait for it.  The two calls of `/auth/me`, of a
bootstrap and of a login, are calls like others whose end is that of the
bootstrap or the login.  `Reload` forgets what is in memory and starts the
bootstrap.  One tab is modelled: two of them share the storage, with no
synchronisation at all.

`overtaken` is history, of what the code leaves unguarded: the tokens were cleared while
a refresh or a call of `/auth/me` was out, a login began during a bootstrap, or
a login's own `/auth/me` failed.  `strays` are the calls in flight when the
tokens were cleared.

### TechdbInsert, ToolImport, Migrations, Schema and Maintenance

`Maintenance` puts four modules side by side that share nothing, one `desk` to a
behaviour; the sum of their states is what the run explores.

`TechdbInsert`: a run reads its pending rows, takes the write lock (`Begin`),
inserts one by one into `draft`, commits there and then in the registry, and may
end at any point (`Fail`).  The owner lists and removes tools meanwhile, and
SQLite gives a free rowid again.

`ToolImport`: `StartImport` is the look-up, `Wrong` the check of the file,
`Upsert` and then `CheckRow` and `InsertRow` for each row, `CommitImport` the end.
Requests of the API are steps of one statement, since `Assignments` has their
inside; they see nothing the import has not committed, and wait for the rows it
has written.

`Migrations`: a statement has a form, the schemas it names and whether it also
names something without one; that is all that the guards can or cannot see.
`CheckOp` and `Walk` are the guard of generated revisions, `Refused` the listener
on DDL, `Upgrade` the check of the target and the search path, `CommitUpgrade`
the transaction of `env.py`.

`Schema`: a revision is the columns it adds and removes and the checks it sets
and lifts; `Upgraded` and `Downgraded` move one revision, and are refused when a
row would break a check.  The rows are those that tell the revisions apart: the parts of a probe, the
class of a machine, the banks of its offsets.  `DeclaredOffice`,
`DeclaredMirror` and `DeclaredTooling` are the tables as `shared/db.py` and
`tables.py` declare them.

## 3. What is checked

| run | instance | shows |
|---|---|---|
| `focas_supervisor` | threshold 3, two fast ticks, all errors; 5 000 states | `BreakerJustified`: the breaker opens for failed full reads only, and while it is open no handle is. `DeadHandleDropped`: a handle that failed threshold times in a row is never read again. `HeartbeatHonest`: what the heartbeat says is so. `Recovers`: after any history, if control and database come back for good the mirror is refreshed over and over. `StopHonoured`: a stop ends the thread and closes the handle. |
| `snapshot_mirror` | a register, a skip variable, an item that may be missed; 4 sweeps, 3 changes; 1.5 million states | `LedgerReplays`: entries of an item chain from nothing to the mirrored value. `ImplementsAuditedMirror`. `HistoryIsTrue`: a measured length is never booked as a keypad edit (`PresetterCredited`), credit rests on a touch of this cycle or the one before (`CreditIsFresh`), and the change shown beside a value is the one that made it (`ShownChangeIsCurrent`). |
| `snapshot_reset` | status row and three pots, alarm at two; 3 sweeps, 2 changes; 3.6 million states | `ResetAlarmed`: a reset of three known pots is noticed wherever it falls in a sweep. `ToolMemory`: the last real T word survives cancels and lost cycles. |
| `offset_gate` | one session, two requests, two calls, two disturbances; 4.9 million states | `GateHolds`: a write met a locked probe register, a running machine, an unreviewed value or an unacknowledged jump only if that very fact changed after it was checked. `RecordsAgree`: rows, audit entries and writes tell one story (`WritesAreTraced`, `AuditAgrees`), for a caller that commits. |
| `offset_concurrent` | two sessions, two requests in opposite orders, crashes and faults; 0.4 million states | `SuccessIsTrue`: a committed success was written and read back. `CallsEnd`: no two calls wait for each other for ever. |
| `fleet` | two pids, two machines, two kills, faults, strangers; 0.4 million states | `ExclusivePolling`. `LocksAreKept`: a lock has a holder, one fleet is up at a time, and a refusal has a poller behind it (`LocksHaveHolders`, `OneFleetUp`, `RefusalJustified`), but for the causes they name. `StopsClean`: a signalled process ends, though some of its threads died or never started. |
| `assignments` | two sessions, two rows, one tool, one machine with a probe; four requests, one patch; 2.4 million states | `SlotsUnique`: no register of a machine is given twice, though both sessions found it free. `ChecksHold`: the probe lock and the capability, the retirement and the confirmation hold except where the very fact they rest on changed after it was looked at (`Compatible`, `RetiredUnused`, `ConfirmedAsShown`). `OnlySentColumns`: a request leaves the columns it does not name as others have set them meanwhile, and revives nothing. |
| `control_reads` | a mill with three memory types, a lathe and a program client; one register, two pots, one event; 0.14 million states | `ReadsAreSound`: what a sweep reports of a datum the panel has shown during that sweep (`SnapshotIsHonest`), a sweep that nothing disturbed leaves nothing out (`SweepsAreComplete`), a part's name goes with its number (`NameFitsNumber`), a dead control is never reported as read (`OutagesAreNoticed`), an exported program is whole (`UploadIsWhole`), failures have causes (`FailuresHaveCauses`), and neither handle nor upload mode is left behind. `ViewsAreTrue`: a pot is loaded only on proof (`PresenceNeedsProof`), the loadout lists each tool once (`LoadoutListsOnce`), G10 program, table and pots agree (`ViewsAgree`), writing is unlocked only by a status the control had (`LockoutIsEarned`). `ExportRestores`: a G10 program reads as the mirror (`ParsesBack`), and when it is run the panel shows what the mirror had (`RunningRestores`). `SweepsEnd`. |
| `client_session` | two users, two calls and `/auth/me`; two logins, one lost answer, one server error; 0.1 million states | `TokensFitPage`: the user shown is the one whose tokens the next call carries, and nobody's tokens stay when nobody is shown, unless a refresh was overtaken (`ShownIsStored`, `LoggedOutIsClean`). `SessionSurvives`: a session ends only for one of the causes it lists. `CallsSettle`: every call ends, the ones that wait for a shared refresh too. |
| `maintenance` | two runs over two registry rows; four files on one machine; three revisions against three URLs; thirteen revisions with one machine; 3.8 million states | `InsertsAreSound`: one row for each tool, and links to the right one, but for what the two commits allow (`InsertedOnce`, `LinksAreReal`). `ImportIsSound`: a file is applied whole or not at all, retires and revives nothing, gives no probe register away that was looked up, and does nothing the second time. `GuardsHold`: the tracker's schema, bare names, generated revisions, whole runs, consent for production. `SchemaIsKept`: however a database came to a revision it has that revision's schema, at the latest one the tables the program declares; probes and lathes survive the way. |
| `poller` | threshold 3, queue of 2, two starts, two cancellations, a source that recognises dead handles; 0.3 million states | `NobodyWaitsForTheDead`: a consumer is released on every way out of `run`. `QueueIsFresh`: the queue ends with the newest snapshot and is in order. `HandleReleased`: after `run` the handle is closed. `BreakerNotLate`: after threshold failed cycles in a row the loop cools down. `StopEnds`: `stop` returns from every wait. `Recovers`: once the control answers for good a running poller becomes healthy over and over. |

`ImplementsAuditedMirror` and the liveness properties are temporal; the others
are invariants or action properties.  A property with names in parentheses is
the conjunction of these, each stated and commented where it is defined.  Each
property, and each part of such a conjunction, is known to fail for a plausible
error in the code: the operators marked "variant" are those errors.  `TypeOK` of
each module with state is proved for all constants; the runs check that of
`MachineViews`, `ClientSession` and `Maintenance` besides.

### Bounds

Three errors reach the breaker and a fourth would exceed it.  An attribution
takes a baseline cycle, a touch, the cycle that sees the touch and the one that
sees the length; one cycle more allows one to be lost in between.  A reset can
split a sweep of three pots in every way with two cycles, after one that learns
the pots.  One request needs at most one disturbance in each of its windows and
one before it begins; two cover the pairs.  Two pids are the process that holds
or looks and the one that was killed and whose pid a stranger took; exclusion is
proved for any number.  A queue of two is full while something is taken from it,
and two cancellations cut a run and then its disconnect, or a run and a
consumer; the second start meets what the first left in thread and queue.  A pair of
overlapping requests for assignments needs two sessions, and what they disturb
may need two requests before them: create and confirm, or two creates whose rows
then move towards each other.  A second tool or machine would only add requests
that do not meet.  A sweep of a control visits each kind of datum once, and the
readers of two registers differ from those of one in nothing but the number, so
one register of every bank, two pots and one group of tools stand for all; one
event, of the panel, the link or the table, falls between any two calls, and
several sweeps follow one another.  A shared refresh needs two calls beside
`/auth/me`, and a late answer that meets another user two logins.  A second run
of the TechDB insert finds what the first left undone or half done; a rowid that
is given again takes three labels for two rows.  The four files hold a default
register, two tools for one T number, one tool twice and a line that does not
read.  Three revisions are a version that a run starts from and two that it
applies; each form of statement is among them.  The number of
sweeps, changes, calls, disturbances and kills is limited by `MaxSweeps`,
`MaxEdits`, `MaxCalls`, `MaxDisturbances`, `MaxPatches`, `MaxKills`, `MaxStarts`,
`MaxCancels`, `MaxEvents`, `MaxExports`, `MaxLogins`, `MaxLosses`, `MaxErrors`,
`MaxId` and `MaxRevisions`; nothing else is.  `MaxCalls`, `MaxBytes` and
`MaxEmptyStreak` of `ProgramExport` are limits of the code, made small.
`CHECK_DEADLOCK FALSE` stands in the configurations whose bounds let a run end.

`Permutations` of values, identities and pids are used as symmetry only in runs
without liveness properties; `ImplementsAuditedMirror` is checked with symmetry
because it is a safety property.

### Fairness

`FocasService`: weak fairness of the thread as a whole.  It is an OS thread, the
calls into the library and the database have timeouts, and sleeps end.  Nothing
is assumed of the environment: `Recovers` has the outage's end as its premise.
`PollerFleet`: each process makes its own steps, and a thread ends *once its
stop event is set*; unasked it need not.  `OffsetWrite`: each session that can
take its next statement does.  `Poller`: the event loop runs a task that can go on, the
thread's calls time out, sleeps end, and an owner inside `stop` is resumed; a
consumer that has asked takes what is there.  `MachineViews`: the threads that
sweep and export make their next step, since a call into the library returns
served or rejected; nothing is assumed of the link.  `ClientSession`: a fetch
ends, with an answer, an error or none.  `Maintenance` has no liveness property
and no fairness.  Crashes, cancellations, edits, kills and signals are never fair.

## 4. Disagreements with the documents

Checked, as a run that TLC must find violated:

- `snapshot_stale_credit`: a skip variable whose read fails freezes both times
  that `_skip_changed_last_cycle` compares, and an edit by hand is credited to a
  touch of many cycles before (`snapshot.py:97-139`).

Noticed, and visible in the models without a run of their own.  Of the poller,
the writes and the fleet:

- "A failed request is terminal" (`offset_write.py:152`) does not hold for two
  sessions that fetched it while it was pending: both write, and the second
  UPDATE replaces the outcome of the first (`GetPending`, `Update`).
- "Reconnects on stale-handle errors" (`poller.py:9`) holds for
  `FocasHandleError` only, and no return code is mapped to it
  (`errors.py:129-161`): after a reboot of the control the poller keeps the dead
  handle for ever (`StaleRaises`).
- "After N consecutive failed cycles" (`poller.py:24`): a cycle whose reconnect
  fails is counted by `_connect` and again for the assertion after it, so the
  breaker opens early (`ThreadReconnects`).
- "Every execute attempt ... writes an audit_log row" (`offset_write.py:20-21`)
  does not hold for implausible values nor for requests already executed: no
  `Note` in `Check` and `AlreadyExecuted`.
- Per-machine locks "still guard against a stray legacy one-machine poller"
  (`fleet.py:18-20`) only if that poller is given `--lock-path`: the default
  lies elsewhere (`focas_service.py:135`), and with a `SinglePath` that differs
  from `UnitPath` both poll; `PollingIsExclusive` is proved for equal paths.
- Retiring a tool with active assignments "returns 409" unless forced
  (`docs/04-api.md:172`).  A create that has read the tool and a retirement that
  has counted the assignments do not see each other, and both commit: the
  exception in `RetiredUnused`.  The reason the same line asks for is not
  required (`routers/tools.py:78`).
- The probe's T number and H register "lock" its registers
  (`docs/04-api.md:469-470`), but `PATCH /machines` moves them onto registers
  already assigned, and `PATCH /tools` can ask for coolant its machine lacks:
  `PatchMachine`, `PatchTool` and the exceptions in `Compatible`.
- "Register move re-opens confirmation" (`assignments.py:170`) does not reach a
  confirmation that read the row before the move and commits after it: the
  exception in `ConfirmedAsShown`.
- "Same tool cannot be assigned twice on the same machine" since it "would
  conflict on T-number" (`docs/02-data-model.md:284`): with another T number it
  can, and nothing in `Keys` names the tool.
- A poller of another account is taken for dead on Windows, since a failed
  `OpenProcess` counts as "gone" (`service.py:135`), and both poll: with
  `CanQuery` short of all pairs `ExclusivePolling` fails.
- `run()` "always ... sets state=SHUTDOWN on exit" (`poller.py:277`): a connect
  that is under way when the task is cancelled and then fails sets another state
  after that (`ThreadConnects` behind `Finally`).
- A task cancelled before its first step never runs the finally clause, so a
  consumer that waits already stays (`Cancel`, "stillborn"); a second
  cancellation during the disconnect can leave the handle open (`cut`).
- The heartbeat "stopped" stands for "stop requested, loop exited cleanly"
  (`service.py:63`), and is also what a loop that died of a validation error
  leaves (`ReadCrash`).
- The specification of the poller goes from the cooldown to CONNECTING; with an
  interval longer than the cooldown the loop first sleeps its rest
  (`EndCooldown`).
- With an error table that maps a code to `FocasHandleError`, reconnects that
  succeed and reads that fail can alternate without a pause, since a connect
  clears the counter; `ReadErrorsAreBounded` is proved for the table as it is.
- An id without a row ends a batch, though the docstring says that one failure
  does not abort the others (`NotFound`, `offset_write.py:259-271`).
- With `get_session` as the boundary, a failed write is recorded and then rolled
  back with the exception that reports it (`Raise`): `WritesAreTraced` is
  checked for a caller that commits.
- `mode_lockout_ok` does not look at the emergency stop that `mock.py:156`
  says must refuse every write.
- A lock left by a killed poller refuses starts once its pid is in use again,
  and a fleet whose start fails gives up the fleet lock while its first threads
  poll on: the exceptions in `RefusalJustified` and `OneFleetUp`.

Of the reads and what is made of them:

- A mill's client keeps the layout of the offset table for the life of its
  handle (`client_reads.py:86`): after a change of the memory type its codes name
  other banks (`relaid`).  A lathe's asks in every sweep.
- A word outside the envelope raises pydantic's `ValidationError`, which no
  caller takes for a failed read ("crashed" in `ReadOffset`).
- After the layout call a lathe's sweep passes over every rejection: a link that
  fails there still delivers a snapshot, with less in it (`PassOver`).
- An upload ends with a first piece that is just the opening mark and a line end
  (`programs.py:89`): the exception in `UploadIsWhole`.
- A full G10 program of a mirror that has never been filled sets every register
  to zero (`RunningRestores` says what it does).
- `offset_math.py` and `decoders.py` differ in the code of D wear, and the
  parameter for the increment system is read by nothing that runs.
- `statusFor` answers "verified" whether or not the pot was
  (`activeLoadout.ts:78-79`).

Of the session of a tab:

- A refresh that answers after a logout stores tokens again (`api.ts:37-52`), and
  an old call's second 401 ends the session of whoever has logged in meanwhile:
  `overtaken` and `strays`.
- A login during the bootstrap races with it, a login whose `/auth/me` fails
  leaves its tokens behind, and a bootstrap without an answer clears good ones.
- Any answer to a refresh that is not a success ends the session, that of a
  server in trouble too (`RefreshRefused`).

Of the database and the scripts:

- Unqualified DDL is routed "to `tooling`" (`_guard.py:11-15`, `env.py:100-101`),
  but the search path is sorted, `shared` first: `SearchPath`.
- The runtime guard refuses DDL on the tracker (`_guard.py:5-9`), but not
  `DROP SCHEMA tracker` nor changes of its rows: the exception in
  `TrackerIsKept`.  Offline mode has no guard at all.
- An upgrade past 0007 is refused while a machine has a probe with a T number:
  its H register is a column of 0003 that starts empty (`ProbeIdentity`).  Since
  then `machines.update` reports such a violation as a name that is taken.
- A lathe without offset rows comes back from a downgrade past 0008 as a mill
  (`Without`); 0008 asks for the deletion of its rows first.
- The reconciliation that `shared/db.py:13-16` asks for covers machines, users
  and the tooling tables (`test_tooling_tables_reconcile.py`), not the mirror
  tables and the audit log: `LatestMatchesProgram` has them all.
- `ck_owr_register_type` was not widened with the mirror's for lathes.
- An import assigns retired tools and tools that need coolant a machine lacks,
  which the API refuses (`InsertRow`), and passes over a row for an assignment
  that is then deleted (`freed`).
- The TechDB insert makes a second row after an end between its commits or with
  a second run beside it (`excused`), and links by rowid (`replaced`).

## 5. What is proved

For every value of the constants, with TLAPS; the temporal step of each theorem
is the only one that uses `PTL`.  Eight modules hold the theorems; those about
`FocasService` are with those about `PollerFleet`.

| theorem | says | from |
|---|---|---|
| `SupervisorTypeCorrect` (of `PollerFleetProofs`, with the next two rows) | `ServiceTypeOK` | |
| `BreakerOpensForReadsOnly`, `NoDeadHandleKept`, `HeartbeatIsHonest` | `BreakerJustified`, `DeadHandleDropped`, `HeartbeatHonest` | |
| `ReadErrorsAreBounded` | failed reads between two pauses never exceed the threshold | no dead handle raises `FocasHandleError` |
| `SnapshotPersistProofs!TypeCorrect`, `ToolMemoryKept` | `TypeOK`, `ToolMemory` | |
| `LedgerAlwaysReplays` | `LedgerReplays` | one poller |
| `CyclesAreAtomic` | `SnapshotPersist` implements `AuditedMirror` | one poller |
| `ResetAlwaysAlarmed` | `ResetAlarmed` | one poller; every pot is read in every cycle; finitely many pots |
| `HistoryAlwaysTrue` | `HistoryIsTrue` | one poller; lengths and skip variables are read in every cycle, the lengths first |
| `OffsetWriteProofs!TypeCorrect`, `GateAlwaysHolds`, `SuccessIsAlwaysTrue` | `TypeOK`, `GateHolds`, `SuccessIsTrue` | |
| `OutcomesAlwaysAudited` | a row with an outcome has the audit entry that reports it | |
| `AuditAlwaysAgrees` | `AuditAgrees` | one session executes at a time |
| `WritesAlwaysTraced` | `WritesAreTraced` | attended |
| `RecordsAlwaysAgree` | `RecordsAgree` | both |
| `PollerFleetProofs!TypeCorrect`, `LocksAlwaysHaveHolders`, `RefusalsAreJustified` | `TypeOK`, `LocksHaveHolders`, `RefusalJustified` | |
| `PollingIsExclusive` | `ExclusivePolling` | the one-machine poller uses the fleet's lock path; processes see each other |
| `LocksAreAlwaysKept` | `LocksAreKept` | processes see each other |
| `AssignmentsProofs!TypeCorrect`, `SlotsAreUnique`, `ChecksAlwaysHold`, `OnlySentColumnsChange` | `TypeOK`, `SlotsUnique`, `ChecksHold`, `OnlySentColumns` | |
| `PollerProofs!TypeCorrect`, `ConsumersAreReleased`, `HandleIsReleased`, `NewestIsNeverDropped`, `BreakerIsNeverLate` | `TypeOK`, `NobodyWaitsForTheDead`, `HandleReleased`, `QueueIsFresh`, `BreakerNotLate` | |
| `ClientSessionProofs!TypeCorrect`, `TokensAlwaysFitPage`, `SessionAlwaysSurvives` | `TypeOK`, `TokensFitPage`, `SessionSurvives` | |
| `MaintenanceProofs!TypeCorrect`, `InsertsAlwaysSound`, `ImportsAlwaysSound`, `GuardsAlwaysHold`, `SchemaAlwaysKept` | `TypeOK`, `InsertsAreSound`, `ImportIsSound`, `GuardsHold`, `SchemaIsKept` | |
| `MachineViewsProofs!TypeCorrect` | `TypeOK` | |
| `ClientIsSound` | one handle at most, held by every sweep; a layout is kept only as long as it is the control's, or `relaid` says so | |
| `ReportsAreSound` | `SnapshotIsHonest`, and that every call is one the profile makes and every value one its datum can have, in the snapshot, the mirror and a program | |
| `ReadsAlwaysSound` | `ReadsAreSound`; completeness says nothing of tool life, whose groups are none of the panel's data | |
| `ExportsAlwaysRestore` | `ExportRestores` | registers of at most four digits |
| `ViewsAlwaysTrue` | `ViewsAreTrue` | registers of at most four digits |

What the right column asks for, and where the code gives it:

- One poller: `PollerFleet!ExclusivePolling`, whose own two hypotheses are that
  the operators give both entry points one lock directory and one account.
- Every pot, length and skip variable read in every cycle, the lengths first:
  the order of `FocasClient.read_snapshot`, for a control whose reads of these
  are not among the ones that are skipped on an error (`Unreliable`).  With a
  skip variable among them the claim is false, which `snapshot_stale_credit`
  shows.
- One session at a time, `OneAtATime`: the API does not see to it.  Two sessions
  that execute one request leave one row and two audit entries, and `AuditAgrees`
  says nothing of them.  `OutcomesAlwaysAudited` is what is left without it.
- Attended, that is sessions that commit after an exception, none that is lost,
  and either one request for each call or one session: without it a write at
  the control may stay untold (section 4).  `Commits` is what the callers in the
  tests do; `get_session` rolls back.  `offset_gate` is an instance of it.
- Registers of at most four digits, `RegisterLimit`.  The geometry lines of a lathe
  add 10000 to the register, so with one register more `parse_g10` and the
  control would take a wear line for a geometry line.  No control has so many
  (the form of the API begins with 400), but nothing in the program refuses a larger
  `offset_register_count`.
- Macro variables with at most four decimal places (`IsWord`), which is where the
  unit of the model, 0.0001, ends; the code's `Decimal` has no such limit.
- A program begins with its mark and a line end, and has one other mark and no
  empty first line (`IsProgram`), and a control executes one of its programs or
  none (`ProgramExportAssumption`): the control sends both.
- The named assumptions of the modules (`ASSUME`) say that markers such as
  `NoRow` or `NoUser` are none of the values they stand beside, that bounds are
  naturals, and what the inputs may be.  Two say more.  `MigrationsAssumption`:
  a URL of a local host and port 5433 leads to the database of the developers,
  as its module comment has it.  `FleetAssumption`: machines have different lock
  paths.

### The invariants

*Breaker.*  The counter and the history of failures agree wherever the counter
is not about to be reset, and the handle has failed no more often than the
counter says.

*Ledger.*  A poller that has loaded holds the mirror's own values (`base` equals
the mirror, which only one poller may change), and what is in the ledger chains
to it; the time of a cycle is later than every entry's.

*Reset, `RInv`.*  A sweep has read what it has passed and no more (`Swept`).
Until the first commit after a reset the mirror shows all the pots that it took;
at that commit those that the sweep met after the reset are noticed and the rest
stay identified in the mirror (`Unseen`); nothing read since can be anything but
the pot's own number, so the second commit notices all of them.  Of `2 * m - 1`
pots one of the two commits has `m`, which is where the alarm's threshold and
the size of a reset meet.

*History, `HInv`.*  Entries are in the order of their times (`InTime`), so the
latest of them is the last of the ledger, and that one is chained to the row.
For the credit: from the touch to the commit of the length it wrote, either the
skip variables differ from the mirror, and the sweep under way will see it, or
they did in the cycle before (`TouchIsDue`, `CreditIsDue`); positions are told
from all that were latched before (`Positions`), so a change cannot hide by
going back; and what `persist` has worked out still stands when it commits
(`CreditStands`).

*Gate.*  At each location of a session, every check passed so far still holds or
what it looked at is in `changed` (`Established`).

*Success.*  A session that is about to record one has written for the request
and has read its value back, and noted so; a row with an outcome has what it
tells behind it (`Truthful`).  For the agreement of log and rows the only
session at work has updated no row but those it has noted (`Sole`); for the
trace, a write that was made is being recorded, is noted, or is in the log
(`Traced`).

*Locks.*  A polling unit's lockfile names its process (`Holding`), only one
start is between its look and its write (`OneStart`), and the path it is about
to write is not held by a live process (`Unclaimed`); a file can change hands
only through a look that found its holder dead, and a dead process polls
nothing.  For what is left behind: a process takes the fleet lock before any
machine and a machine's lock before its thread (`Shape`), so a file that names a
process which was never killed names one that holds it (`LocksNamed`); and while
one main is in the fleet lock nobody else is about to take it (`FleetHeld`).

*Assignments.*  Every key is in the index once, whether its row is committed or
only written (`KeysApart`), and a row has one writer (`OneWriter`), so a commit
puts nothing in place that was not apart already; that a written row exists
(`Live`) is what its type rests on.  The pre-checks are not used.  `KInv` adds
what a session knows: what it has read of its row, of the machine and of the
tool is so or is in `changed` (`Fresh`, `Read`, `Checked`, `Counted`), and what
waits for the commit is the request applied to the row that will be replaced
(`Written`).  `OnlySentColumns` is the last of these, seen at the commit;
`ChecksHold` is the others, seen there and kept by everyone else's steps.

*Asyncio poller.*  The last job is the one the task awaits (`Coherent`, part of
`TypeOK`), so an answered disconnect has nothing behind it that could open the
handle again (`Released`); a loop that sleeps has no job that could count a
failure unseen (`Quiet`); the queue has no gap, its i-th entry being
`Len(queue) - i` snapshots old (`Consecutive`), which is what bounds the age of
its head by its length.

*Tab.*  As long as nothing was overtaken, the refresh, the bootstrap or the
login, of which there is one, and the user who is shown after it are all of the
session whose tokens are stored (`OneSession`); a refresh in flight has calls
that wait for it (`RefreshIsShared`); a call of a page that is gone is a stray,
every other one carries tokens of the session (`StraysAreKnown`).  That a second
refusal means more than a lost answer follows: a call that is sent again carries
a fresh token.

*TechDB insert, `TInv`.*  A label has one rowid for good, in the registry and in
the hands of every run, and two runs that have it in hand are both excused
(`LabelsStay`); the draft is the TechDB with what the holder of the write lock
has planned (`DraftTrue`); and a label the TechDB holds is settled: no run has
it as pending, and either its link is written or the run that will write it has
it in `planned` (`Settled`).  The last is why the lock may be taken after the
read: what is read as pending is either excused or not yet stored.

*Import, `LInv`.*  What the look-ups found is so but for the probes that moved
since (`LookedUp`); an import past its checks holds the whole file as it will
be, has passed over no row whose T number is free, and gives nothing that its
file does not ask for (`Importing`); after a commit the file is in the library
and would meet what it met (`JustImported`).

*Guards, `GInv`.*  A database has what the revisions up to its version touch,
none of which the run-time guard refuses (`Brought`); what a run has changed and
what it has still to do is together what lies between the version and its head
(`Running`).

*Schema, `DInv`.*  A database has the columns and the checks of its revision
(`AsRevision`) and its rows obey them (`AllObeyed`); what a revision up to the
present one adds belonged to none before it (`Apart`), since the upgrade was
accepted.  Each downgrade takes back exactly what its upgrade added
(`Reversible`, for each of the thirteen), so with `Apart` it takes nothing of
the others.  The columns at the latest revision are computed and compared with
the declared ones table by table (`LatestColumns`).

*Sweeps.*  What is still to do, `todo`, is the invariant's spine (`CallsOK`): every
call is one the profile makes, the layout is read once and before any register
that depends on it, and the number of a program once and before its text.  So
the codes of a register go with the layout that is kept, which is the control's
or is in doubt (`ClientOK`), and each value that is taken is that of a word the
control has at the time (`DataOK`, `SnapOK`).  The mirror and an exported program
have values of the right kind, whatever sweep they came from (`MirrorOK`,
`PunchedOK`); `ReportsOK` is these together.  `SoundOK` adds why a sweep fails
(`CausesOK`: without a disturbance the link is up and the handle valid), where it
can stand as long as nothing has answered (`AnsweredOK`: before its first call, or
in the clean-up), that a name is read right after its number (`NameOK`), that a datum of the
panel has been told, is still to be told by a call of `todo` or the layout call
before it, or is of a table laid out anew (`CompleteOK`: as every register and bank
of a layout has its call, `EveryRegister`, and a control that nothing disturbed
rejects only registers that a new layout no longer has, `OnlyRegisters`), and how
far an upload has come by the call that is due (`UploadOK`: up to `sent` the text
is that of the program, an upload that goes on has not failed, one that ends has
both marks, and only an end that failed leaves the mode behind).

*Offset program.*  A dictionary that is built from parts has, for each key, the
value of the last part with it (`OverlaidOf`), and `sorted()` has every number
once (`AscendingOf`).  A block says of one register and some banks what the
mirror has or zero, to the parser and to the panel alike (`BlockSays`); the blocks
of the program are those of the selected registers and no others
(`BlocksOfProgram`); so what they leave is the mirror on all banks of those
registers (`ProgramTells`).  `RunningRestores`, `ParsesBack` and the agreement with
the table are three readings of this one lemma.

Induction over data is out of the provers' reach as a rule.  `LeastOf`, that a
set of naturals has a least element, is a theorem of the library's about well
foundedness without a parameter; with it the few recursive facts that are needed
here (what `FlattenSeq` contains, the checks revision by revision) are proved by
a least counterexample.

Only model-checked:

- The liveness properties `Recovers`, `StopHonoured`, `CallsEnd`, `StopsClean`,
  `StopEnds`, `SweepsEnd`, `CallsSettle`: fairness and `ENABLED` are out of the
  provers' reach.

All the other properties that the runs check, invariants and action properties,
are proved.

## 6. Not modelled, and the plan

Next in line is the composition of `PollerFleet`, `FocasService` and
`SnapshotPersist` for one machine, so that the assumptions each makes of the
others (section 1) are discharged and not only named.

Not modelled: the rows of tool life, work offsets and programs in `persist`,
which go the way of the offsets; names, notes and cached values of tools and
assignments; password hashing and roles; the wording of labels, CSV files and
audit entries; the canned scenarios of the mock control.

Left out for good: the FOCAS binding (declarations and a native library), HTTP
routing and serialisation, filtered reads of the audit log, rendering in the web
client, and the scripts that print what a control answers.  They keep no state
that two parties share.
