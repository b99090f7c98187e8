# Practice Relay: a TLA+ model of the system and proofs about it

Practice Relay keeps one document per student (a *WorkRecord*: takes, regions,
comments, versions, evidence and the policies under which they may leave) and the
recordings that belong to it, and serves both over an HTTP API to a web client, to
a movement workbench and to learning platforms (LTI). This directory holds TLA+
modules that model the parts of it whose correctness depends on order, failure,
time and bounds, the TLC configurations that check them on small instances, and
theorems about them, for every value of the constants, whose proofs TLAPS checks.

Paths below are relative to the repository root.

1. [The system](#1-the-system)
2. [The modules](#2-the-modules)
3. [The runs](#3-the-runs)
4. [What is proved](#4-what-is-proved)
5. [What is only model-checked](#5-what-is-only-model-checked)
6. [Findings](#6-findings)
7. [What is not modelled](#7-what-is-not-modelled)
8. [What comes next](#8-what-comes-next)

## 1. The system

### Parts, state and interactions

| Part | Source | State it keeps | Operations |
| --- | --- | --- | --- |
| JSON record store | `packages/record-store/src/durable-store.ts`, `json-journal.ts`, `json-restore.ts` | `records/`, `events/`, `audit/` under one root; `journal/pending.json`, `restore.json`, `counters.json`; `backups/` | create, mutate, delete, appendEvent, backup, restoreFromBackup, recovery |
| Memory record store | `memory-store.ts` | the same in maps | the same, without durability |
| PostgreSQL record store | `postgres-store.ts`, `migrations.ts` | a row per record, an event table, one row of counters | the same, one transaction each; the import of a JSON tenant |
| Database pool and migrations | `packages/database/src`, `apps/relay-api/scripts/migrate-postgres.ts` | a ledger of migrations per component | the schema command, dry and applied import, the check of a starting process |
| Local media store | `packages/media-store/src/filesystem-media-store.ts`, `inventory.ts`, `object-store.ts` | a state file of objects and uploads, staged bodies, bytes on disk or in S3 | reserve, stage, store, attach, abandon, recover, start-up scan, download |
| PostgreSQL media store | `postgres-media-store.ts`, `s3-store.ts`, `staging.ts` | uploads, objects, transfer leases, cleanup jobs | reserve, renew, store, attach, abandon, recover, download |
| Runtime state | `packages/runtime-state/src/memory-state.ts`, `postgres-state.ts` | failures and attempts of logins per account and source; LTI launches | beginLogin, finishLogin, registerLtiLaunch, consumeLtiLaunch |
| Authentication | `packages/auth/src` | configured accounts; a queue of password derivations | login, sign and verify a session |
| WorkRecord aggregate | `packages/work-record/src` | none: pure transitions of one document | twenty commands, invariants, roles, export policy |
| Relay API | `apps/relay-api/src` | metrics, timers, the life of the process | routes, mutation with If-Match, media, login, LTI launch, listing, recovery, shutdown |
| LTI | `packages/lti/src`, `apps/lti-simulator` | the lab's key pair | OIDC login, launch tokens, scores |
| Handoff | `packages/handoff/src` | none | a record as a package with manifest, crate and archive; projections and imports |
| Relay web client | `apps/relay-web/src` | session, listings, selection, drafts, undo history | sign in, select, load, attach, edit, save, export |
| Movement workbench | `apps/movement-workbench/src` | a Motif document per tab, its canvas, the stored session, a staff | edit, publish to other tabs, take over, import, render |
| Movement model, toolkit | `packages/movement`, `packages/movement-toolkit` | none | edits, projection on a staff, engraving, imports |
| Site and scripts | `apps/movement-schema-site`, `scripts` | none | documentation, build checks |

How they interact: the API is the only caller of the stores. A **login**
(`router.ts` → `serveLogin`) calls `beginLogin`, derives one password key in a
bounded queue, and calls `finishLogin` with the verdict. A **change** of a record
is authorised on a record that is read first, waits for its body, and is applied
in a later transaction under If-Match. A **media upload** (`routes-media.ts`)
reserves room, stages the body, stores the object under a renewed lease, attaches
it to a take of the record (one transaction with PostgreSQL, two steps otherwise),
and abandons the upload when anything throws; a **download** stages and verifies
the whole object before it asks again whether the caller may have it. **Recovery**
runs when a process starts and then every 30 seconds (`runtime-lifecycle.ts`); the
media store calls back into the record store to ask whether a record still names a
key. Several processes share the PostgreSQL stores and the directory of the lab's
keys; the JSON store, the memory state and the local media store belong to one
process. The **browser** sends requests whose answers come in any order, late or
never; tabs of the workbench exchange snapshots over a channel.

### What is hard

1. A *crash or a failing file call* between any two file operations of the JSON
   store, including the middle of an append, the middle of a restore's directory
   swap, and the middle of the recovery from an earlier crash.
2. *Time of check and time of use*: logins that verify passwords between their
   check and their charge, in processes whose clock readings are older than the
   lock they then get; changes and exports decided on a record that other requests
   have changed since.
3. *Leases that run out* under a media upload while it goes on, with recovery
   passes of other processes that find it, a PUT that arrives after it was given
   up, and a COMMIT whose answer is lost.
4. *Fixed bounds*: tracked login keys, quota of a record, transfers of a process
   and of a deployment, pending LTI states, queued derivations, the undo history.
5. *Answers out of order* in the browser: for another user, another record,
   another epoch of the editor.
6. *Long sequences of legal commands* on one document, imports among them.
7. *Things that must happen*: the lockout of an account or a source ends, an interrupted restore is
   completed, an upload ends in the record or without a trace.

`PROJECT.json` lists each hazard at its line, with the properties that cover it
or the reason why none does.

### What makes each part correct

* *Record store*: every operation takes effect wholly or not at all, and once,
  with exactly one event in the record's log and in the audit stream; counters
  agree with both; a listed backup can be restored; what was acknowledged stays;
  a walk over the pages of a listing misses nothing that stays.
* *Deployment*: the ledger tells the schema; an import brings a whole tenant or
  nothing; nobody serves on a schema that is not migrated.
* *Login*: failures counted and attempts in flight stay within the limits; a
  failure is neither lost nor forgiven early; a lockout ends; slots of derivations
  are neither lost nor given twice; sessions follow the configured accounts.
* *Media*: a take that names a key can be served; bytes are charged to somebody
  and can be found; quota and transfer limits hold; uploads end.
* *LTI*: a state is used at most once, by the launch it was made for, and waits
  its whole lifetime unless as many newer ones as the table holds came; all
  processes serve one key pair.
* *Managed files*: a reader finds a whole file; nothing is replaced or removed that was not
  looked at; nothing temporary stays.
* *Changes*: a revision precondition that passed still holds when the change
  commits; authorisation is decided on the state that is changed; every command
  keeps the invariants of the document; versions and refusals stand.
* *API process*: one recovery pass at a time, nothing closed under it; one answer
  per request; bodies bounded; every slot, lease and scratch file given back.
* *Formats*: a comment is bound to the region the rule names; an archive holds
  what its manifest says; it is known what an export leaves out and does not state, and
  what an import drops without a warning; what was exported comes back.
* *Clients*: a tab shows what was asked for last and never another user's
  records; an attachment resumes where it stopped; drafts and edits are not lost;
  tabs converge.

## 2. The modules

| Module | What it is |
| --- | --- |
| `RecordLog` | abstract record store: atomic operations with one event each |
| `JsonStore` | the JSON store, one file operation per step; implements `RecordLog` |
| `ManagedFiles` | the system calls below it: one file of a managed directory, for both file stores |
| `PgRecords` | the PostgreSQL record store, one SQL statement per step; implements `RecordLog` |
| `Deployment` | schema commands, import of a JSON tenant and API processes on one database |
| `LoginAdmission` | login admission of both adapters |
| `LoginGuesses` | the same in one process, with a history of the leases given |
| `PgMedia` | uploads and recovery passes over PostgreSQL and an object store |
| `LocalMedia` | uploads, recovery passes and restarts of one process with a state file |
| `WorkRecord` | the aggregate: commands, roles, invariants, policies, as operators |
| `RecordCommands` | abstract record: created once, then changed by whole permitted commands |
| `RecordApi` | concurrent requests that read, wait and then change or export; implements `RecordCommands` |
| `RecordListing` | the pages of a listing while others write |
| `Authentication` | derivation queue, sessions and accounts across restarts |
| `LtiLaunch`, `LabKeys` | LTI launches; the lab's key pair in a shared directory |
| `ApiRuntime`, `HttpRequests`, `Downloads` | the life of a process, the way of its requests, its downloads |
| `EafProjection`, `Interop`, `Handoff` | the EAF export and import; the other exchange formats and what they lose; the packages of a record |
| `Workspace`, `Studio`, `MovementEditor`, `EditLine` | the web client: tab state, studio page, editor, and the abstract undo history |
| `SessionSync`, `Workbench`, `Motif`, `LabanStaff`, `StaffImport` | the workbench: shared drafts, its page, Motif documents, staff documents and their import |
| `MC*` | instances for TLC; see below |
| `FiniteSums`, `*Proofs` | theorems; see section 4 |

`MCServices`, `MCClients`, `MCRecoveries`, `MCJsonStore` and `MCRecordApi` put
machines that share *no* state into one module. A variable `which`, chosen at the
start, says which of them moves; the others stand still. One run then explores each
of them completely and on its own, which is the same as one run each.
`MCServices` has twelve: the commands of a record, LTI launches, lab keys,
authentication, password guesses, listing, the process, its requests, downloads of
two processes (PostgreSQL) or of one, the EAF import, packages, the exchange formats.
`MCClients` has the tab state in three settings, tabs that share a draft, the studio,
the editor, the workbench, its staff and the import of one. `MCLoginAdmission` only
adds a symmetry set; `PgMedia` and `LocalMedia` hold their own.

Definitions whose name has a suffix (`Abandon_NoQuiet`, preceded by a comment
"Mutant: ...") are deliberate mistakes. No specification uses them; each is a
plausible bug that a named property must catch when it takes the place of the
right definition (`mutants` in `PROJECT.json`).

Conventions: a database transaction, a synchronous stretch of code between two
awaits, or a durable file operation is one step, whichever the code makes atomic.
Times are kept as the time left where nothing else is compared, so that a clock
needs no bound. Variables marked *history* are written for the properties only.
### JsonStore

One process; every file call is synchronous, so requests do not interleave. What
interleaves is *stops*: `Crash` (the process dies) and `Fault` (a call throws and
the request fails) may follow any step. A step is one durable file operation.
`writePrivateFileAtomic`, `removeRegularFile` and `moveManagedDirectory` publish
with one rename and are one step; `removeManagedDirectory` is two, the rename to a
`.removing` name (`SetAside`) and the deletion; `appendPrivateFile` is not atomic, so
a line is appended in two pieces and a stop may leave it torn.

| Variable | Code |
| --- | --- |
| `live` | `records/`, `events/`, `audit/` under the root; an area may be missing during a swap |
| `next`, `previous`, `staged` | `journal/restore-<uuid>/` with its `next-*` and `previous-*` directories |
| `leftovers` | directories of `journal/` that nothing names any more: a stage under its `.removing` name, or one whose making failed |
| `pending`, `marker`, `counters` | `journal/pending.json`, `restore.json`, `counters.json` |
| `backups` | `backups/<id>/`, with or without a manifest |
| `pc`, `then`, `serving`, `boot`, `area` | where the process is |
| `nextOp`, `acked`, `lapses`, `stops` | bound and history |

A request runs `EnsureReady`, `RecoverRestore` and `RecoverPending` (the
`ensureReady` of `durable-store.ts`), then is served from `pc = "ready"`. A
mutation publishes its *intent* (`Commit`: `pending.json`, with the lengths of
both logs), then `ApplyRecord`, `ApplyEvent`, `ApplyAudit`, `ApplyCounters`,
`ClearPending`; recovery runs the same steps again. `restore` makes a stage
(`StageRestore`) and fills it (`FillStage`), publishes a marker, swaps area by area (`MoveOut`, `MoveIn`) and commits its own
event under the marker's operation id.

A restore that fails before its marker removes its stage (`AbandonStage`). A call that
fails while the stage is made (`json-restore.ts:115`, before the `try`), or between the
rename and the deletion of one (`store-paths.ts:361`, `:378`), leaves its copies in
`journal/` of a living process; nothing reads them, and `CleanTemporaries` of the next
start removes them. `NoStageLeftBehind` says that nothing else leaves any: at most one
for each such call of this process (`lapses`), and none after a start.

The refinement (`ImplementsRecordLog`) reads the store as *what is on disk plus
what the journal and the marker still owe*: the instant at which an operation
takes effect is the publication of `pending.json`, of `restore.json`, or of a
backup's manifest.

Abstracted: file names, modes and permission checks, JSON parsing, record
contents (a revision and the writing operation stand for them), and copies into
a backup directory that already exists.

### ManagedFiles

`JsonStore` takes a publication of a file as one step; `ManagedFiles` has the calls
it is made of: the inspection of the name, `O_NOFOLLOW` opening and comparison of
device and inode, the exclusive creation of a temporary, writing, the last look, the
rename or the link, the directory's sync, and the clean-up (`store-paths.ts` and
`store-file-validation.ts` of the record store, `media-safety.ts` of the object
store). A file is an inode (`files`), a name stands for one (`names`), two processes
work on the same name, a call may fail and a process die, and somebody else may put
another file or an alias under the name, link it elsewhere, remove it or take the
directory (`Swap`, `Take`, `Estrange`).

`FilesAreSound` says what the stores above rely on: a reader of a file that is
replaced finds all of it, a removal removes what it inspected and nothing else, a
replacement takes the name of nothing it has not seen, except what came after its
last look — POSIX has no call that closes that window — a publication takes no name
at all, an operation nobody disturbs succeeds, and nothing temporary stays. That
`appendPrivateFile` is written in place, so that a reader may find half a line, is
the reason why the recovery of `JsonStore` compares lengths.

Abstracted: modes and owners (the directory is ours or it is foreign), the depth of
directories, and the bytes (a file is finished or it has unfinished writings).

### PgRecords and Deployment

`PgRecords` runs the statements of `postgres-store.ts` one by one at READ
COMMITTED: row locks are held to the end, an event takes its number from a
sequence nobody locks, a rollback burns it, any statement may fail. The record is
locked before the row of counters, which `NobodyWaitsInACircle` needs. An import
brings a snapshot as a store exports it (`IsSnapshot`): rows, and the events that tell
the life of each, and of records that were removed before. The command demands
`--writers-stopped`; the model lets writers go on but for one case (`Clash`): no
operation uses the id of a record that the history removes while it is imported.
`Deployment` has the schema command (a component's migrations in one transaction
under an advisory lock, of two releases), the dry and the applied import of a JSON
tenant whose last process may have left an operation half done, and processes that
serve only on a migrated schema. Abstracted: row contents but for ids, kinds,
revisions and takes; connection errors are failures of a statement.

### LoginAdmission and LoginGuesses

`failures` and `attempts` are the two tables of `memory-state.ts` and
`postgres-state.ts`; `request` is where a `serveLogin` is. `Arrive` reads the
clock, `BeginLogin` is the whole of `beginLogin` (settle expired attempts, drop
closed windows, refuse or insert a lease), `Verify` is the password check with
any outcome, `FinishLogin` the whole of `finishLogin`. `Shared = TRUE` is the
PostgreSQL adapter: a call reads `Date.now()` and then waits for the advisory
lock, up to `MaxLag` ticks, so that calls work in another order than their times.
`Shared = FALSE` is the one-process adapter: readings are fresh, and a full table
drops charges. `LoginGuesses` adds `guesses`, a history of the leases given in the
last `Window` ticks, to ask what the limits bound over a *sliding* window although
the windows of the code are fixed. A right answer takes back the guesses before it
but for those whose verification still runs; a lease released without a verdict was
no guess. Abstracted: hashing of keys, the tenant (one),
and the password itself.

### PgMedia

Uploads of several processes to one record. `uploads`, `objects`, `jobs` and
`leases` are the four tables, `takes` the record's storage keys, `stored` and
`flight` the object store and the PUTs on their way to it; `writer` is where the
upload route is, `worker` where a recovery pass is. `Reserve` … `Attach`,
`Abandon` are the methods of `postgres-media-store.ts` in the order in which
`serveUpload` calls them; `Expire`, `Claim`, `Check`, `Promote`, `Recheck`,
`Requeue`, `DeleteObject`, `Forget`, `WorkFails` are `recover`. `Renew` is the
renewal timer. `GiveUp` is any error, including a COMMIT whose outcome the client
does not learn. `Refer` is external: the code's promotion path exists because a
replaced key may be named again, and in the code under `src/` only a row put back
from outside does that (the API rejects a storage key that a client sends).
Abstracted: legacy import, checksums, S3 signing, and `LIMIT 100` of a pass.

### LocalMedia

The same uploads in a deployment without a database: one process, one state file,
the JSON record store. Code between two awaits of real I/O cannot be interrupted by
other code: `Busy` names the piece that holds the event loop. Deleting a file is
synchronous, deleting an object of a bucket is not; `backend` chooses. The clock
and a crash respect nobody.

| Variable | Code |
| --- | --- |
| `rows`, `metas` | the maps `uploads` and `metas`, and the state file that `persist()` writes after each change |
| `takes` | the storage keys of the record's takes |
| `stored`, `flight` | bytes in the object store; PUTs that may still arrive at the bucket |
| `debris` | a temporary file left in the media root |
| `process` | down, starting (the recovery pass before traffic is accepted), open |
| `writer` | where `serveUpload` is with each upload, and the key it replaced |
| `pass` | where `recover` is: its two loops, its candidates, the key it deletes |
| `overlooked`, `thrown`, `strays` | history |

`CommitRecord` has three outcomes, as the JSON store has: done; refused; and *done
but thrown*, when `pending.json` is published and a later write of the same request
fails. The three history variables name what the code gives up, so that the
properties can say that it gives up nothing else. `overlooked`: an object replaced
by an attachment whose second half never ran stays attached and charged for good.
`strays`: bytes of a PUT to a bucket that arrived when their row was gone, or was
being removed. `thrown`: see the finding. A crash during a PUT, a deletion or a
write of the state file may leave a temporary file in the media root, and the scan
of the next start refuses it (`inventory.ts:63` and `:73`): the process then stays
down until `CleanRoot`, which is external (an operator). Abstracted: the memory
backend, legacy sidecars, a state file that cannot be written.

### WorkRecord, RecordCommands, RecordApi and RecordListing

`WorkRecord` has the twenty commands of `transitionWorkRecord` as operators that
yield `[error, record]`, the roles that permit them, `AggregateInvariants` (what a
document is parsed against before it is stored) and the policies of an export.
Collections whose adder refuses a known id are partial functions; versions,
snapshots and releases are sequences. An import adds its parts one by one and stops
at the first that throws. `RecordCommands` is the machine over them: one document,
created once, changed by whole commands of permitted actors.

`RecordApi` is what the routes make of it. A request reads the record, is
authorised, waits for its body, reads again and commits in a transaction of its own
pool connection; between any two of these others commit. A COMMIT may take effect
unheard, and the client sends the change again under the same If-Match. An export
is decided on the record as it is when the body is there. `RecordListing` walks the
pages with a signed cursor while records come, go and are renamed.

### Authentication, LtiLaunch, LabKeys

`Authentication`: at most `MaxActive` scrypt jobs, a queue of `MaxQueued`, the
slot of a derivation that ends or fails handed to the next; sessions signed for the
account as configured, verified against the accounts of the process that reads
them. `LtiLaunch`: a login or a record's own launch registers a state (evicting the
oldest of a full table), the platform signs tokens, POSTs consume a state and verify
a token; clock readings up to `MaxLag` old, a restart, forged and replayed posts.
`LabKeys`: a process loads the pair, or makes one under a lock file and links two
finished temporaries to their names; any call may fail, a process may die between
any two.

### ApiRuntime, HttpRequests, Downloads

`ApiRuntime` is the start with its checks and first pass, the timers, and the
shutdown that closes what they use in order. `HttpRequests` is one request from the
ingress rules to the metrics: guard, bounded body, operation, one answer, the drain
of the rest, the client gone at any await. `Downloads` takes a slot of the process
and, with PostgreSQL, a lease of the deployment, stages the object in a private
file, verifies it, asks again, sends and streams.

### EafProjection, Interop and Handoff

`EafProjection` exports regions and comments as tiers and imports them: the sweep
over regions by start and the tree of minima over their ends are kept, and compared
with the rule they compute (the covering region that ends first). `Interop` takes a
record through every export (OTIO, EAF, the cue map, the cues for other tools,
MusicXML references) with the losses each states, and a timeline, exported or of
another tool, back through the OTIO import with its node budget, warnings, and the
save that keeps what is there. What an export carries is compared over pairs of
records that differ in one field. That comparison shows which fields no
statement covers (`Unstated`, section 6). `Handoff` builds
inventory, manifest, RO-Crate graph and the ZIP archive with its offsets; checksums
are left out.

### The clients

`Workspace` is the state of a tab under answers in any order, sign-outs and
selections; `Studio` the page with its drafts, a load that comes late, a save under
way and the handoff panel; `MovementEditor` the editor with its history, selection,
time field and a file that is read, which implements `EditLine`. `SessionSync` is
the exchange of snapshots between tabs, with a `BroadcastChannel` each, or with one
in-process channel that a tab closes for all (`close`): tabs that it leaves deaf are not
said to converge, nor are those of a session in which `setRev` was called on a tab at
work, `Workbench` the page with canvas, arrow keys
and stored session, `Motif` the documents and edits of both editors, `LabanStaff`
the staff with its import, edits and rendering. `StaffImport` is the other half of
that import: what a file of the open LabanWriter form is refused for, what is filled
in and warned of, and whether the parser opens the document that was written.

## 3. The runs

| Run | Question | Bounds |
| --- | --- | --- |
| `json_store` | does the JSON store implement `RecordLog` and serve only whole states, through stops anywhere? does a deployment come to be whole? what do the system calls on a managed file promise? | 2 records, 4 operations, 1 backup, 2 stops; 3 operators, 2 ids to import, 1 write; 2 processes, 2 file operations, 1 failure or change by others |
| `recoveries` | under fairness: is an interrupted operation completed, does every upload end, does a lockout of an account or a source end? | 1 record, 3 operations, 2 restarts; 2 uploads, 1 pass, 1 death; 2 accounts of one source, limits 1 and 2, 2 requests, 2 leases, lag 1 |
| `login_postgres` | do the limits hold for concurrent logins with late clock readings, and are failures kept? | 3 accounts of which 2 can be tracked, 1 source, 2 requests, 4 leases, limits 2 and 3, window 2, lag 1 |
| `login_full_table` | finding | 1 account, 1 trackable |
| `pg_media` | are takes served, bytes charged and limits kept, through expiry, deaths, failures and a key named again? | 2 uploads, 1 take, 2 passes, sizes 1–2, quota 3, 2 active, 1 transfer, lease 2, quiet 1, PUT time 1, 1 stop |
| `local_media` | the same through the two-step attachment, crashes and restarts | 3 uploads, 1 take, sizes 1–2, quota 2, 2 active, lease 1, PUT time 1, 1 stop |
| `local_thrown` | finding | 2 uploads |
| `record_api` | are concurrent requests single commands? are the tables a log? | 2 requests, a student and a teacher, 3 changes; 3 transactions, a pool of 3 |
| `record_submit` | finding | 1 teacher, 4 changes |
| `services` | the promises of the services that share no state, each on its own | 6 edits; 3 LTI states in order, 2 posts, a table of 2, lifetime 2, 1 restart; 3 key processes; 4 logins, 2 slots, 1 queued; 2 accounts, 1 tracked; 3 ids, pages of 1 and 2; 2 requests and 4 passes; 2 calls with bodies to 2; 2 downloads, 2 mishaps; EAF times 0–3, 3 regions, 2 comments; 2 extra files; 2 records and their variants in one field, timelines of up to 2 tracks, 100 nodes |
| `clients` | the promises of the clients, each on its own | 2 users, 2 records, 3 tabs, a history of 2, 3 items, 6 turns, 3 symbols; files with one field of another value |
| `studio_drafts` | finding | 2 records, 2 edits |

Why the bounds are enough to be interesting:

* *JSON store*: two stops let a recovery itself be interrupted; four operations
  let a backup follow a mutation and a restore follow a later one, with one more
  operation to be lost or repeated; two records let a delete and a restore differ
  in what exists; two pieces per line are what a torn line needs. Releases with one
  and with three media migrations let an old command meet a new one.
* *Logins*: two requests hold leases at the same time, `Leases` exceeds what can
  be in flight plus what deaths leave behind, the account limit (2) can be
  exceeded by the concurrent pair plus a counted failure, three accounts compete
  for two places, and a lag of one reorders two calls around every window end.
* *Media*: two uploads to one take are a replacement, to one quota a race; a third
  lets a replacement, its own replacement and one that fights for the quota meet in
  one pass. Lease, quiet and PUT times are ordered as in the code (a PUT's timeout
  of 120 s is within the quiet time of at least 300 s); one stop is enough for every
  single death or failure, and leases that expire need no stop at all.
* *Record requests*: two requests are a race and its victim; three changes are a
  role given, used and taken away under a request that was authorised before.
* *Services*: a table of pending states of two with three states evicts; two posts
  race for one; three key processes are a loser that undoes while a third loads; four
  logins fill two slots and a queue of one and leave one refused. Two extra files make
  an archive that fits exactly and one that is a unit too long; an exported timeline
  is below, at and above the node budget.
* *Recoveries*: of two accounts of one source either can use up what the other needs.
* *Clients*: two intents are an answer and its overtaker; three tabs are a sender and
  two receivers in different orders; a history of two is exceeded by a third edit.

`CHECK_DEADLOCK FALSE`: in the media configurations the number of uploads is
bounded, so that a behaviour may come to rest with every upload ended; in `services`,
`clients`, `record_api` and `recoveries` a machine stops when its bound on edits,
changes or deaths is used up, a process has shut down, or a file was imported. The
finding runs end in the state they look for.

### Fairness

`MCRecoveries` states fairness as hypotheses of the properties, one for each of its
machines:

* `JsonFairness`: weak fairness of the steps of the process (not of new
  operations, crashes or faults). An operation is a straight line of synchronous
  calls, a stopped process is restarted, and the next request arrives.
* `MediaFairness`: weak fairness of each upload's steps (request timeouts end every
  wait on S3 or the database), of the recovery passes (the timer of 30 s in
  `runtime-lifecycle.ts`) and of `Tick`. Nothing makes a PUT arrive: it may also be
  lost.
* `LoginFairness`: weak fairness of `BeginLogin`, `Verify` and `FinishLogin` of a
  request, strong fairness of `Tick`. A request whose process lives runs to its end;
  strong fairness of the clock because `MaxLag` makes it wait, in the model, for
  callers that hold a reading.
## 4. What is proved

A theorem holds for every value of the constants: any number of records, uploads,
accounts, requests, processes, any limits and bounds. TLC was asked first, on a run,
whether each inductive invariant holds.

| Module | Proves of | Properties of the runs |
| --- | --- | --- |
| `JsonStoreProofs` | `JsonStore` | `TypeOK`, `JournalApplies`, `ServesWholeState`, `NoStageLeftBehind`, `ServesTrueCounts`, `ListedBackupsRestore`, `AcknowledgedSurvives`, `ImplementsRecordLog` |
| `LoginAdmissionProofs` | `LoginAdmission`, `LoginGuesses` | `TypeOK`, `AdmissionBound`, `WindowsStand`, `WrongAnswerIsCharged`, the bounds of guesses and of tracked keys |
| `PgMediaProofs` | `PgMedia` | `TakesAreServed`, `AttachedIsReferenced`, `LimitsHold` |
| `LocalMediaProofs` | `LocalMedia` | `TakesAreServed`, `AttachedIsReferenced`, `LimitsHold` |
| `RecordCommandsProofs` | `WorkRecord`, `RecordCommands` | every command parses, history stands, submits take effect |
| `RecordApiProofs` | `RecordApi`, `PgRecords` | `ChangesAreExact`, `ExportIsFresh`, `ImplementsCommands`; `RowsAreSound` |
| `ServiceProofs` | `MCServices` | `RecoveryIsAlone`, `PairIsSound`, `LaunchesAreSound`, `LoginsAreSound`, `TransitionsParse`, `HistoryStands`, `WalkIsWhole`, `AnswersAreSound` |
| `FiniteSums` | sums over finite sets | (lemmas) |

### Assumptions

All are named ASSUMEs, in the module that declares the constants, and TLC evaluates
them on every run. *Sentinels*: `None`, `NoRecord`, `Gone`, `Keep` and the like are
no data (`SentinelsDiffer`, `NoneIsNoUpload`, `NoneIsNoRow`, `NoneIsNothingElse`).
*Finiteness* of ids, uploads, leases, accounts (`IdsFinite`, `UploadsFinite`,
`SetsAreFinite`): quotas and counts are over them. *Limits* are positive numbers
(`LimitsPositive`, `BoundsAreNaturals`, `Bounds`). `QuietOutlastsPut`: a PUT is over
before the quiet time of its upload is, as the code's 120 s and 300 s are.
`OneProcessReadsFreshTime`: the adapter in memory reads the clock within the call.
`DownloadsAssumption`, `HttpAssumption`: transfers and requests are finite sets (their
slots and answers are counted), the asks are requests of the routes, and the bounds of
the latency buckets are increasing naturals.
`RecordApiAssumption`: accounts have roles, bodies are what the routes parse.
`PgRecordsAssumption`: operations name ids, and a snapshot, which is what a JSON store
has served, tells the lives of its records and of those it removed.

`CommandsFit` is a hypothesis of the theorems on commands: they are what the routes
parse, and no client chooses a snapshot id of the form that `submitVersion`
generates. The second half is what the run `record_submit` breaks on purpose;
`SubmitsTakeEffect` shows that this collision is the only way a submit goes wrong.

### JsonStoreProofs

    IInv == TypeOK /\ CopiesQuiet /\ LiveFits /\ SwapFits /\ PlaceFits /\ StageFits

None of the properties is inductive by itself. `JournalApplies` needs to know that
the lengths in `pending.json` still fit the logs *at every place* the process can
be, also right after a crash: `LiveFits` says that each log named by the entry either
has its old length, or has the first piece of the entry's line, or ends with that
line, and every other log is whole. `SwapFits` says the same of the six directories
of a restore (each area is in exactly the places its move allows), `CopiesQuiet`
that backups and stages hold only whole logs, `PlaceFits` ties `pc`, `pending` and
`marker`, and `StageFits` says when a stage may exist, and that of the directories
that wait for their deletion each is the one in hand or is owed to a call that failed.

The refinement of `RecordLog`: what a reader is shown is a function of the disk
alone (`JsonStore`'s Effective operators). Every action leaves it as it is — a
stutter of the log — or is one of three publications (of `pending.json`, of
`restore.json`, of a backup's manifest), and each of these is a step of the log.
`WorkFits` says what the process in the middle of an operation may rely on in terms
of files; `ContentFits` says what is true of the contents shown and needs nothing of
the files. `AcknowledgedSurvives`, `ServesTrueCounts` and `ListedBackupsRestore`
follow from the same invariant.

### LoginAdmissionProofs

`TypeOK /\ AdmissionBound` is inductive, for both adapters: settling moves a lease to
a failure, so that the load of a key (failures plus leases) never grows by it; a new
lease is given only below the limit; ending a lease removes it before it is charged.
`WindowsStand` and `WrongAnswerIsCharged` are action properties of single steps under
that invariant; the latter is proved for the shared tables only, and the run
`login_full_table` shows why. `TrackedBound` is inductive beside them: a key that a
failure or a lease names anew passed the check of `beginLogin`, or had a lease.

    GInv == IInv /\ TrackedBound /\ guesses \in [...] /\ GuessesFit

The bound of the guesses (fewer than twice the limit in any `Window` ticks) is a sum
over their ages. `Fits` says what the guesses at an account, its failures and its
leases know of each other: the guesses of the open window are in its count or still
out, the first of that window is older than the window itself, and those before it
were charged to one window at most. It is proved step by step with the prefix sums of
`FiniteSums`; a tick shifts the history by one age and may end the window.

### PgMediaProofs and LocalMediaProofs

That a pass deletes no bytes a take names depends, with PostgreSQL, on what the pass
was told when it asked, on who may still come to name the key, and on the PUT of the
key being over; in one process, on which piece of code holds the event loop
(`OneAtATime`), on a key being unnamed until its bytes are all there
(`FreshIsUnnamed`), on what each place of `serveUpload` and of the pass may count on
(`WriterFits`, `PassFits`), and on a replaced object that lost its take having a
writer that will say so (`AttachedIsKnown`). The invariants say all of it. Quotas are
sums over the keys of a record: `FiniteSums` proves, by induction over a set of
numbers, how such a sum changes when one key comes, goes, or changes its size.
`QuotaHolds` of `PgMedia` exempts keys that were forgotten and then named again from
outside: their promotion is not charged against the quota by the code either.

### RecordCommandsProofs and RecordApiProofs

A document is *Good* when its regions, takes and comments (`ScoreHolds`) and its
versions, snapshots, releases, artifacts and policies (`EvidenceHolds`) are sound.
Every transition changes the one or the other (`ScoreChange`, `EvidenceChange`) and
takes away no version, no snapshot a version names and no policy (`Stands`). *Good*
says more than the code checks: a snapshot id that `submitVersion` generated was
generated for a version that is there (`IdsKnown`), without which the next submit
may generate it again. Imports are a recursive function over their parts; that it
exists, and what it preserves, is proved by induction over the number of parts.

For the requests, the invariant says of every request what it still holds from an
earlier read: which revision its client saw, and which document under it (`SeenFits`).
If-Match is safe because a revision names one document only: every commit gives a
greater one. Steps that write nothing (`QuietStep`) and commits (`CommitStep`) keep
it; with it, a step that changes the record is a step of `RecordCommands`: what the
last check lets through is permitted by the roles of *that* instant.

For the tables (`PgRecords`, proved as `MCRecordApi` instantiates it):

    PgInv == tables tell lives and are counted /\ events are numbered once
             /\ TxnFits of every transaction /\ any two are Apart

`RowsAreSound` is far from inductive: between its statements a transaction relies on
what it read several statements ago. `TxnFits` says, for each operation and each of its
statements, which locks it holds and what of the tables they keep for it: the row it
read is still the row, the count it wrote is one off the committed one, the number it
took is greater than any event of its record. That last part is why the order of
numbers is the order of a record's life although the sequence is locked by nobody: the
number is taken under the lock of the record. No statement touches the tables before
the commit (`TablesStand`); a commit changes what its own locks protect, and what the
others rely on is under theirs (`OthersKept`, `TablesChange`). An appended event and
a deletion that found nothing hold no lock on a record, and leave no state behind. An
import has no row to lock for a record that it knows as removed: there `Clash` is what
keeps the others away. `NobodyWaitsInACircle` follows from the order of the locks: whoever
waits for a record holds at most the import lock, and whoever holds the counters waits
for nobody.

### ServiceProofs

A behaviour of `MCServices` stays with the service it began with (`WhichStays`), so
that each has an invariant of its own.

* `RuntimeInv`: a pass runs only while the process serves or goes down, and what is
  closed is closed after the last one.
* `KeyInv == KeyTypes /\ PlacesFit /\ KeysFit /\ Traces`: who holds the lock and
  where; that a linked private half without its public half has a holder who will
  link or undo; that every pair in use is the linked one; what a failure leaves.
* `LtiInv`: posts hold states that were registered, a state is registered once and
  accepted once, the table is bounded, and every registered state *waits*: it is
  pending, or at least as many as the table holds were registered that are no older.
  An eviction takes the oldest; those it keeps are none older, and the proof counts
  them by a surjection from their registrations.
* `AuthInv`: as many slots are taken as derivations run, the queue names every login
  that waits, once, and nobody waits while a slot is free; a session ends within its
  life from now. A slot handed on is given back and taken in one step.
* `ListInv`: what a walk knows. Whatever was listed to the actor all the time and lies
  before the place the walk has reached was shown, nothing was shown twice, and the
  next page is asked with the one cursor that names that place. That an ordering of a
  finite set exists (`OrderExists`) is an induction over its size.
* `DownloadInv`: where each transfer is, what it holds there (file, lease, slot), what
  was answered and whether access was withdrawn since; the count of a process is the
  number of its transfers that hold a slot; a process that ended by a second answer
  names the transfer that did it. A step moves one transfer (`OneMoves`) and its slot
  and lease with it, which is all the counting needs (`OneMovesKeeps`).
* `HttpInv`: what a request has passed (host, origin, session, body) and what was
  answered; the counts by key and the buckets of latency are the sums over the
  requests that are over, which `FiniteSums` carries through one request more.
* The record and the guesses: the theorems of `RecordCommandsProofs` and of
  `LoginAdmissionProofs`, instantiated as `MCServices` instantiates their modules; the
  two instances are shown to be the same, definition by definition.

## 5. What is only model-checked

* Liveness (`RecoveryCompletes`, `EndsServedOrClean`, `LockoutsEnd`): temporal
  reasoning under fairness is beyond the prover.
* What depends on sorting or folding through an operator parameter, which none of
  the provers can instantiate: `FormatsAreSound` (the sweep of the EAF import, the
  offsets of an archive, the comparison of exports in pairs of records).
* `CommitsAreLogged` (filters of sequences through an operator parameter),
  `StorageIsSound` (schema, import and the files below both file stores), and those of the clients: `TabsAreSound`,
  `TabsConverge`, `WorkIsKept`, `StepsAreExact`. Nothing in principle stands against
  proving most of them; see section 8.

## 6. Findings

`login_full_table`: `packages/runtime-state/src/types.ts:32` says of
`finishLogin` "Complete exactly one lease; failures count against account and
source windows." In the one-process adapter `increment` (`memory-state.ts:34`)
returns without counting when the table already holds `MAX_TRACKED_LOGIN_KEYS`
entries and the key has no open window, even if one of those entries is the
key's own closed one. A wrong answer is then not counted. The PostgreSQL adapter
reopens the window instead; `login_postgres` checks the same property, and it is
proved for that adapter. `GuessBound` holds in one process all the same.

`local_thrown`: `docs/ARCHITECTURE.md:113` says of media that the API "commits
media metadata to the WorkRecord only after storage succeeds, and rolls back the
media write when the record update fails." With the JSON store an update may fail
*after* it has taken effect: `commitJsonMutation` publishes its intent and then
applies it, and an error of the second part reaches the caller, while the intent
is completed by the next request. `serveUpload` (`routes-media.ts:63-66`) then
abandons the upload and deletes its bytes. The trace of the run: reserve, stage,
store, commit with an error, abandon, delete; the take names bytes that are gone.
`TakesAreServed` of `LocalMedia` is proved: this is the only way. With PostgreSQL the
two halves are one transaction, and `PgMedia` includes a COMMIT whose answer is lost.

`record_submit`: `record-mutations.ts:75` promises "one immutable version and
corresponding snapshot per unique name". `submitVersion` names its snapshot
`snapshot-<name>-<number of versions>` without asking whether it exists (line 83); a
client may have added a snapshot of that id, and then a submit of that name is refused
by the check of unique ids, as often as it is tried, until a version of another name
changes the number. No version is wrong; one cannot be made.

`studio_drafts`: `practice-relay-app.mjs:230` tells the user "Drafts stay in memory
until saved or downloaded." When a save completes (line 47) the saved document
becomes the draft of its record, whatever was edited since the save was submitted;
the editor shows the edit until another record is opened, and then it is gone.

Behaviours of the code that the models keep and the properties exempt by name:

* Two answers to one request end the process: a download aborted during the second
  authorisation (`routes-media.ts:112-114` with `router.ts:79` and `index.ts:119`),
  and a failing `finishLogin` after a busy answer (`routes-auth.ts:38-43`).
* A lock file of the lab's keys left by a dead process refuses every later creation
  until an operator removes it; a temporary of a crash in the media root likewise
  keeps the local media process down.
* A login that is refused for long: `LockoutsEnd` promises that an account or a source
  at its limit comes below it again, not that a given account is let in. Other accounts
  of its source may use up the limit of the source again and again, because a right
  answer resets only its own account, and so may other keys the places of the key table
  (`postgres-state.ts:136-141`).
* The in-process channel of the workbench is closed by the first tab that closes
  (`session-sync.mjs:67`, `:222`); the others then hear nothing. `setRev` on a tab at
  work may give one revision of its origin to two documents; nothing in the repository
  calls it.
* In the workbench an item added after two removals, or one whose order was set by hand,
  may get an order below the last one (`motif.mjs:64`, `:86`), and items of one id keep the arrow keys from going on. A staff
  that lists no columns shows all in use until its first listed one hides the others
  (`laban-subset.mjs:88`).
* *Code and documentation disagree* on losses. `docs/relay/api-and-contracts.md:29` has
  it that every result "carries stable `losses` entries with an explanation and
  `omittedFields`", and `packages/handoff/README.md:22` says the same. `EXPORT_LOSSES`
  (`projections/index.ts:70`) leaves out four things that exports lose: the take ids of
  a record in OTIO, and its duration when it has no tracks; the labels of the cue tracks
  in the cue map; which of two regions of one interval a comment is on in EAF.
  `buildOscDeepLinkProjection` states no losses at all. `LossesAreKnown` and
  `FourAreLost` of `Interop` say that these four are lost unstated, and nothing else.
* *Code and documentation disagree* on imports, which are to "report unsupported or
  missing source material as warnings" (`packages/handoff/README.md:24`): the OTIO import
  takes the first clip of a track and drops the later ones without a warning
  (`WarnsOfLoss`).
* The graph of a complete transport has no entity for its main entity,
  `work-record.json` (`ro-crate-record.ts:28`, `:36`); `GraphIsClosed` is of the
  packages and the evidence crate.
* A second import of a timeline skips tracks whose ids are there already, and
  reports them as imported.
* The import of a LabanWriter file passes on whatever else a measure has, and the
  parser then refuses the document that was written.
* A restore of a backup takes revisions back: an If-Match of before it may match a
  later document.

## 7. What is not modelled

* `apps/movement-schema-site` and `scripts`: documentation and build checks without
  state.
* The renderings of cues for single programs (Ossia, Max), the import of legacy media
  sidecars, private account files and password hashes, the toolkit's validator, glyph paths and
  plugin registry, media playback and the offline shell of the workbench.
* Bytes: digests, signatures, JSON and HTTP parsing, the wire protocols of PostgreSQL
  and S3. A digest is right or wrong, a signature is of its key or not.
* Clock skew between processes beyond late readings: each module has one clock.

`PROJECT.json` lists every component with its status, and the lines each definition
stands for.

## 8. What comes next

1. `SnapshotsAgree`-style invariant for `SessionSync`: every old tab has, or has on
   its way, at least what any tab holds; `TabsConverge` follows.
2. `Deployment`: `SchemaIsWhole` from the advisory lock.
3. More of the code: the start and configuration of the API.
