# SupaLite admin: TLA+ specifications

SupaLite is a small self-hosted Supabase: PostgreSQL, GoTrue, PostgREST, Studio and a gateway under
Docker Compose, and an admin panel (`admin/`, Go with a Next.js front end) that backs the database up,
restores it, edits `.env`, rotates secrets, restarts services and streams logs. The panel is where the
program's own logic is, and where it can do harm: it stops the database, lets a container overwrite the
data volume, deletes backups and rewrites the configuration, with calls that can fail, be answered late,
or be cut off by the death of the panel itself.

This directory holds TLA+ modules for those parts, TLC configurations that check small instances of them,
and TLAPS proofs of the properties that matter most for every size of the system.

    tlc -config restore_serial.cfg MCPgBackRest        # any run below
    tlapm PgBackRestProofs.tla                         # any module named ...Proofs

`PROJECT.json` records, per definition, the source lines it stands for, the runs with their properties,
and for every property a plausible slip in the code that violates it.

## 1. The system

The admin process is one Go program in a container of the stack it manages. It keeps almost all of its
state in memory, in package variables, and loses it when it dies; what outlives it is in other hands: the
Docker daemon (containers), the data volume, the S3 bucket, the file `.env`.

| Component | State | Operations | Talks to | What is hard |
|---|---|---|---|---|
| Physical restore and backup, `handler/pgbackrest.go` | `backupRunning`, `backupState`, `pgbrRestoreRunning`, `pgbrRestoreState` under `backupMu`; `stanzaCreateRunning` | backup, restore (each leaves a goroutine), stanza-create, info, two status reads | Docker client | a dozen calls to the daemon, any of which may fail after it was served; crash with a writer on the volume |
| Docker client, `docker/docker.go` | none; containers live in the daemon | find, inspect, stop, start, exec, list by label, `RunOneShot` (create, start, wait, logs, force-remove), log streams | Docker daemon over its socket | lost answers, deadlines, clean-up of a container whose ID was never learned |
| Service restart, `handler/restart.go` | `restartRunning` | `docker compose up -d --no-deps gotrue gateway` in a goroutine | Docker | runs beside a restore |
| Logical backup, `handler/backup.go`, `backup/dump.go` | none; concurrent runs are allowed | run (pg_dump piped into an upload), list, delete, presign | pg_dump, S3 | four parties around two pipes; partial objects; names chosen by clients |
| Logical restore, `handler/backup.go` | `restoreRunning` | restore (S3 object piped into pg_restore) | pg_restore, S3 | the same in the other direction, with the errors of the copy dropped |
| S3 client, `backup/s3.go` | none; objects live in the bucket | upload, list page by page, get, delete, presign | S3 | non-atomic listing, lost answers |
| Scheduler, `scheduler/scheduler.go` | its timer | dump, then prune to `BACKUP_RETENTION_COUNT` | logical backup, S3 | deletes by a listing that is already old |
| Env file, `envfile/envfile.go` | `.env`, a mutex | read, write (read, change, temporary file, rename) | file system | read-modify-write, crash, quoting |
| Configuration, `handler/config.go`, `keys.go` | none beside `.env` | get, post with per-field validation and a placeholder for secrets | env file, browsers | forms that post stale fields |
| Secret rotation, `secrets/secrets.go` | none beside `.env` | rotate one of four secrets | env file | who holds which generation of a secret until it is restarted |
| Log and status streams, `handler/logs.go`, `status.go`, `sse/sse.go` | per request: a scanner goroutine, a bounded channel, the writer's flag | stream, tick, close | Docker client, browsers | goroutines that must end with the request |
| Docker output readers, `docker/docker.go` | per stream: a frame buffer, a bounded tail | demultiplex | | frames of any size, cut anywhere |
| Login, `server/server.go`, `cookie/cookie.go`, `ratelimit/ratelimit.go`, `handler/auth.go` | attempts per address; the cookie key | login, verify, limit | browsers | the edges of a sliding window, concurrent logins |
| Database maintenance, sessions, SMTP and OAuth probes | none | one statement or one call each | PostgreSQL, outside services | nothing that keeps state |
| pgBackRest card, `pgbackrest-card.tsx` | per browser: three cache entries, two refs, a dialog, posts | two polls, the list, start, restore, initialize | backup handlers | sees a run end only by its own polls; writes "running" into the cache itself |
| Settings, wizard, dashboard, `settings/page.tsx`, `setup-wizard.tsx`, `store.ts` | one copy of the configuration per browser, a form, the wizard's steps | fetch, type, Save All, tests, restart, the wizard's five steps | configuration handlers | every save posts every field of a copy that may be old |
| Shell and session, `app-shell.tsx`, `login-page.tsx`, `api.ts` | a token in sessionStorage, `isAuthenticated`, the cookie | log in, out, reload, leave on 401 | login handlers | the tab cannot see whether its cookie is still good |
| Backups, sessions, secrets, dashboard, DB ops pages | a cache entry, dialogs, the last result | list, run, restore, delete, terminate, rotate, reveal, maintain | the handlers of the same names | answers that come after the page was left, or after the list they change was asked for |
| Logs page, `logs/page.tsx` | the EventSource, 2000 lines, two menus, Pause | connect, change, pause | log stream | reconnects of the browser, streams that must not outlive the page |
| Database image, compose file, setup script, gateway | containers' environments | run once, or declarative | | |

What makes each component correct, in short: the data volume has one writer at a time, and the database is
started only on a volume that is a whole backup (physical restore); an operation never keeps or loses its
slot wrongly (all flags); a backup that is reported as made is there, whole, and a failed one leaves nothing
(logical backup); retention deletes only what is old enough and what is its own (scheduler); a restore
answered "ok" has restored everything, and every request is answered (logical restore); no update of `.env`
is lost or torn, and what is written is what is read back (env file); after a rotation and the restarts that
it names every service holds the same generation (secrets); streams end with their requests (logs); the
limiter counts what it should (login); the card shows a run until the server has ended it, and its backup once it
is announced; the settings form saves what was typed and nothing else; a page at rest agrees with what the user was
told; a tab whose cookie has gone bad ends at the login (front end).

## 2. Modules

| Module | Stands for | EXTENDS or refines |
|---|---|---|
| `VolumeLock` | what a restore promises about the data volume: one holder, taken only when free, replaced only by a restore container | abstract |
| `PgBackRest` | `pgbackrest.go`, the calls of `docker.go` it makes, `restart.go`, boot and crash of `main.go` | implements `VolumeLock` (`VolumeLockSpec`) |
| `LogicalBackup` | `dump.go`, `HandleBackupRun`, `HandleBackupDelete`, `scheduler.go`, the calls of `s3.go` they make; each job's upload, wait and clean-up are one step | |
| `DumpPipeline` | the inside of one `RunPgDump`: process, two pipes, uploader, stderr goroutine, context | implements the job steps of `LogicalBackup` (`ImplementsJob`) |
| `RestorePipeline` | `HandleBackupRestore`: the flag, concurrent requests, and the inside of the one that runs | |
| `QueryCache` | one entry of TanStack Query's cache, as operators (external: modelled from how the pages use it) | |
| `BackrestCard` | `pgbackrest-card.tsx` against the flags and the list of the server | instantiates `QueryCache` |
| `Settings` | settings page, setup wizard, dashboard, `store.ts`, GET and POST of `config.go` | |
| `AdminShell` | login, logout, reload, 401: `api.ts`, `store.ts`, `app-shell.tsx`, `login-page.tsx`, the cookie of the middleware | |
| `AdminPages` | backups, sessions, dashboard's keys, secrets and DB ops pages with the handlers they call | extends `AdminShell`, instantiates `QueryCache` |
| `LogStream` | logs page with its EventSource, and `HandleLogsStream` with its scanner goroutine | |
| `MC...` | small instances for TLC (symmetry sets, bounds of single logs) | EXTENDS its module |
| `PgBackRestProofs`, `LogicalBackupProofs`, `DumpPipelineProofs`, `RestorePipelineProofs`, `BackrestCardProofs`, `SettingsProofs`, `AdminPagesProofs`, `LogStreamProofs` | theorems | EXTENDS its module and TLAPS |

A definition described as "Faulty" is not part of a specification: it is a slip of the definition after it,
which some property has to notice.

Where the code leaves a race open, no guard of a specification closes it. A history variable, which no action reads,
records that the race was run and what it touched, and the properties say what holds apart from it. Section 6 has what
happens in the race itself.

### PgBackRest

A request is a process with a program counter `pc[r]`: first the handler's (`check`, `lock`), then, once it
has been accepted, that of the goroutine it leaves behind. Each value names the call about to be made, so
one action is one call or one critical section under `backupMu`:

| Action | Code |
|---|---|
| `RestoreRequested`, `OrphanCheck`, `LockForRestore` | `HandlePgbackrestRestore`: label, list of labelled containers *before* `backupMu`, flags under it |
| `ReadDbSpec`, `StopDb` | find, inspect, `extractRestoreSpec`, stop |
| `CreateOneShot`, `StartOneShot`, `WaitOneShot`, `CollectLogs`, `RemoveOneShot` | the four steps of `RunOneShot` and its deferred force-remove |
| `PostCheck`, `StartDb`, `FinishRestore` | the second listing, the start, `finish` |
| `BackupRequested`, `ExecStart`, `BackupExecReturns`, `FinishBackup` | `HandlePgbackrestBackup` and its goroutine |
| `StanzaCreateRequested`, `FinishStanzaCreate` | `HandlePgbackrestStanzaCreate` |
| `RestartRequested`, `ComposeUp` | `HandleRestart` |
| `AdminCrash`, `HostReboot`, `AdminBoot` | death of the process, of the host; `main` with its fatal ping |
| `ProcExits`, `OneShotWrites`, `OneShotExits`, `OperatorRemoves`, `OperatorStartsDb` | environment: the pgbackrest processes and the operator |

A Docker call is one step with three outcomes: served and answered, served with the answer lost, not
served. The caller sees the last two alike. A crash can come between any two steps. The volume holds the
running database's data (`Live`), a half-overwritten mixture (`Torn`), or exactly one backup set. `tangled`
records the restore containers during whose work something else had the volume open: what they leave is
`Torn` whatever their exit code. `late` and `raced` are history: the requests whose check for containers
is older than a container that has been created since, and that one of them was accepted while a
container of an earlier restore was running. A pgbackrest process in the database container outlives the admin process
and the 4-hour deadline, dies with the container, and excludes another one by pgBackRest's own lock, which
is local to the container. Handlers that only read change no state and are not actions. `FindContainerID`,
`InspectContainer` and the parsing of what it returns may only fail or not.

### LogicalBackup

A job is a request or the scheduler; jobs run concurrently, for nothing in the code keeps dumps apart. The
bucket is a set of objects `[name, at, whole, by]`; names are numbers in the order in which S3 lists the
keys, so that every `pgdump-` name comes before every `scheduled-` one, and `at` is LastModified, the time
at which the upload was completed. An upload may complete with its answer lost; what it leaves is whole
only if pg_dump ended well. The listing is read page by page and is not a snapshot: the operator
(`OperatorDeletes`) and other jobs change the bucket between pages, and between the listing and the
deletes. A request asks for any of `ClientNames`, one that was used before or is the scheduler's among them.
`touched` is history: the names at work in a job whose objects somebody else has deleted or replaced
meanwhile; the properties need it to tell what a job did from what others did to it. `by` says whose
object it is, which the code does not know. The timer is set again
when `tick` returns, so ticks do not overlap and no two of them have the same second in their names. A
misconfigured run changes nothing and is not modelled.

### DumpPipeline and RestorePipeline

Both look inside one run. Pipes are counters with a capacity; a writer blocks on a full pipe, a reader on
an empty one until the other end is closed. The process may fail by itself anywhere, is killed when its
context ends (SIGTERM, then SIGKILL after `WaitDelay`), and S3 or the process may hang for good (`hung`).
Data is counted, not carried: what matters is whether all of it has arrived.

In `DumpPipeline` the order of `RunPgDump` is kept: the upload to its end, the cancellation if it has failed,
`cmd.Wait`, `<-stderrDone`, the verdict, the delete under a context of its own. `ImplementsJob` maps it to
one job of `LogicalBackup`, which is what allows that module to take the upload, the wait and the clean-up
for a step each. In `RestorePipeline` the requests compete for `restoreRunning`; the variables of the run exist
once, as `OneAtATime` shows that one run exists at a time.

### QueryCache and BackrestCard

An entry of the cache has its data, an error, and a fetch that is `sent` or `served`: the server has read its
state, and the answer is under way. `Fetched` is a mount or a tick of an interval, which joins a fetch under
way; `Invalidated` is `invalidateQueries`, which gives it up for a new one unless there is nothing to show yet; `SetData`
is `setQueryData`, which leaves it alone. That last pair is where a page goes wrong.

| Action of `BackrestCard` | Code |
|---|---|
| `Mount`, `Poll`, `Serve`, `ServeInfo`, `Arrive`, `ArriveInfo`, `Fail` | the three `useQuery` with their `refetchInterval` |
| `Rendered`, inside every action that changes what is shown | the effect that keeps `wasBackupRunning`, `wasRestoreRunning`, announces ends and asks for the list |
| `RunBackup`, `SubmitRestore`, `InitStanza`, `OpenDialog`, `CloseDialog`, `Refresh` | the buttons, with what enables them |
| `PostAnswered` (`Optimistic`), `PostFails` | `onSuccess` with its optimistic write, `onError` |
| `JobStarts`, `OtherStarts`, `JobEnds`, `Crash`, `ServeStart`, `ServeStanza` | what the card can see of `pgbackrest.go`; another browser; a restart of admin |

What the server reads (`Serve`, `ServeInfo`) and when its answer comes (`Arrive`, `ArriveInfo`) are steps of their own, and
anything may happen between them. Two history variables name the answers that come out of order: `again` has the announced runs that
such an answer makes news again, and `joined` says that the list under way, or shown, was read before the announcement
that asked for it.

### Settings

`env` is the file, reduced to a plain field, a secret and `SETUP_COMPLETE`; `config` is the copy in
`useConfigStore`, `gets` the answers to GET under way, oldest first. `View` is the server's masking of secrets, `Written`
its rule that a placeholder changes nothing. `Loads` is what the open page does with a copy: the effect that
fills the form, or the one that opens the wizard; it is part of `ConfigArrives` and of `Open`. `Welcome`, `Urls`,
`Smtp`, `Keys`, `Done` are the wizard's steps with all that one can do in each, `Save` is Save All, and the `...Answered`
actions are the continuations after `await`, of which `CompleteAnswered` and `FinishAnswered` are the two halves of
`finish`. `unsure` is history: some request has failed since the page was opened, so that nothing can be said.

### AdminShell and AdminPages

`AdminShell` has the tab's session. It is not a specification by itself: its actions change the four variables of the
shell, and `AdminPages` adds what they do to the page, the cache and the calls under way. A page's query goes
through `Serve`, `Arrive`, `Fail`; a call (`Confirm`, `RunBackup`, `Reveal`, `Maintain`) through `ServeCall` and
one of the `...Done` actions or `Fails`. `here` says whether the page that sent the call is still the one open, since
a component that was unmounted hears nothing of its mutation, while `invalidateQueries` in `onSuccess` works all the
same. The pages share the shell and the keys and nothing else: a `tour` is a set of pages that share
something, and TLC explores each. `place = "broken"` is the tab after an exception while rendering. `old` is history: the
answer under way, or the data, was read before an invalidation that did not make the cache ask again.

### LogStream

`es` is the page's EventSource: none, closed for good, trying, or a connection. `conn[c]` is the server's end of a
connection: the scanner goroutine (`reading`, `holding` a line that it wants to put into the channel, `ended`), the
channel, the handler and the request's context. `Effect` is the React effect that closes the old EventSource and opens
the next; `Start` the answer with a stream; `HandlerEnds` every way out of the handler's `select`. Docker's log is
a counter per service; the line a scanner reads is the number of the next.

## 3. Runs

TLC finishes every run, the longest (`admin_pages`) in about three minutes. "Violated" marks a run whose one property states what
a comment or a document says and the code does not do (section 6).

| Run | Instance | Shows |
|---|---|---|
| `restore_serial` | 1 request, 2 containers, 2 labels, fair | `RestoreGetsVerdict`, `SlotsAreFreed`: each call failing or losing its answer, the process or the host dying in between, containers left over from earlier restores |
| `restore_concurrent` | 2 requests of any kind, 2 containers, 2 labels | `TypeOK`, `OneLongOp`, `DbNeverBesideRestore`, `OneRestoreContainer`, `DoneMeansRestored`, `OnlyRestoredDbStarted`, `VolumeLockSpec`: the same, and requests racing through the check, the lock and each other's error paths, past removes that fail |
| `dump` | 1 request under one name of its own or one of the scheduler's, the scheduler with 3 names, keep 1, pages of 1, 3 uploads | `TypeOK`, `RetentionKeepsNewest`, `PruneCatchesUp`, `OkMeansStored`, `FailureLeavesNothing` |
| `dump_pipeline` | archive of 3 parts, pipes of 1, up to 3 pieces of stderr of which 1 is kept, fair | `TypeOK`, `NothingLeftBehind`, `RunEnds`, `ImplementsJob` |
| `restore_pipeline` | 2 requests, object of 3 parts, pipes of 1, up to 2 pieces of stderr, fair | `TypeOK`, `OneAtATime`, `OkMeansRestored`, `RestoreEnds` |
| `backrest_card` | 1 run, 1 post at a time, fair | `TypeOK`, `AnnouncedOnce`, `ListCatchesUp`, `CardSettles`: polls lost, late and out of order, the card left and opened again, other browsers, a restart of admin |
| `settings` | 3 typed values, 2 GETs under way together | `TypeOK`, `FormIsCurrent`, `SavesOnlyEdits`: form, wizard and dashboard over one copy, anything lost, pages left with requests under way |
| `admin_pages` | 1 row, 2 calls under way together, 1 rotation of JWT_SECRET, every tour, fair | `TypeOK`, `ListCatchesUp`, `KeysCurrent`, `SessionGone`, `EndsAtLogin` |
| `log_stream` | 2 services, 3 lines, channel of 1, 2 lines on the page, 2 connections, fair | `TypeOK`, `LinesInOrder`, `NoOrphans` |
| `retention_takes_manual` | 1 request under a name of the scheduler's, keep 1, 2 uploads | `ManualUntouched` violated |
| `cleanup_takes_other` | 1 request that uses one name again and again, 2 uploads | `CleanUpTakesOwn` violated |
| `setup_reverts` | 1 typed value, 2 GETs | `SetupStaysComplete` violated |

**Bounds, and why they are enough.** Two containers are one more than a correct restore needs: the second
is the one that must not be. Two labels let a restore be told from an earlier one. Two requests make every
pair of operations meet; a third adds nothing to flags that hold at most one. With pages of one object
and up to 3 in the bucket the listing takes several pages and changes under way; with `Retain` 1 both a kept
object and a victim, or two, exist at once, and so does a request's object under the scheduler's prefix. `MaxUploads` and `LastName` bound the clock and the names of
scheduled backups; when they are used up the jobs stop, which is why the `LogicalBackup` runs do not check
for deadlock; the others do. (`DumpPipeline` describes one call and ends: `Finished` is a stutter when it has.)
Pipes of capacity 1 in front of 3 parts block at every place where a longer pipe would after more data, and
more stderr than is kept makes the reader change from keeping to discarding. Requests, containers and
labels are interchangeable: `restore_concurrent`, which checks safety only, uses that
symmetry; no other run uses one.

Of the front end: one run is enough for each of the card's properties to be violated by the slips they are for. The second announcement of
a run does not even need another one.
Three typed values let one be saved, one be typed while that is under way, and one come from the wizard; two GETs are an old
answer and a new one. One row is made, announced, deleted and gone, since rows do not act on each other; two calls
are needed for an answer that arrives while another is under way. Only the two kinds of rotation that differ are in
the run (`ADMIN_TOKEN` names no service to restart, `JWT_SECRET` makes new keys). A channel of 1 is full after one line, 3
lines make one wait in the scanner and one drop out of a page of 2, and two connections are the one in use and the one
that has to go away; a further one can only start when either has gone. The second service logs nothing
in the run: it is there to be switched to.

**Assumptions about the environment.** `CarefulOperator`: the operator starts the database by hand only when
no restore is at work, as `restore.md` tells. Without it nothing protects the volume. (`OneRestoreContainer` and
`OnlyRestoredDbStarted` hold without it.) It is the only constant that stands for good behaviour. The delete of an object by its
job is served, or not, before the job returns: a delete that S3 serves later than that is not modelled. `Settings` has one
browser, one POST under way at a time, and answers to GET in the order of the requests.

**Exceptions the properties make.** They are what the code leaves open, and section 6 says what happens then.

| Properties | But for | Which is |
|---|---|---|
| `OneRestoreContainer`, `DoneMeansRestored`, `OnlyRestoredDbStarted`, `VolumeLockSpec` | `raced` | a request that has passed the check for containers before another restore created its container, and takes the flag while that container runs on because a force-remove has failed |
| `RetentionKeepsNewest`, `OkMeansStored` | names in `touched` | the object was deleted or replaced by somebody else between the listing, or the upload, and now |
| `AnnouncedOnce` | runs in `again` | an answer that was overtaken made the run news again |
| `ListCatchesUp` (card) | `joined` | the first list had been read, and was under way, when the announcement asked for it |
| `ListCatchesUp` (pages), `KeysCurrent` | `"data"` in `old` | the same, or the page was not open at that moment and the answer came before it was |

**Fairness.** In `PgBackRest`, goroutines get on because every call has a deadline (10 s, 30 s, 120 s for
compose, 4 h for a restore or backup), after which it returns with an error, one of the outcomes of its step;
`restart: unless-stopped` keeps booting the panel. Nothing is assumed of the operator, of pgbackrest or of the
restore container. In the two pipelines goroutines are scheduled, a process that does not hang goes on, and a
signal is delivered. The 30-minute deadline is assumed to come only when somebody hangs, and only at the
points where the code has nothing else to rely on (the upload; the S3 answer or a running pg_restore), so
the liveness properties do not hold merely because the deadline ends everything: a failed upload must end
because pg_dump is cancelled, a failed pg_restore because the S3 body is closed, and stderr must be drained.

In the front end: jobs end (their deadlines); the tab is visible, since browsers stop the intervals of a hidden one; and not
every request of a query is lost (`SF`: a poll that is given up for a newer one counts as lost). A backend that was
told to stop stops. In `LogStream` goroutines run, a write to a client that has gone does not block for ever, and net/http
notices in the end that it has; nothing is assumed of Docker or of the browser. `AdminPages` assumes fairness of the sessions tour only, where the properties that need it are. `Settings` needs no fairness, having no liveness property.

## 4. Proofs

For every number of requests, containers, labels, names, objects, typed values, connections and log lines, and every size of the pipes, of the stream's
channel and of the page:

| Theorem | From |
|---|---|
| `PgBackRestProofs!TypeCorrect`, `LongOpsExclude` (`OneLongOp`) | nothing |
| `DbAndRestoreApart` (`DbNeverBesideRestore`) | `CarefulOperator` |
| `RestoresApart` (`OneRestoreContainer`), `StartedIsRestored` (`OnlyRestoredDbStarted`) | nothing |
| `RestoreDone` (`DoneMeansRestored`), `VolumeIsLocked` (`VolumeLockSpec`) | `CarefulOperator` |
| `LogicalBackupProofs!TypeCorrect` | nothing |
| `RetentionSafe` (`RetentionKeepsNewest`), `PruneComplete` (`PruneCatchesUp`) | nothing |
| `OkIsStored` (`OkMeansStored`), `FailureIsClean` (`FailureLeavesNothing`) | nothing |
| `DumpPipelineProofs!TypeCorrect`, `NothingLeft` (`NothingLeftBehind`), `RunPgDumpIsJob` (`ImplementsJob`) | nothing |
| `RestorePipelineProofs!TypeCorrect`, `RestoresExclude` (`OneAtATime`), `OkIsRestored` (`OkMeansRestored`) | nothing |
| `BackrestCardProofs!TypeCorrect`, `ListShowsBackup` (`ListCatchesUp`), `EndAnnouncedOnce` (`AnnouncedOnce`) | nothing |
| `SettingsProofs!TypeCorrect`, `FormShowsFile` (`FormIsCurrent`), `OnlyEditsSaved` (`SavesOnlyEdits`) | nothing |
| `AdminPagesProofs!TypeCorrect`, `BackupsCurrent` (`ListCatchesUp`), `KeysAreCurrent` (`KeysCurrent`) | nothing |
| `LogStreamProofs!TypeCorrect`, `LinesKeepOrder` (`LinesInOrder`) | nothing |

"Nothing" is nothing but what the constants are (`ConstantsAssumption`); the exceptions of section 3 are in the properties.

**PgBackRest.** `OneLongOp` alone is not inductive: a goroutine that finishes frees its flag, so one has to
know that no other goroutine of either kind lives. The type invariant carries what the program counters say
about the local variables (an accepted restore has a label, one past `create` and before the remove has a container).
`DbNeverBesideRestore` is strengthened by what holds *between* the stop and the start of the database: whoever
is past `stop` in its restore finds the database stopped until it starts it itself, because the flag excludes
another goroutine, `--no-deps` keeps compose away and the careful operator waits. Where the restore is about
to start the database, the second listing has seen no container, and none can have appeared. The other four
need to know which containers may still run (`SoleInv`): none while the live restore has none of its own, that one
while it waits for it. A request that waits for the lock has seen no container, and none has been created since unless it
is `late` (`Checked`); so only a late request can be accepted beside a running one, which is what `raced` says. `RestoredInv` then follows the backup set: the
label of the request is that of its container, nothing else had the volume open beside the container, so what it leaves when it
exits 0 is that set, and it is what the second listing, the start of the database and the verdict find. What it says of the
volume holds as long as nobody has started the database since it was stopped (`Undisturbed`): the program only starts one that is
stopped, so `OnlyRestoredDbStarted` needs no careful operator, and the verdict, which comes after the start, does. The refinement
maps the lock's holders to the running containers and the running database, and follows from these invariants step by step.

**LogicalBackup.** The retention invariant says what `kept` and `victims` are at each point of a prune: kept
objects are `Retain` many, all newer than every victim, and each of them is still there unless somebody else has
deleted or replaced it (`touched`). That rests on the listing being no newer than what it lists (`ListInv`) and on times: objects
carry distinct ones up to the clock (`TimesInv`). `OkMeansStored` needs to know of a job that
waits that what it wrote is still there unless it was touched (`OwnInv`). `PruneCatchesUp` needs the opposite
of the retention invariant, that nothing of the scheduler's own escapes (`CoverInv`): up to the token it has been listed, then all has, then each is
kept or still a victim, unless a delete has failed. A page ends where the next begins (`PageIsPrefix`), and
nobody else makes an object that is the scheduler's. `FailureLeavesNothing` needs only that a job with an error is on its way to the clean-up (`ErrsInv`).

**DumpPipeline.** `NothingLeftBehind` is about the end; the invariant says of every point of `RunPgDump` what has been started and what
is gone (`PhaseInv`): `cmd.Wait` is past only when the process is, the clean-up only when the stderr goroutine is. The
refinement needs to know what the upload may leave (`UploadInv`): no object before it returns, a partial one only from a pg_dump
that has failed, and one at all only after pg_dump has ended, for the uploader reads to the end of the pipe. That pg_dump cannot
succeed before its last part is in the pipe (`PartsInv`: what is left, in the pipe and taken is the whole archive) makes an object of a successful run whole.
Each step of the pipeline is then a step of the job, or a stutter while data moves.

**RestorePipeline.** `OkMeansRestored` needs that all parts are accounted for (`src`, in hand, in the pipe, applied:
at most the object) and that pg_restore exits 0 only with all of them; `OneAtATime` needs that the process is
gone when its request goes on to join the goroutines (`JoinInv`), and that a request which has no pipes yet finds
none (`FreshInv`).

**BackrestCard.** The actions come down to what they do to a job's entry: the card learns nothing (`Quiet`), a status is read, an answer arrives, or
the card itself writes "running" (`StatusSteps`, `InfoSteps`); the invariants are proved against that list. `RunsInv` has
what was true when a status was read and stays so: runs are numbered upwards, and one that is over is so for good. `ListCatchesUp`
rests on it and on `ListInv` (after an announcement the list is under way, failed, or has the backup: `Coming`); late answers do
not hurt, since a read that was under way is given up for one that is sent after the end, which the server answers with the backup
in it; unless it was the first, which is joined. `AnnouncedOnce` needs of a run that was announced that an answer under way was read
after its end (`ReadAfter`), and that the card shows a later run, or none that an answer could turn back into it (`Unseen`). The
actions put a run into `again` just where that fails.

**AdminPages.** The type invariant is where answers find the wrong page: a result is put only on the page that its call was sent
from and that has stayed open since, and two rotations are never both heard (`CallsInv`), or the report of one would meet
the dialog of another. `ListCatchesUp` and `KeysCurrent` compare the entry with what the tab was told, so they need that what it was told
is so (`KeepsWord`, `DoneInv`: an acknowledged run or delete is in the rows, and a deleted row does not come back) and that an answer under way
or shown as valid is not older than that (`CurrentInv`), but for what is `old`. An entry that is not valid is being fetched, shows
an error, or has nothing to show; an invalidation makes a new request of one under way, or finds it not yet served, or
marks it, and the mark goes with the request, then with the data that it brings.

**Settings.** `FormIsCurrent` speaks of a page at rest; the invariant says what brings it there: if no request has failed
since the page was opened and no save is under way, the *last* answer to GET under way is the file as it is, and with none
under way the form is (`CurrentInv`). A save makes it false and its answer true again, because the copy is asked for
when the answer says yes, and `unsure` is set when it does not. `WizardInv` keeps the wizard's posts, which change the file
with no GET after them, off the settings page. `SavesOnlyEdits` then follows from what the server does with a
placeholder.

**LogStream.** `LinesInOrder` is about the lines shown; what makes it inductive is where the *next* line comes from. The lines in
a channel are those right before the one the scanner is to read, without a gap (`Before`), so the handler always sends
line `next - Len(chan)` (`Oldest`), and that is the one after the last line of the page once the open connection has sent one
(`FollowsOn`). Reading and putting leave `Oldest` as it is, and sending moves it and the page together. A menu closes the connection
and empties the page in one step, Pause closes it and keeps the lines, a break makes the next connection `fresh`.

**Only model-checked.** Liveness under fairness (`RestoreGetsVerdict`, `SlotsAreFreed`, `RunEnds`, `RestoreEnds`, `CardSettles`,
`SessionGone`, `EndsAtLogin`, `NoOrphans`), which is out of the prover's reach. Every other property of a passing run is a theorem. Those
that rest on `CarefulOperator` fail without it: with the constant set so, TLC finds a counterexample to each.

## 5. Not modelled

`PROJECT.json`, `components`, has the reason for each component without a module. In short:

- *Pure functions*: the Docker output readers, the quoting of `.env`, key scoping, the parsing of `docker inspect` and of
  configuration. They keep no state; what they do depends on strings, which the modules abstract from.
- *Stateless calls*: the SMTP and OAuth probes, the status stream, the one-shot log tail, presigned URLs and the download
  of a backup, the dashboard's list of services.
- *Needs a clock*: the window of the rate limiter and the expiry of the cookie. `AdminShell` has them as a login that fails and
  a cookie that no longer verifies.
- *Outside the program*: which generation of a secret a running service holds, and the environment in which compose is run.
- *Run once or declarative*: the database image's entrypoint, the compose file, the setup script, the gateway, the
  documentation site, the example application; the component library of the front end (class names around elements).

Inside the modelled parts: the wording of answers and logs, the configuration of S3, validation of single fields (a refusal
is one way for a request to fail), the content of dumps and what PostgreSQL does with a statement whose client was killed. A
dump that starts while pg_restore rewrites the database uploads a whole archive of a half-restored database; nothing in the
code excludes it, no comment says otherwise, and `whole` is about the archive, not about what was dumped. `.env` is
written under one mutex and with one rename, so `Settings` and `AdminPages` take a write as one step.

## 6. Where the code and its texts part

Three runs end with a counterexample; `PROJECT.json`, `findings`, quotes the texts.

- `setup_reverts`: the settings form posts `SETUP_COMPLETE`, which none of its fields shows, from the copy it was filled with. A form
  filled before the wizard's finish, with the page's own GET still under way or lost, sets it back to false, and the
  wizard opens again.
- `retention_takes_manual`: "manual user backups are immune" says the comment at `scheduler.go:30`. A request may ask for a name with
  the scheduler's prefix; retention takes such a backup for one of its own, counts it and deletes it.
- `cleanup_takes_other`: a run that fails deletes the object by its name, also when it has uploaded nothing. Under the name of an
  earlier run, which a client may send again and the clock gives twice in one second, it deletes that run's whole backup, where
  `dump.go:17` speaks of "the partial S3 object".

The fourth finding is about a property that holds. By the comment of `HandleBackupRun` (`handler/backup.go:41-44`), a pg_dump
that dies after the upload of its partial output leaves the object for the operator to delete. `RunPgDump` deletes it, and
says so; `FailureLeavesNothing` is that promise.

**Races the properties set aside** (section 3). TLC has the shortest trace of each when the exception is taken out of the property.

- The check for left-over containers is made before the lock and not again under it. A request passes it, another one is
  accepted and creates its container, its wait fails and so does the force-remove; the first is accepted and starts a second
  container beside the running one (`OneRestoreContainer`, 19 steps).
- Card: the end of a backup that is over before its start was answered is announced, and announced again when the optimistic write
  has brought it back and the next poll ends it. A status read before a start, arriving after the optimistic write, turns the
  card back to idle, with buttons on and polls stopped, which may announce the run before too: the comment at
  `pgbackrest-card.tsx:196-198` counts on the write to keep the polls going.
- Lists: the first list that was read before a backup was made, and arrives after "created" was announced, stays, since
  `invalidateQueries` joins a fetch that has no data yet; on the card as on the backups page. An entry whose page is not open
  is not fetched by it at all, so an answer under way arrives and counts as fresh: that is how the dashboard can show
  the keys from before a rotation that was answered on the secrets page.

**Others the modules have, and no property.**

- A rotation of `ADMIN_TOKEN` loses the tab instead of reporting it: `Rotate` lists no service to restart (`secrets.go:130`), which is
  encoded as `null`, of which the secrets page takes the length while it renders (`secrets/page.tsx:112`), with no error boundary
  above it; `secret-rotation.md:53` has a green banner there. `RotateDone` takes the tab to `place = "broken"`.
- The start of the database may be served and its answer lost: the restore is reported as failed with the database up, where
  the documentation says that it stays stopped.
- When the panel dies during a restore it cannot boot, since `main` needs the database that the restore has stopped; the "next
  restore attempt" of the documentation needs the operator first.
- Objects that a crash left partial count as backups; the retention deletes whole ones to keep them.

**Seen while reading, and in no run.**

- *Server.* `stanza-create`'s flag follows the request and not the process it started. `cmd.Wait` closes the stderr pipe, so the end of pg_dump's messages may be missing from an error. `pg_dump -Fc -f -`
  is taken to write stdout, as the code expects. `ADMIN_TOKEN` is read once from the admin container's environment:
  after a rotation the old token stays good until the container is recreated, although the page says that no restart is
  needed. "Restart Services" (`secrets/page.tsx:122`) restarts gotrue and gateway only. REINDEX with an empty target
  reindexes the whole database (`dbops.go:103`), where the form says that it needs a table (`dbops/page.tsx:118`). Terminating a pid that
  is gone, or has been reused, counts as a success.
- *Card.* The banner of a running restore is hidden while the list cannot be read. The backup button is not disabled by its own
  pending post. Escape closes a dialog whose post is pending.
- *Settings and wizard.* A GET that fails is silent. The wizard may open from a stale copy, is not closed by a fresh one, and its Next
  posts `SITE_URL` and SMTP as it proposes them, so an SMTP password that was set can be emptied. Two browsers overwrite each other's
  fields. What is typed while a GET is under way is lost when it arrives. `finish` ignores an error of the restart.
- *Pages and session.* A key revealed on the dashboard stays shown after a rotation answered meanwhile. The backups page
  goes on showing an old list when the list cannot be read. A logout whose post fails leaves the cookie. A late 401 reloads
  the tab under a login in progress. After a reload a stored token, never verified again, shows the shell (the comment at
  `api.ts:12` speaks of a login); a page that fetches nothing never finds out that the session has expired. Every failed
  login is "Invalid token", a rate limit too.
- *Logs.* A reconnect shows the tail again after what was there. A change of service while paused leaves the old service's lines under the
  new name. A line over 1 MB ends the stream, and the reconnect meets it again. The EventSource gives up for good after a 401 or 404. The
  "live" sign stays on across a change of service until the new stream opens or fails.

## 7. Plan

1. Done: `PgBackRest` with `VolumeLock`, `LogicalBackup`, `DumpPipeline`, `RestorePipeline`; the front end with `BackrestCard`, `Settings`,
   `AdminShell`, `AdminPages`, `LogStream`; and the proofs of section 4.
2. Proofs: every safety property of a passing run is proved. Next, properties that are neither stated nor proved yet: nothing of a
   restore outlives its answer (`RestorePipeline`, as `NothingLeftBehind` for the dump), and an abstract specification of one restore
   that `RestorePipeline` implements.
3. Not modelled and possible: `EnvFile`, a file whose update is atomic refined by the temporary file and the rename, with the
   quoting round trip over a small alphabet; `Stack`, the environments of the services across rotations and restarts; `Frames`,
   `readMultiplexed` and `LogFrameReader` against a reference for frames cut anywhere; `AuthLimiter`, the sliding window.
