------------------------------ MODULE PgBackRest ------------------------------
(***************************************************************************)
(* The pgBackRest operations of the admin process: physical backup,        *)
(* stanza-create and the orchestrated restore (handler/pgbackrest.go), the *)
(* Docker calls they are made of (docker/docker.go), the service restart   *)
(* that runs beside them (handler/restart.go), crashes and boots of the    *)
(* admin process (main.go), and, as environment, the Docker daemon, the    *)
(* pgbackrest processes and the operator at the shell.                     *)
(*                                                                         *)
(* A request r is one HTTP request with the goroutine it leaves behind:    *)
(* pc[r] is first the program counter of the handler and, once the request *)
(* is accepted, that of its goroutine.                                     *)
(*                                                                         *)
(* A Docker call has three outcomes: it is served and answered; it is      *)
(* served and the answer is lost (timeout, broken connection); it is not   *)
(* served.  The client sees the last two as the same error.                *)
(***************************************************************************)
EXTENDS FiniteSets

CONSTANTS
  Requests,         \* concurrent requests, each with its goroutine
  OneShots,         \* container identities the daemon can hand out
  Sets,             \* backup labels that can be restored
  Live,             \* data volume as the running database last left it
  Torn,             \* data volume half overwritten by a restore
  None,             \* no label, no container
  CarefulOperator   \* the operator starts db only if no restore is at work

ASSUME ConstantsAssumption ==
  /\ CarefulOperator \in BOOLEAN
  /\ None \notin OneShots \cup Sets
  /\ Live \notin Sets /\ Torn \notin Sets /\ Live # Torn

VARIABLES
  admin,                \* "up" or "down": the admin process
  pc,                   \* where each request, then its goroutine, stands
  label,                \* req.Set of each request
  one,                  \* created.ID: the one-shot container of each goroutine
  backupRunning,        \* the flags of pgbackrest.go, of the same names
  backupOK,             \* backupState.OK
  pgbrRestoreRunning,
  pgbrRestoreState,     \* its Phase and Set
  stanzaCreateRunning,
  restartRunning,       \* the flag of restart.go
  db,                   \* "running" or "stopped": the db container
  data,                 \* what the data volume holds
  cstate,               \* the labelled one-shot containers the daemon knows
  cset,                 \* the --set each of them was created with
  tangled,              \* containers that ran while something else wrote
  proc,                 \* the pgbackrest process each request started in db
  late,                 \* requests whose orphan check a container has overtaken
  raced                 \* one of them was accepted beside a running container

\* late and raced are history: no action reads them.  They name the race that
\* the code leaves open, an orphan list read before the lock and used under it.
raceVars == <<late, raced>>
opVars == <<pc, label, one>>
flagVars == <<backupRunning, backupOK, pgbrRestoreRunning, pgbrRestoreState,
              stanzaCreateRunning>>
volumeVars == <<db, data, cstate, cset, tangled>>
vars == <<admin, opVars, flagVars, restartRunning, volumeVars, proc, raceVars>>

-------------------------------------------------------------------------------
(* Program counters *)

\* Goroutine of an accepted restore: each point is a call it is about to make.
BeforeStop == {"find", "inspect", "stop"}
Cleanup == {"cleanup_ok", "cleanup_failed"}
DbDown == {"create", "start", "wait", "logs", "postcheck", "startdb"} \cup Cleanup
RestorePCs == BeforeStop \cup DbDown \cup {"succeed", "fail"}

BackupPCs == {"backup", "backup_wait", "backup_ok", "backup_err"}
StanzaPCs == {"stanza", "stanza_wait"}
HandlerPCs == {"check", "lock"}
PCs == {"idle"} \cup HandlerPCs \cup RestorePCs \cup BackupPCs \cup StanzaPCs

Phases == {"none", "stopping", "restoring", "starting", "done", "error"}
CStates == {"absent", "created", "running", "exited_ok", "exited_failed"}
Contents == Sets \cup {Live, Torn}
NoRestore == [phase |-> "none", set |-> None]

\* ListContainersByLabel: every labelled container, in whatever state.
Present == {c \in OneShots : cstate[c] # "absent"}
Running == {c \in OneShots : cstate[c] = "running"}

\* A pgbackrest process that is still at work inside the db container.
Working == {r \in Requests : proc[r] \in {"backup", "stanza"}}

TypeOK ==
  /\ admin \in {"up", "down"}
  /\ pc \in [Requests -> PCs]
  /\ label \in [Requests -> Sets \cup {None}]
  /\ one \in [Requests -> OneShots \cup {None}]
  /\ backupRunning \in BOOLEAN /\ backupOK \in BOOLEAN
  /\ pgbrRestoreRunning \in BOOLEAN
  /\ pgbrRestoreState \in [phase : Phases, set : Sets \cup {None}]
  /\ stanzaCreateRunning \in BOOLEAN /\ restartRunning \in BOOLEAN
  /\ db \in {"running", "stopped"}
  /\ data \in Contents
  /\ cstate \in [OneShots -> CStates]
  /\ cset \in [OneShots -> Sets \cup {None}]
  /\ tangled \subseteq OneShots
  /\ proc \in [Requests -> {"none", "backup", "stanza", "ok", "failed"}]
  /\ late \subseteq {r \in Requests : pc[r] = "lock"} /\ raced \in BOOLEAN

-------------------------------------------------------------------------------
(* Initial state: the stack is up and nothing is going on. *)

IdleProcess ==
  /\ pc = [r \in Requests |-> "idle"]
  /\ label = [r \in Requests |-> None]
  /\ one = [r \in Requests |-> None]
  /\ backupRunning = FALSE /\ backupOK = FALSE
  /\ pgbrRestoreRunning = FALSE /\ pgbrRestoreState = NoRestore
  /\ stanzaCreateRunning = FALSE /\ restartRunning = FALSE

Init ==
  /\ admin = "up"
  /\ IdleProcess
  /\ db = "running" /\ data = Live
  /\ cstate = [c \in OneShots |-> "absent"]
  /\ cset = [c \in OneShots |-> None]
  /\ tangled = {}
  /\ proc = [r \in Requests |-> "none"]
  /\ late = {} /\ raced = FALSE

Goto(r, p) == pc' = [pc EXCEPT ![r] = p]
Dismiss(r) == Goto(r, "idle") /\ label' = [label EXCEPT ![r] = None]
SetPhase(p) == pgbrRestoreState' = [pgbrRestoreState EXCEPT !.phase = p]

-------------------------------------------------------------------------------
(* HandlePgbackrestRestore, in the request *)

\* The request carries a well-formed label; a malformed one is answered 400.
RestoreRequested(r, s) ==
  /\ admin = "up" /\ pc[r] = "idle" /\ r \notin Working
  /\ Goto(r, "check")
  /\ label' = [label EXCEPT ![r] = s]
  /\ UNCHANGED <<admin, one, flagVars, restartRunning, volumeVars, proc,
                 raceVars>>

OrphansIgnored == TRUE
NoOrphans == Present = {}

\* The orphan check, before backupMu is taken: 500 if the list call fails (or
\* the client is gone), 409 if it names any container.
OrphanCheck(r) ==
  /\ pc[r] = "check"
  /\ \/ Dismiss(r)
     \/ NoOrphans /\ Goto(r, "lock") /\ UNCHANGED label
  /\ UNCHANGED <<admin, one, flagVars, restartRunning, volumeVars, proc,
                 raceVars>>

\* Faulty variants of a definition precede it; each is a slip that some property
\* must notice.
RestoreIgnoresRestore == ~backupRunning
RestoreIgnoresBackup == ~pgbrRestoreRunning
CanStartRestore == ~pgbrRestoreRunning /\ ~backupRunning

AcceptedAsIdle(s) == [phase |-> "idle", set |-> s]
Accepted(s) == [phase |-> "stopping", set |-> s]

\* Under backupMu: 409 if an operation is running, else claim and go.  The orphan
\* list is not read again, so it may be old (raced).
LockForRestore(r) ==
  /\ pc[r] = "lock"
  /\ \/ /\ CanStartRestore
        /\ pgbrRestoreRunning' = TRUE
        /\ pgbrRestoreState' = Accepted(label[r])
        /\ Goto(r, "find") /\ UNCHANGED label
        /\ raced' = (raced \/ (r \in late /\ Running # {}))
     \/ /\ ~CanStartRestore
        /\ Dismiss(r)
        /\ UNCHANGED <<pgbrRestoreRunning, pgbrRestoreState, raced>>
  /\ late' = late \ {r}
  /\ UNCHANGED <<admin, one, backupRunning, backupOK,
                 stanzaCreateRunning, restartRunning, volumeVars, proc>>

-------------------------------------------------------------------------------
(* The goroutine of an accepted restore *)

\* FindContainerID, then InspectContainer and extractRestoreSpec: nothing
\* changes, and either may fail.
ReadDbSpec(r) ==
  /\ \/ pc[r] = "find" /\ Goto(r, "inspect")
     \/ pc[r] = "inspect" /\ Goto(r, "stop")
     \/ pc[r] \in {"find", "inspect"} /\ Goto(r, "fail")
  /\ UNCHANGED <<admin, label, one, flagVars, restartRunning, volumeVars, proc,
                 raceVars>>

\* The db container stops; the pgbackrest processes inside it die with it.
DbStops ==
  /\ db' = "stopped"
  /\ proc' = [r \in Requests |-> IF r \in Working THEN "failed" ELSE proc[r]]

\* Faulty: a failed stop is treated as done.
StopDbIgnoringError(r) ==
  /\ pc[r] = "stop"
  /\ DbStops \/ UNCHANGED <<db, proc>>
  /\ SetPhase("restoring") /\ Goto(r, "create")
  /\ UNCHANGED <<admin, label, one, backupRunning, backupOK,
                 pgbrRestoreRunning, stanzaCreateRunning, restartRunning,
                 data, cstate, cset, tangled, raceVars>>

\* StopContainer, then setPhase("restoring").
StopDb(r) ==
  /\ pc[r] = "stop"
  /\ \/ DbStops /\ SetPhase("restoring") /\ Goto(r, "create")
     \/ DbStops /\ UNCHANGED pgbrRestoreState /\ Goto(r, "fail")
     \/ UNCHANGED <<db, proc, pgbrRestoreState>> /\ Goto(r, "fail")
  /\ UNCHANGED <<admin, label, one, backupRunning, backupOK,
                 pgbrRestoreRunning, stanzaCreateRunning, restartRunning,
                 data, cstate, cset, tangled, raceVars>>

\* RunOneShot, step 1.  If the answer is lost the container stays behind:
\* its ID is unknown, so nothing removes it.
CreateOneShot(r) ==
  /\ pc[r] = "create"
  /\ \/ /\ Goto(r, "fail")
        /\ UNCHANGED <<one, cstate, cset, late>>
     \/ \E c \in OneShots \ Present :
          /\ cstate' = [cstate EXCEPT ![c] = "created"]
          /\ cset' = [cset EXCEPT ![c] = label[r]]
          /\ late' = {q \in Requests : pc[q] = "lock"}
          /\ \/ Goto(r, "start") /\ one' = [one EXCEPT ![r] = c]
             \/ Goto(r, "fail") /\ UNCHANGED one
  /\ UNCHANGED <<admin, label, flagVars, restartRunning, db, data, tangled, proc,
                 raced>>

\* From now on these containers do not write alone.
Entangle(S) == tangled' = tangled \cup S

\* RunOneShot, step 2.
StartOneShot(r) ==
  /\ pc[r] = "start"
  /\ \/ /\ Goto(r, "cleanup_failed")
        /\ UNCHANGED <<cstate, tangled>>
     \/ /\ cstate[one[r]] = "created"
        /\ cstate' = [cstate EXCEPT ![one[r]] = "running"]
        /\ IF Running # {} \/ db = "running"
             THEN Entangle(Running \cup {one[r]})
             ELSE tangled' = tangled \ {one[r]}
        /\ Goto(r, "wait") \/ Goto(r, "cleanup_failed")
  /\ UNCHANGED <<admin, label, one, flagVars, restartRunning, db, data, cset, proc,
                 raceVars>>

\* Faulty: the exit code is not looked at.
WaitOneShotIgnoringCode(r) ==
  /\ pc[r] = "wait"
  /\ \/ cstate[one[r]] \in {"exited_ok", "exited_failed"} /\ Goto(r, "logs")
     \/ Goto(r, "cleanup_failed")
  /\ UNCHANGED <<admin, label, one, flagVars, restartRunning, volumeVars, proc,
                 raceVars>>

\* RunOneShot, step 3: the exit code, or an error (the 4-hour deadline, a
\* broken connection).  A nonzero code is logged and cleaned up like an error.
WaitOneShot(r) ==
  /\ pc[r] = "wait"
  /\ \/ cstate[one[r]] = "exited_ok" /\ Goto(r, "logs")
     \/ Goto(r, "cleanup_failed")
  /\ UNCHANGED <<admin, label, one, flagVars, restartRunning, volumeVars, proc,
                 raceVars>>

\* RunOneShot, step 4.
CollectLogs(r) ==
  /\ pc[r] = "logs"
  /\ Goto(r, "cleanup_ok") \/ Goto(r, "cleanup_failed")
  /\ UNCHANGED <<admin, label, one, flagVars, restartRunning, volumeVars, proc,
                 raceVars>>

\* Faulty: the error of RunOneShot is dropped.
AfterCleanupAlways(r) == "postcheck"
AfterCleanup(r) == IF pc[r] = "cleanup_ok" THEN "postcheck" ELSE "fail"

\* The deferred force-remove, whose failure is only logged; then RunOneShot
\* returns.
RemoveOneShot(r) ==
  /\ pc[r] \in Cleanup
  /\ \/ /\ cstate' = [cstate EXCEPT ![one[r]] = "absent"]
        /\ cset' = [cset EXCEPT ![one[r]] = None]
        /\ tangled' = tangled \ {one[r]}
     \/ UNCHANGED <<cstate, cset, tangled>>
  /\ one' = [one EXCEPT ![r] = None]
  /\ Goto(r, AfterCleanup(r))
  /\ UNCHANGED <<admin, label, flagVars, restartRunning, db, data, proc,
                 raceVars>>

NoneRemaining == Present = {}

\* Faulty: a failed check returns without finish.
PostCheckSilent(r) ==
  /\ pc[r] = "postcheck"
  /\ \/ Goto(r, "idle") /\ UNCHANGED pgbrRestoreState
     \/ NoneRemaining /\ SetPhase("starting") /\ Goto(r, "startdb")
  /\ UNCHANGED <<admin, label, one, backupRunning, backupOK,
                 pgbrRestoreRunning, stanzaCreateRunning, restartRunning,
                 volumeVars, proc, raceVars>>

\* The post-run check, then setPhase("starting").
PostCheck(r) ==
  /\ pc[r] = "postcheck"
  /\ \/ Goto(r, "fail") /\ UNCHANGED pgbrRestoreState
     \/ NoneRemaining /\ SetPhase("starting") /\ Goto(r, "startdb")
  /\ UNCHANGED <<admin, label, one, backupRunning, backupOK,
                 pgbrRestoreRunning, stanzaCreateRunning, restartRunning,
                 volumeVars, proc, raceVars>>

\* The db container starts on whatever the volume holds.
DbStarts ==
  /\ db' = "running"
  /\ tangled' = tangled \cup Running

\* StartContainer, whose client gives up after 30 seconds.
StartDb(r) ==
  /\ pc[r] = "startdb"
  /\ \/ DbStarts /\ Goto(r, "succeed")
     \/ DbStarts /\ Goto(r, "fail")
     \/ UNCHANGED <<db, tangled>> /\ Goto(r, "fail")
  /\ UNCHANGED <<admin, label, one, flagVars, restartRunning, data, cstate,
                 cset, proc, raceVars>>

\* Faulty: finish gives the slot back on success only.
FinishRestoreKeepingFlag(r) ==
  /\ pc[r] \in {"succeed", "fail"}
  /\ pgbrRestoreRunning' = (pc[r] = "fail")
  /\ SetPhase(IF pc[r] = "succeed" THEN "done" ELSE "error")
  /\ Dismiss(r)
  /\ UNCHANGED <<admin, one, backupRunning, backupOK, stanzaCreateRunning,
                 restartRunning, volumeVars, proc, raceVars>>

\* finish(ok, phase, ...), under backupMu.
FinishRestore(r) ==
  /\ pc[r] \in {"succeed", "fail"}
  /\ pgbrRestoreRunning' = FALSE
  /\ SetPhase(IF pc[r] = "succeed" THEN "done" ELSE "error")
  /\ Dismiss(r)
  /\ UNCHANGED <<admin, one, backupRunning, backupOK, stanzaCreateRunning,
                 restartRunning, volumeVars, proc, raceVars>>

-------------------------------------------------------------------------------
(* HandlePgbackrestBackup and HandlePgbackrestStanzaCreate *)

BackupIgnoresRestore == ~backupRunning
CanStartBackup == ~backupRunning /\ ~pgbrRestoreRunning

\* Under backupMu; otherwise 409 and nothing changes.
BackupRequested(r) ==
  /\ admin = "up" /\ pc[r] = "idle" /\ r \notin Working
  /\ CanStartBackup
  /\ backupRunning' = TRUE /\ backupOK' = FALSE
  /\ Goto(r, "backup")
  /\ UNCHANGED <<admin, label, one, pgbrRestoreRunning, pgbrRestoreState,
                 stanzaCreateRunning, restartRunning, volumeVars, proc,
                 raceVars>>

\* CompareAndSwap(false, true) on stanzaCreateRunning; otherwise 409.
StanzaCreateRequested(r) ==
  /\ admin = "up" /\ pc[r] = "idle" /\ r \notin Working
  /\ ~stanzaCreateRunning
  /\ stanzaCreateRunning' = TRUE
  /\ Goto(r, "stanza")
  /\ UNCHANGED <<admin, label, one, backupRunning, backupOK, pgbrRestoreRunning,
                 pgbrRestoreState, restartRunning, volumeVars, proc, raceVars>>

\* pgBackRest takes its lock in the db container or exits at once.
Spawned(kind) == IF Working = {} THEN kind ELSE "failed"

\* Exec, up to the start of the process: it needs a running container.
ExecStart(r) ==
  LET kind  == IF pc[r] = "backup" THEN "backup" ELSE "stanza"
      after == IF pc[r] = "backup" THEN "backup_wait" ELSE "stanza_wait"
      error == IF pc[r] = "backup" THEN "backup_err" ELSE "stanza_wait"
  IN  /\ pc[r] \in {"backup", "stanza"}
      /\ \/ Goto(r, error) /\ proc' = [proc EXCEPT ![r] = "failed"]
         \/ /\ db = "running"
            /\ proc' = [proc EXCEPT ![r] = Spawned(kind)]
            /\ Goto(r, after) \/ Goto(r, error)
      /\ UNCHANGED <<admin, label, one, flagVars, restartRunning, volumeVars,
                     raceVars>>

\* Exec, to its return in the backup goroutine: the exit code, or an error (the
\* 4-hour deadline) while the process may go on.
BackupExecReturns(r) ==
  /\ pc[r] = "backup_wait"
  /\ \/ proc[r] = "ok" /\ Goto(r, "backup_ok")
     \/ Goto(r, "backup_err")
  /\ UNCHANGED <<admin, label, one, flagVars, restartRunning, volumeVars, proc,
                 raceVars>>

\* A process that has exited is forgotten with its exec.
Reap(r) == proc' = [proc EXCEPT ![r] = IF r \in Working THEN @ ELSE "none"]

\* The last part of the backup goroutine, under backupMu.
FinishBackup(r) ==
  /\ pc[r] \in {"backup_ok", "backup_err"}
  /\ backupRunning' = FALSE
  /\ backupOK' = (pc[r] = "backup_ok")
  /\ Goto(r, "idle")
  /\ Reap(r)
  /\ UNCHANGED <<admin, label, one, pgbrRestoreRunning, pgbrRestoreState,
                 stanzaCreateRunning, restartRunning, volumeVars, raceVars>>

\* stanza-create answers with the exit code, or the request ends first (the
\* client goes away, 2 minutes pass); the deferred Store(false) runs.
FinishStanzaCreate(r) ==
  /\ pc[r] = "stanza_wait"
  /\ stanzaCreateRunning' = FALSE
  /\ Goto(r, "idle")
  /\ Reap(r)
  /\ UNCHANGED <<admin, label, one, backupRunning, backupOK, pgbrRestoreRunning,
                 pgbrRestoreState, restartRunning, volumeVars, raceVars>>

-------------------------------------------------------------------------------
(* HandleRestart: docker compose up -d --no-deps gotrue gateway *)

RestartRequested ==
  /\ admin = "up" /\ ~restartRunning
  /\ restartRunning' = TRUE
  /\ UNCHANGED <<admin, opVars, flagVars, volumeVars, proc, raceVars>>

\* Faulty: without --no-deps.
ComposeStartsWithDeps == {"gotrue", "gateway", "rest", "admin", "db"}
ComposeStarts == {"gotrue", "gateway"}

\* The goroutine runs compose, whose outcome it only logs, and resets the flag.
ComposeUp ==
  /\ restartRunning
  /\ restartRunning' = FALSE
  /\ IF "db" \in ComposeStarts THEN DbStarts ELSE UNCHANGED <<db, tangled>>
  /\ UNCHANGED <<admin, opVars, flagVars, data, cstate, cset, proc, raceVars>>

-------------------------------------------------------------------------------
(* The admin process *)

\* The process dies: its goroutines and package variables are gone.
ProcessDies ==
  /\ admin' = "down"
  /\ pc' = [r \in Requests |-> "idle"]
  /\ label' = [r \in Requests |-> None]
  /\ one' = [r \in Requests |-> None]
  /\ backupRunning' = FALSE /\ backupOK' = FALSE
  /\ pgbrRestoreRunning' = FALSE /\ pgbrRestoreState' = NoRestore
  /\ stanzaCreateRunning' = FALSE /\ restartRunning' = FALSE
  /\ late' = {} /\ UNCHANGED raced

\* The containers and the processes inside db go on.
AdminCrash ==
  /\ admin = "up"
  /\ ProcessDies
  /\ proc' = [r \in Requests |-> IF r \in Working THEN proc[r] ELSE "none"]
  /\ UNCHANGED volumeVars

\* The host goes down and comes back.  restart: unless-stopped brings db back
\* unless it was stopped on purpose; a one-shot (RestartPolicy "no") stays down.
HostReboot ==
  /\ ProcessDies
  /\ proc' = [r \in Requests |-> "none"]
  /\ cstate' = [c \in OneShots |->
                  IF c \in Running THEN "exited_failed" ELSE cstate[c]]
  /\ UNCHANGED <<db, data, cset, tangled>>

\* main: db.NewPools pings the database, and a failure is fatal.
CanBoot == db = "running"
AdminBoot ==
  /\ admin = "down"
  /\ CanBoot
  /\ admin' = "up"
  /\ UNCHANGED <<opVars, flagVars, restartRunning, volumeVars, proc, raceVars>>

-------------------------------------------------------------------------------
(* The pgbackrest processes and the operator *)

ProcExits(r) ==
  /\ r \in Working
  /\ \E result \in {"ok", "failed"} : proc' = [proc EXCEPT ![r] = result]
  /\ UNCHANGED <<admin, opVars, flagVars, restartRunning, volumeVars, raceVars>>

\* restore --delta overwrites files that differ from the backup.
OneShotWrites(c) ==
  /\ c \in Running
  /\ data' = Torn
  /\ UNCHANGED <<admin, opVars, flagVars, restartRunning, db, cstate, cset,
                 tangled, proc, raceVars>>

\* It exits 0 with every file restored, unless something else wrote meanwhile.
OneShotExits(c) ==
  /\ c \in Running
  /\ \/ /\ cstate' = [cstate EXCEPT ![c] = "exited_ok"]
        /\ data' = IF c \in tangled THEN Torn ELSE cset[c]
     \/ /\ cstate' = [cstate EXCEPT ![c] = "exited_failed"]
        /\ UNCHANGED data
  /\ UNCHANGED <<admin, opVars, flagVars, restartRunning, db, cset, tangled, proc,
                 raceVars>>

\* docker rm -f, as the 409 answer and restore.md tell the operator to do.
OperatorRemoves(c) ==
  /\ c \in Present
  /\ cstate' = [cstate EXCEPT ![c] = "absent"]
  /\ cset' = [cset EXCEPT ![c] = None]
  /\ tangled' = tangled \ {c}
  /\ UNCHANGED <<admin, opVars, flagVars, restartRunning, db, data, proc,
                 raceVars>>

\* docker compose up -d db, by hand.
OperatorStartsDb ==
  /\ db = "stopped"
  /\ CarefulOperator => ~pgbrRestoreRunning /\ Running = {}
  /\ DbStarts
  /\ UNCHANGED <<admin, opVars, flagVars, restartRunning, data, cstate, cset, proc,
                 raceVars>>

-------------------------------------------------------------------------------
(* Specification *)

\* The steps of a handler or goroutine: calls that return, with whatever
\* answer, and critical sections.
Goroutine(r) ==
  \/ OrphanCheck(r) \/ LockForRestore(r)
  \/ ReadDbSpec(r) \/ StopDb(r)
  \/ CreateOneShot(r) \/ StartOneShot(r) \/ WaitOneShot(r) \/ CollectLogs(r)
  \/ RemoveOneShot(r) \/ PostCheck(r) \/ StartDb(r) \/ FinishRestore(r)
  \/ ExecStart(r) \/ BackupExecReturns(r) \/ FinishBackup(r)
  \/ FinishStanzaCreate(r)

Arrival(r) ==
  \/ \E s \in Sets : RestoreRequested(r, s)
  \/ BackupRequested(r) \/ StanzaCreateRequested(r)

Next ==
  \/ \E r \in Requests : Arrival(r) \/ Goroutine(r) \/ ProcExits(r)
  \/ \E c \in OneShots :
        OneShotWrites(c) \/ OneShotExits(c) \/ OperatorRemoves(c)
  \/ RestartRequested \/ ComposeUp
  \/ AdminCrash \/ HostReboot \/ AdminBoot
  \/ OperatorStartsDb

Spec == Init /\ [][Next]_vars

\* Every call has a deadline (10 s, 30 s, 120 s, 4 h), so goroutines get on;
\* restart: unless-stopped keeps booting the admin process.  Nothing is assumed
\* of the operator, of the one-shots or of the processes in db.
Fairness ==
  /\ \A r \in Requests : WF_vars(Goroutine(r))
  /\ WF_vars(ComposeUp)
  /\ WF_vars(AdminBoot)

FairSpec == Spec /\ Fairness

-------------------------------------------------------------------------------
(* Safety *)

\* The database never has the data volume open beside a restore container, nor
\* does a pgbackrest process in the db container work beside one, whatever call
\* fails or crashes: pgbackrest.go stops db first, checks before it starts db,
\* and restart.go leaves db alone (--no-deps).
DbNeverBesideRestore == Running # {} => db = "stopped" /\ Working = {}

\* At most one restore container writes the data volume: "starting another
\* restore or touching the db would corrupt the volume" (pgbackrest.go).  A
\* container left by a crash, a lost answer or a failed force-remove is found by
\* the orphan check of every later request; what escapes it is one that was
\* created after the check and before the lock, and still runs at the lock.
OneRestoreContainer == ~raced => \A c, d \in Running : c = d

\* At most one long operation per admin process, and the flags tell the truth
\* about it: each is set exactly while one goroutine of its kind is alive, so
\* no crash, error path or refused request leaks a flag or frees it early.
RestoreGoroutines == {r \in Requests : pc[r] \in RestorePCs}
BackupGoroutines == {r \in Requests : pc[r] \in BackupPCs}
StanzaGoroutines == {r \in Requests : pc[r] \in StanzaPCs}
OneLongOp ==
  /\ \A q, r \in RestoreGoroutines \cup BackupGoroutines : q = r
  /\ \A q, r \in StanzaGoroutines : q = r
  /\ pgbrRestoreRunning <=> RestoreGoroutines # {}
  /\ backupRunning <=> BackupGoroutines # {}
  /\ stanzaCreateRunning <=> StanzaGoroutines # {}

\* When the restore status turns to "done", the database is up on exactly the
\* backup set that was asked for (pgbackrest.go, finish(true, "done")), unless
\* a restore was accepted beside a running container.
DoneMeansRestored ==
  [][pgbrRestoreState.phase # "done" /\ pgbrRestoreState'.phase = "done" /\ ~raced
       => db' = "running" /\ data' = pgbrRestoreState'.set]_vars

\* The program itself never brings the database up on a volume that is not a
\* complete restore, with the same exception: after a failure only the operator
\* starts db.
OnlyRestoredDbStarted ==
  [][~raced /\ db = "stopped" /\ db' = "running"
       => OperatorStartsDb \/ data = pgbrRestoreState.set]_vars

\* The data volume as a lock with one holder (VolumeLock): every step is one of
\* the lock's until a restore is accepted beside a running container.
Volume == INSTANCE VolumeLock WITH
            Db <- "db", Restorers <- OneShots,
            holders <- Running \cup (IF db = "running" THEN {"db"} ELSE {}),
            content <- data
VolumeLockSpec == Volume!Init /\ [][raced \/ Volume!Next]_(Volume!lockVars)

(* Liveness *)

\* An accepted restore gets a verdict, unless the admin process dies.
RestoreGetsVerdict ==
  pgbrRestoreRunning ~> pgbrRestoreState.phase \in {"done", "error"} \/ admin = "down"

\* No operation keeps its slot for ever, so the next one can be accepted.
SlotsAreFreed ==
  /\ pgbrRestoreRunning ~> ~pgbrRestoreRunning
  /\ backupRunning ~> ~backupRunning
  /\ stanzaCreateRunning ~> ~stanzaCreateRunning
  /\ restartRunning ~> ~restartRunning
===============================================================================
