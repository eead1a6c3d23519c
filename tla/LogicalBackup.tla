---------------------------- MODULE LogicalBackup ----------------------------
(***************************************************************************)
(* Logical backups: pg_dump streamed into an S3 bucket on request          *)
(* (handler/backup.go) and on a timer (scheduler/scheduler.go), both by    *)
(* RunPgDump (backup/dump.go), with the retention that prunes the          *)
(* scheduled ones and the operator who deletes backups.  The bucket is     *)
(* what backup/s3.go shows of it: objects under one prefix, replaced and   *)
(* deleted by name, listed page by page.                                   *)
(*                                                                         *)
(* Names are numbers in the order S3 lists their keys: "pgdump-..." before *)
(* FirstScheduled, "scheduled-..." from there on.  A call to S3 is served  *)
(* and answered, served with the answer lost, or not served.  A request    *)
(* may ask for any name, one that was used before or is the scheduler's    *)
(* among them; the default names have no more than a second in them.       *)
(***************************************************************************)
EXTENDS Naturals, FiniteSets

CONSTANTS
  Runs,            \* concurrent requests to run a backup
  Scheduler,       \* the scheduler goroutine
  FirstScheduled,  \* the first name with the prefix "scheduled-"
  LastName,        \* bounds the names
  ClientNames,     \* the names that requests ask for, or get by default
  Retain,          \* BACKUP_RETENTION_COUNT; 0 disables retention
  PageSize,        \* objects in a page of ListObjectsV2
  MaxUploads       \* bounds the uploads, and with them the clock

Names == 1..LastName
Scheduled == FirstScheduled..LastName
Jobs == Runs \cup {Scheduler}

ASSUME ConstantsAssumption ==
  /\ Scheduler \notin Runs
  /\ FirstScheduled \in Nat \ {0} /\ LastName \in Nat
  /\ ClientNames \subseteq Names
  /\ Retain \in Nat /\ PageSize \in Nat \ {0} /\ MaxUploads \in Nat

VARIABLES
  store,     \* the objects in the bucket
  clock,     \* the time of the last upload, which S3 calls LastModified
  pc,        \* where each job stands
  name,      \* the object name of each job, 0 if it has none
  since,     \* the time at which its pg_dump started
  errs,      \* the errors of its upload and of its pg_dump: "upload", "wait"
  lastTick,  \* name of the last scheduled backup
  listed,    \* objects the retention has listed so far
  token,     \* its continuation token, the last name it was given
  kept,      \* scheduled[:retain]
  victims,   \* scheduled[retain:] still to be deleted
  missed,    \* a victim could not be deleted
  touched    \* history: names at work in each job that others deleted or
             \* replaced meanwhile

jobVars == <<pc, name, since, errs>>
pruneVars == <<listed, token, kept, victims, missed>>
vars == <<store, clock, jobVars, lastTick, pruneVars, touched>>

-------------------------------------------------------------------------------
(* The bucket *)

Objects == [name : Names, at : Nat, whole : BOOLEAN, by : Jobs]
NamesIn(S) == {o.name : o \in S}
ScheduledIn(S) == {o \in S : o.name \in Scheduled}

Put(o) == store' = {x \in store : x.name # o.name} \cup {o}
Drop(n) == store' = {x \in store : x.name # n}

\* DeleteObject, whether or not it is served, and whether or not it answers.
MayDrop(n) == Drop(n) \/ UNCHANGED store

\* The page of keys that follows token t.
After(t) == {o \in store : o.name > t}
PageOf(t) ==
  {o \in After(t) : Cardinality({x \in After(t) : x.name < o.name}) < PageSize}

-------------------------------------------------------------------------------
DumpPCs == {"idle", "upload", "wait", "cleanup"}
PrunePCs == {"list", "pick", "prune"}

TypeOK ==
  /\ store \subseteq Objects
  /\ \A x, y \in store : x.name = y.name => x = y
  /\ clock \in Nat
  /\ pc \in [Jobs -> DumpPCs \cup PrunePCs] /\ \A r \in Runs : pc[r] \in DumpPCs
  /\ name \in [Jobs -> Names \cup {0}]
  /\ since \in [Jobs -> Nat]
  /\ errs \in [Jobs -> SUBSET {"upload", "wait"}]
  /\ lastTick \in Nat
  /\ listed \subseteq Objects /\ token \in Nat
  /\ kept \subseteq Objects /\ victims \subseteq Objects
  /\ missed \in BOOLEAN
  /\ touched \in [Jobs -> SUBSET Names]

NothingToPrune == listed = {} /\ token = 0 /\ kept = {} /\ victims = {} /\ missed = FALSE

Init ==
  /\ store = {} /\ clock = 0
  /\ pc = [j \in Jobs |-> "idle"]
  /\ name = [j \in Jobs |-> 0]
  /\ since = [j \in Jobs |-> 0]
  /\ errs = [j \in Jobs |-> {}]
  /\ touched = [j \in Jobs |-> {}]
  /\ lastTick = FirstScheduled - 1
  /\ NothingToPrune

Goto(j, p) == pc' = [pc EXCEPT ![j] = p] /\ UNCHANGED <<name, since, errs>>

\* The job returns; nothing of it is left.
Return(j) ==
  /\ pc' = [pc EXCEPT ![j] = "idle"]
  /\ name' = [name EXCEPT ![j] = 0]
  /\ since' = [since EXCEPT ![j] = 0]
  /\ errs' = [errs EXCEPT ![j] = {}]

\* The objects a job is concerned with, by name.
AtWork(j) ==
  {name[j]} \cup (IF j = Scheduler THEN NamesIn(listed) ELSE {})

\* Every job but those in js notes which of its objects this step touches; a job
\* that returns has no more to note.
Noted(js) ==
  LET changed == NamesIn((store \ store') \cup (store' \ store)) IN
  touched' = [j \in Jobs |-> IF pc'[j] = "idle" THEN {}
                             ELSE IF j \in js THEN touched[j]
                             ELSE touched[j] \cup (changed \cap AtWork(j))]

-------------------------------------------------------------------------------
(* RunPgDump: pg_dump starts *)

DumpStarts(j, n) ==
  /\ pc[j] = "idle" /\ clock < MaxUploads
  /\ pc' = [pc EXCEPT ![j] = "upload"]
  /\ name' = [name EXCEPT ![j] = n]
  /\ since' = [since EXCEPT ![j] = clock]
  /\ UNCHANGED <<store, clock, errs, pruneVars, touched>>

\* HandleBackupRun: the name is the client's, which may be any, or the time in
\* seconds.
BackupRequested(r, n) ==
  /\ n \in ClientNames
  /\ DumpStarts(r, n)
  /\ UNCHANGED lastTick

\* Scheduler.tick: the timer is only set again when tick returns, so ticks do
\* not overlap, and each has a later second in its name.
Tick ==
  /\ lastTick < LastName
  /\ lastTick' = lastTick + 1
  /\ DumpStarts(Scheduler, lastTick')

-------------------------------------------------------------------------------
(* RunPgDump: the upload reads pg_dump's output to its end *)

\* The object appears when the upload completes.  It is whole if pg_dump wrote
\* its archive to the end; a pg_dump that dies ends the stream just the same.
Uploaded(j, whole) ==
  /\ clock' = clock + 1
  /\ Put([name |-> name[j], at |-> clock', whole |-> whole, by |-> j])

UploadReturns(j) ==
  /\ pc[j] = "upload"
  /\ pc' = [pc EXCEPT ![j] = "wait"]
  /\ \E e \in SUBSET {"upload", "wait"} :
       /\ errs' = [errs EXCEPT ![j] = e]
       /\ \/ \E whole \in BOOLEAN : (~whole => "wait" \in e) /\ Uploaded(j, whole)
          \/ "upload" \in e /\ UNCHANGED <<store, clock>>
  /\ UNCHANGED <<name, since, lastTick, pruneVars>>

\* Faulty variants precede what they are slips of.
\* Faulty: only the upload's error counts.
SucceededIfUploaded(j) == "upload" \notin errs[j]
Succeeded(j) == errs[j] = {}

\* Faulty: every backup prunes.
SucceedsAndPrunes(j) == IF Retain > 0 THEN Goto(j, "list") ELSE Return(j)

\* RunPgDump succeeded: the scheduler prunes, if it is told to.
Succeeds(j) ==
  IF j = Scheduler /\ Retain > 0 THEN Goto(j, "list") ELSE Return(j)

\* Faulty: a failed dump returns without the clean-up.
DumpFailsLeavingPartial(j) == Return(j)
DumpFails(j) == Goto(j, "cleanup")

\* cmd.Wait returns.
DumpEnds(j) ==
  /\ pc[j] = "wait"
  /\ IF Succeeded(j) THEN Succeeds(j) ELSE DumpFails(j)
  /\ UNCHANGED <<store, clock, lastTick, pruneVars>>

\* The best-effort delete of the object, under a context of its own; then the
\* error is returned, and the failure to delete with it.
CleanUp(j, failed) ==
  /\ pc[j] = "cleanup"
  /\ IF failed THEN MayDrop(name[j]) ELSE Drop(name[j])
  /\ Return(j)
  /\ UNCHANGED <<clock, lastTick, pruneVars>>

-------------------------------------------------------------------------------
(* Retention *)

\* Faulty: one page only.
OnePage(t) == FALSE
Truncated(t) == After(t) # PageOf(t)

ForgetListing ==
  /\ listed' = {} /\ token' = 0 /\ kept' = {} /\ victims' = {} /\ missed' = FALSE

PruneReturns == ForgetListing /\ Return(Scheduler)

\* Client.List, one page; an error ends the prune.
ListPage ==
  /\ pc[Scheduler] = "list"
  /\ \/ PruneReturns
     \/ /\ listed' = listed \cup PageOf(token)
        /\ IF Truncated(token)
             THEN /\ \E o \in PageOf(token) :
                       /\ \A x \in PageOf(token) : x.name <= o.name
                       /\ token' = o.name
                  /\ UNCHANGED jobVars
             ELSE token' = 0 /\ Goto(Scheduler, "pick")
        /\ UNCHANGED <<kept, victims, missed>>
  /\ UNCHANGED <<store, clock, lastTick>>

WithPrefix(objs) == {o \in objs : o.name \in Scheduled}

\* Faulty: sorted the wrong way round.
SortsFirstIfOlder(x, y) == x.at < y.at
SortsFirst(x, y) == x.at > y.at

\* pickRetentionVictims, by what it returns: S is split into the Retain newest,
\* K, and the rest.  sort.Slice may order equal times either way.
IsHead(K, S) ==
  /\ Cardinality(K) = Retain
  /\ \A k \in K, v \in S \ K : ~SortsFirst(v, k)

PickVictims ==
  /\ pc[Scheduler] = "pick"
  /\ LET S == WithPrefix(listed) IN
       IF Cardinality(S) <= Retain
         THEN PruneReturns
         ELSE /\ \E K \in SUBSET S :
                   IsHead(K, S) /\ kept' = K /\ victims' = S \ K
              /\ Goto(Scheduler, "prune")
              /\ UNCHANGED <<listed, token, missed>>
  /\ UNCHANGED <<store, clock, lastTick>>

\* One round of the loop of prune, newest victim first; a failed delete is
\* logged and the loop goes on.
DeleteVictim ==
  /\ pc[Scheduler] = "prune"
  /\ \E v \in victims, failed \in BOOLEAN :
       /\ \A x \in victims : ~SortsFirst(x, v)
       /\ IF failed THEN MayDrop(v.name) ELSE Drop(v.name)
       /\ missed' = (missed \/ failed)
       /\ victims' = victims \ {v}
  /\ UNCHANGED <<clock, jobVars, lastTick, listed, token, kept>>

PruneEnds ==
  /\ pc[Scheduler] = "prune" /\ victims = {}
  /\ PruneReturns
  /\ UNCHANGED <<store, clock, lastTick>>

-------------------------------------------------------------------------------
(* HandleBackupDelete, and the death of the admin process *)

OperatorDeletes(n) ==
  /\ n \in NamesIn(store)
  /\ Drop(n)
  /\ UNCHANGED <<clock, jobVars, lastTick, pruneVars>>
  /\ Noted({})

\* pg_dump dies with the process; an upload in progress leaves nothing, one
\* that has just completed leaves its object.
AdminCrash ==
  /\ \E j \in Jobs : pc[j] # "idle"
  /\ pc' = [j \in Jobs |-> "idle"]
  /\ name' = [j \in Jobs |-> 0]
  /\ since' = [j \in Jobs |-> 0]
  /\ errs' = [j \in Jobs |-> {}]
  /\ touched' = [j \in Jobs |-> {}]
  /\ ForgetListing
  /\ UNCHANGED <<store, clock, lastTick>>

-------------------------------------------------------------------------------
(* Specification *)

JobStep(j) ==
  /\ UploadReturns(j) \/ DumpEnds(j) \/ \E failed \in BOOLEAN : CleanUp(j, failed)
  /\ Noted({j})
PruneStep ==
  /\ ListPage \/ PickVictims \/ DeleteVictim \/ PruneEnds
  /\ Noted({Scheduler})

Next ==
  \/ \E r \in Runs, n \in Names : BackupRequested(r, n)
  \/ Tick
  \/ \E j \in Jobs : JobStep(j)
  \/ PruneStep
  \/ \E n \in Names : OperatorDeletes(n)
  \/ AdminCrash

Spec == Init /\ [][Next]_vars

-------------------------------------------------------------------------------
(* Safety *)

\* Retention removes an object only from behind the Retain newest scheduled
\* ones: at the very moment of the delete, Retain newer scheduled objects are in
\* the bucket, or were taken or replaced by others since they were listed.  An
\* object that has itself replaced a victim since goes with the victim's name.
RetentionKeepsNewest ==
  [][DeleteVictim =>
       \A o \in store \ store' :
         \/ o.name \in touched[Scheduler]
         \/ Cardinality({x \in kept :
              x.at > o.at /\ (x \in store \/ x.name \in touched[Scheduler])}) >= Retain]_vars

\* A prune that lists and deletes without an error leaves no more than Retain of
\* the scheduler's objects, those included that earlier prunes failed to delete.
PruneCatchesUp ==
  [][pc[Scheduler] \in {"pick", "prune"} /\ pc'[Scheduler] = "idle"
       /\ ~missed /\ ~AdminCrash
       => Cardinality({o \in ScheduledIn(store) : o.by = Scheduler}) <= Retain]_vars

\* "Manual user backups are immune" (scheduler.go): retention never removes an
\* object that a request has made.  Not so: requests may use the prefix.
ManualUntouched ==
  [][DeleteVictim => \A o \in store \ store' : o.by = Scheduler]_vars

\* What a run of j wrote, if it is there.
Written(j) == {o \in store : o.name = name[j] /\ o.by = j /\ o.at > since[j]}

\* A backup reported as made is in the bucket, whole and from that very run,
\* unless others have deleted or replaced it meanwhile.
OkMeansStored ==
  [][\A j \in Jobs : DumpEnds(j) /\ Succeeded(j) =>
       name[j] \in touched[j] \/ \E o \in Written(j) : o.whole]_vars

\* A run that fails leaves nothing of its own in the bucket, or says so.  RunPgDump's
\* comment promises it; HandleBackupRun's, that what a dying pg_dump has uploaded "is
\* left in the bucket", is refuted by it.
FailureLeavesNothing ==
  [][\A j \in Jobs :
       errs[j] # {} /\ pc'[j] = "idle" /\ ~CleanUp(j, TRUE) /\ ~AdminCrash
         => Written(j) \cap store' = {}]_vars

\* "On any failure the partial S3 object is best-effort deleted" (RunPgDump): a failed
\* run deletes nothing but what it wrote.  Not so: it deletes by name.
CleanUpTakesOwn ==
  [][\A j \in Jobs, failed \in BOOLEAN : CleanUp(j, failed) =>
       store \ store' \subseteq Written(j)]_vars
===============================================================================
