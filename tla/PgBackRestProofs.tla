--------------------------- MODULE PgBackRestProofs ---------------------------
(***************************************************************************)
(* Proofs about PgBackRest, for any number of requests, containers and     *)
(* backup labels.                                                          *)
(*                                                                         *)
(*   TypeCorrect        Spec => []TypeOK                                   *)
(*   LongOpsExclude     Spec => []OneLongOp                                *)
(*   DbAndRestoreApart  with a careful operator, Spec => []DbNeverBeside-  *)
(*                      Restore                                            *)
(*   RestoresApart      Spec => []OneRestoreContainer                      *)
(*   StartedIsRestored  Spec => OnlyRestoredDbStarted                      *)
(*   RestoreDone        with a careful operator, Spec => DoneMeansRestored *)
(*   VolumeIsLocked     with a careful operator, PgBackRest implements     *)
(*                      VolumeLock                                         *)
(***************************************************************************)
EXTENDS PgBackRest, TLAPS

-------------------------------------------------------------------------------
(* Type correctness *)

\* TypeOK is inductive with the labels: a request that has been read has one,
\* and so has every container; and a goroutine inside RunOneShot has its ID.
OneShotPCs == {"start", "wait", "logs"} \cup Cleanup
LabelOK ==
  /\ \A r \in Requests : pc[r] \in HandlerPCs \cup RestorePCs => label[r] \in Sets
  /\ \A r \in Requests : pc[r] \in OneShotPCs => one[r] \in OneShots
  /\ \A c \in Present : cset[c] \in Sets

TypeInv == TypeOK /\ LabelOK

\* Every step from a typed state leads to a typed state.
LEMMA TypeStep == TypeInv /\ [Next]_vars => TypeInv'
<1> SUFFICES ASSUME TypeInv, [Next]_vars PROVE TypeInv'
  OBVIOUS
<1> USE ConstantsAssumption
    DEF TypeInv, TypeOK, LabelOK, OneShotPCs, PCs, HandlerPCs, RestorePCs, BeforeStop, DbDown,
        Cleanup, BackupPCs, StanzaPCs, Phases, CStates, Contents, Present, Goto,
        Dismiss, SetPhase, flagVars, volumeVars, opVars, raceVars
<1>l. ASSUME NEW r \in Requests, NEW p, pc' = [pc EXCEPT ![r] = p], pc[r] # "lock", late' = late
      PROVE  late' \subseteq {q \in Requests : pc'[q] = "lock"}
  BY <1>l
<1>1. ASSUME NEW r \in Requests, Arrival(r) PROVE TypeInv'
  <2>1. CASE \E s \in Sets : RestoreRequested(r, s)
    BY <2>1 DEF RestoreRequested
  <2>2. CASE BackupRequested(r)
    <3>1. late' \subseteq {q \in Requests : pc'[q] = "lock"}
      BY <2>2, <1>l DEF BackupRequested
    <3>2. pc' \in [Requests -> PCs] /\ backupRunning' \in BOOLEAN /\ backupOK' \in BOOLEAN
      BY <2>2 DEF BackupRequested
    <3>3. UNCHANGED <<admin, label, one, pgbrRestoreRunning, pgbrRestoreState,
                      stanzaCreateRunning, restartRunning, db, data, cstate, cset, tangled, proc,
                      raced>>
      BY <2>2 DEF BackupRequested
    <3>4. TypeOK'
      BY <3>1, <3>2, <3>3
    <3>5. LabelOK'
      BY <2>2 DEF BackupRequested
    <3> QED
      BY <3>4, <3>5
  <2>3. CASE StanzaCreateRequested(r)
    BY <2>3 DEF StanzaCreateRequested
  <2> QED
    BY <1>1, <2>1, <2>2, <2>3 DEF Arrival
<1>2. ASSUME NEW r \in Requests, Goroutine(r) PROVE TypeInv'
  <2>1. CASE OrphanCheck(r)
    BY <2>1 DEF OrphanCheck
  <2>13. CASE LockForRestore(r)
    <3>1. CASE CanStartRestore
      <4>1. label[r] \in Sets
        BY <2>13 DEF LockForRestore
      <4>2. pgbrRestoreState' \in [phase : Phases, set : Sets \cup {None}]
        BY <2>13, <3>1, <4>1 DEF LockForRestore, Accepted
      <4> QED
        BY <2>13, <3>1, <4>2 DEF LockForRestore
    <3>2. CASE ~CanStartRestore
      BY <2>13, <3>2 DEF LockForRestore
    <3> QED
      BY <3>1, <3>2
  <2>2. CASE ReadDbSpec(r)
    BY <2>2 DEF ReadDbSpec
  <2>3. CASE StopDb(r)
    BY <2>3 DEF StopDb, DbStops
  <2>4. CASE CreateOneShot(r)
    BY <2>4 DEF CreateOneShot
  <2>5. CASE StartOneShot(r)
    <3>1. tangled' \subseteq OneShots
      BY <2>5 DEF StartOneShot, Entangle, Running
    <3>2. QED
      BY <2>5, <3>1 DEF StartOneShot
  <2>6. CASE WaitOneShot(r) \/ CollectLogs(r)
    BY <2>6 DEF WaitOneShot, CollectLogs
  <2>7. CASE RemoveOneShot(r)
    BY <2>7 DEF RemoveOneShot, AfterCleanup
  <2>8. CASE PostCheck(r)
    BY <2>8 DEF PostCheck
  <2>9. CASE StartDb(r)
    BY <2>9 DEF StartDb, DbStarts, Running
  <2>10. CASE FinishRestore(r)
    <3>1. late' \subseteq {q \in Requests : pc'[q] = "lock"}
      BY <2>10, <1>l DEF FinishRestore
    <3>2. pgbrRestoreState' \in [phase : Phases, set : Sets \cup {None}]
      BY <2>10 DEF FinishRestore
    <3>3. /\ pc' \in [Requests -> PCs] /\ label' \in [Requests -> Sets \cup {None}]
          /\ pgbrRestoreRunning' \in BOOLEAN
      BY <2>10 DEF FinishRestore
    <3>4. UNCHANGED <<admin, one, backupRunning, backupOK, stanzaCreateRunning,
                      restartRunning, db, data, cstate, cset, tangled, proc, raced>>
      BY <2>10 DEF FinishRestore
    <3>5. TypeOK'
      BY <3>1, <3>2, <3>3, <3>4
    <3>6. LabelOK'
      BY <2>10 DEF FinishRestore
    <3> QED
      BY <3>5, <3>6
  <2>11. CASE ExecStart(r)
    BY <2>11 DEF ExecStart, Spawned
  <2>12. CASE BackupExecReturns(r)
    BY <2>12 DEF BackupExecReturns
  <2>14. CASE FinishBackup(r)
    <3>1. late' \subseteq {q \in Requests : pc'[q] = "lock"}
      BY <2>14, <1>l DEF FinishBackup
    <3>2. proc' \in [Requests -> {"none", "backup", "stanza", "ok", "failed"}]
      BY <2>14 DEF FinishBackup, Reap
    <3>3. pc' \in [Requests -> PCs] /\ backupRunning' \in BOOLEAN /\ backupOK' \in BOOLEAN
      BY <2>14 DEF FinishBackup
    <3>4. UNCHANGED <<admin, label, one, pgbrRestoreRunning, pgbrRestoreState,
                      stanzaCreateRunning, restartRunning, db, data, cstate, cset, tangled, raced>>
      BY <2>14 DEF FinishBackup
    <3>5. TypeOK'
      BY <3>1, <3>2, <3>3, <3>4
    <3>6. LabelOK'
      BY <2>14 DEF FinishBackup
    <3> QED
      BY <3>5, <3>6
  <2>15. CASE FinishStanzaCreate(r)
    <3>1. proc' \in [Requests -> {"none", "backup", "stanza", "ok", "failed"}]
      BY <2>15 DEF FinishStanzaCreate, Reap
    <3>2. TypeOK'
      <4>1. pc' \in [Requests -> PCs] /\ stanzaCreateRunning' \in BOOLEAN
        BY <2>15 DEF FinishStanzaCreate
      <4>2. UNCHANGED <<admin, label, one, backupRunning, backupOK, pgbrRestoreRunning,
                        pgbrRestoreState, restartRunning, db, data, cstate, cset, tangled,
                        raced>>
        BY <2>15 DEF FinishStanzaCreate
      <4>3. late' \subseteq {q \in Requests : pc'[q] = "lock"}
        BY <2>15, <1>l DEF FinishStanzaCreate
      <4> QED
        BY <3>1, <4>1, <4>2, <4>3
    <3>3. LabelOK'
      BY <2>15 DEF FinishStanzaCreate
    <3> QED
      BY <3>2, <3>3
  <2> QED
    BY <1>2, <2>1, <2>2, <2>3, <2>4, <2>5, <2>6, <2>7, <2>8, <2>9, <2>10, <2>11,
       <2>12, <2>13, <2>14, <2>15 DEF Goroutine
<1>3. ASSUME NEW r \in Requests, ProcExits(r) PROVE TypeInv'
  BY <1>3 DEF ProcExits
<1>4. ASSUME NEW c \in OneShots,
             OneShotWrites(c) \/ OneShotExits(c) \/ OperatorRemoves(c)
      PROVE TypeInv'
  BY <1>4 DEF OneShotWrites, OneShotExits, OperatorRemoves, Running
<1>5. CASE RestartRequested
  BY <1>5 DEF RestartRequested
<1>6. CASE ComposeUp
  <2>1. UNCHANGED <<db, tangled>>
    BY <1>6 DEF ComposeUp, ComposeStarts
  <2>2. restartRunning' \in BOOLEAN
    BY <1>6 DEF ComposeUp
  <2>3. UNCHANGED <<admin, opVars, flagVars, data, cstate, cset, proc, raceVars>>
    BY <1>6 DEF ComposeUp
  <2> QED
    BY <2>1, <2>2, <2>3
<1>7. CASE AdminCrash
  BY <1>7 DEF AdminCrash, ProcessDies, NoRestore
<1>11. CASE HostReboot
  <2>1. cstate' \in [OneShots -> CStates] /\ Present' = Present
    BY <1>11 DEF HostReboot, Running
  <2>2. ProcessDies /\ proc' = [r \in Requests |-> "none"]
        /\ UNCHANGED <<db, data, cset, tangled>>
    BY <1>11 DEF HostReboot
  <2>3. TypeOK'
    BY <2>1, <2>2 DEF ProcessDies, NoRestore
  <2>4. LabelOK'
    BY <2>1, <2>2 DEF ProcessDies
  <2> QED
    BY <2>3, <2>4
<1>8. CASE AdminBoot
  BY <1>8 DEF AdminBoot
<1>9. CASE OperatorStartsDb
  BY <1>9 DEF OperatorStartsDb, DbStarts, Running
<1>10. CASE UNCHANGED vars
  BY <1>10 DEF vars
<1> QED
  BY <1>1, <1>2, <1>3, <1>4, <1>5, <1>6, <1>7, <1>8, <1>9, <1>10, <1>11
     DEF Next

LEMMA TypeInvariant == Spec => []TypeInv
<1>1. Init => TypeInv
  <2> SUFFICES ASSUME Init PROVE TypeOK /\ LabelOK
    BY DEF TypeInv
  <2>1. TypeOK
    BY ConstantsAssumption
       DEF Init, IdleProcess, NoRestore, TypeOK, PCs, Phases, CStates, Contents
  <2>2. LabelOK
    BY DEF Init, IdleProcess, LabelOK, HandlerPCs, RestorePCs, BeforeStop, DbDown,
           Cleanup, OneShotPCs, Present
  <2> QED
    BY <2>1, <2>2
<1> QED
  BY <1>1, TypeStep, PTL DEF Spec

\* The state of the admin process and of the daemon stays within its types.
THEOREM TypeCorrect == Spec => []TypeOK
<1>1. TypeInv => TypeOK
  BY DEF TypeInv
<1> QED
  BY <1>1, TypeInvariant, PTL

-------------------------------------------------------------------------------
(* One long operation at a time *)

\* A step that neither starts nor ends an operation.
KeepsSlots ==
  /\ RestoreGoroutines' = RestoreGoroutines
  /\ BackupGoroutines' = BackupGoroutines
  /\ StanzaGoroutines' = StanzaGoroutines
  /\ UNCHANGED <<pgbrRestoreRunning, backupRunning, stanzaCreateRunning>>

\* Moving a request between two points of the same operation.
LEMMA MoveKeepsSlots ==
  ASSUME TypeOK, NEW r \in Requests, NEW p \in PCs, Goto(r, p),
         pc[r] \in RestorePCs <=> p \in RestorePCs,
         pc[r] \in BackupPCs <=> p \in BackupPCs,
         pc[r] \in StanzaPCs <=> p \in StanzaPCs,
         UNCHANGED <<pgbrRestoreRunning, backupRunning, stanzaCreateRunning>>
  PROVE  KeepsSlots
<1>1. pc' = [pc EXCEPT ![r] = p] /\ pc \in [Requests -> PCs]
  BY DEF Goto, TypeOK
<1>2. \A q \in Requests : /\ pc'[q] \in RestorePCs <=> pc[q] \in RestorePCs
                          /\ pc'[q] \in BackupPCs <=> pc[q] \in BackupPCs
                          /\ pc'[q] \in StanzaPCs <=> pc[q] \in StanzaPCs
  BY <1>1
<1> QED
  BY <1>2 DEF KeepsSlots, RestoreGoroutines, BackupGoroutines, StanzaGoroutines

\* Every step keeps the operations exclusive and the flags true.
LEMMA SlotStep == TypeInv /\ OneLongOp /\ [Next]_vars => OneLongOp'
<1> SUFFICES ASSUME TypeInv, OneLongOp, [Next]_vars PROVE OneLongOp'
  OBVIOUS
<1>t. TypeOK /\ pc \in [Requests -> PCs]
  BY DEF TypeInv, TypeOK
<1>k. KeepsSlots => OneLongOp'
  BY DEF KeepsSlots, OneLongOp
<1> USE DEF PCs, RestorePCs, BeforeStop, DbDown, Cleanup, BackupPCs, StanzaPCs, HandlerPCs
<1>1. ASSUME NEW r \in Requests, Arrival(r) PROVE OneLongOp'
  <2>1. CASE \E s \in Sets : RestoreRequested(r, s)
    <3>1. KeepsSlots
      BY <1>t, <2>1, MoveKeepsSlots DEF RestoreRequested, flagVars
    <3> QED
      BY <3>1, <1>k
  <2>2. CASE BackupRequested(r)
    <3>1. /\ BackupGoroutines' = {r}
          /\ RestoreGoroutines = {} /\ RestoreGoroutines' = {}
          /\ StanzaGoroutines' = StanzaGoroutines
      BY <1>t, <2>2 DEF BackupRequested, CanStartBackup, Goto, OneLongOp,
         RestoreGoroutines, BackupGoroutines, StanzaGoroutines
    <3>2. backupRunning' /\ ~pgbrRestoreRunning' /\ UNCHANGED stanzaCreateRunning
      BY <2>2 DEF BackupRequested, CanStartBackup
    <3> QED
      BY <3>1, <3>2 DEF OneLongOp
  <2>3. CASE StanzaCreateRequested(r)
    <3>1. /\ StanzaGoroutines' = {r}
          /\ RestoreGoroutines' = RestoreGoroutines
          /\ BackupGoroutines' = BackupGoroutines
      BY <1>t, <2>3 DEF StanzaCreateRequested, Goto, OneLongOp,
         RestoreGoroutines, BackupGoroutines, StanzaGoroutines
    <3>2. stanzaCreateRunning' /\ UNCHANGED <<pgbrRestoreRunning, backupRunning>>
      BY <2>3 DEF StanzaCreateRequested
    <3> QED
      BY <3>1, <3>2 DEF OneLongOp
  <2> QED
    BY <1>1, <2>1, <2>2, <2>3 DEF Arrival
<1>2. ASSUME NEW r \in Requests, Goroutine(r) PROVE OneLongOp'
  <2>1. CASE LockForRestore(r) /\ CanStartRestore
    <3>1. /\ RestoreGoroutines' = {r}
          /\ BackupGoroutines = {} /\ BackupGoroutines' = {}
          /\ StanzaGoroutines' = StanzaGoroutines
      BY <1>t, <2>1 DEF LockForRestore, CanStartRestore, Goto, OneLongOp,
         RestoreGoroutines, BackupGoroutines, StanzaGoroutines
    <3>2. pgbrRestoreRunning' /\ ~backupRunning' /\ UNCHANGED stanzaCreateRunning
      BY <2>1 DEF LockForRestore, CanStartRestore
    <3> QED
      BY <3>1, <3>2 DEF OneLongOp
  <2>2. CASE LockForRestore(r) /\ ~CanStartRestore
    <3>1. KeepsSlots
      BY <1>t, <2>2, MoveKeepsSlots DEF LockForRestore, Dismiss
    <3> QED
      BY <3>1, <1>k
  <2>3. CASE FinishRestore(r)
    <3>1. /\ RestoreGoroutines' = {} /\ BackupGoroutines' = BackupGoroutines
          /\ StanzaGoroutines' = StanzaGoroutines
      BY <1>t, <2>3 DEF FinishRestore, Dismiss, Goto, OneLongOp,
         RestoreGoroutines, BackupGoroutines, StanzaGoroutines
    <3>2. ~pgbrRestoreRunning' /\ UNCHANGED <<backupRunning, stanzaCreateRunning>>
      BY <2>3 DEF FinishRestore
    <3> QED
      BY <3>1, <3>2 DEF OneLongOp
  <2>4. CASE FinishBackup(r)
    <3>1. /\ BackupGoroutines' = {} /\ RestoreGoroutines' = RestoreGoroutines
          /\ StanzaGoroutines' = StanzaGoroutines
      BY <1>t, <2>4 DEF FinishBackup, Goto, OneLongOp,
         RestoreGoroutines, BackupGoroutines, StanzaGoroutines
    <3>2. ~backupRunning' /\ UNCHANGED <<pgbrRestoreRunning, stanzaCreateRunning>>
      BY <2>4 DEF FinishBackup
    <3> QED
      BY <3>1, <3>2 DEF OneLongOp
  <2>5. CASE FinishStanzaCreate(r)
    <3>1. /\ StanzaGoroutines' = {} /\ RestoreGoroutines' = RestoreGoroutines
          /\ BackupGoroutines' = BackupGoroutines
      BY <1>t, <2>5 DEF FinishStanzaCreate, Goto, OneLongOp,
         RestoreGoroutines, BackupGoroutines, StanzaGoroutines
    <3>2. ~stanzaCreateRunning' /\ UNCHANGED <<pgbrRestoreRunning, backupRunning>>
      BY <2>5 DEF FinishStanzaCreate
    <3> QED
      BY <3>1, <3>2 DEF OneLongOp
  <2>6. CASE OrphanCheck(r) \/ ReadDbSpec(r)
    <3>1. KeepsSlots
      BY <1>t, <2>6, MoveKeepsSlots DEF OrphanCheck, ReadDbSpec, Dismiss, flagVars
    <3> QED
      BY <3>1, <1>k
  <2>7. CASE StopDb(r) \/ CreateOneShot(r) \/ StartOneShot(r)
    <3>1. KeepsSlots
      BY <1>t, <2>7, MoveKeepsSlots DEF StopDb, CreateOneShot, StartOneShot, flagVars
    <3> QED
      BY <3>1, <1>k
  <2>8. CASE WaitOneShot(r) \/ CollectLogs(r) \/ RemoveOneShot(r)
    <3>1. KeepsSlots
      BY <1>t, <2>8, MoveKeepsSlots
         DEF WaitOneShot, CollectLogs, RemoveOneShot, AfterCleanup, flagVars
    <3> QED
      BY <3>1, <1>k
  <2>9. CASE PostCheck(r) \/ StartDb(r)
    <3>1. KeepsSlots
      BY <1>t, <2>9, MoveKeepsSlots DEF PostCheck, StartDb, flagVars
    <3> QED
      BY <3>1, <1>k
  <2>10. CASE ExecStart(r) \/ BackupExecReturns(r)
    <3>1. KeepsSlots
      BY <1>t, <2>10, MoveKeepsSlots DEF ExecStart, BackupExecReturns, flagVars
    <3> QED
      BY <3>1, <1>k
  <2> QED
    BY <1>2, <2>1, <2>2, <2>3, <2>4, <2>5, <2>6, <2>7, <2>8, <2>9, <2>10
       DEF Goroutine
<1>3. CASE AdminCrash \/ HostReboot
  <2>1. ProcessDies
    BY <1>3 DEF AdminCrash, HostReboot
  <2>2. RestoreGoroutines' = {} /\ BackupGoroutines' = {} /\ StanzaGoroutines' = {}
    BY <2>1 DEF ProcessDies, RestoreGoroutines, BackupGoroutines, StanzaGoroutines
  <2>3. ~pgbrRestoreRunning' /\ ~backupRunning' /\ ~stanzaCreateRunning'
    BY <2>1 DEF ProcessDies
  <2> QED
    BY <2>2, <2>3 DEF OneLongOp
<1>4. CASE UNCHANGED <<pc, flagVars>>
  BY <1>4 DEF flagVars, OneLongOp, RestoreGoroutines, BackupGoroutines, StanzaGoroutines
<1> QED
  <2>1. CASE UNCHANGED vars
    BY <2>1, <1>4 DEF vars, opVars
  <2>2. CASE Next
    BY <2>2, <1>1, <1>2, <1>3, <1>4
       DEF Next, ProcExits, OneShotWrites, OneShotExits, OperatorRemoves,
           RestartRequested, ComposeUp, AdminBoot, OperatorStartsDb, opVars
  <2> QED
    BY <2>1, <2>2

\* At most one backup or restore goroutine lives, and the flags say so.
THEOREM LongOpsExclude == Spec => []OneLongOp
<1>1. Init => OneLongOp
  BY DEF Init, IdleProcess, OneLongOp, RestoreGoroutines, BackupGoroutines,
         StanzaGoroutines, RestorePCs, BeforeStop, DbDown, Cleanup, BackupPCs, StanzaPCs
<1> QED
  BY <1>1, TypeInvariant, SlotStep, PTL DEF Spec

-------------------------------------------------------------------------------
(* The database and a restore container *)

\* From the stop of db to its start a goroutine relies on db being down; when
\* it is about to start db, no restore container runs; and a pgbackrest process
\* lives only as long as its container.
ApartInv ==
  /\ DbNeverBesideRestore
  /\ \A r \in Requests : pc[r] \in DbDown => db = "stopped"
  /\ \A r \in Requests : pc[r] = "startdb" => Running = {}
  /\ Working # {} => db = "running"

\* Two requests cannot both be goroutines of a restore.
LEMMA OneRestorer ==
  ASSUME OneLongOp, NEW q \in Requests, NEW r \in Requests,
         pc[q] \in RestorePCs, pc[r] \in RestorePCs
  PROVE  q = r
BY DEF OneLongOp, RestoreGoroutines

\* With a careful operator every step keeps db and restore containers apart.
LEMMA ApartStep ==
  ASSUME CarefulOperator, TypeInv, OneLongOp, ApartInv, [Next]_vars
  PROVE  ApartInv'
<1>t. TypeOK /\ LabelOK
  BY DEF TypeInv
<1>p. pc \in [Requests -> PCs] /\ cstate \in [OneShots -> CStates]
  BY <1>t DEF TypeOK
\* Steps that move one request to a point with no new obligation, and change
\* neither the containers nor the processes.
<1>m. ASSUME NEW r \in Requests, NEW p \in PCs, Goto(r, p),
             p \in DbDown => db = "stopped", p # "startdb",
             UNCHANGED <<db, cstate, proc>>
      PROVE  ApartInv'
  BY <1>m, <1>p DEF ApartInv, DbNeverBesideRestore, Goto, Running, Working
<1> USE DEF PCs, RestorePCs, BeforeStop, DbDown, Cleanup, BackupPCs, StanzaPCs, HandlerPCs
<1>1. ASSUME NEW r \in Requests, Arrival(r) PROVE ApartInv'
  BY <1>1, <1>m DEF Arrival, RestoreRequested, BackupRequested,
     StanzaCreateRequested, volumeVars
<1>2. ASSUME NEW r \in Requests, Goroutine(r) PROVE ApartInv'
  <2>1. CASE OrphanCheck(r) \/ LockForRestore(r) \/ ReadDbSpec(r)
    BY <2>1, <1>m DEF OrphanCheck, LockForRestore, ReadDbSpec, Dismiss, volumeVars
  <2>2. CASE StopDb(r)
    <3>1. CASE DbStops
      <4>1. db' = "stopped" /\ Working' = {} /\ cstate' = cstate
        BY <2>2, <3>1 DEF StopDb, DbStops, Working
      <4>2. \E p \in {"create", "fail"} : pc' = [pc EXCEPT ![r] = p]
        BY <2>2 DEF StopDb, Goto
      <4> QED
        BY <1>p, <4>1, <4>2 DEF ApartInv, DbNeverBesideRestore, Running
    <3>2. CASE UNCHANGED <<db, proc>> /\ Goto(r, "fail")
      BY <2>2, <3>2, <1>m DEF StopDb
    <3> QED
      BY <2>2, <3>1, <3>2 DEF StopDb
  <2>3. CASE CreateOneShot(r)
    <3>1. db = "stopped" /\ Running' = Running
      BY <2>3, <1>p DEF CreateOneShot, ApartInv, Running, Present, CStates
    <3>2. \E p \in {"start", "fail"} : pc' = [pc EXCEPT ![r] = p]
      BY <2>3 DEF CreateOneShot, Goto
    <3>3. UNCHANGED <<db, proc>>
      BY <2>3 DEF CreateOneShot
    <3> QED
      BY <3>1, <3>2, <3>3, <1>p DEF ApartInv, DbNeverBesideRestore, Working
  <2>4. CASE StartOneShot(r)
    <3>1. db' = "stopped" /\ Working' = {}
      BY <2>4 DEF StartOneShot, ApartInv, Working
    <3>2. \E p \in {"wait", "cleanup_failed"} : pc' = [pc EXCEPT ![r] = p]
      BY <2>4 DEF StartOneShot, Goto
    <3>3. \A q \in Requests : pc'[q] # "startdb"
      BY <2>4, <3>2, <1>p, OneRestorer DEF StartOneShot
    <3> QED
      BY <3>1, <3>3 DEF ApartInv, DbNeverBesideRestore
  <2>5. CASE WaitOneShot(r) \/ CollectLogs(r)
    BY <2>5, <1>m DEF WaitOneShot, CollectLogs, ApartInv, volumeVars
  <2>6. CASE RemoveOneShot(r)
    <3>1. db = "stopped" /\ Running' \subseteq Running
      BY <2>6, <1>p DEF RemoveOneShot, ApartInv, Running
    <3>2. \E p \in {"postcheck", "fail"} : pc' = [pc EXCEPT ![r] = p]
      BY <2>6 DEF RemoveOneShot, AfterCleanup, Goto
    <3>3. UNCHANGED <<db, proc>>
      BY <2>6 DEF RemoveOneShot
    <3> QED
      BY <3>1, <3>2, <3>3, <1>p DEF ApartInv, DbNeverBesideRestore, Working
  <2>7. CASE PostCheck(r)
    <3>1. CASE Goto(r, "fail")
      BY <2>7, <3>1, <1>m DEF PostCheck, volumeVars
    <3>2. CASE NoneRemaining /\ Goto(r, "startdb")
      <4>1. Running = {} /\ db = "stopped"
        BY <2>7, <3>2, <1>p DEF PostCheck, NoneRemaining, Present, Running, ApartInv
      <4>2. UNCHANGED <<db, cstate, proc>>
        BY <2>7 DEF PostCheck, volumeVars
      <4> QED
        BY <3>2, <4>1, <4>2, <1>p
           DEF ApartInv, DbNeverBesideRestore, Goto, Running, Working
    <3> QED
      BY <2>7, <3>1, <3>2 DEF PostCheck
  <2>8. CASE StartDb(r)
    <3>1. Running = {} /\ UNCHANGED <<cstate, proc>>
      BY <2>8 DEF StartDb, ApartInv
    <3>2. \E p \in {"succeed", "fail"} : pc' = [pc EXCEPT ![r] = p]
      BY <2>8 DEF StartDb, Goto
    <3>3. \A q \in Requests : pc'[q] \notin DbDown
      BY <2>8, <3>2, <1>p, OneRestorer DEF StartDb
    <3>4. db' = "running" \/ db' = db
      BY <2>8 DEF StartDb, DbStarts
    <3> QED
      BY <3>1, <3>3, <3>4 DEF ApartInv, DbNeverBesideRestore, Running, Working
  <2>9. CASE FinishRestore(r)
    BY <2>9, <1>m DEF FinishRestore, Dismiss, volumeVars
  <2>10. CASE ExecStart(r)
    <3>1. \E p \in {"backup_wait", "stanza_wait", "backup_err"} :
             pc' = [pc EXCEPT ![r] = p]
      BY <2>10 DEF ExecStart, Goto
    <3>2. UNCHANGED <<db, cstate>>
      BY <2>10 DEF ExecStart, volumeVars
    <3>3. Working' \subseteq Working \/ db = "running"
      BY <2>10, <1>t DEF ExecStart, Working, TypeOK
    <3> QED
      BY <3>1, <3>2, <3>3, <1>p DEF ApartInv, DbNeverBesideRestore, Running
  <2>11. CASE BackupExecReturns(r)
    BY <2>11, <1>m DEF BackupExecReturns, volumeVars
  <2>12. CASE FinishBackup(r) \/ FinishStanzaCreate(r)
    <3>1. pc' = [pc EXCEPT ![r] = "idle"]
      BY <2>12 DEF FinishBackup, FinishStanzaCreate, Goto
    <3>2. UNCHANGED <<db, cstate>>
      BY <2>12 DEF FinishBackup, FinishStanzaCreate, volumeVars
    <3>3. Working' \subseteq Working
      BY <2>12, <1>t DEF FinishBackup, FinishStanzaCreate, Reap, Working, TypeOK
    <3> QED
      BY <3>1, <3>2, <3>3, <1>p DEF ApartInv, DbNeverBesideRestore, Running
  <2> QED
    BY <1>2, <2>1, <2>2, <2>3, <2>4, <2>5, <2>6, <2>7, <2>8, <2>9, <2>10, <2>11,
       <2>12 DEF Goroutine
<1>3. ASSUME NEW r \in Requests, ProcExits(r) PROVE ApartInv'
  <2>1. Working' \subseteq Working /\ UNCHANGED <<pc, db, cstate>>
    BY <1>3, <1>t DEF ProcExits, Working, TypeOK, opVars, volumeVars
  <2> QED
    BY <2>1 DEF ApartInv, DbNeverBesideRestore, Running
<1>4. ASSUME NEW c \in OneShots,
             OneShotWrites(c) \/ OneShotExits(c) \/ OperatorRemoves(c)
      PROVE  ApartInv'
  <2>1. Running' \subseteq Running
    BY <1>4, <1>p DEF OneShotWrites, OneShotExits, OperatorRemoves, Running
  <2>2. UNCHANGED <<pc, db, proc>>
    BY <1>4 DEF OneShotWrites, OneShotExits, OperatorRemoves, opVars
  <2> QED
    BY <2>1, <2>2 DEF ApartInv, DbNeverBesideRestore, Working
<1>5. CASE AdminCrash \/ HostReboot
  <2>1. Working' \subseteq Working /\ Running' \subseteq Running /\ db' = db
    BY <1>5, <1>p, <1>t DEF AdminCrash, HostReboot, Working, Running, volumeVars, TypeOK
  <2>2. \A r \in Requests : pc'[r] = "idle"
    BY <1>5 DEF AdminCrash, HostReboot, ProcessDies
  <2> QED
    BY <2>1, <2>2 DEF ApartInv, DbNeverBesideRestore
<1>6. CASE OperatorStartsDb
  <2>1. RestoreGoroutines = {} /\ Running = {}
    BY <1>6, CarefulOperator DEF OperatorStartsDb, OneLongOp
  <2>2. db' = "running" /\ UNCHANGED <<pc, cstate, proc>>
    BY <1>6 DEF OperatorStartsDb, DbStarts, opVars
  <2> QED
    BY <2>1, <2>2 DEF ApartInv, DbNeverBesideRestore, Running, RestoreGoroutines
<1>7. CASE UNCHANGED <<pc, db, cstate, proc>>
  BY <1>7 DEF ApartInv, DbNeverBesideRestore, Running, Working
<1> QED
  <2>1. CASE UNCHANGED vars
    BY <2>1, <1>7 DEF vars, opVars, volumeVars
  <2>2. CASE RestartRequested \/ ComposeUp \/ AdminBoot
    BY <2>2, <1>7
       DEF RestartRequested, ComposeUp, ComposeStarts, AdminBoot, opVars, volumeVars
  <2>3. CASE Next
    BY <2>3, <2>2, <1>1, <1>2, <1>3, <1>4, <1>5, <1>6 DEF Next
  <2> QED
    BY <2>1, <2>3

LEMMA ApartInvariant ==
  ASSUME CarefulOperator
  PROVE  Spec => []ApartInv
<1>1. Init => ApartInv
  BY DEF Init, IdleProcess, ApartInv, DbNeverBesideRestore, Running, Working, DbDown,
         Cleanup
<1>2. TypeInv /\ OneLongOp /\ ApartInv /\ [Next]_vars => ApartInv'
  BY ApartStep
<1> QED
  BY <1>1, <1>2, TypeInvariant, LongOpsExclude, PTL DEF Spec

\* The database and a restore container never have the volume open together,
\* provided the operator does not start db into a restore.
THEOREM DbAndRestoreApart ==
  ASSUME CarefulOperator
  PROVE  Spec => []DbNeverBesideRestore
<1>1. ApartInv => DbNeverBesideRestore
  BY DEF ApartInv
<1> QED
  BY <1>1, ApartInvariant, PTL

-------------------------------------------------------------------------------
(* Two restore containers *)

\* Where a restore goroutine knows that no restore container runs, unless it was
\* accepted beside one: from the lock to the start of its own, and after its end.
NoContainerPCs ==
  BeforeStop \cup {"create", "start", "logs", "cleanup_ok", "postcheck", "startdb", "succeed"}
Sole ==
  \A r \in Requests :
    /\ pc[r] \in NoContainerPCs => Running = {}
    /\ pc[r] = "wait" => Running \subseteq {one[r]}

\* A request that waits for the lock has seen no container, and none has been
\* created since unless it is late.
Checked == \A r \in Requests : pc[r] = "lock" /\ r \notin late => Present = {}

SoleInv ==
  /\ OneRestoreContainer
  /\ Checked
  /\ ~raced => Sole

\* A race is not forgotten.
LEMMA RacedStays == [Next]_vars /\ raced => raced'
<1> SUFFICES ASSUME [Next]_vars, raced PROVE raced'
  OBVIOUS
<1>1. ASSUME NEW r \in Requests, Goroutine(r) PROVE raced'
  <2>1. CASE LockForRestore(r) \/ CreateOneShot(r)
    BY <2>1 DEF LockForRestore, CreateOneShot
  <2>2. CASE OrphanCheck(r) \/ ReadDbSpec(r) \/ StopDb(r) \/ StartOneShot(r) \/ WaitOneShot(r)
             \/ CollectLogs(r) \/ RemoveOneShot(r)
    BY <2>2 DEF OrphanCheck, ReadDbSpec, StopDb, StartOneShot, WaitOneShot, CollectLogs,
       RemoveOneShot, raceVars
  <2>3. CASE PostCheck(r) \/ StartDb(r) \/ FinishRestore(r) \/ ExecStart(r)
             \/ BackupExecReturns(r) \/ FinishBackup(r) \/ FinishStanzaCreate(r)
    BY <2>3 DEF PostCheck, StartDb, FinishRestore, ExecStart, BackupExecReturns, FinishBackup,
       FinishStanzaCreate, raceVars
  <2> QED
    BY <1>1, <2>1, <2>2, <2>3 DEF Goroutine
<1>2. ASSUME NEW r \in Requests, Arrival(r) \/ ProcExits(r) PROVE raced'
  BY <1>2 DEF Arrival, RestoreRequested, BackupRequested, StanzaCreateRequested, ProcExits,
     raceVars
<1>3. ASSUME NEW c \in OneShots, OneShotWrites(c) \/ OneShotExits(c) \/ OperatorRemoves(c)
      PROVE  raced'
  BY <1>3 DEF OneShotWrites, OneShotExits, OperatorRemoves, raceVars
<1>4. CASE RestartRequested \/ ComposeUp \/ AdminBoot \/ OperatorStartsDb \/ UNCHANGED vars
  BY <1>4 DEF RestartRequested, ComposeUp, AdminBoot, OperatorStartsDb, raceVars, vars
<1>5. CASE AdminCrash \/ HostReboot
  BY <1>5 DEF AdminCrash, HostReboot, ProcessDies
<1> QED
  BY <1>1, <1>2, <1>3, <1>4, <1>5 DEF Next

\* Every step keeps one container at most, unless a request has raced.
LEMMA SoleStep == TypeInv /\ OneLongOp /\ SoleInv /\ [Next]_vars => SoleInv'
<1> SUFFICES ASSUME TypeInv, OneLongOp, SoleInv, [Next]_vars PROVE SoleInv'
  OBVIOUS
<1>t. TypeOK /\ LabelOK
  BY DEF TypeInv
<1>p. /\ pc \in [Requests -> PCs] /\ cstate \in [OneShots -> CStates]
      /\ one \in [Requests -> OneShots \cup {None}]
  BY <1>t DEF TypeOK
<1> USE DEF SoleInv, Sole, Checked, OneRestoreContainer
\* Steps of one request that start no container and lead it to no point with a
\* new obligation.
<1>m. ASSUME NEW r \in Requests, NEW p \in PCs, Goto(r, p), UNCHANGED <<one, raceVars>>,
             Running' \subseteq Running, Present' \subseteq Present,
             p # "wait", p = "lock" => Present' = {},
             p \in NoContainerPCs => raced \/ Running' = {}
      PROVE  SoleInv'
  <2>1. pc' = [pc EXCEPT ![r] = p]
    BY <1>m DEF Goto
  <2> QED
    BY <1>m, <1>p, <2>1 DEF raceVars
\* Containers go, and no request gets on.
<1>g. ASSUME Running' \subseteq Running, Present' \subseteq Present, UNCHANGED <<one, raceVars>>,
             UNCHANGED pc
      PROVE  SoleInv'
  BY <1>g DEF raceVars
<1>c. Running \subseteq Present
  BY DEF Running, Present
<1> USE DEF PCs, RestorePCs, BeforeStop, DbDown, Cleanup, BackupPCs, StanzaPCs, HandlerPCs,
            NoContainerPCs
<1>1. ASSUME NEW r \in Requests, Arrival(r) PROVE SoleInv'
  BY <1>1, <1>m DEF Arrival, RestoreRequested, BackupRequested,
     StanzaCreateRequested, volumeVars, Running, Present
<1>2. ASSUME NEW r \in Requests, Goroutine(r) PROVE SoleInv'
  <2>1. CASE OrphanCheck(r)
    <3>1. CASE NoOrphans /\ Goto(r, "lock")
      <4>1. Present = {} /\ Present' = {} /\ Running' = Running /\ UNCHANGED <<one, raceVars>>
        BY <2>1, <3>1 DEF OrphanCheck, NoOrphans, Present, Running, volumeVars
      <4> QED
        BY <1>m, <3>1, <4>1
    <3>2. CASE Dismiss(r)
      BY <2>1, <3>2, <1>m DEF OrphanCheck, Dismiss, volumeVars, Running, Present
    <3> QED
      BY <2>1, <3>1, <3>2 DEF OrphanCheck
  <2>2. CASE LockForRestore(r)
    <3>1. /\ pc[r] = "lock" /\ late' = late \ {r}
          /\ Running' = Running /\ Present' = Present /\ one' = one
      BY <2>2 DEF LockForRestore, volumeVars, Running, Present
    <3>2. CASE ~CanStartRestore
      <4>1. pc' = [pc EXCEPT ![r] = "idle"] /\ raced' = raced
        BY <2>2, <3>2 DEF LockForRestore, Dismiss, Goto
      <4> QED
        BY <3>1, <4>1, <1>p
    <3>3. CASE CanStartRestore
      <4>1. pc' = [pc EXCEPT ![r] = "find"] /\ raced' = (raced \/ (r \in late /\ Running # {}))
        BY <2>2, <3>3 DEF LockForRestore, Goto
      <4>2. ~raced' => ~raced /\ Running = {}
        BY <3>1, <4>1, <1>c
      <4> QED
        BY <3>1, <4>1, <4>2, <1>p
    <3> QED
      BY <3>2, <3>3
  <2>3. CASE ReadDbSpec(r) \/ FinishRestore(r)
    BY <2>3, <1>m DEF ReadDbSpec, FinishRestore, Dismiss, volumeVars, Running, Present
  <2>4. CASE StopDb(r) \/ StartDb(r)
    BY <2>4, <1>m DEF StopDb, StartDb, Running, Present
  <2>5. CASE CreateOneShot(r)
    <3>0. pc[r] = "create" /\ raced' = raced
      BY <2>5 DEF CreateOneShot
    <3>1. CASE Goto(r, "fail") /\ UNCHANGED <<one, cstate, late>>
      BY <3>0, <3>1, <1>m DEF Running, Present, raceVars
    <3>2. CASE late' = {q \in Requests : pc[q] = "lock"}
      <4>1. Running' = Running /\ (~raced => Running = {})
        BY <2>5, <3>0, <1>p DEF CreateOneShot, Running, Present, CStates
      <4>2. \E p \in {"start", "fail"} : pc' = [pc EXCEPT ![r] = p]
        BY <2>5 DEF CreateOneShot, Goto
      <4>3. \A q \in Requests : pc'[q] # "lock" \/ q \in late'
        BY <3>2, <4>2, <1>p
      <4>4. \A q \in Requests : pc'[q] # "wait"
        <5>1. ASSUME NEW q \in Requests, pc[q] = "wait" PROVE q = r
          BY <3>0, <5>1, OneRestorer
        <5> QED
          BY <4>2, <5>1, <1>p
      <4> QED
        BY <3>0, <4>1, <4>3, <4>4
    <3> QED
      BY <2>5, <3>1, <3>2 DEF CreateOneShot
  <2>6. CASE StartOneShot(r)
    <3>1. pc[r] = "start" /\ one[r] \in OneShots /\ (~raced => Running = {})
      BY <2>6, <1>t DEF StartOneShot, LabelOK, OneShotPCs
    <3>2. /\ ~raced => Running' \subseteq {one[r]}
          /\ Present' = Present /\ UNCHANGED <<one, raceVars>>
      BY <2>6, <3>1, <1>p DEF StartOneShot, Running, Present
    <3>3. \E p \in {"wait", "cleanup_failed"} : pc' = [pc EXCEPT ![r] = p]
      BY <2>6 DEF StartOneShot, Goto
    <3>4. \A q \in Requests : q # r => pc'[q] \notin RestorePCs
      BY <3>1, <3>3, <1>p, OneRestorer
    <3>5. \A q \in Requests : pc'[q] = "lock" => pc[q] = "lock"
      BY <3>3, <1>p
    <3> QED
      BY <3>2, <3>3, <3>4, <3>5, <1>p DEF raceVars
  <2>7. CASE WaitOneShot(r)
    <3>1. /\ pc[r] = "wait" /\ UNCHANGED <<one, cstate, raceVars>> /\ Running' = Running
          /\ Present' = Present /\ (~raced => Running \subseteq {one[r]})
      BY <2>7 DEF WaitOneShot, volumeVars, Running, Present
    <3>2. CASE Goto(r, "cleanup_failed")
      BY <3>1, <3>2, <1>m
    <3>3. CASE cstate[one[r]] = "exited_ok" /\ Goto(r, "logs")
      <4>1. ~raced => Running = {}
        BY <3>1, <3>3 DEF Running
      <4> QED
        BY <3>1, <3>3, <4>1, <1>m
    <3> QED
      BY <2>7, <3>2, <3>3 DEF WaitOneShot
  <2>8. CASE CollectLogs(r)
    BY <2>8, <1>m DEF CollectLogs, volumeVars, Running, Present
  <2>9. CASE RemoveOneShot(r)
    <3>1. Running' \subseteq Running /\ Present' \subseteq Present /\ UNCHANGED raceVars
      BY <2>9, <1>p DEF RemoveOneShot, Running, Present
    <3>2. /\ pc' = [pc EXCEPT ![r] = AfterCleanup(r)] /\ one' = [one EXCEPT ![r] = None]
          /\ AfterCleanup(r) = "fail" \/ (AfterCleanup(r) = "postcheck" /\ pc[r] = "cleanup_ok")
      BY <2>9 DEF RemoveOneShot, Goto, AfterCleanup
    <3>3. \A q \in Requests : q # r => pc'[q] = pc[q] /\ one'[q] = one[q]
      BY <3>2, <1>p
    <3>4. pc'[r] \in {"fail", "postcheck"} /\ (pc'[r] = "postcheck" => pc[r] = "cleanup_ok")
      BY <3>2, <1>p
    <3> QED
      BY <3>1, <3>3, <3>4 DEF raceVars
  <2>10. CASE PostCheck(r)
    BY <2>10, <1>m DEF PostCheck, volumeVars, Running, Present
  <2>11. CASE ExecStart(r) \/ BackupExecReturns(r) \/ FinishBackup(r) \/ FinishStanzaCreate(r)
    BY <2>11, <1>m DEF ExecStart, BackupExecReturns, FinishBackup, FinishStanzaCreate,
       volumeVars, Running, Present
  <2> QED
    BY <1>2, <2>1, <2>2, <2>3, <2>4, <2>5, <2>6, <2>7, <2>8, <2>9, <2>10, <2>11 DEF Goroutine
<1>3. CASE AdminCrash \/ HostReboot
  <2>1. Running' \subseteq Running /\ \A r \in Requests : pc'[r] = "idle"
    BY <1>3, <1>p DEF AdminCrash, HostReboot, ProcessDies, Running, volumeVars
  <2>2. raced' = raced
    BY <1>3 DEF AdminCrash, HostReboot, ProcessDies
  <2> QED
    BY <2>1, <2>2
<1> QED
  <2>1. CASE UNCHANGED vars
    BY <2>1, <1>g DEF vars, opVars, volumeVars, Running, Present
  <2>2. CASE RestartRequested \/ ComposeUp \/ AdminBoot \/ OperatorStartsDb
    BY <2>2, <1>g DEF RestartRequested, ComposeUp, AdminBoot, OperatorStartsDb, opVars,
       volumeVars, Running, Present
  <2>3. CASE \E r \in Requests : ProcExits(r)
    BY <2>3, <1>g DEF ProcExits, opVars, volumeVars, Running, Present
  <2>4. CASE \E c \in OneShots : OneShotWrites(c) \/ OneShotExits(c) \/ OperatorRemoves(c)
    <3>1. Running' \subseteq Running /\ Present' \subseteq Present
      BY <2>4, <1>p DEF OneShotWrites, OneShotExits, OperatorRemoves, Running, Present
    <3>2. UNCHANGED <<pc, one, raceVars>>
      BY <2>4 DEF OneShotWrites, OneShotExits, OperatorRemoves, opVars
    <3> QED
      BY <3>1, <3>2, <1>g
  <2>5. CASE Next
    BY <2>5, <2>2, <2>3, <2>4, <1>1, <1>2, <1>3 DEF Next
  <2> QED
    BY <2>1, <2>5

LEMMA SoleInvariant == Spec => []SoleInv
<1>1. Init => SoleInv
  BY DEF Init, IdleProcess, SoleInv, Sole, Checked, OneRestoreContainer, NoContainerPCs,
         BeforeStop, Running
<1> QED
  BY <1>1, SoleStep, TypeInvariant, LongOpsExclude, PTL DEF Spec

\* At most one restore container writes the volume, whatever call fails, process dies or
\* operator acts, until a restore is accepted beside a container that its orphan check was
\* too early to see.
THEOREM RestoresApart == Spec => []OneRestoreContainer
<1>1. SoleInv => OneRestoreContainer
  BY DEF SoleInv
<1> QED
  BY <1>1, SoleInvariant, PTL

-------------------------------------------------------------------------------
(* What a restore leaves in the volume *)

\* Nobody but the program has started db since it was stopped.
Undisturbed == CarefulOperator \/ db = "stopped"

\* What a restore goroutine can rely on: its container restores the set that was asked
\* for and, undisturbed, writes alone, and once it has exited with success the volume is
\* that set.
RestoredPCs == {"logs", "cleanup_ok", "postcheck", "startdb", "succeed"}
Restored(r) ==
  /\ pc[r] \in RestorePCs => pgbrRestoreState.set = label[r]
  /\ pc[r] \in {"start", "wait"} /\ one[r] \in Present => cset[one[r]] = label[r]
  /\ pc[r] = "wait" /\ one[r] \in Running /\ Undisturbed => one[r] \notin tangled
  /\ pc[r] = "wait" /\ cstate[one[r]] = "exited_ok" /\ Undisturbed => data = label[r]
  /\ pc[r] \in RestoredPCs /\ Undisturbed => data = label[r]
  /\ pc[r] = "succeed" => db = "running"
RestoredInv == \A r \in Requests : Restored(r)

\* A request that is no restore goroutine has nothing to rely on.
LEMMA NoRestoreNothing ==
  ASSUME NEW r \in Requests, pc[r] \notin RestorePCs
  PROVE  Restored(r)
BY DEF Restored, RestoredPCs, RestorePCs, BeforeStop, DbDown, Cleanup

\* Nor does a step disturb it that leaves all it relies on alone.
LEMMA RestoredKept ==
  ASSUME NEW r \in Requests, Restored(r), pc'[r] = pc[r], label'[r] = label[r], one'[r] = one[r],
         UNCHANGED <<pgbrRestoreState, db, data, cstate, cset, tangled>>
  PROVE  Restored(r)'
BY DEF Restored, Present, Running, Undisturbed

\* The steps of a restore goroutine.
LEMMA RestorerStep ==
  ASSUME CarefulOperator => ApartInv, TypeInv, OneLongOp, Sole, RestoredInv,
         NEW r \in Requests, Goroutine(r), pc[r] \in RestorePCs
  PROVE  RestoredInv'
<1>t. TypeOK /\ LabelOK /\ Restored(r)
  BY DEF TypeInv, RestoredInv
<1>p. /\ pc \in [Requests -> PCs] /\ cstate \in [OneShots -> CStates]
      /\ one \in [Requests -> OneShots \cup {None}] /\ cset \in [OneShots -> Sets \cup {None}]
      /\ label \in [Requests -> Sets \cup {None}] /\ tangled \subseteq OneShots
      /\ pgbrRestoreState \in [phase : Phases, set : Sets \cup {None}]
  BY <1>t DEF TypeOK
<1> USE DEF PCs, RestorePCs, BeforeStop, DbDown, Cleanup, BackupPCs, StanzaPCs, HandlerPCs
\* The others are no restore goroutines.
<1>o. ASSUME \A q \in Requests : q # r => pc'[q] = pc[q], Restored(r)' PROVE RestoredInv'
  <2>1. ASSUME NEW q \in Requests, q # r PROVE Restored(q)'
    <3>1. pc'[q] \notin RestorePCs
      BY <1>o, <2>1, OneRestorer
    <3> QED
      BY <3>1 DEF Restored, RestoredPCs
  <2> QED
    BY <1>o, <2>1 DEF RestoredInv
<1>m. ASSUME NEW p, Goto(r, p) PROVE pc'[r] = p /\ \A q \in Requests : q # r => pc'[q] = pc[q]
  BY <1>m, <1>p DEF Goto
<1> USE DEF RestoredPCs, Undisturbed
<1>1. CASE ReadDbSpec(r)
  <2>1. \E p \in {"inspect", "stop", "fail"} : Goto(r, p)
    BY <1>1 DEF ReadDbSpec
  <2>2. UNCHANGED <<pgbrRestoreState, label>>
    BY <1>1 DEF ReadDbSpec, flagVars
  <2>3. Restored(r)'
    BY <1>t, <2>1, <2>2, <1>m DEF Restored
  <2> QED
    BY <2>1, <2>3, <1>m, <1>o
<1>2. CASE StopDb(r)
  <2>1. (\E p \in {"create", "fail"} : Goto(r, p)) /\ label' = label
    BY <1>2 DEF StopDb
  <2>2. pgbrRestoreState'.set = pgbrRestoreState.set
    BY <1>2, <1>p DEF StopDb, SetPhase
  <2>3. Restored(r)'
    BY <1>t, <2>1, <2>2, <1>m DEF Restored
  <2> QED
    BY <2>1, <2>3, <1>m, <1>o
<1>3. CASE CreateOneShot(r)
  <2>1. UNCHANGED <<pgbrRestoreState, label>>
    BY <1>3 DEF CreateOneShot, flagVars
  <2>2. CASE Goto(r, "fail")
    <3>1. Restored(r)'
      BY <1>t, <1>3, <2>1, <2>2, <1>m DEF Restored
    <3> QED
      BY <2>2, <3>1, <1>m, <1>o
  <2>3. CASE Goto(r, "start")
    <3>1. pc'[r] = "start"
      BY <2>3, <1>m
    <3>2. PICK c \in OneShots \ Present :
            cset' = [cset EXCEPT ![c] = label[r]] /\ one' = [one EXCEPT ![r] = c]
      <4>1. ~Goto(r, "fail")
        BY <3>1, <1>m
      <4> QED
        BY <1>3, <4>1 DEF CreateOneShot
    <3>3. one'[r] = one'[r] /\ cset'[one'[r]] = label'[r]
      BY <2>1, <3>2, <1>p
    <3>4. Restored(r)'
      BY <1>3, <1>t, <2>1, <3>1, <3>3 DEF Restored
    <3> QED
      BY <2>3, <3>4, <1>m, <1>o
  <2> QED
    BY <1>3, <2>2, <2>3 DEF CreateOneShot
<1>4. CASE StartOneShot(r)
  <2>1. /\ pc[r] = "start" /\ one[r] \in OneShots /\ Running = {}
        /\ Undisturbed => db = "stopped"
        /\ UNCHANGED <<pgbrRestoreState, label, one, cset, data, db>>
    BY <1>4, <1>t DEF StartOneShot, LabelOK, OneShotPCs, Sole, NoContainerPCs, ApartInv, flagVars
  <2>2. CASE Goto(r, "cleanup_failed")
    <3>1. Restored(r)'
      BY <1>t, <2>1, <2>2, <1>m DEF Restored
    <3> QED
      BY <2>2, <3>1, <1>m, <1>o
  <2>3. CASE Goto(r, "wait")
    <3>1. pc'[r] = "wait"
      BY <2>3, <1>m
    <3>2. /\ cstate[one[r]] = "created" /\ cstate' = [cstate EXCEPT ![one[r]] = "running"]
          /\ Undisturbed => tangled' = tangled \ {one[r]}
      <4>1. ~Goto(r, "cleanup_failed")
        BY <3>1, <1>m
      <4> QED
        BY <1>4, <2>1, <4>1 DEF StartOneShot
    <3>3. cset[one[r]] = label[r]
      BY <2>1, <3>2, <1>t DEF Restored, Present
    <3>4. cstate'[one[r]] = "running" /\ (Undisturbed => one[r] \notin tangled')
      BY <2>1, <3>2, <1>p
    <3>5. Restored(r)'
      BY <1>t, <2>1, <3>1, <3>3, <3>4 DEF Restored
    <3> QED
      BY <2>3, <3>5, <1>m, <1>o
  <2> QED
    BY <1>4, <2>2, <2>3 DEF StartOneShot
<1>5. CASE WaitOneShot(r)
  <2>1. UNCHANGED <<pgbrRestoreState, label, data, db>> /\ pc[r] = "wait"
    BY <1>5 DEF WaitOneShot, flagVars, volumeVars
  <2>2. \/ Goto(r, "cleanup_failed")
        \/ Goto(r, "logs") /\ (Undisturbed => data = label[r])
    BY <1>5, <1>t DEF WaitOneShot, Restored
  <2>3. Restored(r)'
    BY <1>t, <2>1, <2>2, <1>m DEF Restored
  <2> QED
    BY <2>2, <2>3, <1>m, <1>o
<1>6. CASE CollectLogs(r)
  <2>1. UNCHANGED <<pgbrRestoreState, label, data, db>> /\ pc[r] = "logs"
    BY <1>6 DEF CollectLogs, flagVars, volumeVars
  <2>2. \E p \in {"cleanup_ok", "cleanup_failed"} : Goto(r, p)
    BY <1>6 DEF CollectLogs
  <2>3. Restored(r)'
    BY <1>t, <2>1, <2>2, <1>m DEF Restored
  <2> QED
    BY <2>2, <2>3, <1>m, <1>o
<1>7. CASE RemoveOneShot(r)
  <2>1. UNCHANGED <<pgbrRestoreState, label, data, db>> /\ pc[r] \in Cleanup
    BY <1>7 DEF RemoveOneShot, flagVars
  <2>2. Goto(r, AfterCleanup(r))
    BY <1>7 DEF RemoveOneShot
  <2>3. AfterCleanup(r) \in {"postcheck", "fail"} /\ (AfterCleanup(r) = "postcheck" /\ Undisturbed => data = label[r])
    BY <1>t DEF AfterCleanup, Restored
  <2>4. Restored(r)'
    BY <1>t, <2>1, <2>2, <2>3, <1>m DEF Restored
  <2> QED
    BY <2>2, <2>4, <1>m, <1>o
<1>8. CASE PostCheck(r)
  <2>1. UNCHANGED <<label, data, db>> /\ pc[r] = "postcheck"
    BY <1>8 DEF PostCheck, volumeVars
  <2>2. \E p \in {"fail", "startdb"} : Goto(r, p)
    BY <1>8 DEF PostCheck
  <2>3. pgbrRestoreState'.set = pgbrRestoreState.set
    BY <1>8, <1>p DEF PostCheck, SetPhase
  <2>4. Restored(r)'
    BY <1>t, <2>1, <2>2, <2>3, <1>m DEF Restored
  <2> QED
    BY <2>2, <2>4, <1>m, <1>o
<1>9. CASE StartDb(r)
  <2>1. UNCHANGED <<pgbrRestoreState, label, data>> /\ pc[r] = "startdb"
    BY <1>9 DEF StartDb, flagVars
  <2>2. \/ Goto(r, "fail")
        \/ Goto(r, "succeed") /\ db' = "running"
    BY <1>9 DEF StartDb, DbStarts
  <2>4. db' \in {db, "running"}
    BY <1>9 DEF StartDb, DbStarts
  <2>3. Restored(r)'
    BY <1>t, <2>1, <2>2, <2>4, <1>m DEF Restored
  <2> QED
    BY <2>2, <2>3, <1>m, <1>o
<1>10. CASE FinishRestore(r)
  <2>1. Goto(r, "idle")
    BY <1>10 DEF FinishRestore, Dismiss
  <2>2. Restored(r)'
    BY <2>1, <1>m DEF Restored
  <2> QED
    BY <2>1, <2>2, <1>m, <1>o
<1> QED
  BY <1>1, <1>2, <1>3, <1>4, <1>5, <1>6, <1>7, <1>8, <1>9, <1>10
     DEF Goroutine, OrphanCheck, LockForRestore, ExecStart, BackupExecReturns, FinishBackup,
         FinishStanzaCreate

\* The steps of everybody else: a restore starts, an operation of another kind goes on, a
\* container works or is removed, the process dies.
LEMMA RestoredStep ==
  ASSUME CarefulOperator => ApartInv, TypeInv, OneLongOp, Sole, RestoredInv, [Next]_vars
  PROVE  RestoredInv'
<1>t. TypeOK /\ LabelOK /\ \A q \in Requests : Restored(q)
  BY DEF TypeInv, RestoredInv
<1>p. /\ pc \in [Requests -> PCs] /\ cstate \in [OneShots -> CStates]
      /\ one \in [Requests -> OneShots \cup {None}] /\ cset \in [OneShots -> Sets \cup {None}]
      /\ label \in [Requests -> Sets \cup {None}]
      /\ pgbrRestoreState \in [phase : Phases, set : Sets \cup {None}]
  BY <1>t DEF TypeOK
\* A step of a request that neither is nor becomes a restore goroutine.
<1>m. ASSUME NEW r \in Requests, pc'[r] \notin RestorePCs,
             \A q \in Requests \ {r} :
               pc'[q] = pc[q] /\ label'[q] = label[q] /\ one'[q] = one[q],
             UNCHANGED <<pgbrRestoreState, db, data, cstate, cset, tangled>>
      PROVE  RestoredInv'
  <2>1. Restored(r)'
    BY <1>m DEF Restored, RestoredPCs, RestorePCs, BeforeStop, DbDown, Cleanup
  <2>2. ASSUME NEW q \in Requests, q # r PROVE Restored(q)'
    BY <1>m, <1>t, <2>2, RestoredKept
  <2> QED
    BY <2>1, <2>2 DEF RestoredInv
<1>k. ASSUME UNCHANGED <<pc, label, one, pgbrRestoreState, db, data, cstate, cset, tangled>>
      PROVE  RestoredInv'
  BY <1>k, <1>t, RestoredKept DEF RestoredInv
<1>i. ASSUME \A q \in Requests : pc'[q] \notin RestorePCs PROVE RestoredInv'
  BY <1>i DEF RestoredInv, Restored, RestoredPCs, RestorePCs, BeforeStop, DbDown, Cleanup
<1> USE DEF PCs, RestorePCs, BeforeStop, DbDown, Cleanup, BackupPCs, StanzaPCs, HandlerPCs
<1>1. ASSUME NEW r \in Requests, Arrival(r) PROVE RestoredInv'
  <2>1. /\ pc'[r] \notin RestorePCs
        /\ \A q \in Requests \ {r} : pc'[q] = pc[q] /\ label'[q] = label[q] /\ one'[q] = one[q]
    BY <1>1, <1>p DEF Arrival, RestoreRequested, BackupRequested, StanzaCreateRequested, Goto
  <2>2. UNCHANGED <<pgbrRestoreState, db, data, cstate, cset, tangled>>
    BY <1>1 DEF Arrival, RestoreRequested, BackupRequested, StanzaCreateRequested, flagVars,
       volumeVars
  <2> QED
    BY <2>1, <2>2, <1>m
<1>2. ASSUME NEW r \in Requests, LockForRestore(r), CanStartRestore PROVE RestoredInv'
  <2>1. /\ pc'[r] = "find" /\ \A q \in Requests \ {r} : pc'[q] = pc[q]
        /\ label' = label /\ pgbrRestoreState'.set = label[r]
    BY <1>2, <1>p DEF LockForRestore, Goto, Accepted
  <2>2. \A q \in Requests \ {r} : pc'[q] \notin RestorePCs
    BY <1>2, <2>1 DEF CanStartRestore, OneLongOp, RestoreGoroutines
  <2>3. Restored(r)'
    BY <2>1 DEF Restored, RestoredPCs
  <2>4. ASSUME NEW q \in Requests, q # r PROVE Restored(q)'
    BY <2>2, <2>4 DEF Restored, RestoredPCs
  <2> QED
    BY <2>3, <2>4 DEF RestoredInv
<1>3. ASSUME NEW r \in Requests, Goroutine(r), pc[r] \notin RestorePCs,
             ~(LockForRestore(r) /\ CanStartRestore)
      PROVE  RestoredInv'
  <2>1. \/ OrphanCheck(r) \/ (LockForRestore(r) /\ ~CanStartRestore)
        \/ ExecStart(r) \/ BackupExecReturns(r) \/ FinishBackup(r) \/ FinishStanzaCreate(r)
    <3>1. ~ReadDbSpec(r) /\ ~StopDb(r) /\ ~CreateOneShot(r) /\ ~StartOneShot(r)
      BY <1>3 DEF ReadDbSpec, StopDb, CreateOneShot, StartOneShot
    <3>2. ~WaitOneShot(r) /\ ~CollectLogs(r) /\ ~RemoveOneShot(r)
      BY <1>3 DEF WaitOneShot, CollectLogs, RemoveOneShot
    <3>3. ~PostCheck(r) /\ ~StartDb(r) /\ ~FinishRestore(r)
      BY <1>3 DEF PostCheck, StartDb, FinishRestore
    <3>4. \/ OrphanCheck(r) \/ LockForRestore(r)
          \/ ExecStart(r) \/ BackupExecReturns(r) \/ FinishBackup(r) \/ FinishStanzaCreate(r)
      BY <1>3, <3>1, <3>2, <3>3, Zenon DEF Goroutine
    <3> QED
      BY <1>3, <3>4, Zenon
  <2>2. /\ pc'[r] \notin RestorePCs
        /\ \A q \in Requests \ {r} : pc'[q] = pc[q] /\ label'[q] = label[q] /\ one'[q] = one[q]
    BY <2>1, <1>p DEF OrphanCheck, LockForRestore, ExecStart, BackupExecReturns, FinishBackup,
       FinishStanzaCreate, Dismiss, Goto
  <2>3. UNCHANGED <<pgbrRestoreState, db, data, cstate, cset, tangled>>
    BY <2>1 DEF OrphanCheck, LockForRestore, ExecStart, BackupExecReturns, FinishBackup,
       FinishStanzaCreate, flagVars, volumeVars
  <2> QED
    BY <2>2, <2>3, <1>m
<1>4. ASSUME NEW c \in OneShots, OneShotWrites(c) \/ OneShotExits(c) PROVE RestoredInv'
  <2>1. c \in Running /\ UNCHANGED <<pc, label, one, pgbrRestoreState, db, cset, tangled>>
    BY <1>4 DEF OneShotWrites, OneShotExits, opVars, flagVars
  <2>2. ASSUME NEW q \in Requests PROVE Restored(q)'
    <3>1. pc[q] \notin RestoredPCs
      BY <2>1 DEF Sole, NoContainerPCs, RestoredPCs
    <3>2. pc[q] = "wait" => one[q] = c
      BY <2>1 DEF Sole
    <3>3. Present' \subseteq Present /\ pc[q] \notin RestoredPCs
      BY <1>4, <1>p, <3>1 DEF OneShotWrites, OneShotExits, Present, Running
    <3>4. pc[q] = "wait" => cset[c] = label[q] /\ (Undisturbed => c \notin tangled)
      BY <2>1, <3>2, <1>t DEF Restored, Running, Present
    <3>5. pc[q] = "wait" /\ cstate'[one[q]] = "exited_ok" /\ Undisturbed => data' = label[q]
      <4>1. CASE OneShotWrites(c)
        BY <4>1, <2>1, <3>2 DEF OneShotWrites, Running
      <4>2. CASE OneShotExits(c)
        BY <4>2, <2>1, <3>2, <3>4, <1>p DEF OneShotExits, Running
      <4> QED
        BY <1>4, <4>1, <4>2
    <3>6. pc[q] = "wait" /\ one[q] \in Running' /\ Undisturbed => one[q] \notin tangled
      BY <3>2, <3>4
    <3>7. one[q] \in Present' => one[q] \in Present
      BY <3>3
    <3>8. /\ pc[q] \in RestorePCs => pgbrRestoreState.set = label[q]
          /\ pc[q] \in {"start", "wait"} /\ one[q] \in Present => cset[one[q]] = label[q]
          /\ pc[q] = "succeed" => db = "running"
      BY <1>t DEF Restored
    <3> QED
      BY <2>1, <3>1, <3>5, <3>6, <3>7, <3>8 DEF Restored, Undisturbed
  <2> QED
    BY <2>2 DEF RestoredInv
<1>5. ASSUME NEW c \in OneShots, OperatorRemoves(c) PROVE RestoredInv'
  <2>1. UNCHANGED <<pc, label, one, pgbrRestoreState, db, data>>
    BY <1>5 DEF OperatorRemoves, opVars, flagVars
  <2>2. /\ cstate' = [cstate EXCEPT ![c] = "absent"] /\ cset' = [cset EXCEPT ![c] = None]
        /\ tangled' = tangled \ {c}
    BY <1>5 DEF OperatorRemoves
  <2>3. ASSUME NEW q \in Requests, pc[q] \in {"start", "wait"} PROVE Restored(q)'
    <3>1. one[q] \in OneShots /\ Restored(q) /\ cstate[one[q]] \in CStates
      BY <2>3, <1>t, <1>p DEF LabelOK, OneShotPCs
    <3>2. CASE one[q] = c
      <4>1. cstate'[one[q]] = "absent"
        BY <2>2, <3>2, <1>p
      <4> QED
        BY <2>1, <2>3, <3>1, <4>1 DEF Restored, RestoredPCs, Present, Running, Undisturbed
    <3>3. CASE one[q] # c
      <4>1. cstate'[one[q]] = cstate[one[q]] /\ cset'[one[q]] = cset[one[q]]
        BY <2>2, <3>1, <3>3, <1>p
      <4> QED
        BY <2>1, <2>2, <2>3, <3>1, <4>1 DEF Restored, RestoredPCs, Present, Running, Undisturbed
    <3> QED
      BY <3>2, <3>3
  <2>4. ASSUME NEW q \in Requests, pc[q] \notin {"start", "wait"} PROVE Restored(q)'
    BY <1>t, <2>1, <2>4 DEF Restored, Undisturbed
  <2> QED
    BY <2>3, <2>4 DEF RestoredInv
<1>6. CASE AdminCrash \/ HostReboot
  BY <1>6, <1>i DEF AdminCrash, HostReboot, ProcessDies
<1>7. CASE OperatorStartsDb
  <2>1. UNCHANGED <<pc, label, one, pgbrRestoreState, cstate, cset>> /\ db' = "running"
    BY <1>7 DEF OperatorStartsDb, DbStarts, opVars, flagVars
  <2>2. CASE CarefulOperator
    <3>1. RestoreGoroutines = {}
      BY <1>7, <2>2 DEF OperatorStartsDb, OneLongOp
    <3> QED
      BY <2>1, <3>1, <1>i DEF RestoreGoroutines
  <2>3. CASE ~CarefulOperator
    BY <1>t, <2>1, <2>3 DEF RestoredInv, Restored, Undisturbed, Present
  <2> QED
    BY <2>2, <2>3
<1> QED
  <2>1. CASE UNCHANGED vars
    BY <2>1, <1>k DEF vars, opVars, flagVars, volumeVars
  <2>2. CASE RestartRequested \/ ComposeUp \/ AdminBoot
    BY <2>2, <1>k DEF RestartRequested, ComposeUp, ComposeStarts, AdminBoot, opVars, flagVars,
       volumeVars
  <2>3. CASE \E r \in Requests : ProcExits(r)
    BY <2>3, <1>k DEF ProcExits, opVars, flagVars, volumeVars
  <2>4. CASE \E r \in Requests : Goroutine(r)
    BY <2>4, <1>2, <1>3, RestorerStep DEF Goroutine
  <2>5. CASE Next
    BY <2>5, <2>2, <2>3, <2>4, <1>1, <1>4, <1>5, <1>6, <1>7 DEF Next
  <2> QED
    BY <2>1, <2>5

RestoredUnlessRaced == ~raced => RestoredInv

LEMMA RestoredInvariant == Spec => []RestoredUnlessRaced
<1>1. Init => RestoredUnlessRaced
  BY DEF Init, IdleProcess, RestoredUnlessRaced, RestoredInv, Restored, RestoredPCs, RestorePCs,
         BeforeStop, DbDown, Cleanup
<1>2. ASSUME CarefulOperator => ApartInv, TypeInv, OneLongOp, SoleInv, RestoredUnlessRaced,
             [Next]_vars
      PROVE  RestoredUnlessRaced'
  <2>1. ASSUME ~raced PROVE RestoredInv'
    BY <1>2, <2>1, RestoredStep DEF SoleInv, RestoredUnlessRaced
  <2>2. raced => raced'
    BY <1>2, RacedStays
  <2> QED
    BY <2>1, <2>2 DEF RestoredUnlessRaced
<1>3. CASE CarefulOperator
  <2>1. TypeInv /\ OneLongOp /\ ApartInv /\ SoleInv /\ RestoredUnlessRaced /\ [Next]_vars
          => RestoredUnlessRaced'
    BY <1>2
  <2> QED
    BY <1>1, <1>3, <2>1, ApartInvariant, SoleInvariant, TypeInvariant, LongOpsExclude, PTL
       DEF Spec
<1>4. CASE ~CarefulOperator
  <2>1. TypeInv /\ OneLongOp /\ SoleInv /\ RestoredUnlessRaced /\ [Next]_vars
          => RestoredUnlessRaced'
    BY <1>2, <1>4
  <2> QED
    BY <1>1, <2>1, SoleInvariant, TypeInvariant, LongOpsExclude, PTL DEF Spec
<1> QED
  BY <1>3, <1>4

\* With a careful operator and the same exception, the status turns to "done" only when the
\* database runs on exactly the backup set that was asked for.
THEOREM RestoreDone ==
  ASSUME CarefulOperator
  PROVE  Spec => DoneMeansRestored
<1>1. TypeInv /\ RestoredUnlessRaced /\ [Next]_vars
        => (pgbrRestoreState.phase # "done" /\ pgbrRestoreState'.phase = "done" /\ ~raced
              => db' = "running" /\ data' = pgbrRestoreState'.set)
  <2> SUFFICES ASSUME TypeInv, RestoredInv, [Next]_vars,
                      pgbrRestoreState'.phase = "done", pgbrRestoreState.phase # "done"
               PROVE  db' = "running" /\ data' = pgbrRestoreState'.set
    BY DEF RestoredUnlessRaced
  <2>1. pgbrRestoreState \in [phase : Phases, set : Sets \cup {None}]
    BY DEF TypeInv, TypeOK
  <2>2. pgbrRestoreState' # pgbrRestoreState
    OBVIOUS
  <2>3. PICK r \in Requests : FinishRestore(r)
    <3>1. Next
      BY <2>2 DEF vars, flagVars
    <3>2. ASSUME NEW r \in Requests PROVE ~Arrival(r) /\ ~ProcExits(r)
      BY <2>2 DEF Arrival, RestoreRequested, BackupRequested, StanzaCreateRequested, ProcExits,
         flagVars
    <3>3. ASSUME NEW c \in OneShots
          PROVE  ~OneShotWrites(c) /\ ~OneShotExits(c) /\ ~OperatorRemoves(c)
      BY <2>2 DEF OneShotWrites, OneShotExits, OperatorRemoves, flagVars
    <3>4. ~RestartRequested /\ ~ComposeUp /\ ~AdminBoot /\ ~OperatorStartsDb
      BY <2>2 DEF RestartRequested, ComposeUp, AdminBoot, OperatorStartsDb, flagVars
    <3>5. ~AdminCrash /\ ~HostReboot
      BY DEF AdminCrash, HostReboot, ProcessDies, NoRestore
    <3>6. PICK r \in Requests : Goroutine(r)
      BY <3>1, <3>2, <3>3, <3>4, <3>5 DEF Next
    <3>7. /\ ~OrphanCheck(r) /\ ~ReadDbSpec(r) /\ ~CreateOneShot(r) /\ ~StartOneShot(r)
          /\ ~WaitOneShot(r) /\ ~CollectLogs(r) /\ ~RemoveOneShot(r) /\ ~StartDb(r)
      BY <2>2 DEF OrphanCheck, ReadDbSpec, CreateOneShot, StartOneShot, WaitOneShot, CollectLogs,
         RemoveOneShot, StartDb, flagVars
    <3>8. ~ExecStart(r) /\ ~BackupExecReturns(r) /\ ~FinishBackup(r) /\ ~FinishStanzaCreate(r)
      BY <2>2 DEF ExecStart, BackupExecReturns, FinishBackup, FinishStanzaCreate, flagVars
    <3>9. ~LockForRestore(r)
      BY <2>2 DEF LockForRestore, Accepted
    <3>10. ~StopDb(r) /\ ~PostCheck(r)
      BY <2>1, <2>2 DEF StopDb, PostCheck, SetPhase
    <3> QED
      BY <3>6, <3>7, <3>8, <3>9, <3>10 DEF Goroutine
  <2>4. pc[r] = "succeed"
    BY <2>1, <2>3 DEF FinishRestore, SetPhase
  <2>5. data = pgbrRestoreState.set /\ db = "running"
    BY <2>4, CarefulOperator DEF RestoredInv, Restored, RestoredPCs, RestorePCs, Undisturbed
  <2>6. pgbrRestoreState'.set = pgbrRestoreState.set /\ UNCHANGED <<db, data>>
    BY <2>1, <2>3 DEF FinishRestore, SetPhase, volumeVars
  <2> QED
    BY <2>5, <2>6
<1> QED
  BY <1>1, TypeInvariant, RestoredInvariant, PTL DEF Spec, DoneMeansRestored

\* The program itself never brings the database up on a volume that is not a complete
\* restore, with the same exception and whatever the operator does: a restore that starts db
\* finds it stopped, so nobody has started it since.
THEOREM StartedIsRestored == Spec => OnlyRestoredDbStarted
<1>1. TypeInv /\ RestoredUnlessRaced /\ [Next]_vars
        => (~raced /\ db = "stopped" /\ db' = "running"
              => OperatorStartsDb \/ data = pgbrRestoreState.set)
  <2> SUFFICES ASSUME TypeInv, RestoredInv, [Next]_vars, db = "stopped", db' = "running",
                      ~OperatorStartsDb
               PROVE  data = pgbrRestoreState.set
    BY DEF RestoredUnlessRaced
  <2>1. PICK r \in Requests : StartDb(r)
    <3>1. Next
      BY DEF vars, volumeVars
    <3>2. ASSUME NEW r \in Requests PROVE ~Arrival(r) /\ ~ProcExits(r)
      BY DEF Arrival, RestoreRequested, BackupRequested, StanzaCreateRequested, ProcExits,
         volumeVars
    <3>3. ASSUME NEW c \in OneShots
          PROVE  ~OneShotWrites(c) /\ ~OneShotExits(c) /\ ~OperatorRemoves(c)
      BY DEF OneShotWrites, OneShotExits, OperatorRemoves
    <3>4. ~RestartRequested /\ ~ComposeUp /\ ~AdminBoot /\ ~AdminCrash /\ ~HostReboot
      BY DEF RestartRequested, ComposeUp, ComposeStarts, AdminBoot, AdminCrash, HostReboot,
         volumeVars
    <3>5. PICK r \in Requests : Goroutine(r)
      BY <3>1, <3>2, <3>3, <3>4 DEF Next
    <3>6. ~StopDb(r)
      BY DEF StopDb, DbStops
    <3>7. /\ ~OrphanCheck(r) /\ ~LockForRestore(r) /\ ~ReadDbSpec(r) /\ ~CreateOneShot(r)
          /\ ~StartOneShot(r) /\ ~WaitOneShot(r) /\ ~CollectLogs(r) /\ ~RemoveOneShot(r)
          /\ ~PostCheck(r) /\ ~FinishRestore(r)
      BY DEF OrphanCheck, LockForRestore, ReadDbSpec, CreateOneShot, StartOneShot, WaitOneShot,
         CollectLogs, RemoveOneShot, PostCheck, FinishRestore, volumeVars
    <3>8. ~ExecStart(r) /\ ~BackupExecReturns(r) /\ ~FinishBackup(r) /\ ~FinishStanzaCreate(r)
      BY DEF ExecStart, BackupExecReturns, FinishBackup, FinishStanzaCreate, volumeVars
    <3> QED
      BY <3>5, <3>6, <3>7, <3>8 DEF Goroutine
  <2>2. pc[r] = "startdb"
    BY <2>1 DEF StartDb
  <2> QED
    BY <2>2 DEF RestoredInv, Restored, Undisturbed, RestoredPCs, RestorePCs, DbDown
<1> QED
  BY <1>1, RestoredInvariant, TypeInvariant, PTL DEF Spec, OnlyRestoredDbStarted

-------------------------------------------------------------------------------
(* Refinement of VolumeLock *)

Holders == Running \cup (IF db = "running" THEN {"db"} ELSE {})

\* Every step of PgBackRest is a step of VolumeLock, or leaves holders and
\* content alone.
LEMMA VolumeStep ==
  ASSUME CarefulOperator, TypeInv, OneLongOp, ApartInv, SoleInv, ~raced, [Next]_vars
  PROVE  [Volume!Next]_(Volume!lockVars)
<1>t. TypeOK /\ LabelOK /\ DbNeverBesideRestore /\ OneRestoreContainer /\ Sole
  BY DEF TypeInv, ApartInv, SoleInv
<1>p. cstate \in [OneShots -> CStates] /\ db \in {"running", "stopped"}
  BY <1>t DEF TypeOK
<1>s. Holders' = Holders /\ data' = data => [Volume!Next]_(Volume!lockVars)
  BY DEF Volume!lockVars, Holders
<1>a. ASSUME NEW h \in {"db"} \cup OneShots, Holders = {}, Holders' = {h}, data' = data
      PROVE  [Volume!Next]_(Volume!lockVars)
  BY <1>a DEF Volume!Next, Volume!Acquire, Holders
<1>r. ASSUME NEW h \in {"db"} \cup OneShots, Holders = {h}, Holders' = {}, data' = data
      PROVE  [Volume!Next]_(Volume!lockVars)
  BY <1>r DEF Volume!Next, Volume!Release, Holders
<1>w. ASSUME NEW h \in OneShots, Holders = {h}, Holders' \in {{h}, {}},
             data' \in Contents
      PROVE  [Volume!Next]_(Volume!lockVars)
  BY <1>w DEF Volume!Next, Volume!Replace, Holders
<1>u. UNCHANGED <<db, data, cstate>> => [Volume!Next]_(Volume!lockVars)
  BY <1>s DEF Holders, Running
\* A running container is the only holder.
<1>o. \A c \in Running : Holders = {c}
  BY <1>t DEF Holders, DbNeverBesideRestore, OneRestoreContainer
\* Containers go, the volume stays.
<1>g. ASSUME Running' \subseteq Running, UNCHANGED <<db, data>>
      PROVE  [Volume!Next]_(Volume!lockVars)
  <2>1. CASE Running' = Running
    BY <1>g, <2>1, <1>s DEF Holders
  <2>2. CASE Running' # Running
    <3>1. PICK c \in Running : c \notin Running'
      BY <1>g, <2>2
    <3>2. Holders = {c} /\ Holders' = {}
      BY <1>g, <3>1, <1>o, <1>t, <1>p DEF Holders, DbNeverBesideRestore, OneRestoreContainer
    <3>3. c \in OneShots
      BY <3>1 DEF Running
    <3> QED
      BY <1>g, <1>r, <3>2, <3>3
  <2> QED
    BY <2>1, <2>2
<1> USE DEF RestorePCs, BeforeStop, DbDown, Cleanup
<1>1. ASSUME NEW r \in Requests, Arrival(r) PROVE [Volume!Next]_(Volume!lockVars)
  BY <1>1, <1>u DEF Arrival, RestoreRequested, BackupRequested,
     StanzaCreateRequested, volumeVars
<1>2. ASSUME NEW r \in Requests, Goroutine(r) PROVE [Volume!Next]_(Volume!lockVars)
  <2>1. CASE \/ OrphanCheck(r) \/ LockForRestore(r) \/ ReadDbSpec(r)
             \/ WaitOneShot(r) \/ CollectLogs(r) \/ PostCheck(r) \/ FinishRestore(r)
             \/ ExecStart(r) \/ BackupExecReturns(r) \/ FinishBackup(r)
             \/ FinishStanzaCreate(r)
    BY <2>1, <1>u DEF OrphanCheck, LockForRestore, ReadDbSpec, WaitOneShot,
       CollectLogs, PostCheck, FinishRestore, ExecStart, BackupExecReturns,
       FinishBackup, FinishStanzaCreate, volumeVars
  <2>2. CASE StopDb(r)
    <3>1. UNCHANGED <<data, cstate>> /\ db' \in {db, "stopped"}
      BY <2>2 DEF StopDb, DbStops
    <3>2. CASE db' = db
      BY <3>1, <3>2, <1>u
    <3>3. CASE db = "running" /\ db' = "stopped"
      <4>1. Holders = {"db"} /\ Holders' = {}
        BY <3>1, <3>3, <1>t DEF Holders, DbNeverBesideRestore, Running
      <4> QED
        BY <4>1, <3>1, <1>r
    <3> QED
      BY <3>1, <3>2, <3>3, <1>p
  <2>3. CASE CreateOneShot(r)
    <3>1. Running' = Running /\ UNCHANGED <<db, data>>
      BY <2>3, <1>p DEF CreateOneShot, Running, Present, CStates
    <3> QED
      BY <3>1, <1>s DEF Holders
  <2>4. CASE StartOneShot(r)
    <3>1. pc[r] = "start" /\ one[r] \in OneShots /\ UNCHANGED <<db, data>>
      BY <2>4, <1>t DEF StartOneShot, LabelOK, OneShotPCs
    <3>2. Running = {} /\ db = "stopped"
      BY <3>1, <1>t DEF Sole, NoContainerPCs, ApartInv
    <3>3. Holders = {} /\ Holders' \in {{}, {one[r]}}
      BY <2>4, <3>1, <3>2, <1>p DEF StartOneShot, Holders, Running
    <3> QED
      BY <3>1, <3>3, <1>a, <1>s
  <2>5. CASE RemoveOneShot(r)
    <3>1. Running' \subseteq Running /\ UNCHANGED <<db, data>>
      BY <2>5, <1>p DEF RemoveOneShot, Running
    <3> QED
      BY <3>1, <1>g
  <2>6. CASE StartDb(r)
    <3>1. db = "stopped" /\ Running = {} /\ UNCHANGED <<data, cstate>>
      BY <2>6 DEF StartDb, ApartInv
    <3>2. Holders = {} /\ Holders' \in {{}, {"db"}}
      BY <2>6, <3>1 DEF StartDb, DbStarts, Holders, Running
    <3> QED
      BY <3>1, <3>2, <1>a, <1>s
  <2> QED
    BY <1>2, <2>1, <2>2, <2>3, <2>4, <2>5, <2>6 DEF Goroutine
<1>3. ASSUME NEW c \in OneShots,
             OneShotWrites(c) \/ OneShotExits(c) \/ OperatorRemoves(c)
      PROVE  [Volume!Next]_(Volume!lockVars)
  <2>1. CASE OneShotWrites(c)
    <3>1. Holders = {c} /\ Holders' = Holders /\ data' \in Contents
      BY <2>1, <1>o DEF OneShotWrites, Holders, Running, Contents
    <3> QED
      BY <3>1, <1>w
  <2>2. CASE OneShotExits(c)
    <3>1. Holders = {c} /\ Holders' = {}
      BY <2>2, <1>o, <1>t, <1>p DEF OneShotExits, Holders, Running,
         DbNeverBesideRestore, OneRestoreContainer
    <3>2. data' \in Contents
      BY <2>2, <1>t DEF OneShotExits, LabelOK, TypeOK, Contents, Present, Running
    <3> QED
      BY <3>1, <3>2, <1>w
  <2>3. CASE OperatorRemoves(c)
    <3>1. Running' \subseteq Running /\ UNCHANGED <<db, data>>
      BY <2>3, <1>p DEF OperatorRemoves, Running
    <3> QED
      BY <3>1, <1>g
  <2> QED
    BY <1>3, <2>1, <2>2, <2>3
<1>4. CASE AdminCrash \/ HostReboot
  <2>1. Running' \subseteq Running /\ UNCHANGED <<db, data>>
    BY <1>4, <1>p DEF AdminCrash, HostReboot, Running, volumeVars
  <2> QED
    BY <2>1, <1>g
<1>5. CASE OperatorStartsDb
  <2>1. db = "stopped" /\ Running = {} /\ db' = "running" /\ UNCHANGED <<data, cstate>>
    BY <1>5, CarefulOperator DEF OperatorStartsDb, DbStarts
  <2>2. Holders = {} /\ Holders' = {"db"}
    BY <2>1 DEF Holders, Running
  <2> QED
    BY <2>1, <2>2, <1>a
<1> QED
  <2>1. CASE UNCHANGED vars
    BY <2>1, <1>u DEF vars, volumeVars
  <2>2. CASE RestartRequested \/ ComposeUp \/ AdminBoot
    BY <2>2, <1>u
       DEF RestartRequested, ComposeUp, ComposeStarts, AdminBoot, volumeVars
  <2>3. CASE \E r \in Requests : ProcExits(r)
    BY <2>3, <1>u DEF ProcExits, volumeVars
  <2>4. CASE Next
    BY <2>4, <2>2, <2>3, <1>1, <1>2, <1>3, <1>4, <1>5 DEF Next
  <2> QED
    BY <2>1, <2>4

\* PgBackRest implements the exclusive data volume: one holder at a time, taken
\* only when free, rewritten only by a restore container, with a careful operator and the
\* same exception.
THEOREM VolumeIsLocked ==
  ASSUME CarefulOperator
  PROVE  Spec => VolumeLockSpec
<1>1. Init => Volume!Init
  BY DEF Init, Volume!Init, Running, Contents
<1>2. TypeInv /\ OneLongOp /\ ApartInv /\ SoleInv /\ [Next]_vars
        => [raced \/ Volume!Next]_(Volume!lockVars)
  BY VolumeStep
<1> QED
  BY <1>1, <1>2, TypeInvariant, LongOpsExclude, ApartInvariant, SoleInvariant, PTL
     DEF Spec, VolumeLockSpec
===============================================================================
