------------------------- MODULE DumpPipelineProofs -------------------------
(***************************************************************************)
(* Theorems about DumpPipeline, for any size of the archive and the pipes, *)
(* any amount of stderr and any limit on what is kept of it.               *)
(***************************************************************************)
EXTENDS DumpPipeline, TLAPS

\* Each part of the archive is in one place, and pg_dump succeeds at its end only.
PartsInv ==
  /\ left + out + got = Archive
  /\ dump = "ok" => left = 0

\* What has come into being, and what is gone, where RunPgDump stands.
PhaseInv ==
  /\ pc = "idle" => dump = "none" /\ reader = "none"
  /\ pc # "idle" => dump # "none" /\ reader # "none"
  /\ pc \in {"drain", "cleanup"} \cup Over => ~Running
  /\ pc = "cleanup" => reader = "done"

\* The upload decides at its end whether there is an object; one that is not
\* whole comes from a pg_dump that died.
UploadInv ==
  /\ pc \in {"idle", "upload"} => stored = "never" /\ ~uploadErr
  /\ pc \in {"wait", "drain", "cleanup"} =>
       /\ stored # "deleted"
       /\ ~uploadErr => stored # "never"
       /\ stored # "never" => ~Running
  /\ stored = "partial" => dump = "failed"
  /\ pc = "cleanup" => uploadErr \/ dump = "failed"

IInv == TypeOK /\ PartsInv /\ PhaseInv /\ UploadInv /\ NothingLeftBehind

\* What the constants are.
LEMMA Sizes ==
  /\ Archive \in Nat /\ Archive > 0 /\ OutCap \in Nat /\ ErrCap \in Nat
  /\ Lines \in Nat /\ KeepLimit \in Nat
BY ConstantsAssumption DEF ConstantsAssumption

LEMMA InitInv == Init => IInv
<1> SUFFICES ASSUME Init PROVE IInv
  OBVIOUS
<1> USE Sizes DEF Init
<1>1. TypeOK
  <2>1. left \in 0..Archive /\ out \in 0..OutCap /\ got \in 0..Archive
    OBVIOUS
  <2>2. lines \in 0..Lines /\ err \in 0..ErrCap /\ kept \in 0..KeepLimit
    OBVIOUS
  <2>3. /\ pc = "idle" /\ ctx = "live" /\ cancelled = FALSE /\ dump = "none" /\ uploadErr = FALSE
        /\ reader = "none" /\ stored = "never" /\ hung = {}
    OBVIOUS
  <2> QED
    BY <2>1, <2>2, <2>3 DEF TypeOK
<1>2. PartsInv
  BY DEF PartsInv
<1>3. PhaseInv /\ UploadInv /\ NothingLeftBehind
  BY DEF PhaseInv, UploadInv, NothingLeftBehind, Over, Running
<1> QED
  BY <1>1, <1>2, <1>3 DEF IInv

\* Steps of pg_dump.
LEMMA ProcessStep == IInv /\ Process => IInv'
<1> SUFFICES ASSUME IInv, Process PROVE IInv'
  OBVIOUS
<1> USE Sizes DEF IInv, Running
<1>1. /\ Running
      /\ UNCHANGED <<pc, ctx, cancelled, got, uploadErr, reader, kept, stored, hung>>
  BY DEF Process, DumpGoesOn, DumpFails, DumpKilled, DumpDies, readerVars
<1>2. pc \in {"upload", "wait"} /\ stored = "never"
  BY <1>1 DEF TypeOK, PhaseInv, UploadInv, AtWork, Over
<1>3. CASE DumpWrites
  <2>1. left' = left - 1 /\ out' = out + 1 /\ UNCHANGED <<dump, lines, err>> /\ left > 0 /\ out < OutCap
    BY <1>3 DEF DumpWrites
  <2>2. TypeOK' /\ PartsInv'
    BY <1>1, <2>1 DEF TypeOK, PartsInv
  <2> QED
    BY <1>1, <1>2, <2>1, <2>2 DEF PhaseInv, UploadInv, NothingLeftBehind, Over
<1>4. CASE DumpWarns
  <2>1. lines' = lines - 1 /\ err' = err + 1 /\ UNCHANGED <<dump, left, out>> /\ lines > 0 /\ err < ErrCap
    BY <1>4 DEF DumpWarns
  <2>2. TypeOK' /\ PartsInv'
    BY <1>1, <2>1 DEF TypeOK, PartsInv
  <2> QED
    BY <1>1, <1>2, <2>1, <2>2 DEF PhaseInv, UploadInv, NothingLeftBehind, Over
<1>5. CASE UNCHANGED <<left, out, lines, err>> /\ (dump' = "failed" \/ (dump' = "ok" /\ left = 0))
  <2>1. TypeOK' /\ PartsInv'
    BY <1>1, <1>5 DEF TypeOK, PartsInv
  <2> QED
    BY <1>1, <1>2, <1>5, <2>1 DEF PhaseInv, UploadInv, NothingLeftBehind, Over
<1> QED
  BY <1>3, <1>4, <1>5 DEF Process, DumpGoesOn, DumpExits, DumpFails, DumpKilled, DumpDies

\* Steps of the goroutine that reads stderr.
LEMMA ReaderStep == IInv /\ Reader => IInv'
<1> SUFFICES ASSUME IInv, Reader PROVE IInv'
  OBVIOUS
<1> USE Sizes DEF IInv, Running
<1>1. /\ UNCHANGED <<pc, ctx, cancelled, dump, left, out, lines, got, uploadErr, stored, hung>>
      /\ reader \in {"keep", "discard"} /\ reader' \in {"keep", "discard", "done"}
  BY DEF Reader, StderrKept, LimitReached, StderrDiscarded, StderrEnds
<1>2. err' \in 0..ErrCap /\ kept' \in 0..KeepLimit
  BY DEF Reader, StderrKept, LimitReached, StderrDiscarded, StderrEnds, KeepsMore, TypeOK
<1>3. TypeOK' /\ PartsInv'
  BY <1>1, <1>2 DEF TypeOK, PartsInv
<1> QED
  BY <1>1, <1>3 DEF PhaseInv, UploadInv, NothingLeftBehind, Over

\* Steps of the uploader and of RunPgDump itself.
LEMMA RunStep == IInv /\ RunPgDump => IInv'
<1> SUFFICES ASSUME IInv, RunPgDump PROVE IInv'
  OBVIOUS
<1> USE Sizes DEF IInv, Running, procVars, readerVars
<1>1. CASE Start
  BY <1>1 DEF Start, TypeOK, PartsInv, PhaseInv, UploadInv, NothingLeftBehind, AtWork, Over
<1>2. CASE UploadReads
  <2>1. /\ pc = "upload" /\ out > 0 /\ out' = out - 1 /\ got' = got + 1
        /\ UNCHANGED <<pc, ctx, cancelled, dump, left, lines, err, uploadErr, reader, kept, stored, hung>>
    BY <1>2 DEF UploadReads
  <2>2. TypeOK' /\ PartsInv'
    BY <2>1 DEF TypeOK, PartsInv
  <2> QED
    BY <2>1, <2>2 DEF PhaseInv, UploadInv, NothingLeftBehind, Over
<1>3. CASE UploadFails
  BY <1>3 DEF UploadFails, FailsUpload, TypeOK, PartsInv, PhaseInv, UploadInv,
     NothingLeftBehind, AtWork, Over
<1>4. CASE UploadCompletes
  <2>1. /\ pc = "upload" /\ out = 0 /\ ~Running /\ pc' = "wait"
        /\ stored' = IF got = Archive THEN "whole" ELSE "partial"
        /\ uploadErr' \in BOOLEAN /\ cancelled' \in BOOLEAN
        /\ UNCHANGED <<ctx, dump, left, out, lines, err, got, reader, kept, hung>>
    BY <1>4 DEF UploadCompletes, FailsUpload, TypeOK
  <2>2. TypeOK' /\ PartsInv'
    BY <2>1 DEF TypeOK, PartsInv, AtWork
  <2>3. got # Archive => dump = "failed"
    BY <2>1 DEF TypeOK, PartsInv, PhaseInv
  <2>4. PhaseInv' /\ NothingLeftBehind'
    BY <2>1 DEF PhaseInv, NothingLeftBehind, Over
  <2>5. UploadInv'
    BY <2>1, <2>3 DEF UploadInv
  <2> QED
    BY <2>2, <2>4, <2>5
<1>5. CASE WaitReturns
  BY <1>5 DEF WaitReturns, TypeOK, PartsInv, PhaseInv, UploadInv, NothingLeftBehind, AtWork, Over
<1>6. CASE Drained
  BY <1>6 DEF Drained, StderrDone, Succeeded, TypeOK, PartsInv, PhaseInv, UploadInv,
     NothingLeftBehind, AtWork, Over
<1>7. CASE CleanUp
  BY <1>7 DEF CleanUp, TypeOK, PartsInv, PhaseInv, UploadInv, NothingLeftBehind, AtWork, Over
<1> QED
  BY <1>1, <1>2, <1>3, <1>4, <1>5, <1>6, <1>7 DEF RunPgDump

\* The deadline, whoever hangs, and the death of the admin container.
LEMMA EnvironmentStep == IInv /\ (Deadline \/ Hangs \/ AdminCrash) => IInv'
<1> SUFFICES ASSUME IInv, Deadline \/ Hangs \/ AdminCrash PROVE IInv'
  OBVIOUS
<1> USE Sizes DEF IInv, Running, procVars, readerVars
<1>1. CASE Deadline \/ Hangs
  <2>1. /\ UNCHANGED <<pc, cancelled, dump, left, out, lines, err, got, uploadErr, reader, kept, stored>>
        /\ ctx' \in {"live", "done"} /\ hung' \subseteq Parties
    BY <1>1 DEF Deadline, Hangs, TypeOK
  <2> QED
    BY <2>1 DEF TypeOK, PartsInv, PhaseInv, UploadInv, NothingLeftBehind, Over
<1>2. CASE AdminCrash
  BY <1>2 DEF AdminCrash, TypeOK, PartsInv, PhaseInv, UploadInv, NothingLeftBehind, AtWork, Over
<1> QED
  BY <1>1, <1>2

LEMMA StepInv == IInv /\ [Next]_vars => IInv'
<1> SUFFICES ASSUME IInv, [Next]_vars PROVE IInv'
  OBVIOUS
<1>1. CASE UNCHANGED vars
  BY <1>1 DEF vars, procVars, readerVars, IInv, TypeOK, PartsInv, PhaseInv, UploadInv,
     NothingLeftBehind, Running
<1> QED
  BY <1>1, ProcessStep, ReaderStep, RunStep, EnvironmentStep DEF Next, Finished

LEMMA Invariant == Spec => []IInv
BY InitInv, StepInv, PTL DEF Spec

\* Every variable keeps its type: the pipes their capacity, stderrBuf its limit
\* (RunPgDump).
THEOREM TypeCorrect == Spec => []TypeOK
<1>1. IInv => TypeOK
  BY DEF IInv
<1> QED
  BY <1>1, Invariant, PTL

\* When RunPgDump has returned, or the admin process has died, neither the pg_dump
\* process nor the stderr goroutine is left, on any of the paths out of it.
THEOREM NothingLeft == Spec => []NothingLeftBehind
<1>1. IInv => NothingLeftBehind
  BY DEF IInv
<1> QED
  BY <1>1, Invariant, PTL

-----------------------------------------------------------------------------
(* The refinement: what the variables of LogicalBackup are here *)

StoreOf == IF stored \in {"partial", "whole"} THEN {TheObject} ELSE {}
ClockOf == IF stored = "never" THEN 0 ELSE 1
NameOf == IF pc \in AtWork THEN 1 ELSE 0
TickOf == IF pc = "idle" THEN 0 ELSE 1

\* A step that LogicalBackup does not see.
LEMMA Unseen ==
  ASSUME UNCHANGED <<JobPC, StoreOf, ClockOf, NameOf, JobErrors, TickOf>>
  PROVE  UNCHANGED Abstract!vars
BY DEF StoreOf, ClockOf, NameOf, TickOf, Abstract!vars, Abstract!jobVars, Abstract!pruneVars

\* pg_dump is started: the tick of LogicalBackup.
LEMMA StartIsTick == IInv /\ Start => Abstract!Tick
<1> SUFFICES ASSUME IInv, Start PROVE Abstract!Tick
  OBVIOUS
<1>1. /\ pc = "idle" /\ pc' = "upload" /\ stored = "never" /\ stored' = "never"
  BY DEF Start, IInv, UploadInv
<1>2. /\ JobPC = "idle" /\ JobPC' = "upload" /\ JobErrors = {} /\ JobErrors' = {}
  BY <1>1 DEF JobPC, JobErrors, Over
<1>3. TickOf = 0 /\ TickOf' = 1 /\ NameOf = 0 /\ NameOf' = 1 /\ ClockOf = 0 /\ ClockOf' = 0
  BY <1>1 DEF TickOf, NameOf, ClockOf, AtWork
<1>4. StoreOf = {} /\ StoreOf' = {}
  BY <1>1 DEF StoreOf
<1>5. Abstract!DumpStarts(Job, 1)
  <2>1. /\ [j \in {Job} |-> JobPC][Job] = "idle" /\ (IF stored = "never" THEN 0 ELSE 1) < 1
    BY <1>1, <1>2
  <2>2. [j \in {Job} |-> JobPC]' = [[j \in {Job} |-> JobPC] EXCEPT ![Job] = "upload"]
    BY <1>2
  <2>3. [j \in {Job} |-> IF pc \in AtWork THEN 1 ELSE 0]'
          = [[j \in {Job} |-> IF pc \in AtWork THEN 1 ELSE 0] EXCEPT ![Job] = 1]
    BY <1>1 DEF AtWork
  <2>4. [j \in {Job} |-> 0]' = [[j \in {Job} |-> 0] EXCEPT ![Job] = IF stored = "never" THEN 0 ELSE 1]
    BY <1>1
  <2>5. UNCHANGED <<IF stored \in {"partial", "whole"} THEN {TheObject} ELSE {},
                    IF stored = "never" THEN 0 ELSE 1, [j \in {Job} |-> JobErrors],
                    [j \in {Job} |-> {}], Abstract!pruneVars>>
    BY <1>1, <1>2 DEF Abstract!pruneVars
  <2> QED
    BY <2>1, <2>2, <2>3, <2>4, <2>5 DEF Abstract!DumpStarts
<1> QED
  BY <1>3, <1>5 DEF Abstract!Tick, TickOf

\* What Goto and Return of LogicalBackup are here.
LEMMA JobGoes ==
  ASSUME NEW p, JobPC' = p, UNCHANGED <<NameOf, JobErrors>>
  PROVE  Abstract!Goto(Job, p)
<1>1. [j \in {Job} |-> JobPC]' = [[j \in {Job} |-> JobPC] EXCEPT ![Job] = p]
  OBVIOUS
<1>2. UNCHANGED <<[j \in {Job} |-> IF pc \in AtWork THEN 1 ELSE 0], [j \in {Job} |-> 0],
                  [j \in {Job} |-> JobErrors]>>
  BY DEF NameOf
<1> QED
  BY <1>1, <1>2 DEF Abstract!Goto

LEMMA JobReturns ==
  ASSUME JobPC' = "idle", NameOf' = 0, JobErrors' = {}
  PROVE  Abstract!Return(Job)
<1>1. [j \in {Job} |-> JobPC]' = [[j \in {Job} |-> JobPC] EXCEPT ![Job] = "idle"]
  OBVIOUS
<1>2. [j \in {Job} |-> IF pc \in AtWork THEN 1 ELSE 0]'
        = [[j \in {Job} |-> IF pc \in AtWork THEN 1 ELSE 0] EXCEPT ![Job] = 0]
  BY DEF NameOf
<1>3. [j \in {Job} |-> JobErrors]' = [[j \in {Job} |-> JobErrors] EXCEPT ![Job] = {}]
  OBVIOUS
<1>4. [j \in {Job} |-> 0]' = [[j \in {Job} |-> 0] EXCEPT ![Job] = 0]
  OBVIOUS
<1> QED
  BY <1>1, <1>2, <1>3, <1>4 DEF Abstract!Return

\* The errors of a run that waits for pg_dump, or cleans up, do not change, but
\* that pg_dump's own comes to light while it is waited for.
LEMMA ErrorsSettle ==
  ASSUME IInv, pc \in {"wait", "drain", "cleanup"}, pc' \in {"wait", "drain", "cleanup"},
         UNCHANGED <<uploadErr, stored>>, dump' = dump \/ Running
  PROVE  JobErrors' = JobErrors
<1>1. CASE dump' = dump
  BY <1>1 DEF JobErrors
<1>2. CASE Running
  <2>1. uploadErr /\ stored = "never"
    BY <1>2 DEF IInv, UploadInv
  <2> QED
    BY <2>1 DEF JobErrors
<1> QED
  BY <1>1, <1>2

\* The upload comes to its end, by an error or by the end of the stream.
LEMMA UploadIsReturn ==
  ASSUME IInv, UploadFails \/ UploadCompletes
  PROVE  Abstract!UploadReturns(Job)
<1>1. /\ pc = "upload" /\ pc' = "wait" /\ stored = "never" /\ dump' = dump
  BY DEF UploadFails, UploadCompletes, IInv, UploadInv, procVars
<1>2. JobPC = "upload" /\ JobPC' = "wait" /\ NameOf = 1 /\ NameOf' = 1
  BY <1>1 DEF JobPC, NameOf, AtWork, Over
<1>3. /\ [j \in {Job} |-> JobPC][Job] = "upload"
      /\ [j \in {Job} |-> JobPC]' = [[j \in {Job} |-> JobPC] EXCEPT ![Job] = "wait"]
  BY <1>2
<1>4. /\ JobErrors' \in SUBSET {"upload", "wait"}
      /\ [j \in {Job} |-> JobErrors]' = [[j \in {Job} |-> JobErrors] EXCEPT ![Job] = JobErrors']
  BY DEF JobErrors
<1>5. UNCHANGED <<[j \in {Job} |-> IF pc \in AtWork THEN 1 ELSE 0], [j \in {Job} |-> 0],
                  [j \in {Job} |-> {}], IF pc = "idle" THEN 0 ELSE 1,
                     Abstract!pruneVars>>
  BY <1>1 DEF AtWork, Abstract!pruneVars
<1>6. \/ \E whole \in BOOLEAN : (~whole => "wait" \in JobErrors') /\ Abstract!Uploaded(Job, whole)
      \/ /\ "upload" \in JobErrors'
         /\ UNCHANGED <<IF stored \in {"partial", "whole"} THEN {TheObject} ELSE {},
                        IF stored = "never" THEN 0 ELSE 1>>
  <2>1. CASE UploadFails
    <3>1. uploadErr' = TRUE /\ stored' = "never"
      BY <1>1, <2>1 DEF UploadFails, FailsUpload
    <3> QED
      BY <1>1, <3>1 DEF JobErrors
  <2>2. CASE UploadCompletes
    <3> DEFINE whole == stored' = "whole"
    <3>1. stored' = IF got = Archive THEN "whole" ELSE "partial"
      BY <2>2 DEF UploadCompletes
    <3>2. ~whole => "wait" \in JobErrors'
      BY <1>1, <3>1 DEF JobErrors
    <3>3. /\ (IF stored = "never" THEN 0 ELSE 1)' = 1 /\ (IF stored = "never" THEN 0 ELSE 1) = 0
          /\ (IF stored \in {"partial", "whole"} THEN {TheObject} ELSE {}) = {}
          /\ (IF stored \in {"partial", "whole"} THEN {TheObject} ELSE {})' = {TheObject'}
      BY <1>1, <3>1
    <3>4. [j \in {Job} |-> IF pc \in AtWork THEN 1 ELSE 0][Job] = 1
      BY <1>1 DEF AtWork
    <3>5. TheObject' = [name |-> 1, at |-> 1, whole |-> whole, by |-> Job]
      BY DEF TheObject
    <3> HIDE DEF whole
    <3>6. Abstract!Put([name |-> 1, at |-> 1, whole |-> whole, by |-> Job])
      BY <3>3, <3>5 DEF Abstract!Put
    <3>7. Abstract!Uploaded(Job, whole)
      BY <3>3, <3>4, <3>6 DEF Abstract!Uploaded
    <3>8. whole \in BOOLEAN
      BY DEF whole
    <3> QED
      BY <3>2, <3>7, <3>8
  <2> QED
    BY <2>1, <2>2
<1> QED
  BY <1>3, <1>4, <1>5, <1>6 DEF Abstract!UploadReturns

\* The bucket and the scheduler's name, which stay in the steps after the upload.
LEMMA BucketStays ==
  ASSUME stored' = stored, pc # "idle", pc' # "idle"
  PROVE  UNCHANGED <<IF stored \in {"partial", "whole"} THEN {TheObject} ELSE {},
                     IF stored = "never" THEN 0 ELSE 1, IF pc = "idle" THEN 0 ELSE 1,
                     Abstract!pruneVars>>
BY DEF TheObject, Abstract!pruneVars

\* The verdict: a run without an error returns, one with an error cleans up.
LEMMA VerdictIsEnd ==
  ASSUME IInv, Drained
  PROVE  Abstract!DumpEnds(Job)
<1>1. /\ pc = "drain" /\ pc' = IF Succeeded THEN "ok" ELSE "cleanup"
      /\ UNCHANGED <<dump, uploadErr, stored>>
  BY DEF Drained, procVars
<1>2. JobPC = "wait" /\ NameOf = 1 /\ [j \in {Job} |-> JobPC][Job] = "wait"
  BY <1>1 DEF JobPC, NameOf, AtWork, Over
<1>3. dump \in {"ok", "failed"} /\ (stored = "partial" => dump = "failed")
  BY <1>1 DEF IInv, TypeOK, PhaseInv, UploadInv, Running
<1>4. JobErrors = {} <=> Succeeded
  BY <1>1, <1>3 DEF JobErrors, Succeeded
<1>5. Abstract!Succeeded(Job) <=> Succeeded
  BY <1>4 DEF Abstract!Succeeded
<1>6. CASE Succeeded
  <2>1. JobPC' = "idle" /\ NameOf' = 0 /\ JobErrors' = {}
    BY <1>1, <1>6 DEF JobPC, NameOf, JobErrors, AtWork, Over
  <2>2. Abstract!Succeeds(Job)
    BY <2>1, JobReturns DEF Abstract!Succeeds
  <2> QED
    BY <1>1, <1>2, <1>5, <1>6, <2>2, BucketStays DEF Abstract!DumpEnds
<1>7. CASE ~Succeeded
  <2>1. JobPC' = "cleanup" /\ NameOf' = 1 /\ JobErrors' = JobErrors
    BY <1>1, <1>7, ErrorsSettle DEF JobPC, NameOf, AtWork, Over
  <2>2. Abstract!DumpFails(Job)
    BY <1>2, <2>1, JobGoes DEF Abstract!DumpFails
  <2> QED
    BY <1>1, <1>2, <1>5, <1>7, <2>2, BucketStays DEF Abstract!DumpEnds
<1> QED
  BY <1>6, <1>7

\* The clean-up, which may fail.
LEMMA CleanUpIsCleanUp ==
  ASSUME IInv, CleanUp
  PROVE  \E failed \in BOOLEAN : Abstract!CleanUp(Job, failed)
<1>1. /\ pc = "cleanup" /\ pc' = "error"
      /\ stored' = (IF stored = "never" THEN "never" ELSE "deleted") \/ stored' = stored
  BY DEF CleanUp
<1>2. /\ JobPC' = "idle" /\ NameOf' = 0 /\ JobErrors' = {}
      /\ [j \in {Job} |-> JobPC][Job] = "cleanup"
      /\ [j \in {Job} |-> IF pc \in AtWork THEN 1 ELSE 0][Job] = 1
  BY <1>1 DEF JobPC, NameOf, JobErrors, AtWork, Over
<1>3. Abstract!Return(Job)
  BY <1>2, JobReturns
<1>4. UNCHANGED <<IF stored = "never" THEN 0 ELSE 1, IF pc = "idle" THEN 0 ELSE 1,
                     Abstract!pruneVars>>
  BY <1>1 DEF Abstract!pruneVars
<1>5. CASE stored' = stored
  <2>1. Abstract!MayDrop(1)
    BY <1>1, <1>5, BucketStays DEF Abstract!MayDrop
  <2>2. Abstract!CleanUp(Job, TRUE)
    BY <1>2, <1>3, <1>4, <2>1 DEF Abstract!CleanUp
  <2> QED
    BY <2>2
<1>6. CASE stored' = IF stored = "never" THEN "never" ELSE "deleted"
  <2>1. (IF stored \in {"partial", "whole"} THEN {TheObject} ELSE {})' = {}
    BY <1>6
  <2>2. {x \in IF stored \in {"partial", "whole"} THEN {TheObject} ELSE {} : x.name # 1} = {}
    BY DEF TheObject
  <2>3. Abstract!Drop(1)
    BY <2>1, <2>2 DEF Abstract!Drop
  <2>4. Abstract!CleanUp(Job, FALSE)
    BY <1>2, <1>3, <1>4, <2>3 DEF Abstract!CleanUp
  <2> QED
    BY <2>4
<1> QED
  BY <1>1, <1>5, <1>6

\* The death of the admin process.
LEMMA CrashIsCrash ==
  ASSUME IInv, AdminCrash
  PROVE  Abstract!AdminCrash
<1>1. /\ pc \in AtWork /\ pc' = "crashed" /\ stored' = stored /\ pc # "idle"
  BY DEF AdminCrash, AtWork
<1>2. JobPC # "idle" /\ JobPC' = "idle" /\ NameOf' = 0 /\ JobErrors' = {}
  BY <1>1 DEF JobPC, NameOf, JobErrors, AtWork, Over
<1>3. \E j \in Abstract!Jobs : [i \in {Job} |-> JobPC][j] # "idle"
  BY <1>2 DEF Abstract!Jobs
<1>4. Abstract!Jobs = {Job}
  BY DEF Abstract!Jobs
<1>5. /\ [j \in {Job} |-> JobPC]' = [j \in Abstract!Jobs |-> "idle"]
      /\ [j \in {Job} |-> IF pc \in AtWork THEN 1 ELSE 0]' = [j \in Abstract!Jobs |-> 0]
      /\ [j \in {Job} |-> 0]' = [j \in Abstract!Jobs |-> 0]
      /\ [j \in {Job} |-> JobErrors]' = [j \in Abstract!Jobs |-> {}]
      /\ [j \in {Job} |-> {}]' = [j \in Abstract!Jobs |-> {}]
  BY <1>2, <1>4 DEF NameOf
<1>6. Abstract!ForgetListing
  BY DEF Abstract!ForgetListing
<1> QED
  BY <1>1, <1>3, <1>5, <1>6, BucketStays DEF Abstract!AdminCrash

\* The other steps: the pipes, the processes, waiting, and what happens around them.
LEMMA HiddenStep ==
  ASSUME IInv,
         \/ UploadReads \/ WaitReturns \/ Process \/ Reader \/ Deadline \/ Hangs
         \/ UNCHANGED vars
  PROVE  UNCHANGED Abstract!vars
<1>1. /\ UNCHANGED <<uploadErr, stored>> /\ (dump' = dump \/ Running)
      /\ pc' = pc \/ (pc = "wait" /\ pc' = "drain" /\ dump' = dump)
  BY DEF UploadReads, WaitReturns, Process, DumpGoesOn, DumpFails, DumpKilled, DumpDies, Reader,
     Deadline, Hangs, vars, procVars
<1>2. UNCHANGED <<JobPC, NameOf, TickOf>>
  <2>1. CASE pc' = pc
    BY <2>1 DEF JobPC, NameOf, TickOf
  <2>2. CASE pc = "wait" /\ pc' = "drain"
    BY <2>2 DEF JobPC, NameOf, TickOf, AtWork, Over
  <2> QED
    BY <1>1, <2>1, <2>2
<1>3. UNCHANGED JobErrors
  <2>1. CASE pc \in {"wait", "drain", "cleanup"}
    BY <1>1, <2>1, ErrorsSettle
  <2>2. CASE pc \notin {"wait", "drain", "cleanup"}
    BY <1>1, <2>2 DEF JobErrors
  <2> QED
    BY <2>1, <2>2
<1>4. UNCHANGED <<StoreOf, ClockOf>>
  BY <1>1 DEF StoreOf, ClockOf, TheObject
<1> QED
  BY <1>2, <1>3, <1>4, Unseen

\* A step of a job of LogicalBackup, as ImplementsJob has it.
AbstractStep ==
  IF pc' = "crashed" THEN Abstract!AdminCrash ELSE Abstract!Tick \/ Abstract!JobStep(Job)

LEMMA JobInit == Init => Abstract!Init
<1> SUFFICES ASSUME Init PROVE Abstract!Init
  OBVIOUS
<1>1. pc = "idle" /\ stored = "never"
  BY DEF Init
<1>2. JobPC = "idle" /\ JobErrors = {} /\ Abstract!Jobs = {Job}
  BY <1>1 DEF JobPC, JobErrors, Over, Abstract!Jobs
<1>3. Abstract!NothingToPrune
  BY DEF Abstract!NothingToPrune
<1> QED
  BY <1>1, <1>2, <1>3 DEF Abstract!Init, AtWork

\* There is no other job whose doings could be noted.
LEMMA NothingNoted == Abstract!Noted({Job})
<1>1. Abstract!Jobs = {Job}
  BY DEF Abstract!Jobs
<1>2. [j \in {Job} |-> {}]' =
        [j \in {Job} |-> IF [i \in {Job} |-> JobPC]'[j] = "idle" THEN {}
                        ELSE [i \in {Job} |-> {}][j]]
  OBVIOUS
<1> QED
  BY <1>1, <1>2 DEF Abstract!Noted

LEMMA AbstractStepTaken == IInv /\ [Next]_vars => [AbstractStep]_(Abstract!vars)
<1> SUFFICES ASSUME IInv, [Next]_vars PROVE [AbstractStep]_(Abstract!vars)
  OBVIOUS
<1>1. CASE \/ UploadReads \/ WaitReturns \/ Process \/ Reader \/ Deadline \/ Hangs
           \/ UNCHANGED vars
  BY <1>1, HiddenStep
<1>2. CASE Start
  <2>1. pc' # "crashed"
    BY <1>2 DEF Start
  <2> QED
    BY <1>2, <2>1, StartIsTick DEF AbstractStep
<1>3. CASE UploadFails \/ UploadCompletes
  <2>1. pc' # "crashed"
    BY <1>3 DEF UploadFails, UploadCompletes
  <2> QED
    BY <1>3, <2>1, UploadIsReturn, NothingNoted DEF AbstractStep, Abstract!JobStep
<1>4. CASE Drained
  <2>1. pc' # "crashed"
    BY <1>4 DEF Drained
  <2> QED
    BY <1>4, <2>1, VerdictIsEnd, NothingNoted DEF AbstractStep, Abstract!JobStep
<1>5. CASE CleanUp
  <2>1. pc' # "crashed"
    BY <1>5 DEF CleanUp
  <2> QED
    BY <1>5, <2>1, CleanUpIsCleanUp, NothingNoted DEF AbstractStep, Abstract!JobStep
<1>6. CASE AdminCrash
  <2>1. pc' = "crashed"
    BY <1>6 DEF AdminCrash
  <2> QED
    BY <1>6, <2>1, CrashIsCrash DEF AbstractStep
<1> QED
  BY <1>1, <1>2, <1>3, <1>4, <1>5, <1>6 DEF Next, RunPgDump, Finished

\* RunPgDump, with its pipes, processes, deadline and every failure of theirs, takes
\* the steps of a job of LogicalBackup: what becomes of the object, and which errors lead
\* to the clean-up and which to success, is the same.
THEOREM RunPgDumpIsJob == Spec => ImplementsJob
<1>1. Init => Abstract!Init
  BY JobInit
<1>2. IInv /\ [Next]_vars =>
        [IF pc' = "crashed" THEN Abstract!AdminCrash
         ELSE Abstract!Tick \/ Abstract!JobStep(Job)]_(Abstract!vars)
  BY AbstractStepTaken DEF AbstractStep
<1> QED
  BY <1>1, <1>2, Invariant, PTL DEF Spec, ImplementsJob
=============================================================================
