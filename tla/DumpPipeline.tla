---------------------------- MODULE DumpPipeline ----------------------------
(***************************************************************************)
(* One call of RunPgDump (backup/dump.go) seen from inside: the pg_dump    *)
(* process, its two pipes, the uploader that reads one of them, the        *)
(* goroutine that reads the other, the context with its deadline, and the  *)
(* order in which RunPgDump waits for them.                                *)
(*                                                                         *)
(* LogicalBackup takes the upload, the wait and the clean-up for one step  *)
(* each; this module is shown to implement it, and to come to its end.     *)
(***************************************************************************)
EXTENDS Naturals

CONSTANTS
  Archive,   \* parts of the archive that pg_dump writes to stdout
  OutCap,    \* parts that the stdout pipe holds
  Lines,     \* at most so many pieces of stderr
  ErrCap,    \* pieces that the stderr pipe holds
  KeepLimit  \* pieces of stderr that are kept: the LimitReader

ASSUME ConstantsAssumption ==
  /\ {Archive, OutCap, ErrCap} \subseteq Nat \ {0}
  /\ {Lines, KeepLimit} \subseteq Nat

VARIABLES
  pc,         \* where RunPgDump stands
  ctx,        \* "live", or "done": 30 minutes are over or the client is gone
  cancelled,  \* cancelCmd has been called
  dump,       \* the pg_dump process
  left,       \* parts of the archive it has still to write
  out,        \* parts in the stdout pipe
  lines,      \* pieces it has still to write to stderr
  err,        \* pieces in the stderr pipe
  got,        \* parts the uploader has read
  uploadErr,  \* the uploader returned an error
  reader,     \* the stderr goroutine: keeping, discarding, or done
  kept,       \* pieces in stderrBuf
  stored,     \* the object: "never" written, "partial", "whole" or "deleted"
  hung        \* who never takes another step by itself

procVars == <<dump, left, out, lines, err>>
readerVars == <<reader, kept>>
vars == <<pc, ctx, cancelled, procVars, got, uploadErr, readerVars, stored, hung>>

AtWork == {"upload", "wait", "drain", "cleanup"}
Over == {"ok", "error", "crashed"}

Parties == {"s3", "pg_dump"}

TypeOK ==
  /\ pc \in {"idle"} \cup AtWork \cup Over
  /\ ctx \in {"live", "done"} /\ cancelled \in BOOLEAN
  /\ dump \in {"none", "running", "ok", "failed"}
  /\ left \in 0..Archive /\ out \in 0..OutCap /\ got \in 0..Archive
  /\ lines \in 0..Lines /\ err \in 0..ErrCap
  /\ uploadErr \in BOOLEAN
  /\ reader \in {"none", "keep", "discard", "done"} /\ kept \in 0..KeepLimit
  /\ stored \in {"never", "partial", "whole", "deleted"}
  /\ hung \subseteq Parties

Init ==
  /\ pc = "idle" /\ ctx = "live" /\ cancelled = FALSE
  /\ dump = "none" /\ left = Archive /\ out = 0 /\ err = 0
  /\ lines \in 0..Lines
  /\ got = 0 /\ uploadErr = FALSE
  /\ reader = "none" /\ kept = 0
  /\ stored = "never"
  /\ hung = {}

Running == dump = "running"

-----------------------------------------------------------------------------
(* pg_dump *)

\* cmd.Start, the stderr goroutine, and on to the upload.
Start ==
  /\ pc = "idle"
  /\ pc' = "upload" /\ dump' = "running" /\ reader' = "keep"
  /\ UNCHANGED <<ctx, cancelled, left, out, lines, err, got, uploadErr, kept,
                 stored, hung>>

DumpWrites ==
  /\ left > 0 /\ out < OutCap
  /\ left' = left - 1 /\ out' = out + 1
  /\ UNCHANGED <<dump, lines, err>>

DumpWarns ==
  /\ lines > 0 /\ err < ErrCap
  /\ lines' = lines - 1 /\ err' = err + 1
  /\ UNCHANGED <<dump, left, out>>

DumpExits ==
  /\ left = 0 /\ lines = 0
  /\ dump' = "ok"
  /\ UNCHANGED <<left, out, lines, err>>

\* It writes both pipes, blocks on a full one, and exits when all is written.
DumpGoesOn ==
  /\ Running /\ "pg_dump" \notin hung
  /\ DumpWrites \/ DumpWarns \/ DumpExits
  /\ UNCHANGED <<pc, ctx, cancelled, got, uploadErr, readerVars, stored, hung>>

DumpDies ==
  /\ dump' = "failed"
  /\ UNCHANGED <<pc, ctx, cancelled, left, out, lines, err, got, uploadErr,
                 readerVars, stored, hung>>

\* It fails by itself, wherever it stands.
DumpFails == Running /\ "pg_dump" \notin hung /\ DumpDies

\* CommandContext on cmdCtx: SIGTERM by cmd.Cancel, SIGKILL after WaitDelay.
DumpKilled == Running /\ (cancelled \/ ctx = "done") /\ DumpDies

-----------------------------------------------------------------------------
(* The uploader *)

\* The body's Read returns: with data, or with the end of the stream.
ReadReturns == out > 0 \/ ~Running

UploadReads ==
  /\ pc = "upload" /\ "s3" \notin hung
  /\ out > 0
  /\ out' = out - 1 /\ got' = got + 1
  /\ UNCHANGED <<pc, ctx, cancelled, dump, left, lines, err, uploadErr,
                 readerVars, stored, hung>>

\* Faulty: pg_dump is left to itself.
GivesUpUpload == uploadErr' = TRUE /\ UNCHANGED cancelled
\* A failed upload kills pg_dump: nobody reads its stdout any more.
FailsUpload == uploadErr' = TRUE /\ cancelled' = TRUE

\* An error of S3, or of the context, is noticed when the current Read returns.
UploadFails ==
  /\ pc = "upload" /\ ReadReturns
  /\ "s3" \notin hung \/ ctx = "done"
  /\ pc' = "wait"
  /\ FailsUpload
  /\ UNCHANGED <<ctx, procVars, got, readerVars, stored, hung>>

\* At the end of the stream the object is completed; the answer may be lost.
UploadCompletes ==
  /\ pc = "upload" /\ "s3" \notin hung
  /\ out = 0 /\ ~Running
  /\ stored' = IF got = Archive THEN "whole" ELSE "partial"
  /\ pc' = "wait"
  /\ FailsUpload \/ UNCHANGED <<uploadErr, cancelled>>
  /\ UNCHANGED <<ctx, procVars, got, readerVars, hung>>

-----------------------------------------------------------------------------
(* The stderr goroutine *)

\* Faulty: it keeps everything.
KeepsAll == TRUE
KeepsMore == kept < KeepLimit

\* io.Copy from the LimitReader, until it is used up.
StderrKept ==
  /\ reader = "keep" /\ err > 0 /\ KeepsMore
  /\ err' = err - 1 /\ kept' = kept + 1
  /\ UNCHANGED reader

LimitReached ==
  /\ reader = "keep" /\ ~KeepsMore
  /\ reader' = "discard"
  /\ UNCHANGED <<err, kept>>

\* Faulty: it stops at the limit.
StopsAtLimit == FALSE
\* io.Copy to io.Discard, so that pg_dump never blocks on stderr.
StderrDiscarded ==
  /\ reader = "discard" /\ err > 0
  /\ err' = err - 1
  /\ UNCHANGED <<reader, kept>>

\* The end of the stream; or cmd.Wait closes the pipe, with what is in it.
StderrEnds ==
  /\ reader \in {"keep", "discard"}
  /\ (err = 0 /\ ~Running) \/ pc = "drain"
  /\ reader' = "done"
  /\ UNCHANGED <<err, kept>>

Reader ==
  /\ StderrKept \/ LimitReached \/ StderrDiscarded \/ StderrEnds
  /\ UNCHANGED <<pc, ctx, cancelled, dump, left, out, lines, got, uploadErr,
                 stored, hung>>

-----------------------------------------------------------------------------
(* The rest of RunPgDump *)

WaitReturns ==
  /\ pc = "wait" /\ ~Running
  /\ pc' = "drain"
  /\ UNCHANGED <<ctx, cancelled, procVars, got, uploadErr, readerVars, stored, hung>>

\* Faulty: only the upload's error counts.
SucceededIfUploaded == ~uploadErr
Succeeded == ~uploadErr /\ dump = "ok"

\* Faulty: it is not waited for.
StderrIgnored == TRUE
StderrDone == reader = "done"

\* <-stderrDone, then the verdict.
Drained ==
  /\ pc = "drain" /\ StderrDone
  /\ pc' = IF Succeeded THEN "ok" ELSE "cleanup"
  /\ UNCHANGED <<ctx, cancelled, procVars, got, uploadErr, readerVars, stored, hung>>

\* The delete, under a context of its own that gives up after 30 seconds.
CleanUp ==
  /\ pc = "cleanup"
  /\ pc' = "error"
  /\ \/ stored' = IF stored = "never" THEN "never" ELSE "deleted"
     \/ UNCHANGED stored
  /\ UNCHANGED <<ctx, cancelled, procVars, got, uploadErr, readerVars, hung>>

\* The caller's context ends, at any time.
Deadline ==
  /\ pc \in AtWork /\ ctx = "live"
  /\ ctx' = "done"
  /\ UNCHANGED <<pc, cancelled, procVars, got, uploadErr, readerVars, stored, hung>>

\* S3 stalls, or pg_dump does (a lock that somebody holds), for good.
Hangs ==
  /\ pc \in AtWork
  /\ \E p \in Parties : hung' = hung \cup {p}
  /\ UNCHANGED <<pc, ctx, cancelled, procVars, got, uploadErr, readerVars, stored>>

\* The admin container dies with everything in it.
AdminCrash ==
  /\ pc \in AtWork
  /\ pc' = "crashed"
  /\ dump' = IF Running THEN "failed" ELSE dump
  /\ reader' = "done"
  /\ UNCHANGED <<ctx, cancelled, left, out, lines, err, got, uploadErr, kept,
                 stored, hung>>

Finished == pc \in Over /\ UNCHANGED vars

-----------------------------------------------------------------------------
RunPgDump ==
  Start \/ UploadReads \/ UploadFails \/ UploadCompletes \/ WaitReturns \/ Drained \/ CleanUp
Process == DumpGoesOn \/ DumpFails \/ DumpKilled

Next == RunPgDump \/ Process \/ Reader \/ Deadline \/ Hangs \/ AdminCrash \/ Finished

Spec == Init /\ [][Next]_vars

\* Goroutines are scheduled, a pg_dump that does not hang goes on, and a signal
\* is delivered.  The deadline is relied upon only during the upload and only
\* if somebody hangs.
Fairness ==
  /\ WF_vars(RunPgDump)
  /\ WF_vars(DumpGoesOn) /\ WF_vars(DumpKilled)
  /\ WF_vars(Reader)
  /\ WF_vars(pc = "upload" /\ hung # {} /\ Deadline)

FairSpec == Spec /\ Fairness

-----------------------------------------------------------------------------
(* Properties *)

\* RunPgDump returns, whoever fails or hangs; without the deadline unless S3 or
\* pg_dump hangs before the upload is over: neither of the two pipes, full,
\* blocks pg_dump, the uploader, the stderr goroutine and the wait in a circle.
RunEnds == pc = "upload" ~> pc \in Over

\* When RunPgDump has returned, the pg_dump process and the goroutine it had
\* started are gone too.
NothingLeftBehind == pc \in Over => ~Running /\ reader = "done"

\* The job of LogicalBackup that this call of RunPgDump is.
Job == "job"
TheObject == [name |-> 1, at |-> 1, whole |-> stored = "whole", by |-> Job]
JobErrors ==
  {e \in {"upload", "wait"} :
     /\ pc \in {"wait", "drain", "cleanup"}
     /\ IF e = "upload" THEN uploadErr
                        ELSE stored = "partial" \/ (~uploadErr /\ dump = "failed")}
JobPC == CASE pc = "drain" -> "wait"
           [] pc \in Over  -> "idle"
           [] OTHER        -> pc

Abstract == INSTANCE LogicalBackup WITH
  Runs <- {}, Scheduler <- Job, FirstScheduled <- 1, LastName <- 1,
  ClientNames <- {}, Retain <- 0, PageSize <- 1, MaxUploads <- 1,
  store <- IF stored \in {"partial", "whole"} THEN {TheObject} ELSE {},
  clock <- IF stored = "never" THEN 0 ELSE 1,
  pc <- [j \in {Job} |-> JobPC],
  name <- [j \in {Job} |-> IF pc \in AtWork THEN 1 ELSE 0],
  since <- [j \in {Job} |-> 0],
  errs <- [j \in {Job} |-> JobErrors],
  lastTick <- IF pc = "idle" THEN 0 ELSE 1,
  listed <- {}, token <- 0, kept <- {}, victims <- {}, missed <- FALSE,
  touched <- [j \in {Job} |-> {}]

\* RunPgDump takes the steps of a job of LogicalBackup, which uploads, waits and
\* cleans up in single steps: what is uploaded, whole or not, and which errors
\* lead to the clean-up and which to success is the same.
ImplementsJob ==
  /\ Abstract!Init
  /\ [][IF pc' = "crashed" THEN Abstract!AdminCrash
        ELSE Abstract!Tick \/ Abstract!JobStep(Job)]_(Abstract!vars)
=============================================================================
