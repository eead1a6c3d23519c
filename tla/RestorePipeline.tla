-------------------------- MODULE RestorePipeline --------------------------
(***************************************************************************)
(* The logical restore, HandleBackupRestore in handler/backup.go: one      *)
(* object streamed from S3 into the stdin of pg_restore.  Concurrent       *)
(* requests, the flag that lets one of them through, and inside it the     *)
(* pg_restore process, the goroutine that copies, the goroutine that reads *)
(* stderr, and the context with its deadline.                              *)
(*                                                                         *)
(* The variables of a run exist once: they are those of the request that   *)
(* is past the flag, and OneAtATime says that there is only one.           *)
(***************************************************************************)
EXTENDS Naturals

CONSTANTS
  Requests,  \* concurrent requests
  Archive,   \* parts of the object
  InCap,     \* parts that the stdin pipe holds
  Lines,     \* at most so many pieces of stderr
  ErrCap     \* pieces that the stderr pipe holds

ASSUME ConstantsAssumption ==
  /\ {Archive, InCap, ErrCap} \subseteq Nat \ {0}
  /\ Lines \in Nat

VARIABLES
  restoreRunning,  \* the flag
  pc,              \* where each request stands
  ctx,             \* "live", or "done": 30 minutes are over or the client is gone
  src,             \* parts of the object that S3 has still to deliver
  body,            \* the response body: "none", "open" or "closed"
  copier,          \* the copy goroutine: in body.Read, in stdin.Write, or done
  in,              \* parts in the stdin pipe
  restore,         \* the pg_restore process
  applied,         \* parts it has restored
  lines,           \* pieces it has still to write to stderr
  err,             \* pieces in the stderr pipe
  reader,          \* the stderr goroutine: "none", "read" or "done"
  db,              \* contents of the database: "old", "mixed" or "restored"
  hung             \* who never takes another step by itself

copyVars == <<src, body, copier>>
procVars == <<in, restore, applied, lines, err, db>>
vars == <<restoreRunning, pc, ctx, copyVars, procVars, reader, hung>>

PastFlag == {"decode", "get", "start", "wait", "join", "answer_ok", "answer_error"}
Active == {r \in Requests : pc[r] \in PastFlag}
Parties == {"s3", "pg_restore"}

TypeOK ==
  /\ restoreRunning \in BOOLEAN
  /\ pc \in [Requests -> {"idle"} \cup PastFlag]
  /\ ctx \in {"live", "done"}
  /\ src \in 0..Archive /\ body \in {"none", "open", "closed"}
  /\ copier \in {"none", "read", "write", "done"}
  /\ in \in 0..InCap /\ applied \in 0..Archive
  /\ restore \in {"none", "running", "ok", "failed"}
  /\ lines \in 0..Lines /\ err \in 0..ErrCap
  /\ reader \in {"none", "read", "done"}
  /\ db \in {"old", "mixed", "restored"}
  /\ hung \subseteq Parties

\* A request that has not come to its pipes yet has none.
NoRun ==
  /\ ctx = "live"
  /\ src = 0 /\ body = "none" /\ copier = "none" /\ in = 0
  /\ restore = "none" /\ applied = 0 /\ lines = 0 /\ err = 0 /\ reader = "none"
  /\ hung = {}

Init ==
  /\ restoreRunning = FALSE
  /\ pc = [r \in Requests |-> "idle"]
  /\ NoRun
  /\ db = "old"

Running == restore = "running"
Goto(r, p) == pc' = [pc EXCEPT ![r] = p]

----------------------------------------------------------------------------
(* The handler *)

\* Faulty: no flag.
AnyRequest == TRUE
FlagFree == ~restoreRunning

\* CompareAndSwap(false, true); otherwise 409 and nothing changes.
Requested(r) ==
  /\ pc[r] = "idle" /\ FlagFree
  /\ restoreRunning' = TRUE
  /\ Goto(r, "decode")
  /\ UNCHANGED <<ctx, copyVars, procVars, reader, hung>>

\* The body, the name, the configuration: each of them may be refused.
Decoded(r) ==
  /\ pc[r] = "decode"
  /\ Goto(r, "get") \/ Goto(r, "answer_error")
  /\ UNCHANGED <<restoreRunning, ctx, copyVars, procVars, reader, hung>>

\* client.Get: the headers of the answer; it fails when the context ends.
GotObject(r) ==
  /\ pc[r] = "get"
  /\ \/ /\ "s3" \notin hung /\ Goto(r, "start")
        /\ body' = "open" /\ src' = Archive
     \/ /\ "s3" \notin hung \/ ctx = "done"
        /\ Goto(r, "answer_error") /\ UNCHANGED <<body, src>>
  /\ UNCHANGED <<restoreRunning, ctx, copier, procVars, reader, hung>>

\* The pipes, cmd.Start and the two goroutines.
Started(r) ==
  /\ pc[r] = "start"
  /\ \/ Goto(r, "answer_error") /\ body' = "closed"
        /\ UNCHANGED <<src, copier, procVars, reader>>
     \/ /\ Goto(r, "wait")
        /\ restore' = "running" /\ lines' \in 0..Lines
        /\ copier' = "read" /\ reader' = "read"
        /\ UNCHANGED <<src, body, in, applied, err, db>>
  /\ UNCHANGED <<restoreRunning, ctx, hung>>

\* Faulty: the body is closed by the defer only, after the goroutines.
BodyLeftOpen == UNCHANGED body
ClosesBody == body' = "closed"

\* cmd.Wait returns, and the body is closed.
WaitReturns(r) ==
  /\ pc[r] = "wait" /\ ~Running
  /\ Goto(r, "join")
  /\ ClosesBody
  /\ UNCHANGED <<restoreRunning, ctx, src, copier, procVars, reader, hung>>

\* Faulty: the goroutines are left to themselves.
NotJoined == TRUE
Joined == copier = "done" /\ reader = "done"

\* Faulty: waitErr is not looked at.
AnyExit == TRUE
ExitedOk == restore = "ok"

\* <-copyDone, <-stderrDone, then the answer.
GoroutinesDone(r) ==
  /\ pc[r] = "join" /\ Joined
  /\ Goto(r, IF ExitedOk THEN "answer_ok" ELSE "answer_error")
  /\ UNCHANGED <<restoreRunning, ctx, copyVars, procVars, reader, hung>>

\* The handler returns: body.Close and the flag, which are deferred.
Answered(r) ==
  /\ pc[r] \in {"answer_ok", "answer_error"}
  /\ restoreRunning' = FALSE
  /\ Goto(r, "idle")
  /\ ctx' = "live"
  /\ src' = 0 /\ body' = "none" /\ copier' = "none" /\ in' = 0
  /\ restore' = "none" /\ applied' = 0 /\ lines' = 0 /\ err' = 0 /\ reader' = "none"
  /\ hung' = {}
  /\ UNCHANGED db

\* The context ends.
Deadline(r) ==
  /\ pc[r] \in PastFlag /\ ctx = "live"
  /\ ctx' = "done"
  /\ UNCHANGED <<restoreRunning, pc, copyVars, procVars, reader, hung>>

----------------------------------------------------------------------------
(* The copy goroutine *)

\* Faulty: the end of the object is not noticed.
NeverAtEnd == TRUE
NotAtEnd == src > 0

CopyReads ==
  /\ copier = "read" /\ body = "open" /\ "s3" \notin hung
  /\ NotAtEnd
  /\ src' = src - 1 /\ copier' = "write"
  /\ UNCHANGED <<body, in>>

\* io.Copy ends: at the end of the object, by an error of S3, which is dropped,
\* or because the body is closed or the context done.  stdin is closed.
CopyEnds ==
  /\ copier = "read"
  /\ "s3" \notin hung \/ body = "closed" \/ ctx = "done"
  /\ copier' = "done"
  /\ UNCHANGED <<src, body, in>>

\* It blocks on a full pipe, and fails when pg_restore is gone.
CopyWrites ==
  /\ copier = "write"
  /\ \/ Running /\ in < InCap /\ in' = in + 1 /\ copier' = "read"
     \/ ~Running /\ copier' = "done" /\ UNCHANGED in
  /\ UNCHANGED <<src, body>>

Copier ==
  /\ CopyReads \/ CopyEnds \/ CopyWrites
  /\ UNCHANGED <<restoreRunning, pc, ctx, restore, applied, lines, err, db, reader, hung>>

----------------------------------------------------------------------------
(* pg_restore and the stderr goroutine *)

Applies ==
  /\ in > 0
  /\ in' = in - 1 /\ applied' = applied + 1
  /\ db' = IF applied' = Archive THEN "restored" ELSE "mixed"
  /\ UNCHANGED <<restore, lines, err>>

Warns ==
  /\ lines > 0 /\ err < ErrCap
  /\ lines' = lines - 1 /\ err' = err + 1
  /\ UNCHANGED <<in, restore, applied, db>>

\* At the end of its input it knows whether its archive was complete.
Exits ==
  /\ in = 0 /\ copier = "done" /\ lines = 0
  /\ restore' = IF applied = Archive THEN "ok" ELSE "failed"
  /\ UNCHANGED <<in, applied, lines, err, db>>

RestoreGoesOn ==
  /\ Running /\ "pg_restore" \notin hung
  /\ Applies \/ Warns \/ Exits
  /\ UNCHANGED <<restoreRunning, pc, ctx, copyVars, reader, hung>>

RestoreDies ==
  /\ restore' = "failed"
  /\ UNCHANGED <<restoreRunning, pc, ctx, copyVars, in, applied, lines, err, db,
                 reader, hung>>

\* It fails by itself, or the database goes away.
RestoreFails == Running /\ "pg_restore" \notin hung /\ RestoreDies

\* CommandContext: SIGTERM, and SIGKILL after WaitDelay.
RestoreKilled == Running /\ ctx = "done" /\ RestoreDies

\* Faulty: stderr is read up to the limit, and no further.
ReadsToLimit == FALSE
\* Both copies of the stderr goroutine, what is kept and what is discarded.
ReadsOn == reader = "read"

StderrRead ==
  /\ ReadsOn /\ err > 0
  /\ err' = err - 1
  /\ UNCHANGED reader

StderrEnds ==
  /\ reader = "read" /\ ~Running
  /\ reader' = "done"
  /\ UNCHANGED err

Reader ==
  /\ StderrRead \/ StderrEnds
  /\ UNCHANGED <<restoreRunning, pc, ctx, copyVars, in, restore, applied, lines, db, hung>>

\* S3 stalls, or pg_restore does (a lock that somebody holds), for good.
Hangs ==
  /\ Active # {}
  /\ \E p \in Parties : hung' = hung \cup {p}
  /\ UNCHANGED <<restoreRunning, pc, ctx, copyVars, procVars, reader>>

\* The admin container dies, pg_restore with it.
AdminCrash ==
  /\ Active # {}
  /\ restoreRunning' = FALSE
  /\ pc' = [r \in Requests |-> "idle"]
  /\ ctx' = "live"
  /\ src' = 0 /\ body' = "none" /\ copier' = "none" /\ in' = 0
  /\ restore' = "none" /\ applied' = 0 /\ lines' = 0 /\ err' = 0 /\ reader' = "none"
  /\ hung' = {}
  /\ UNCHANGED db

----------------------------------------------------------------------------
Handler(r) ==
  Decoded(r) \/ GotObject(r) \/ Started(r) \/ WaitReturns(r) \/ GoroutinesDone(r) \/ Answered(r)

Next ==
  \/ \E r \in Requests : Requested(r) \/ Handler(r) \/ Deadline(r)
  \/ Copier \/ Reader
  \/ RestoreGoesOn \/ RestoreFails \/ RestoreKilled
  \/ Hangs \/ AdminCrash

Spec == Init /\ [][Next]_vars

\* Goroutines are scheduled, a pg_restore that does not hang goes on, and a
\* signal is delivered.  The deadline is relied upon only if somebody hangs, and
\* only before S3 has answered or while pg_restore runs.
Fairness ==
  /\ \A r \in Requests : WF_vars(Handler(r))
  /\ WF_vars(Copier) /\ WF_vars(Reader)
  /\ WF_vars(RestoreGoesOn) /\ WF_vars(RestoreKilled)
  /\ \A r \in Requests :
       WF_vars((pc[r] = "get" \/ Running) /\ hung # {} /\ Deadline(r))

FairSpec == Spec /\ Fairness

----------------------------------------------------------------------------
(* Properties *)

\* "A second request while one is in flight gets 409 Conflict instead of racing
\* two pg_restore processes" (backup.go): one request is past the flag at most,
\* and when none is, no process and no goroutine of an earlier one is at work.
OneAtATime ==
  /\ \A q, r \in Active : q = r
  /\ restoreRunning <=> Active # {}
  /\ Running \/ copier \in {"read", "write"} \/ reader = "read"
       => \E r \in Requests : pc[r] \in {"wait", "join"}

\* A restore that is answered "ok" has restored the whole object, although the
\* errors of the copy are dropped: only the exit of pg_restore tells.
OkMeansRestored == \A r \in Requests : pc[r] = "answer_ok" => db = "restored"

\* Every request is answered, whoever fails or hangs, and without the deadline
\* once pg_restore has exited: body.Close frees a copy that is stuck in S3, and
\* stderr never fills.
RestoreEnds == \A r \in Requests : pc[r] \in PastFlag ~> pc[r] = "idle"
============================================================================
