------------------------ MODULE RestorePipelineProofs ------------------------
(***************************************************************************)
(* Theorems about RestorePipeline, for any number of requests and any      *)
(* sizes of the object and of the pipes.                                   *)
(***************************************************************************)
EXTENDS RestorePipeline, TLAPS

\* A request that has its pipes.
WithPipes == {"wait", "join", "answer_ok", "answer_error"}

\* Nothing is left of earlier runs where a run gets its pipes.
FreshInv ==
  (\A r \in Requests : pc[r] \notin WithPipes)
    => copier = "none" /\ in = 0 /\ restore = "none" /\ applied = 0 /\ reader = "none"

\* Every part of the object is in one place; pg_restore exits 0 at its end only.
InHand == IF copier = "write" THEN 1 ELSE 0
PartsInv ==
  /\ src + InHand + in + applied <= Archive
  /\ restore = "ok" => applied = Archive
  /\ applied = Archive => db = "restored"

\* The process is gone when its request goes on to join the goroutines.
JoinInv == \A r \in Requests : pc[r] = "join" => ~Running

IInv == TypeOK /\ OneAtATime /\ OkMeansRestored /\ FreshInv /\ PartsInv /\ JoinInv

\* What the constants are.
LEMMA Sizes == Archive \in Nat /\ Archive > 0 /\ InCap \in Nat /\ ErrCap \in Nat /\ Lines \in Nat
BY ConstantsAssumption DEF ConstantsAssumption

LEMMA InitInv == Init => IInv
<1> SUFFICES ASSUME Init PROVE IInv
  OBVIOUS
<1> USE Sizes DEF Init, NoRun
<1>1. TypeOK
  <2>1. pc \in [Requests -> {"idle"} \cup PastFlag]
    OBVIOUS
  <2>2. 0 \in 0..Archive /\ 0 \in 0..InCap /\ 0 \in 0..Lines /\ 0 \in 0..ErrCap
    OBVIOUS
  <2>3. hung \subseteq Parties
    OBVIOUS
  <2> QED
    BY <2>1, <2>2, <2>3 DEF TypeOK
<1>2. OneAtATime /\ OkMeansRestored /\ JoinInv
  BY DEF OneAtATime, OkMeansRestored, JoinInv, Active, PastFlag, Running
<1>3. FreshInv /\ PartsInv
  BY DEF FreshInv, PartsInv, InHand
<1> QED
  BY <1>1, <1>2, <1>3 DEF IInv

\* After a step that leaves no request past the flag and nothing of its run.
LEMMA NothingRunsNext ==
  ASSUME restoreRunning' = FALSE,
         \A r \in Requests : pc'[r] \notin PastFlag,
         pc' \in [Requests -> {"idle"} \cup PastFlag],
         NoRun',
         db' \in {"old", "mixed", "restored"}
  PROVE  IInv'
<1> USE Sizes DEF NoRun
<1>1. TypeOK'
  <2>1. 0 \in 0..Archive /\ 0 \in 0..InCap /\ 0 \in 0..Lines /\ 0 \in 0..ErrCap
    OBVIOUS
  <2>2. (hung \subseteq Parties)'
    OBVIOUS
  <2>3. restoreRunning' \in BOOLEAN
    OBVIOUS
  <2> QED
    BY <2>1, <2>2, <2>3 DEF TypeOK
<1>2. (OneAtATime /\ OkMeansRestored /\ JoinInv)'
  BY DEF OneAtATime, OkMeansRestored, JoinInv, Active, PastFlag, Running
<1>3. (FreshInv /\ PartsInv)'
  BY DEF FreshInv, PartsInv, InHand
<1> QED
  BY <1>1, <1>2, <1>3 DEF IInv

\* The steps of the handler, the only ones that move a request.
LEMMA HandlerStep ==
  ASSUME IInv, NEW r \in Requests, Requested(r) \/ Handler(r)
  PROVE  IInv'
<1> USE Sizes
    DEF IInv, TypeOK, OneAtATime, OkMeansRestored, FreshInv, PartsInv, InHand, JoinInv,
        Active, PastFlag, Parties, Running, WithPipes, Goto, copyVars, procVars
<1>1. CASE Requested(r)
  BY <1>1 DEF Requested, FlagFree
<1>2. CASE Decoded(r)
  BY <1>2 DEF Decoded
<1>3. CASE GotObject(r)
  BY <1>3 DEF GotObject
<1>4. CASE Started(r)
  BY <1>4 DEF Started
<1>5. CASE WaitReturns(r)
  BY <1>5 DEF WaitReturns, ClosesBody
<1>6. CASE GoroutinesDone(r)
  BY <1>6 DEF GoroutinesDone, Joined, ExitedOk
<1>7. CASE Answered(r)
  <2>1. pc[r] \in PastFlag
    BY <1>7 DEF Answered
  <2>2. \A q \in Requests : pc'[q] \notin PastFlag
    BY <1>7, <2>1 DEF Answered
  <2>3. /\ restoreRunning' = FALSE /\ NoRun' /\ db' = db
        /\ pc' \in [Requests -> {"idle"} \cup PastFlag]
    BY <1>7 DEF Answered, NoRun
  <2> QED
    BY <2>2, <2>3, NothingRunsNext
<1> QED
  BY <1>1, <1>2, <1>3, <1>4, <1>5, <1>6, <1>7 DEF Handler

\* Process and goroutines work for one request, the only one past the flag, and
\* while pg_restore runs it waits for its exit.
LEMMA AtWork ==
  ASSUME IInv, Running \/ copier \in {"read", "write"} \/ reader = "read"
  PROVE  /\ \E r \in Requests : pc[r] \in {"wait", "join"}
         /\ \A r \in Requests : pc[r] # "answer_ok"
BY DEF IInv, OneAtATime, Active, PastFlag

\* The steps of the goroutines and of pg_restore move no request.
LEMMA PipesStep ==
  ASSUME IInv, Copier \/ Reader \/ RestoreGoesOn \/ RestoreFails \/ RestoreKilled
  PROVE  IInv'
<1>1. UNCHANGED <<restoreRunning, pc, ctx, hung>>
  BY DEF Copier, Reader, RestoreGoesOn, RestoreFails, RestoreKilled, RestoreDies
<1>2. Running \/ copier \in {"read", "write"} \/ reader = "read"
  BY DEF Copier, CopyReads, CopyEnds, CopyWrites, Reader, StderrRead, ReadsOn, StderrEnds,
         RestoreGoesOn, RestoreFails, RestoreKilled
<1>3. PICK q \in Requests : pc[q] \in {"wait", "join"}
  BY <1>2, AtWork
<1>4. Running' => Running
  BY DEF Copier, CopyReads, CopyEnds, CopyWrites, Reader, RestoreGoesOn, Applies, Warns, Exits,
         RestoreFails, RestoreKilled, RestoreDies, Running, copyVars
<1>5. OneAtATime' /\ JoinInv' /\ OkMeansRestored'
  <2>1. OneAtATime'
    BY <1>1, <1>3 DEF IInv, OneAtATime, Active
  <2>2. JoinInv'
    BY <1>1, <1>4 DEF IInv, JoinInv
  <2>3. OkMeansRestored'
    BY <1>1, <1>2, AtWork DEF OkMeansRestored
  <2> QED
    BY <2>1, <2>2, <2>3
<1>6. FreshInv'
  BY <1>1, <1>3 DEF FreshInv, WithPipes
<1>7. TypeOK' /\ PartsInv'
  <2> USE Sizes DEF IInv, TypeOK, PartsInv, InHand, Running, copyVars, procVars
  <2>1. CASE Copier
    <3>1. CASE CopyReads
      BY <2>1, <3>1 DEF Copier, CopyReads, NotAtEnd
    <3>2. CASE CopyEnds
      BY <2>1, <3>2 DEF Copier, CopyEnds
    <3>3. CASE CopyWrites
      BY <2>1, <3>3 DEF Copier, CopyWrites
    <3> QED
      BY <2>1, <3>1, <3>2, <3>3 DEF Copier
  <2>2. CASE Reader
    BY <2>2 DEF Reader, StderrRead, ReadsOn, StderrEnds
  <2>3. CASE RestoreGoesOn
    <3>1. CASE Applies
      BY <2>3, <3>1 DEF RestoreGoesOn, Applies
    <3>2. CASE Warns
      BY <2>3, <3>2 DEF RestoreGoesOn, Warns
    <3>3. CASE Exits
      BY <2>3, <3>3 DEF RestoreGoesOn, Exits
    <3> QED
      BY <2>3, <3>1, <3>2, <3>3 DEF RestoreGoesOn
  <2>4. CASE RestoreFails \/ RestoreKilled
    BY <2>4 DEF RestoreFails, RestoreKilled, RestoreDies
  <2> QED
    BY <2>1, <2>2, <2>3, <2>4
<1> QED
  BY <1>5, <1>6, <1>7 DEF IInv

\* The end of the context, a party that hangs, the death of the container.
LEMMA EnvironmentStep ==
  ASSUME IInv, (\E r \in Requests : Deadline(r)) \/ Hangs \/ AdminCrash
  PROVE  IInv'
<1>1. CASE (\E r \in Requests : Deadline(r)) \/ Hangs
  BY <1>1 DEF Deadline, Hangs, IInv, TypeOK, OneAtATime, OkMeansRestored, FreshInv, PartsInv,
              InHand, JoinInv, Active, Running, copyVars, procVars
<1>2. CASE AdminCrash
  <2>1. \A r \in Requests : pc'[r] = "idle"
    BY <1>2 DEF AdminCrash
  <2>2. /\ restoreRunning' = FALSE /\ NoRun' /\ db' = db
        /\ pc' \in [Requests -> {"idle"} \cup PastFlag]
    BY <1>2 DEF AdminCrash, NoRun
  <2> QED
    BY <2>1, <2>2, NothingRunsNext DEF IInv, TypeOK, PastFlag
<1> QED
  BY <1>1, <1>2

\* The inductive invariant holds of every run.
LEMMA Invariant == Spec => []IInv
<1>1. IInv /\ [Next]_vars => IInv'
  <2> SUFFICES ASSUME IInv, [Next]_vars PROVE IInv'
    OBVIOUS
  <2>1. CASE UNCHANGED vars
    BY <2>1 DEF vars, copyVars, procVars, IInv, TypeOK, OneAtATime, OkMeansRestored, FreshInv,
                PartsInv, InHand, JoinInv, Active, Running
  <2>2. CASE Next
    BY <2>2, HandlerStep, PipesStep, EnvironmentStep DEF Next
  <2> QED
    BY <2>1, <2>2
<1> QED
  BY <1>1, InitInv, PTL DEF Spec

\* The state of a restore stays within its types.
THEOREM TypeCorrect == Spec => []TypeOK
<1>1. IInv => TypeOK
  BY DEF IInv
<1> QED
  BY <1>1, Invariant, PTL

\* One request at a time is past the flag, and process and goroutines live only
\* as long as the request they belong to.
THEOREM RestoresExclude == Spec => []OneAtATime
<1>1. IInv => OneAtATime
  BY DEF IInv
<1> QED
  BY <1>1, Invariant, PTL

\* A restore that is answered "ok" has restored the whole object.
THEOREM OkIsRestored == Spec => []OkMeansRestored
<1>1. IInv => OkMeansRestored
  BY DEF IInv
<1> QED
  BY <1>1, Invariant, PTL
==============================================================================
