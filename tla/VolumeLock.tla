------------------------------ MODULE VolumeLock ------------------------------
(***************************************************************************)
(* What physical restore promises about the PostgreSQL data volume, with   *)
(* nothing said about how: the volume has at most one holder, the database *)
(* or one restore container; it is taken only when nobody holds it; and    *)
(* only a restore container replaces what is stored on it.                 *)
(***************************************************************************)
CONSTANTS
  Db,          \* the database, as a holder of the volume
  Restorers,   \* the restore containers
  Contents     \* what the volume may hold

VARIABLES
  holders,     \* who has the volume open for writing
  content      \* what is stored on the volume

lockVars == <<holders, content>>

Init ==
  /\ holders = {Db}
  /\ content \in Contents

Acquire(h) ==
  /\ holders = {}
  /\ holders' = {h}
  /\ UNCHANGED content

Release(h) ==
  /\ holders = {h}
  /\ holders' = {}
  /\ UNCHANGED content

\* A restore container writes; it may end with its last write.
Replace(h) ==
  /\ holders = {h}
  /\ holders' \in {{h}, {}}
  /\ content' \in Contents

Next ==
  \/ \E h \in {Db} \cup Restorers : Acquire(h) \/ Release(h)
  \/ \E h \in Restorers : Replace(h)

Spec == Init /\ [][Next]_lockVars
===============================================================================
