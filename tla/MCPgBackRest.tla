---------------------------- MODULE MCPgBackRest ----------------------------
(***************************************************************************)
(* Small instances of PgBackRest for TLC.  Requests are interchangeable,   *)
(* and so are the container identities and the backup labels.              *)
(***************************************************************************)
EXTENDS PgBackRest, TLC

Symmetry ==
  Permutations(Requests) \cup Permutations(OneShots) \cup Permutations(Sets)
=============================================================================
