-------------------------- MODULE MCLogicalBackup --------------------------
(***************************************************************************)
(* Small instances of LogicalBackup for TLC.                               *)
(***************************************************************************)
EXTENDS LogicalBackup
=============================================================================
