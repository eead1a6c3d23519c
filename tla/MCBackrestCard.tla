-------------------------- MODULE MCBackrestCard --------------------------
(***************************************************************************)
(* A small instance of BackrestCard for TLC.                               *)
(***************************************************************************)
EXTENDS BackrestCard
============================================================================
