---------------------------- MODULE MCAdminPages ----------------------------
(***************************************************************************)
(* A small instance of AdminPages for TLC.                                 *)
(***************************************************************************)
EXTENDS AdminPages
=============================================================================
