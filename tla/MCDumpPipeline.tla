-------------------------- MODULE MCDumpPipeline --------------------------
(***************************************************************************)
(* A small instance of DumpPipeline for TLC: pipes shorter than what goes  *)
(* through them, and more stderr than is kept.                             *)
(***************************************************************************)
EXTENDS DumpPipeline
=============================================================================
