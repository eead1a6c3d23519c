------------------------- MODULE MCRestorePipeline -------------------------
(***************************************************************************)
(* A small instance of RestorePipeline for TLC: pipes shorter than what    *)
(* goes through them.                                                      *)
(***************************************************************************)
EXTENDS RestorePipeline
============================================================================
