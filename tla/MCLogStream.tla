---------------------------- MODULE MCLogStream ----------------------------
(***************************************************************************)
(* A small instance of LogStream for TLC.                                  *)
(***************************************************************************)
EXTENDS LogStream

CONSTANTS LogsOfGotrue, LogsOfDb  \* bounds
MCMaxLog == [s \in Services |-> IF s = "gotrue" THEN LogsOfGotrue ELSE LogsOfDb]
============================================================================
