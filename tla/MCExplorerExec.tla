-------------------------- MODULE MCExplorerExec --------------------------
(* Instances of ExplorerExec for TLC. *)
EXTENDS ExplorerExec
===============================================================================
