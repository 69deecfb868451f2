-------------------------- MODULE MCTurbo86Runner --------------------------
(* Instances of Turbo86Runner for TLC. *)
EXTENDS Turbo86Runner

(* Every kind of guest, in either mode. *)
EveryAct == AllActs
BothModes == {"host", "trap"}

(* A guest of the mov-only ABI: it writes by int 0x80 if it likes, and leaves *)
(* through the ABI page, so that no terminal event comes from the bridge.     *)
NoBridgeEnd == AllActs \ {"exit", "refused"}

(* A guest that leaves by SYS_exit. *)
LibcGuest == {"write", "exit"}
===============================================================================
