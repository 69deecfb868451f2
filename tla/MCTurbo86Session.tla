------------------------- MODULE MCTurbo86Session -------------------------
(* Instances of Turbo86Session for TLC. *)
EXTENDS Turbo86Session

(* A guest that prints, signals and leaves in each of the ways a guest can. *)
TalkingGuest == {"exit", "write", "abiMmap", "abiExit", "signal"}

(* A guest that prints, and one more way to leave it: being stopped. *)
PrintingGuest == {"write", "abiExit"}

OneMode == {"host"}
EveryMessage == MessageKinds
===============================================================================
