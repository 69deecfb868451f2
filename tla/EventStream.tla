---------------------------- MODULE EventStream ----------------------------
(***************************************************************************)
(* What a session of turbo86 promises to whoever reads its events: the     *)
(* stream opens once, carries events that are not terminal while the guest *)
(* runs, then one terminal event (Exit, Fault or Paused), and closes.  A   *)
(* session that is never started closes without an event.                  *)
(***************************************************************************)

CONSTANT Terminal   \* the kinds of terminal events

VARIABLES
  stream,  \* "idle", "open", "ended" or "closed"
  event    \* the last event, a record with a field kind

vars == <<stream, event>>

Init == stream = "idle" /\ event.kind = "nothing"

Open == stream = "idle" /\ stream' = "open" /\ UNCHANGED event

Stream ==
  /\ stream = "open"
  /\ event'.kind \notin Terminal \union {"nothing"}
  /\ UNCHANGED stream

End == stream = "open" /\ event'.kind \in Terminal /\ stream' = "ended"

CloseStream == stream \in {"idle", "ended"} /\ stream' = "closed" /\ UNCHANGED event

Next == Open \/ Stream \/ End \/ CloseStream

Spec == Init /\ [][Next]_vars
===============================================================================
